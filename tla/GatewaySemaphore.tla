-------------------------- MODULE GatewaySemaphore --------------------------
(***************************************************************************)
(* The counting semaphore that all worker pools of one gateway share, and  *)
(* the runs that use it: process() acquires after it has the idempotency   *)
(* lock and releases in the finally around runSaga.  acquire and release   *)
(* contain no await, so each is one action; a run that is let in later     *)
(* resumes in a microtask of the release that let it in.                   *)
(***************************************************************************)
EXTENDS Naturals, Sequences, FiniteSets

CONSTANTS Runs,   \* runs of process() at one gateway, over all its pools
          Max     \* maxConcurrency

ASSUME RunsFinite == IsFiniteSet(Runs)
ASSUME MaxPositive == Max \in Nat \ {0}

VARIABLES inFlight,   \* this.inFlight
          waiters,    \* this.waiters: the runs whose promise is pending
          at          \* where each run is: "outside", "queued", "inside"

vars == <<inFlight, waiters, at>>

TypeOK == /\ inFlight \in 0..Max
          /\ waiters \in Seq(Runs)
          /\ at \in [Runs -> {"outside", "queued", "inside"}]

Init == /\ inFlight = 0
        /\ waiters = <<>>
        /\ at = [r \in Runs |-> "outside"]

\* Faulty variant of AcquireFree: the limit is tested too late by one.
AcquireOneMore(r) ==
  /\ at[r] = "outside" /\ inFlight <= Max
  /\ inFlight' = inFlight + 1
  /\ at' = [at EXCEPT ![r] = "inside"]
  /\ UNCHANGED waiters

\* acquire with a slot free.
AcquireFree(r) ==
  /\ at[r] = "outside" /\ inFlight < Max
  /\ inFlight' = inFlight + 1
  /\ at' = [at EXCEPT ![r] = "inside"]
  /\ UNCHANGED waiters

\* acquire with none: a callback joins the queue.
AcquireQueued(r) ==
  /\ at[r] = "outside" /\ inFlight >= Max
  /\ waiters' = Append(waiters, r)
  /\ at' = [at EXCEPT ![r] = "queued"]
  /\ UNCHANGED inFlight

\* Faulty variants of Release: nobody is woken; the newest is; the callback
\* of the woken run does not count itself in.
ReleaseWithoutWake(r) ==
  /\ at[r] = "inside"
  /\ inFlight' = inFlight - 1
  /\ at' = [at EXCEPT ![r] = "outside"]
  /\ UNCHANGED waiters

ReleaseToNewest(r) ==
  /\ at[r] = "inside"
  /\ \/ waiters = <<>> /\ ReleaseWithoutWake(r)
     \/ /\ waiters # <<>>
        /\ at' = [at EXCEPT ![r] = "outside",
                            ![waiters[Len(waiters)]] = "inside"]
        /\ waiters' = SubSeq(waiters, 1, Len(waiters) - 1)
        /\ UNCHANGED inFlight

ReleaseUncounted(r) ==
  /\ at[r] = "inside"
  /\ inFlight' = inFlight - 1
  /\ \/ /\ waiters = <<>> /\ UNCHANGED waiters
        /\ at' = [at EXCEPT ![r] = "outside"]
     \/ /\ waiters # <<>> /\ waiters' = Tail(waiters)
        /\ at' = [at EXCEPT ![r] = "outside", ![Head(waiters)] = "inside"]

\* release, and the callback of the first waiter, which counts itself in.
Release(r) ==
  /\ at[r] = "inside"
  /\ \/ /\ waiters = <<>>
        /\ inFlight' = inFlight - 1
        /\ at' = [at EXCEPT ![r] = "outside"]
        /\ UNCHANGED waiters
     \/ /\ waiters # <<>>
        /\ inFlight' = (inFlight - 1) + 1
        /\ at' = [at EXCEPT ![r] = "outside", ![Head(waiters)] = "inside"]
        /\ waiters' = Tail(waiters)

Next == \E r \in Runs : AcquireFree(r) \/ AcquireQueued(r) \/ Release(r)

Spec == Init /\ [][Next]_vars

\* The finally block: every run that is let in releases once its saga ends.
FairSpec == Spec /\ \A r \in Runs : WF_vars(Release(r))

-----------------------------------------------------------------------------
Holders == {r \in Runs : at[r] = "inside"}
Queued == {r \in Runs : at[r] = "queued"}

\* The counter is the number of runs inside the gateway, which never exceeds
\* maxConcurrency however releases and acquires of the pools interleave.
CountsHolders == inFlight = Cardinality(Holders) /\ inFlight <= Max

\* No lost wakeup: while a run waits no slot is free, and each run that waits
\* is queued exactly once, so its promise will be resolved.
NoIdleSlot ==
  /\ waiters # <<>> => inFlight = Max
  /\ \A r \in Runs : r \in Queued <=> \E i \in DOMAIN waiters : waiters[i] = r
  /\ \A i, j \in DOMAIN waiters : waiters[i] = waiters[j] => i = j

\* First come, first served: a run is let in before those that asked later.
NoOvertaking ==
  [][\A i, j \in DOMAIN waiters :
       i < j /\ at'[waiters[j]] = "inside" => at'[waiters[i]] = "inside"]_vars

\* A run that waits is eventually let in.
EveryWaiterEnters == \A r \in Runs : at[r] = "queued" ~> at[r] = "inside"

\* The semaphore implements the abstract pool of slots.
Pool == INSTANCE SlotPool WITH inside <- Holders, wanting <- Queued
ImplementsPool == Pool!Spec
=============================================================================
