----------------------- MODULE GatewaySemaphoreProofs -----------------------
(***************************************************************************)
(* Theorems about GatewaySemaphore, for any runs and any limit.  The       *)
(* inductive invariant is the conjunction of the type invariant, the count *)
(* of the holders and the shape of the queue: a release with waiters keeps *)
(* the counter only because a queue implies that all slots are taken.      *)
(***************************************************************************)
EXTENDS GatewaySemaphore, FiniteSetTheorems, TLAPS

Inv == TypeOK /\ CountsHolders /\ NoIdleSlot

\* The waiters of a state with a queue: its head and the rest.
LEMMA QueueParts ==
  ASSUME TypeOK, NoIdleSlot, waiters # <<>>
  PROVE  /\ Head(waiters) \in Runs /\ at[Head(waiters)] = "queued"
         /\ Head(waiters) = waiters[1]
         /\ Tail(waiters) \in Seq(Runs)
         /\ Len(Tail(waiters)) = Len(waiters) - 1
         /\ DOMAIN waiters = 1..Len(waiters) /\ Len(waiters) \in Nat \ {0}
         /\ DOMAIN Tail(waiters) = 1..(Len(waiters) - 1)
         /\ \A i \in 1..(Len(waiters) - 1) : Tail(waiters)[i] = waiters[i + 1]
PROOF
<1>1. /\ waiters \in Seq(Runs) /\ Len(waiters) \in Nat \ {0}
      /\ DOMAIN waiters = 1..Len(waiters)
      /\ Head(waiters) = waiters[1] /\ 1 \in DOMAIN waiters
  BY DEF TypeOK
<1>2. Head(waiters) \in Queued
  BY <1>1 DEF NoIdleSlot
<1> QED
  BY <1>1, <1>2 DEF Queued

LEMMA HolderCount ==
  IsFiniteSet(Holders) /\ Cardinality(Holders) \in Nat
  BY RunsFinite, FS_Subset, FS_CardinalityType DEF Holders

LEMMA Initial == Init => Inv
PROOF
<1> SUFFICES ASSUME Init PROVE Inv
  OBVIOUS
<1>1. Holders = {} /\ Queued = {}
  BY DEF Init, Holders, Queued
<1> QED
  BY <1>1, MaxPositive, FS_EmptySet
  DEF Init, Inv, TypeOK, CountsHolders, NoIdleSlot

-----------------------------------------------------------------------------
(* What each operation does to the runs inside and to those that wait. *)

LEMMA AcquireFreeEffect ==
  ASSUME Inv, NEW r \in Runs, AcquireFree(r)
  PROVE  /\ Inv'
         /\ Pool!Enter(r)
PROOF
<1> USE DEF Inv, TypeOK, AcquireFree
<1>1. Holders' = Holders \cup {r} /\ Queued' = Queued /\ r \notin Holders
      /\ r \notin Queued
  BY DEF Holders, Queued
<1>2. Cardinality(Holders') = Cardinality(Holders) + 1
  BY <1>1, HolderCount, FS_AddElement
<1>3. TypeOK' /\ CountsHolders'
  BY <1>2, HolderCount, MaxPositive DEF CountsHolders
<1>4. NoIdleSlot'
  BY <1>1, MaxPositive DEF NoIdleSlot
<1>5. Pool!Enter(r)
  BY <1>1 DEF Pool!Enter, CountsHolders, Pool!Cardinality, Cardinality
<1> QED
  BY <1>3, <1>4, <1>5

LEMMA AcquireQueuedEffect ==
  ASSUME Inv, NEW r \in Runs, AcquireQueued(r)
  PROVE  /\ Inv'
         /\ Pool!Wait(r)
PROOF
<1> USE DEF Inv, TypeOK, AcquireQueued
<1>1. Queued' = Queued \cup {r} /\ Holders' = Holders /\ r \notin Holders
      /\ r \notin Queued
  BY DEF Holders, Queued
<1>2. TypeOK' /\ CountsHolders' /\ inFlight = Max
  BY <1>1, MaxPositive DEF CountsHolders
<1>3. /\ DOMAIN waiters = 1..Len(waiters) /\ Len(waiters) \in Nat
      /\ DOMAIN waiters' = 1..(Len(waiters) + 1)
      /\ \A i \in 1..Len(waiters) : waiters'[i] = waiters[i]
      /\ waiters'[Len(waiters) + 1] = r
  OBVIOUS
<1>4. \A q \in Runs :
        q \in Queued' <=> \E i \in DOMAIN waiters' : waiters'[i] = q
  <2> TAKE q \in Runs
  <2>1. CASE q = r
    BY <1>1, <1>3, <2>1
  <2>2. CASE q # r
    <3>1. q \in Queued' <=> q \in Queued
      BY <1>1, <2>2
    <3>2. q \in Queued <=> \E i \in 1..Len(waiters) : waiters[i] = q
      BY <1>3 DEF NoIdleSlot
    <3>3. (\E i \in 1..Len(waiters) : waiters[i] = q)
            <=> \E i \in 1..(Len(waiters) + 1) : waiters'[i] = q
      BY <1>3, <2>2
    <3> QED BY <1>3, <3>1, <3>2, <3>3
  <2> QED BY <2>1, <2>2
<1>5. \A i \in 1..Len(waiters) : waiters[i] # r
  BY <1>1, <1>3 DEF NoIdleSlot
<1>6. \A i, j \in DOMAIN waiters' : waiters'[i] = waiters'[j] => i = j
  BY <1>3, <1>5 DEF NoIdleSlot
<1>7. NoIdleSlot'
  BY <1>2, <1>4, <1>6 DEF NoIdleSlot
<1>8. Pool!Wait(r)
  BY <1>1, <1>2 DEF Pool!Wait, CountsHolders, Pool!Cardinality, Cardinality
<1> QED
  BY <1>2, <1>7, <1>8

LEMMA ReleaseLastEffect ==
  ASSUME Inv, NEW r \in Runs, Release(r), waiters = <<>>
  PROVE  /\ Inv'
         /\ Pool!Exit(r)
PROOF
<1> USE DEF Inv, TypeOK
<1>1. /\ inFlight' = inFlight - 1 /\ at' = [at EXCEPT ![r] = "outside"]
      /\ UNCHANGED waiters /\ at[r] = "inside"
  BY DEF Release
<1>2. Holders' = Holders \ {r} /\ Queued' = Queued /\ r \in Holders
  BY <1>1 DEF Holders, Queued
<1>3. Cardinality(Holders') = Cardinality(Holders) - 1
      /\ Cardinality(Holders') \in Nat
  BY <1>2, HolderCount, FS_RemoveElement, FS_CardinalityType
<1>4. TypeOK' /\ CountsHolders'
  BY <1>1, <1>3, HolderCount, MaxPositive DEF CountsHolders
<1>5. Queued = {}
  BY DEF NoIdleSlot, Queued
<1>6. NoIdleSlot'
  BY <1>1, <1>2 DEF NoIdleSlot
<1> QED
  BY <1>2, <1>4, <1>5, <1>6 DEF Pool!Exit

LEMMA ReleaseNextEffect ==
  ASSUME Inv, NEW r \in Runs, Release(r), waiters # <<>>
  PROVE  /\ Inv'
         /\ Pool!HandOver(r, Head(waiters))
PROOF
<1> DEFINE next == Head(waiters)
<1> USE DEF Inv
<1>1. /\ inFlight' = (inFlight - 1) + 1
      /\ at' = [at EXCEPT ![r] = "outside", ![next] = "inside"]
      /\ waiters' = Tail(waiters) /\ at[r] = "inside"
  BY DEF Release
<1>2. /\ next \in Runs /\ at[next] = "queued" /\ next # r
      /\ inFlight = Max /\ inFlight' = inFlight
  BY <1>1, QueueParts, MaxPositive DEF NoIdleSlot, TypeOK
<1>3. /\ Holders' = (Holders \ {r}) \cup {next} /\ Queued' = Queued \ {next}
      /\ r \in Holders /\ next \notin Holders /\ next \in Queued
  BY <1>1, <1>2 DEF Holders, Queued, TypeOK
<1>4. Cardinality(Holders') = Cardinality(Holders)
  <2>1. /\ IsFiniteSet(Holders \ {r})
        /\ Cardinality(Holders \ {r}) = Cardinality(Holders) - 1
    BY <1>3, HolderCount, FS_RemoveElement
  <2>2. Cardinality((Holders \ {r}) \cup {next})
          = Cardinality(Holders \ {r}) + 1
    BY <1>3, <2>1, FS_AddElement
  <2> QED BY <1>3, <2>1, <2>2, HolderCount
<1>5. TypeOK'
  BY <1>1, <1>2, QueueParts DEF TypeOK
<1>6. CountsHolders'
  BY <1>2, <1>4 DEF CountsHolders
<1>7. \A q \in Runs :
        q \in Queued' <=> \E i \in DOMAIN waiters' : waiters'[i] = q
  <2> TAKE q \in Runs
  <2>1. DOMAIN waiters' = 1..(Len(waiters) - 1) /\ Len(waiters) \in Nat \ {0}
        /\ DOMAIN waiters = 1..Len(waiters) /\ next = waiters[1]
    BY <1>1, QueueParts
  <2>2. \A i \in 1..(Len(waiters) - 1) : waiters'[i] = waiters[i + 1]
    BY <1>1, QueueParts
  <2>3. CASE q = next
    <3>1. \A i \in 1..(Len(waiters) - 1) : waiters[i + 1] # waiters[1]
      BY <2>1 DEF NoIdleSlot
    <3> QED BY <1>3, <2>1, <2>2, <2>3, <3>1
  <2>4. CASE q # next
    <3>1. q \in Queued' <=> q \in Queued
      BY <1>3, <2>4
    <3>2. q \in Queued <=> \E i \in 1..Len(waiters) : waiters[i] = q
      BY <2>1 DEF NoIdleSlot
    <3>3. ASSUME NEW i \in 1..Len(waiters), waiters[i] = q
          PROVE  \E h \in 1..(Len(waiters) - 1) : waiters'[h] = q
      <4>1. i - 1 \in 1..(Len(waiters) - 1) /\ (i - 1) + 1 = i
        BY <2>1, <2>4, <3>3
      <4> QED BY <2>2, <3>3, <4>1
    <3>4. ASSUME NEW h \in 1..(Len(waiters) - 1), waiters'[h] = q
          PROVE  \E i \in 1..Len(waiters) : waiters[i] = q
      BY <2>1, <2>2, <3>4
    <3> QED BY <2>1, <3>1, <3>2, <3>3, <3>4
  <2> QED BY <2>3, <2>4
<1>8. \A i, j \in DOMAIN waiters' : waiters'[i] = waiters'[j] => i = j
  BY <1>1, QueueParts DEF NoIdleSlot
<1>9. NoIdleSlot'
  BY <1>2, <1>7, <1>8 DEF NoIdleSlot
<1> QED
  BY <1>3, <1>5, <1>6, <1>9 DEF Pool!HandOver

-----------------------------------------------------------------------------
(* The theorems. *)

LEMMA StepEffect ==
  ASSUME Inv, [Next]_vars
  PROVE  Inv' /\ [Pool!Next]_Pool!vars
PROOF
<1>1. ASSUME NEW r \in Runs, AcquireFree(r)
      PROVE  Inv' /\ Pool!Next
  BY <1>1, AcquireFreeEffect DEF Pool!Next
<1>2. ASSUME NEW r \in Runs, AcquireQueued(r)
      PROVE  Inv' /\ Pool!Next
  BY <1>2, AcquireQueuedEffect DEF Pool!Next
<1>3. ASSUME NEW r \in Runs, Release(r)
      PROVE  Inv' /\ Pool!Next
  <2>1. CASE waiters = <<>>
    BY <1>3, <2>1, ReleaseLastEffect DEF Pool!Next
  <2>2. CASE waiters # <<>>
    BY <1>3, <2>2, ReleaseNextEffect, QueueParts DEF Pool!Next, Inv
  <2> QED BY <2>1, <2>2
<1>4. CASE UNCHANGED vars
  BY <1>4 DEF vars, Inv, TypeOK, CountsHolders, NoIdleSlot, Holders, Queued,
      Pool!vars
<1> QED
  BY <1>1, <1>2, <1>3, <1>4 DEF Next

\* The counter stays between zero and the limit, and the waiters are runs.
THEOREM SemaphoreTypeCorrect == Spec => []TypeOK
PROOF
<1>1. Inv /\ [Next]_vars => Inv'
  BY StepEffect
<1>2. Inv => TypeOK
  BY DEF Inv
<1> QED
  BY Initial, <1>1, <1>2, PTL DEF Spec

\* The limit of the gateway holds for all its pools together, and the counter
\* is exact.
THEOREM SlotLimit == Spec => []CountsHolders
PROOF
<1>1. Inv /\ [Next]_vars => Inv'
  BY StepEffect
<1>2. Inv => CountsHolders
  BY DEF Inv
<1> QED
  BY Initial, <1>1, <1>2, PTL DEF Spec

\* No wakeup is lost: a slot is never idle while a run is queued for it.
THEOREM NoLostWakeup == Spec => []NoIdleSlot
PROOF
<1>1. Inv /\ [Next]_vars => Inv'
  BY StepEffect
<1>2. Inv => NoIdleSlot
  BY DEF Inv
<1> QED
  BY Initial, <1>1, <1>2, PTL DEF Spec

\* Runs are let in in the order in which they asked.
THEOREM FirstComeFirstServed == Spec => NoOvertaking
PROOF
<1>1. Inv /\ [Next]_vars => Inv'
  BY StepEffect
<1>2. Inv /\ [Next]_vars =>
        [\A i, j \in DOMAIN waiters :
           i < j /\ at'[waiters[j]] = "inside"
             => at'[waiters[i]] = "inside"]_vars
  <2> SUFFICES ASSUME Inv, Next,
                      NEW i \in DOMAIN waiters, NEW j \in DOMAIN waiters,
                      i < j, at'[waiters[j]] = "inside"
               PROVE  FALSE
    OBVIOUS
  <2>1. /\ waiters # <<>> /\ DOMAIN waiters = 1..Len(waiters)
        /\ j # 1 /\ Head(waiters) = waiters[1] /\ waiters[1] # waiters[j]
        /\ waiters[j] \in Runs /\ at[waiters[j]] = "queued"
    BY QueueParts DEF Inv, NoIdleSlot, Queued
  <2> QED
    BY <2>1, QueueParts
    DEF Inv, TypeOK, Next, AcquireFree, AcquireQueued, Release
<1> QED
  BY Initial, <1>1, <1>2, PTL DEF Spec, NoOvertaking

\* The semaphore implements the abstract pool of slots.
THEOREM SemaphoreImplementsPool == Spec => ImplementsPool
PROOF
<1>1. Init => Pool!Init
  BY DEF Init, Pool!Init, Holders, Queued
<1>2. Inv /\ [Next]_vars => Inv' /\ [Pool!Next]_Pool!vars
  BY StepEffect
<1> QED
  BY Initial, <1>1, <1>2, PTL DEF Spec, ImplementsPool, Pool!Spec
=============================================================================
