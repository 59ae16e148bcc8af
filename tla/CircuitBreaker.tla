--------------------------- MODULE CircuitBreaker ---------------------------
(***************************************************************************)
(* The circuit breaker of one gateway and the runs of process() that it    *)
(* lets through.  A run asks once, when it starts; it reports a success or *)
(* a failure when it ends, or ends without a report: refused by the token  *)
(* bucket, returned by reconcile, or thrown by a lookup.                   *)
(***************************************************************************)
EXTENDS Naturals, Sequences, FiniteSets

CONSTANTS
  Runs,              \* runs of process() at one gateway
  FailureThreshold,  \* consecutive failures to trip
  WindowSize,        \* outcomes kept
  RateFailures,      \* failures in a full window to trip:
                     \* the least n with n / WindowSize >= failureRateThreshold
  HalfOpenTrials,    \* halfOpenTrialCount
  OpenDuration,      \* openDurationMs, in ticks
  TrialsReport       \* whether every trial ends with a report

ASSUME BreakerOptions ==
  /\ FailureThreshold \in Nat \ {0} /\ WindowSize \in Nat \ {0}
  /\ RateFailures \in 1..WindowSize /\ HalfOpenTrials \in Nat \ {0}
  /\ OpenDuration \in Nat \ {0} /\ TrialsReport \in BOOLEAN

VARIABLES
  state,              \* "closed", "open" or "half_open"
  failures,           \* consecutiveFailures; equal above FailureThreshold
  outcomes,           \* the last outcomes, TRUE for a success
  age,                \* ticks since openedAt, equal from OpenDuration on
  halfOpenInFlight, halfOpenSuccesses,
  running,            \* runs let through that have not ended
  trials,             \* ghost: those of them let through in this half-open
  admitted            \* ghost: runs let through since the breaker opened

breaker == <<state, failures, outcomes, age, halfOpenInFlight,
             halfOpenSuccesses>>
vars == <<breaker, running, trials, admitted>>

TypeOK ==
  /\ state \in {"closed", "open", "half_open"}
  /\ failures \in 0..FailureThreshold
  /\ outcomes \in Seq(BOOLEAN) /\ Len(outcomes) <= WindowSize
  /\ age \in 0..OpenDuration
  /\ halfOpenInFlight \in 0..HalfOpenTrials
  /\ halfOpenSuccesses \in 0..HalfOpenTrials
  /\ running \subseteq Runs /\ trials \subseteq running
  /\ admitted \in 0..HalfOpenTrials

Init ==
  /\ state = "closed" /\ failures = 0 /\ outcomes = <<>> /\ age = 0
  /\ halfOpenInFlight = 0 /\ halfOpenSuccesses = 0
  /\ running = {} /\ trials = {} /\ admitted = 0

Tick == /\ age < OpenDuration
        /\ age' = age + 1
        /\ UNCHANGED <<state, failures, outcomes, halfOpenInFlight,
                       halfOpenSuccesses, running, trials, admitted>>

-----------------------------------------------------------------------------
(* canAttempt() = true.  Answering false changes nothing. *)

AttemptClosed(r) ==
  /\ state = "closed" /\ r \notin running
  /\ running' = running \cup {r}
  /\ UNCHANGED <<breaker, trials, admitted>>

\* Faulty variant of AttemptAfterOpen: the counters of the last half-open
\* period are not reset.
AttemptKeepingCounts(r) ==
  /\ state = "open" /\ age >= OpenDuration /\ r \notin running
  /\ halfOpenInFlight < HalfOpenTrials
  /\ state' = "half_open"
  /\ halfOpenInFlight' = halfOpenInFlight + 1
  /\ running' = running \cup {r} /\ trials' = {r}
  /\ admitted' = admitted + 1
  /\ UNCHANGED <<failures, outcomes, age, halfOpenSuccesses>>

\* The open period is over: half-open, with this run as the first trial.
AttemptAfterOpen(r) ==
  /\ state = "open" /\ age >= OpenDuration /\ r \notin running
  /\ state' = "half_open"
  /\ halfOpenInFlight' = 1 /\ halfOpenSuccesses' = 0
  /\ running' = running \cup {r} /\ trials' = {r}
  /\ admitted' = admitted + 1
  /\ UNCHANGED <<failures, outcomes, age>>

\* Faulty variant of AttemptHalfOpen: the trials are not counted.
AttemptUncounted(r) ==
  /\ state = "half_open" /\ r \notin running
  /\ halfOpenInFlight < HalfOpenTrials
  /\ running' = running \cup {r} /\ trials' = trials \cup {r}
  /\ admitted' = admitted + 1
  /\ UNCHANGED breaker

AttemptHalfOpen(r) ==
  /\ state = "half_open" /\ r \notin running
  /\ halfOpenInFlight < HalfOpenTrials
  /\ halfOpenInFlight' = halfOpenInFlight + 1
  /\ running' = running \cup {r} /\ trials' = trials \cup {r}
  /\ admitted' = admitted + 1
  /\ UNCHANGED <<state, failures, outcomes, age, halfOpenSuccesses>>

Attempt(r) == AttemptClosed(r) \/ AttemptAfterOpen(r) \/ AttemptHalfOpen(r)

-----------------------------------------------------------------------------
(* recordSuccess and recordFailure. *)

\* Faulty variant of Pushed: the window never drops an outcome.
PushedOnly(success) == Append(outcomes, success)

\* pushOutcome, with the oldest outcome dropped from a full window.
Pushed(success) ==
  IF Len(outcomes) < WindowSize THEN Append(outcomes, success)
                                ELSE Append(Tail(outcomes), success)

Failed(seq) == Cardinality({i \in DOMAIN seq : ~seq[i]})

End(r) == /\ r \in running
          /\ running' = running \ {r} /\ trials' = trials \ {r}

\* Faulty variant of Succeed: the trial successes never close the breaker.
SucceedWithoutClosing(r) ==
  /\ End(r)
  /\ failures' = 0 /\ outcomes' = Pushed(TRUE)
  /\ UNCHANGED <<state, halfOpenSuccesses, halfOpenInFlight, age, admitted>>

\* Whoever reports a success while half-open counts as a trial.
Succeed(r) ==
  /\ End(r)
  /\ failures' = 0 /\ outcomes' = Pushed(TRUE)
  /\ \/ /\ state = "half_open"
        /\ halfOpenSuccesses' = halfOpenSuccesses + 1
        /\ \/ /\ halfOpenSuccesses' >= HalfOpenTrials
              /\ state' = "closed" /\ admitted' = 0
           \/ /\ halfOpenSuccesses' < HalfOpenTrials
              /\ UNCHANGED <<state, admitted>>
     \/ /\ state # "half_open"
        /\ UNCHANGED <<state, halfOpenSuccesses, admitted>>
  /\ UNCHANGED <<halfOpenInFlight, age>>

\* Trip, or trip again, which starts the open period anew.  Attempts let
\* through before do not count as let through since.
Open == /\ state' = "open" /\ age' = 0
        /\ admitted' = 0

\* Faulty variant of Tripping: the rate must be above its threshold.
TrippingAboveRate == \/ failures' >= FailureThreshold
                     \/ /\ Len(outcomes') >= WindowSize
                        /\ Failed(outcomes') > RateFailures

Tripping == \/ failures' >= FailureThreshold
            \/ /\ Len(outcomes') >= WindowSize
               /\ Failed(outcomes') >= RateFailures

Fail(r) ==
  /\ End(r)
  /\ failures' = IF failures < FailureThreshold THEN failures + 1
                                                ELSE failures
  /\ outcomes' = Pushed(FALSE)
  /\ \/ (state = "half_open" \/ Tripping) /\ Open
     \/ /\ state # "half_open" /\ ~Tripping
        /\ UNCHANGED <<state, age, admitted>>
  /\ UNCHANGED <<halfOpenInFlight, halfOpenSuccesses>>

\* The run ends and nothing is recorded.
Abandon(r) ==
  /\ TrialsReport => r \notin trials
  /\ End(r)
  /\ UNCHANGED <<breaker, admitted>>

Next == \/ Tick
        \/ \E r \in Runs : \/ Attempt(r) \/ Succeed(r) \/ Fail(r)
                           \/ Abandon(r)

Spec == Init /\ [][Next]_vars

\* Time passes, payments keep arriving, and runs end.
FairSpec ==
  /\ Spec
  /\ WF_vars(Tick)
  /\ WF_vars(\E r \in Runs : Attempt(r))
  /\ \A r \in Runs : WF_vars(Succeed(r) \/ Fail(r) \/ Abandon(r))

-----------------------------------------------------------------------------
\* Load is shed: from each opening of the breaker until it opens again or
\* closes, no more runs are let through than the trial budget, whatever late
\* reports of earlier runs arrive meanwhile.
LoadIsShed ==
  /\ state = "open" => admitted = 0
  /\ state = "half_open" => /\ admitted = halfOpenInFlight
                            /\ Cardinality(trials) <= HalfOpenTrials

\* An outage is noticed, a hard one by its failures in a row, a partial one by
\* its rate: the breaker is never closed with as many failures as the threshold
\* at the end of its window, nor, right after a failure, with a full window of
\* the failure rate.  Right after a success it may be: the trials that close it
\* leave the window as it is.
NoticesOutage ==
  state = "closed" =>
    /\ FailureThreshold <= Len(outcomes) =>
         \E i \in 0..(FailureThreshold - 1) : outcomes[Len(outcomes) - i]
    /\ Len(outcomes) = WindowSize =>
         outcomes[WindowSize] \/ Failed(outcomes) < RateFailures

\* When the gateway has recovered the breaker closes for good, provided that
\* every trial reports: no late report, and no other run that never reports,
\* can keep it open.
ClosesAfterRecovery ==
  <>[][\A r \in Runs : ~Fail(r)]_vars => <>[](state = "closed")

\* No deadlock of the trials (circuit-breaker.ts:59, "only a limited number of
\* concurrent trial requests"): with no run in flight a trial is not refused.
TrialWhenIdle ==
  state = "half_open" /\ running = {} => halfOpenInFlight < HalfOpenTrials
=============================================================================
