---------------------------- MODULE GatewayGuard ----------------------------
(***************************************************************************)
(* The two gates of process() together: a run asks the circuit breaker and *)
(* then, in the same turn of the event loop, the token bucket, which the   *)
(* breaker's transitions shrink and restore.  A run that the bucket        *)
(* refuses has been let through by the breaker and never reports to it.    *)
(***************************************************************************)
EXTENDS CircuitBreaker, TokenBucket

VARIABLE refused    \* runs whose throw "Rate limited" is on its way out

guardVars == <<vars, bucketVars, refused>>

GuardInit == Init /\ BucketInit /\ refused = {}

Clock == /\ Pass
         /\ \/ Tick
            \/ age = OpenDuration /\ UNCHANGED vars
         /\ UNCHANGED refused

\* canAttempt() and tryConsume(), with no await in between.
Ask(r) ==
  /\ Attempt(r)
  /\ \/ Grant /\ UNCHANGED refused
     \/ Deny /\ refused' = refused \cup {r}

\* The callback the breaker was constructed with, severity in percent.
OnStateChange ==
  \/ state # "open" /\ state' = "open" /\ Adapt(100)
  \/ state # "closed" /\ state' = "closed" /\ Reset
  \/ (state' = "half_open" \/ state' = state) /\ UNCHANGED bucketVars

\* recordSuccess() or recordFailure() by a run that got past both gates.
Report(r) ==
  /\ r \notin refused
  /\ Succeed(r) \/ Fail(r)
  /\ OnStateChange
  /\ UNCHANGED refused

\* Returned by reconcile or thrown by a lookup: nothing is reported.
EndUnreported(r) ==
  /\ r \notin refused
  /\ Abandon(r)
  /\ UNCHANGED <<bucketVars, refused>>

\* Refused by the bucket: thrown before any report, trial or not.
EndRefused(r) ==
  /\ r \in refused
  /\ End(r)
  /\ refused' = refused \ {r}
  /\ UNCHANGED <<breaker, admitted, bucketVars>>

GuardNext == \/ Clock
             \/ \E r \in Runs : \/ Ask(r) \/ Report(r) \/ EndUnreported(r)
                                \/ EndRefused(r)

GuardSpec == GuardInit /\ [][GuardNext]_guardVars

\* Time passes, payments keep arriving, and runs end.
GuardFairSpec ==
  /\ GuardSpec
  /\ WF_guardVars(Clock)
  /\ WF_guardVars(\E r \in Runs : Ask(r))
  /\ \A r \in Runs :
       WF_guardVars(Report(r) \/ EndUnreported(r) \/ EndRefused(r))

-----------------------------------------------------------------------------
\* The shrunk bucket and what it gains while the breaker is open cover the
\* trials.  With the defaults (20%, 30 s, 3 trials) every gateway of
\* payment.module.ts satisfies this, one with a capacity of 12 does not.
TrialsFit ==
  /\ HalfOpenTrials <= ShrunkCapacity(100)
  /\ HalfOpenTrials * Unit <= OpenDuration * ShrunkRate(100)

\* The bucket never eats a trial: a trial it refused would use up the budget
\* without a report and leave the breaker half-open for good.
TrialsAreNotRefused == refused \cap trials = {}

\* Adaptive rate limiting as it is described (README.md:79-80, "as a gateway
\* degrades, the token bucket proactively shrinks before the breaker fully
\* trips"): when the breaker trips, the bucket has been shrunk.
ShrinksBeforeTrip ==
  [][state = "closed" /\ state' = "open" => capacity < BaseCapacity]_guardVars

\* The gates never shut for good: payments are let through again and again,
\* however long the gateway fails.
KeepsServing == []<><<\E r \in Runs : Ask(r) /\ Grant>>_guardVars
=============================================================================
