------------------------- MODULE GatewayGuardProofs -------------------------
(***************************************************************************)
(* Proofs about GatewayGuard: the bucket keeps its rate whatever the       *)
(* breaker does to it, and under TrialsFit it refuses no trial, so that    *)
(* the breaker is the one of CircuitBreaker.                               *)
(***************************************************************************)
EXTENDS GatewayGuard, CircuitBreakerProofs, TokenBucketProofs

\* Every step of the guard is a call of the bucket or leaves it alone.
LEMMA GuardStepsBucket == [GuardNext]_guardVars => [BucketNext]_bucketVars
<1> SUFFICES ASSUME [GuardNext]_guardVars PROVE [BucketNext]_bucketVars
  OBVIOUS
<1>1. CASE Clock
  BY <1>1 DEF Clock, BucketNext
<1>2. ASSUME NEW r \in Runs, Ask(r) PROVE BucketNext
  BY <1>2 DEF Ask, BucketNext
<1>3. ASSUME NEW r \in Runs, Report(r) PROVE [BucketNext]_bucketVars
  <2>1. 100 \in 0..100
    OBVIOUS
  <2> QED
    BY <1>3, <2>1 DEF Report, OnStateChange, BucketNext
<1>4. ASSUME NEW r \in Runs, EndUnreported(r) \/ EndRefused(r)
      PROVE  UNCHANGED bucketVars
  BY <1>4 DEF EndUnreported, EndRefused
<1>5. CASE UNCHANGED guardVars
  BY <1>5 DEF guardVars
<1> QED
  BY <1>1, <1>2, <1>3, <1>4, <1>5 DEF GuardNext

\* The guard uses the bucket as TokenBucket says it may be used.
LEMMA GuardImplementsBucket == GuardSpec => BucketSpec
<1>1. GuardInit => BucketInit
  BY DEF GuardInit
<1> QED
  BY <1>1, GuardStepsBucket, PTL DEF GuardSpec, BucketSpec

\* Behind the breaker, too, no interval sees more grants than the configured
\* rate and burst allow (payment-processor 75-87, token-bucket.ts:50-78).
THEOREM GuardKeepsRate == GuardSpec => []NeverExceedsRate
BY GuardImplementsBucket, RateIsKept, PTL

\* While the breaker has tripped, no more than the shrunk bucket allows.
THEOREM GuardKeepsThrottle == GuardSpec => []ThrottleHolds
BY GuardImplementsBucket, ThrottleIsKept, PTL

-----------------------------------------------------------------------------
\* The bucket is throttled exactly while the breaker has tripped, through
\* re-openings, late reports and trials: OnStateChange adapts it on opening and
\* resets it on closing, and nothing else calls adapt.
ThrottleFollowsBreaker ==
  IF state = "closed" THEN capacity = BaseCapacity /\ rate = BaseRate
                      ELSE /\ capacity = ShrunkCapacity(100)
                           /\ rate = ShrunkRate(100)

LEMMA RefillKeepsSize ==
  ASSUME Grant \/ Deny
  PROVE  capacity' = capacity /\ rate' = rate
BY DEF Grant, Deny, Refill

LEMMA ThrottleStep ==
  ThrottleFollowsBreaker /\ [GuardNext]_guardVars => ThrottleFollowsBreaker'
<1> SUFFICES ASSUME ThrottleFollowsBreaker, [GuardNext]_guardVars
             PROVE  ThrottleFollowsBreaker'
  OBVIOUS
<1> USE DEF ThrottleFollowsBreaker
<1>1. CASE Clock
  BY <1>1 DEF Clock, Tick, Pass, vars, breaker
<1>2. ASSUME NEW r \in Runs, Ask(r) PROVE ThrottleFollowsBreaker'
  <2>1. capacity' = capacity /\ rate' = rate
    BY <1>2, RefillKeepsSize DEF Ask
  <2>2. state' = "closed" <=> state = "closed"
    BY <1>2 DEF Ask, Attempt, AttemptClosed, AttemptAfterOpen,
                AttemptHalfOpen, breaker
  <2> QED
    BY <2>1, <2>2
<1>3. ASSUME NEW r \in Runs, Report(r) PROVE ThrottleFollowsBreaker'
  <2>1. state' \in {state, "open", "closed"}
    BY <1>3 DEF Report, Succeed, Fail, Open
  <2>2. CASE state # "open" /\ state' = "open" /\ Adapt(100)
    BY <2>2 DEF Adapt, ShrunkCapacity, ShrunkRate
  <2>3. CASE state # "closed" /\ state' = "closed" /\ Reset
    BY <2>3 DEF Reset
  <2>4. CASE /\ state' = "half_open" \/ state' = state
             /\ UNCHANGED bucketVars
    BY <2>1, <2>4 DEF bucketVars
  <2> QED
    BY <1>3, <2>2, <2>3, <2>4 DEF Report, OnStateChange
<1>4. ASSUME NEW r \in Runs, EndUnreported(r) \/ EndRefused(r)
      PROVE  ThrottleFollowsBreaker'
  BY <1>4 DEF EndUnreported, EndRefused, Abandon, breaker, bucketVars
<1>5. CASE UNCHANGED guardVars
  BY <1>5 DEF guardVars, vars, breaker, bucketVars
<1> QED
  BY <1>1, <1>2, <1>3, <1>4, <1>5 DEF GuardNext

LEMMA ThrottleInitial == GuardInit => ThrottleFollowsBreaker
BY DEF GuardInit, Init, BucketInit, ThrottleFollowsBreaker

-----------------------------------------------------------------------------
\* While the breaker is open nobody draws on the bucket; once half-open, what
\* is in it covers the trials still to come.
TrialsCovered ==
  /\ state = "open" => AtMost(Horizon, age) <= since
  /\ state = "half_open" =>
       (HalfOpenTrials - halfOpenInFlight) * Unit <= tokens

GuardInv ==
  /\ Inv /\ BucketInv /\ ThrottleFollowsBreaker /\ TrialsCovered
  /\ refused \subseteq running /\ TrialsAreNotRefused

LEMMA Sizes ==
  ASSUME TypeOK, BucketTypeOK
  PROVE  /\ Unit \in Nat /\ HalfOpenTrials \in Nat /\ OpenDuration \in Nat
         /\ Horizon \in Nat /\ capacity \in Nat /\ rate \in Nat
         /\ since \in Nat /\ age \in Nat /\ tokens \in Nat
         /\ halfOpenInFlight \in 0..HalfOpenTrials
         /\ capacity * Unit \in Nat /\ since * rate \in Nat
         /\ tokens <= capacity * Unit
         /\ (HalfOpenTrials - halfOpenInFlight) * Unit \in Nat
         /\ HalfOpenTrials * Unit \in Nat
<1>1. /\ Unit \in Nat /\ HalfOpenTrials \in Nat /\ OpenDuration \in Nat
      /\ Horizon \in Nat /\ capacity \in Nat /\ rate \in Nat
      /\ since \in Nat /\ age \in Nat
      /\ halfOpenInFlight \in 0..HalfOpenTrials
  BY BucketOptions, BreakerOptions DEF TypeOK, BucketTypeOK
<1>2. HalfOpenTrials - halfOpenInFlight \in Nat
  BY <1>1
<1>3. /\ capacity * Unit \in Nat /\ since * rate \in Nat
      /\ (HalfOpenTrials - halfOpenInFlight) * Unit \in Nat
      /\ HalfOpenTrials * Unit \in Nat
  BY <1>1, <1>2, Product, Zenon
<1>4. tokens \in Nat /\ tokens <= capacity * Unit
  BY <1>3 DEF BucketTypeOK
<1> QED
  BY <1>1, <1>3, <1>4

\* The first trial of a half-open period finds tokens for all of them.
LEMMA OpenPeriodRefills ==
  ASSUME TrialsFit, GuardInv, state = "open", age >= OpenDuration
  PROVE  HalfOpenTrials * Unit <= Refilled
<1>0. /\ Unit \in Nat /\ HalfOpenTrials \in Nat /\ OpenDuration \in Nat
      /\ Horizon \in Nat /\ capacity \in Nat /\ rate \in Nat
      /\ since \in Nat /\ age \in Nat /\ tokens \in Nat
      /\ capacity * Unit \in Nat /\ since * rate \in Nat
      /\ HalfOpenTrials * Unit \in Nat
  BY Sizes, Zenon DEF GuardInv, Inv, BucketInv
<1>1. /\ HalfOpenTrials <= capacity
      /\ HalfOpenTrials * Unit <= OpenDuration * rate
  BY DEF GuardInv, ThrottleFollowsBreaker, TrialsFit
<1>2. HalfOpenTrials * Unit <= capacity * Unit
  BY <1>0, <1>1, ProductMonotone, Zenon
<1>3. HalfOpenTrials * Unit <= since * rate
  <2>1. AtMost(Horizon, age) <= since
    BY DEF GuardInv, TrialsCovered
  <2>2. CASE OpenDuration <= since
    <3>1. OpenDuration * rate <= since * rate
      BY <1>0, <2>2, ProductMonotone, Zenon
    <3>2. OpenDuration * rate \in Nat
      BY <1>0, Product, Zenon
    <3> QED
      BY <1>0, <1>1, <3>1, <3>2
  <2>3. CASE Horizon <= since
    <3>1. /\ MinRate \in Nat /\ BaseCapacity \in Nat
          /\ MinRate <= rate /\ capacity <= BaseCapacity
      BY BucketOptions DEF GuardInv, BucketInv, BucketTypeOK
    <3>2. /\ Horizon * MinRate <= Horizon * rate
          /\ Horizon * rate <= since * rate
          /\ capacity * Unit <= BaseCapacity * Unit
      BY <1>0, <2>3, <3>1, ProductMonotone, Zenon
    <3>3. /\ Horizon * MinRate \in Nat /\ Horizon * rate \in Nat
          /\ BaseCapacity * Unit \in Nat
      BY <1>0, <3>1, Product, Zenon
    <3>4. BaseCapacity * Unit <= Horizon * MinRate
      BY BucketOptions
    <3> QED
      BY <1>0, <1>2, <3>2, <3>3, <3>4
  <2>4. Horizon <= since \/ OpenDuration <= since
    BY <1>0, <2>1 DEF AtMost
  <2> QED
    BY <2>2, <2>3, <2>4
<1>4. since # 0
  <2>1. HalfOpenTrials * Unit >= 1
    <3>1. HalfOpenTrials >= 1 /\ Unit >= 1
      BY BreakerOptions, BucketOptions
    <3>2. 1 * Unit <= HalfOpenTrials * Unit
      BY <1>0, <3>1, 1 \in Nat, ProductMonotone, Zenon
    <3> QED
      BY <1>0, <3>1, <3>2
  <2>2. ASSUME since = 0 PROVE since * rate = 0
    BY <1>0, <2>2
  <2> QED
    BY <1>0, <1>3, <2>1, <2>2
<1> QED
  BY <1>0, <1>2, <1>3, <1>4 DEF Refilled, AtMost

LEMMA AttemptRuns ==
  ASSUME NEW r, Attempt(r)
  PROVE  r \notin running /\ running' = running \cup {r}
BY DEF Attempt, AttemptClosed, AttemptAfterOpen, AttemptHalfOpen

\* One token less leaves enough for one trial less.
LEMMA OneTrialLess ==
  ASSUME NEW n \in Nat, n # 0, Unit \in Nat, NEW t \in Int, n * Unit <= t
  PROVE  Unit <= t /\ (n - 1) * Unit <= t - Unit
<1>1. n - 1 \in Nat /\ n = (n - 1) + 1
  OBVIOUS
<1>2. n * Unit = (n - 1) * Unit + Unit
  BY <1>1, ProductStep
<1>3. (n - 1) * Unit \in Nat
  BY <1>1, Product, Zenon
<1> QED
  BY <1>2, <1>3

LEMMA AskStep ==
  ASSUME TrialsFit, GuardInv, NEW r \in Runs, Ask(r)
  PROVE  /\ TrialsCovered' /\ TrialsAreNotRefused'
         /\ refused' \subseteq running'
<1>0. /\ Unit \in Nat /\ HalfOpenTrials \in Nat /\ tokens \in Nat
      /\ halfOpenInFlight \in 0..HalfOpenTrials
      /\ tokens <= capacity * Unit /\ capacity * Unit \in Nat
      /\ since * rate \in Nat /\ since \in Nat
  BY Sizes, Zenon DEF GuardInv, Inv, BucketInv
<1>1. /\ r \notin running /\ r \notin refused /\ r \notin trials
      /\ running' = running \cup {r}
  BY AttemptRuns DEF Ask, GuardInv, Inv, TypeOK
<1>2. refused' = refused \/ refused' = refused \cup {r}
  BY DEF Ask
<1>3. refused' \subseteq running'
  BY <1>1, <1>2 DEF GuardInv
<1>4. Refilled \in Int /\ tokens <= Refilled
  BY <1>0 DEF Refilled, AtMost
<1>5. CASE AttemptClosed(r)
  <2>1. state' = "closed" /\ trials' = trials
    BY <1>5 DEF AttemptClosed, breaker
  <2> QED
    BY <1>1, <1>2, <1>3, <2>1
       DEF TrialsCovered, TrialsAreNotRefused, GuardInv
<1>6. CASE AttemptAfterOpen(r)
  <2>1. HalfOpenTrials * Unit <= Refilled
    BY <1>6, OpenPeriodRefills DEF AttemptAfterOpen
  <2>2. /\ Unit <= Refilled
        /\ (HalfOpenTrials - 1) * Unit <= Refilled - Unit
    BY <1>0, <1>4, <2>1, OneTrialLess, BreakerOptions
  <2>3. Grant /\ refused' = refused
    BY <1>0, <1>4, <2>2 DEF Ask, Deny
  <2>4. tokens' = Refilled - Unit
    BY <2>3 DEF Grant, Refill
  <2>5. state' = "half_open" /\ halfOpenInFlight' = 1 /\ trials' = {r}
    BY <1>6 DEF AttemptAfterOpen
  <2> QED
    BY <1>1, <1>3, <2>2, <2>3, <2>4, <2>5
       DEF TrialsCovered, TrialsAreNotRefused
<1>7. CASE AttemptHalfOpen(r)
  <2> DEFINE left == HalfOpenTrials - halfOpenInFlight
  <2>0. /\ state' = "half_open" /\ state = "half_open"
        /\ halfOpenInFlight < HalfOpenTrials
        /\ halfOpenInFlight' = halfOpenInFlight + 1
        /\ trials' = trials \cup {r}
    BY <1>7 DEF AttemptHalfOpen
  <2>1. left \in Nat /\ left # 0
    BY <1>0, <2>0
  <2>2. left * Unit <= tokens /\ left * Unit \in Nat
    BY <1>0, <2>0, <2>1, Product DEF GuardInv, TrialsCovered
  <2>3. left * Unit <= Refilled
    BY <1>0, <1>4, <2>2
  <2>4. Unit <= Refilled /\ (left - 1) * Unit <= Refilled - Unit
    <3> HIDE DEF left
    <3> QED
      BY <1>0, <1>4, <2>1, <2>3, OneTrialLess
  <2>5. Grant /\ refused' = refused
    BY <1>0, <1>4, <2>4 DEF Ask, Deny
  <2>6. tokens' = Refilled - Unit
    BY <2>5 DEF Grant, Refill
  <2>7. HalfOpenTrials - halfOpenInFlight' = left - 1
    BY <1>0, <2>0
  <2>8. TrialsCovered'
    BY <2>0, <2>4, <2>6, <2>7 DEF TrialsCovered
  <2> QED
    BY <1>1, <1>3, <2>0, <2>5, <2>8 DEF TrialsAreNotRefused, GuardInv
<1> QED
  BY <1>5, <1>6, <1>7 DEF Ask, Attempt

LEMMA ReportStep ==
  ASSUME GuardInv, NEW r \in Runs, Report(r)
  PROVE  /\ TrialsCovered' /\ TrialsAreNotRefused'
         /\ refused' \subseteq running'
<1>1. /\ running' = running \ {r} /\ trials' = trials \ {r}
      /\ refused' = refused /\ r \notin refused
      /\ halfOpenInFlight' = halfOpenInFlight
  BY DEF Report, Succeed, Fail, End
<1>2. refused' \subseteq running' /\ TrialsAreNotRefused'
  BY <1>1 DEF GuardInv, TrialsAreNotRefused
<1>3. CASE state' = "open" /\ age' = 0
  <2>1. since' \in Nat
    BY BucketOptions
       DEF Report, OnStateChange, Adapt, Reset, bucketVars,
           GuardInv, BucketInv, BucketTypeOK
  <2>2. AtMost(Horizon, age') <= since'
    BY <1>3, <2>1, BucketOptions DEF AtMost
  <2> QED
    BY <1>2, <1>3, <2>2 DEF TrialsCovered
<1>4. CASE state' = "closed"
  BY <1>2, <1>4 DEF TrialsCovered
<1>5. CASE state' = state /\ age' = age /\ state # "closed"
  <2>1. UNCHANGED bucketVars
    BY <1>5 DEF Report, OnStateChange
  <2> QED
    BY <1>1, <1>2, <1>5, <2>1 DEF TrialsCovered, GuardInv, bucketVars
<1>6. \/ state' = "open" /\ age' = 0
      \/ state' = "closed"
      \/ state' = state /\ age' = age
  BY DEF Report, Succeed, Fail, Open
<1> QED
  BY <1>3, <1>4, <1>5, <1>6

\* Because it refuses no trial, the guard takes only steps of CircuitBreaker.
LEMMA GuardStepsBreaker ==
  ASSUME TrialsAreNotRefused, [GuardNext]_guardVars
  PROVE  [Next]_vars
<1>1. CASE Clock
  BY <1>1 DEF Clock, Next
<1>2. ASSUME NEW r \in Runs, Ask(r) PROVE Next
  BY <1>2 DEF Ask, Next
<1>3. ASSUME NEW r \in Runs, Report(r) PROVE Next
  BY <1>3 DEF Report, Next
<1>4. ASSUME NEW r \in Runs, EndUnreported(r) PROVE Next
  BY <1>4 DEF EndUnreported, Next
<1>5. ASSUME NEW r \in Runs, EndRefused(r) PROVE Next
  <2>1. r \notin trials
    BY <1>5 DEF EndRefused, TrialsAreNotRefused
  <2>2. Abandon(r)
    BY <1>5, <2>1 DEF EndRefused, Abandon
  <2> QED
    BY <2>2 DEF Next
<1>6. CASE UNCHANGED guardVars
  BY <1>6 DEF guardVars
<1> QED
  BY <1>1, <1>2, <1>3, <1>4, <1>5, <1>6 DEF GuardNext

LEMMA GuardInductive ==
  ASSUME TrialsFit, GuardInv, [GuardNext]_guardVars
  PROVE  GuardInv'
<1>1. Inv'
  BY GuardStepsBreaker, BreakerInductive DEF GuardInv
<1>2. BucketInv' /\ ThrottleFollowsBreaker'
  BY GuardStepsBucket, BucketStep, ThrottleStep DEF GuardInv
<1>3. /\ TrialsCovered' /\ TrialsAreNotRefused'
      /\ refused' \subseteq running'
  <2>1. CASE Clock
    <3>1. /\ UNCHANGED <<state, halfOpenInFlight, tokens, refused, running,
                         trials>>
          /\ since' = AtMost(Horizon, since + 1)
          /\ age' = age \/ age' = age + 1
      BY <2>1 DEF Clock, Tick, Pass, vars, breaker
    <3>2. since \in Nat /\ age \in Nat /\ Horizon \in Nat
      BY Sizes, Zenon DEF GuardInv, Inv, BucketInv
    <3>3. AtMost(Horizon, age) <= since => AtMost(Horizon, age') <= since'
      <4>1. age' \in Nat /\ age' <= age + 1
        BY <3>1, <3>2
      <4>2. since' = IF since + 1 > Horizon THEN Horizon ELSE since + 1
        BY <3>1 DEF AtMost
      <4> QED
        BY <3>2, <4>1, <4>2 DEF AtMost
    <3> QED
      BY <3>1, <3>3 DEF GuardInv, TrialsCovered, TrialsAreNotRefused
  <2>2. ASSUME NEW r \in Runs, EndUnreported(r) \/ EndRefused(r)
        PROVE  /\ TrialsCovered' /\ TrialsAreNotRefused'
               /\ refused' \subseteq running'
    <3>1. /\ running' = running \ {r} /\ trials' = trials \ {r}
          /\ refused' = refused \ {r}
          /\ UNCHANGED <<breaker, bucketVars>>
      BY <2>2 DEF EndUnreported, EndRefused, Abandon, End
    <3> QED
      BY <3>1 DEF GuardInv, TrialsCovered, TrialsAreNotRefused, breaker,
                  bucketVars
  <2>3. CASE UNCHANGED guardVars
    BY <2>3 DEF guardVars, vars, breaker, bucketVars, GuardInv,
                TrialsCovered, TrialsAreNotRefused
  <2> QED
    BY <2>1, <2>2, <2>3, AskStep, ReportStep DEF GuardNext
<1> QED
  BY <1>1, <1>2, <1>3 DEF GuardInv

LEMMA GuardInitial == GuardInit => GuardInv
<1> SUFFICES ASSUME GuardInit PROVE GuardInv
  OBVIOUS
<1>1. Inv /\ BucketInv /\ ThrottleFollowsBreaker
  BY BreakerInitial, BucketInitial, ThrottleInitial DEF GuardInit
<1>2. TrialsCovered /\ refused \subseteq running /\ TrialsAreNotRefused
  BY DEF GuardInit, Init, TrialsCovered, TrialsAreNotRefused
<1> QED
  BY <1>1, <1>2 DEF GuardInv

\* The bucket refuses no trial (payment-processor 113-128), whatever late
\* reports re-open or close the breaker meanwhile, if its shrunk size and what
\* it gains in an open period cover the trials.
THEOREM NoTrialIsRefused ==
  ASSUME TrialsFit PROVE GuardSpec => []TrialsAreNotRefused
<1>1. GuardInv /\ [GuardNext]_guardVars => GuardInv'
  BY GuardInductive
<1>2. GuardInv => TrialsAreNotRefused
  BY DEF GuardInv
<1> QED
  BY GuardInitial, <1>1, <1>2, PTL DEF GuardSpec

\* So a behaviour of the guard is one of the breaker alone.
LEMMA GuardImplementsBreaker ==
  ASSUME TrialsFit PROVE GuardSpec => Spec
<1>1. GuardInit => Init
  BY DEF GuardInit
<1>2. TrialsAreNotRefused /\ [GuardNext]_guardVars => [Next]_vars
  BY GuardStepsBreaker
<1> QED
  BY <1>1, <1>2, NoTrialIsRefused, PTL DEF GuardSpec, Spec

-----------------------------------------------------------------------------
(* What the breaker owes behind any bucket, one that eats its trials too.  *)

\* A trial that the bucket refused leaves without a report, which is no step
\* of CircuitBreaker when trials report; the breaker's invariant survives it.
LEMMA GuardKeepsInv == Inv /\ [GuardNext]_guardVars => Inv'
<1> SUFFICES ASSUME Inv, [GuardNext]_guardVars PROVE Inv'
  OBVIOUS
<1>1. ASSUME NEW r \in Runs, EndRefused(r) PROVE Inv'
  BY <1>1, EndEffect DEF EndRefused
<1>2. CASE [Next]_vars
  BY <1>2, BreakerInductive
<1>3. CASE Clock
  <2>1. [Next]_vars
    BY <1>3 DEF Clock, Next
  <2> QED
    BY <1>2, <2>1
<1>4. ASSUME NEW r \in Runs, Ask(r) \/ Report(r) \/ EndUnreported(r)
      PROVE  Inv'
  <2>1. Next
    BY <1>4 DEF Ask, Report, EndUnreported, Next
  <2> QED
    BY <1>2, <2>1
<1>5. CASE UNCHANGED guardVars
  <2>1. UNCHANGED vars
    BY <1>5 DEF guardVars
  <2> QED
    BY <1>2, <2>1
<1> QED
  BY <1>1, <1>3, <1>4, <1>5 DEF GuardNext

LEMMA GuardInvariant == GuardSpec => []Inv
<1>1. GuardInit => Inv
  BY BreakerInitial DEF GuardInit
<1> QED
  BY <1>1, GuardKeepsInv, PTL DEF GuardSpec

\* The breaker's counters stay within their bounds behind any bucket.
THEOREM GuardTypeCorrect == GuardSpec => []TypeOK
<1>1. Inv => TypeOK
  BY DEF Inv
<1> QED
  BY <1>1, GuardInvariant, PTL

\* Whatever the bucket refuses, no more runs reach the gates from an opening
\* on than there are trials (canAttempt, 58-63).
THEOREM GuardShedsLoad == GuardSpec => []LoadIsShed
BY BudgetShedsLoad, GuardInvariant, PTL

\* Nor do refused runs hide an outage: they leave the window of outcomes and
\* the failures counted in it alone (recordFailure, 91-98).
THEOREM GuardNoticesOutage == GuardSpec => []NoticesOutage
BY CountNoticesOutage, GuardInvariant, PTL

\* The bucket's tokens, size and rate stay within their bounds.
THEOREM GuardBucketTypeCorrect == GuardSpec => []BucketTypeOK
BY GuardImplementsBucket, BucketTypeCorrect, PTL

\* A half-open breaker with nothing in flight lets a trial through, bucket and
\* all: what breaker_stuck shows for a breaker whose trials may be lost does
\* not happen where the bucket fits the trials and every trial reports.
THEOREM GuardTrialsComeBack ==
  ASSUME TrialsFit, TrialsReport PROVE GuardSpec => []TrialWhenIdle
BY GuardImplementsBreaker, TrialsComeBack, PTL
=============================================================================
