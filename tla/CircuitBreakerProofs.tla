------------------------ MODULE CircuitBreakerProofs ------------------------
(***************************************************************************)
(* Proofs about CircuitBreaker.  The invariant ties the ghost count of the *)
(* runs let through to the breaker's own counter, and consecutiveFailures  *)
(* to the failures at the end of the window.                               *)
(***************************************************************************)
EXTENDS CircuitBreaker, FiniteSetTheorems, TLAPS

\* While closed, a window that ends in a failure is below the rate.
RateWatched ==
  state = "closed" /\ Len(outcomes) = WindowSize =>
    outcomes[WindowSize] \/ Failed(outcomes) < RateFailures

\* The counters in the states that read them.
Counters ==
  /\ RateWatched
  /\ state = "closed" => failures < FailureThreshold
  /\ state = "half_open" => halfOpenSuccesses < HalfOpenTrials

\* The trial budget.
Budget ==
  /\ IsFiniteSet(trials)
  /\ state = "open" => admitted = 0
  /\ state = "half_open" =>
       admitted = halfOpenInFlight /\ Cardinality(trials) <= admitted

\* m failures at the end of seq.
EndsInFailures(seq, m) == \A i \in 0..(m - 1) : ~seq[Len(seq) - i]

\* consecutiveFailures counts at least the failures at the end of the window.
CountsFailures ==
  \A m \in 1..FailureThreshold :
    m <= Len(outcomes) /\ EndsInFailures(outcomes, m) => failures >= m

Inv == TypeOK /\ Counters /\ Budget /\ CountsFailures

-----------------------------------------------------------------------------
\* seq is the window with one more outcome at its end.
Moved(seq) ==
  /\ seq \in Seq(BOOLEAN) /\ Len(seq) \in 1..WindowSize
  /\ Len(seq) <= Len(outcomes) + 1
  /\ \A i \in 1..(Len(seq) - 1) :
       seq[Len(seq) - i] = outcomes[Len(outcomes) - (i - 1)]

LEMMA PushedWindow ==
  ASSUME outcomes \in Seq(BOOLEAN), Len(outcomes) <= WindowSize,
         NEW s \in BOOLEAN
  PROVE  Moved(Pushed(s)) /\ Pushed(s)[Len(Pushed(s))] = s
<1>1. CASE Len(outcomes) < WindowSize
  BY <1>1, BreakerOptions DEF Pushed, Moved
<1>2. CASE Len(outcomes) = WindowSize
  <2>1. outcomes # <<>> /\ Pushed(s) = Append(Tail(outcomes), s)
    BY <1>2, BreakerOptions DEF Pushed
  <2>2. /\ Tail(outcomes) \in Seq(BOOLEAN)
        /\ Len(Tail(outcomes)) = Len(outcomes) - 1
        /\ \A j \in 1..(Len(outcomes) - 1) :
             Tail(outcomes)[j] = outcomes[j + 1]
    BY <2>1
  <2> QED
    BY <1>2, <2>1, <2>2, BreakerOptions DEF Moved
<1> QED
  BY <1>1, <1>2, BreakerOptions

\* A success at the end of the window leaves no failures there to count.
LEMMA SuccessCounts ==
  ASSUME outcomes \in Seq(BOOLEAN), Moved(outcomes'),
         outcomes'[Len(outcomes')]
  PROVE  CountsFailures'
<1> SUFFICES ASSUME NEW m \in 1..FailureThreshold,
                    EndsInFailures(outcomes', m)
             PROVE  FALSE
  BY DEF CountsFailures
<1>1. 0 \in 0..(m - 1)
  BY BreakerOptions
<1>2. ~outcomes'[Len(outcomes') - 0]
  BY <1>1 DEF EndsInFailures
<1>3. Len(outcomes') - 0 = Len(outcomes')
  BY BreakerOptions DEF Moved
<1> QED
  BY <1>2, <1>3

\* A failure adds one to both sides, up to the threshold.
LEMMA FailureCounts ==
  ASSUME outcomes \in Seq(BOOLEAN), Moved(outcomes'),
         failures \in 0..FailureThreshold, CountsFailures,
         failures' = IF failures < FailureThreshold THEN failures + 1
                                                    ELSE failures
  PROVE  CountsFailures'
<1> SUFFICES ASSUME NEW m \in 1..FailureThreshold,
                    m <= Len(outcomes'), EndsInFailures(outcomes', m)
             PROVE  failures' >= m
  BY DEF CountsFailures
<1>0. /\ Len(outcomes) \in Nat /\ Len(outcomes') \in Nat
      /\ Len(outcomes') <= Len(outcomes) + 1
  BY BreakerOptions DEF Moved
<1>1. CASE m = 1
  BY <1>1, BreakerOptions
<1>2. CASE m > 1
  <2>1. m - 1 \in 1..FailureThreshold /\ m - 1 <= Len(outcomes)
    BY <1>0, <1>2, BreakerOptions
  <2>2. EndsInFailures(outcomes, m - 1)
    <3> SUFFICES ASSUME NEW i \in 0..((m - 1) - 1)
                 PROVE  ~outcomes[Len(outcomes) - i]
      BY DEF EndsInFailures
    <3>1. i + 1 \in 1..(Len(outcomes') - 1) /\ i + 1 \in 0..(m - 1)
      BY <1>0, <1>2, BreakerOptions
    <3>2. outcomes'[Len(outcomes') - (i + 1)]
            = outcomes[Len(outcomes) - ((i + 1) - 1)]
      BY <3>1 DEF Moved
    <3>3. (i + 1) - 1 = i
      OBVIOUS
    <3>4. ~outcomes'[Len(outcomes') - (i + 1)]
      BY <3>1 DEF EndsInFailures
    <3> QED
      BY <3>2, <3>3, <3>4
  <2>3. failures >= m - 1
    BY <2>1, <2>2 DEF CountsFailures
  <2> QED
    BY <2>3, BreakerOptions
<1> QED
  BY <1>1, <1>2, BreakerOptions

-----------------------------------------------------------------------------
LEMMA FailedType == ASSUME NEW seq \in Seq(BOOLEAN) PROVE Failed(seq) \in Nat
<1>1. IsFiniteSet(1..Len(seq))
  BY FS_Interval
<1>2. {i \in DOMAIN seq : ~seq[i]} \subseteq 1..Len(seq)
  OBVIOUS
<1> QED
  BY <1>1, <1>2, FS_Subset, FS_CardinalityType DEF Failed

LEMMA BreakerInitial == Init => Inv
<1> SUFFICES ASSUME Init PROVE Inv
  OBVIOUS
<1>1. TypeOK
  BY BreakerOptions DEF Init, TypeOK
<1>2. Counters /\ Budget
  BY BreakerOptions, FS_EmptySet DEF Init, Counters, RateWatched, Budget
<1>3. CountsFailures
  BY BreakerOptions DEF Init, CountsFailures
<1> QED
  BY <1>1, <1>2, <1>3 DEF Inv

\* A run that ends leaves no more trials than before.
LEMMA EndTrials ==
  ASSUME NEW r \in Runs, IsFiniteSet(trials), trials' = trials \ {r}
  PROVE  IsFiniteSet(trials') /\ Cardinality(trials') <= Cardinality(trials)
BY FS_Subset, FS_CardinalityType

LEMMA AttemptEffect ==
  ASSUME NEW r \in Runs, Inv, Attempt(r)
  PROVE  Inv'
<1> USE BreakerOptions DEF Inv
<1>1. CASE AttemptClosed(r)
  <2>1. TypeOK'
    BY <1>1 DEF TypeOK, AttemptClosed, breaker
  <2>2. Counters' /\ Budget' /\ CountsFailures'
    BY <1>1 DEF AttemptClosed, breaker, Counters, RateWatched, Budget,
                CountsFailures
  <2> QED
    BY <2>1, <2>2
<1>2. CASE AttemptAfterOpen(r)
  <2>1. IsFiniteSet(trials') /\ Cardinality(trials') = 1
    BY <1>2, FS_Singleton DEF AttemptAfterOpen
  <2>2. admitted' = 1
    BY <1>2 DEF AttemptAfterOpen, Budget
  <2>3. TypeOK'
    BY <1>2, <2>2 DEF AttemptAfterOpen, TypeOK
  <2>4. Counters' /\ Budget'
    BY <1>2, <2>1, <2>2 DEF AttemptAfterOpen, Counters, RateWatched, Budget
  <2>5. CountsFailures'
    BY <1>2 DEF AttemptAfterOpen, CountsFailures
  <2> QED
    BY <2>3, <2>4, <2>5
<1>3. CASE AttemptHalfOpen(r)
  <2>0. IsFiniteSet(trials) /\ trials' = trials \cup {r}
    BY <1>3 DEF AttemptHalfOpen, Budget
  <2>1. /\ IsFiniteSet(trials')
        /\ Cardinality(trials') <= Cardinality(trials) + 1
    BY <2>0, FS_AddElement, FS_CardinalityType
  <2>2. TypeOK'
    BY <1>3 DEF AttemptHalfOpen, TypeOK, Budget
  <2>3. Counters' /\ CountsFailures'
    BY <1>3 DEF AttemptHalfOpen, Counters, RateWatched, CountsFailures
  <2>4. Budget'
    BY <1>3, <2>1, FS_CardinalityType DEF AttemptHalfOpen, Budget, TypeOK
  <2> QED
    BY <2>2, <2>3, <2>4
<1> QED
  BY <1>1, <1>2, <1>3 DEF Attempt

LEMMA SucceedEffect ==
  ASSUME NEW r \in Runs, Inv, Succeed(r)
  PROVE  Inv'
<1> USE BreakerOptions DEF Inv
<1>0. Moved(outcomes') /\ outcomes'[Len(outcomes')] = TRUE
  <2>1. outcomes \in Seq(BOOLEAN) /\ Len(outcomes) <= WindowSize
    BY DEF TypeOK
  <2>2. outcomes' = Pushed(TRUE)
    BY Zenon DEF Succeed
  <2> QED
    BY <2>1, <2>2, PushedWindow, TRUE \in BOOLEAN, Zenon
<1>1. CountsFailures'
  BY <1>0, SuccessCounts DEF TypeOK
<1>2. TypeOK'
  <2>1. /\ trials' = trials \ {r} /\ running' = running \ {r}
        /\ failures' = 0 /\ age' = age
        /\ halfOpenInFlight' = halfOpenInFlight
        /\ state' \in {state, "closed"} /\ admitted' \in {0, admitted}
    BY DEF Succeed, End
  <2>2. halfOpenSuccesses' \in 0..HalfOpenTrials
    BY DEF Succeed, TypeOK, Counters
  <2> QED
    BY <1>0, <2>1, <2>2 DEF TypeOK, Moved
<1>3. Counters'
  <2>1. RateWatched'
    BY <1>0, Zenon DEF RateWatched
  <2> QED
    BY <2>1 DEF Succeed, Counters, TypeOK
<1>4. Budget'
  <2>1. /\ IsFiniteSet(trials')
        /\ Cardinality(trials') <= Cardinality(trials)
    BY EndTrials DEF Succeed, End, Budget
  <2> QED
    BY <2>1, FS_CardinalityType DEF Succeed, Budget, TypeOK
<1> QED
  BY <1>1, <1>2, <1>3, <1>4

LEMMA FailEffect ==
  ASSUME NEW r \in Runs, Inv, Fail(r)
  PROVE  Inv'
<1> USE BreakerOptions DEF Inv
<1>0. Moved(outcomes')
  <2>1. outcomes \in Seq(BOOLEAN) /\ Len(outcomes) <= WindowSize
    BY DEF TypeOK
  <2>2. outcomes' = Pushed(FALSE)
    BY Zenon DEF Fail
  <2> QED
    BY <2>1, <2>2, PushedWindow, FALSE \in BOOLEAN, Zenon
<1>1. CountsFailures'
  BY <1>0, FailureCounts DEF Fail, TypeOK
<1>2. TypeOK'
  <2>1. /\ trials' = trials \ {r} /\ running' = running \ {r}
        /\ failures' \in {failures, failures + 1}
        /\ failures' <= FailureThreshold
        /\ halfOpenInFlight' = halfOpenInFlight
        /\ halfOpenSuccesses' = halfOpenSuccesses
        /\ state' \in {state, "open"} /\ admitted' \in {0, admitted}
        /\ age' \in {0, age}
    BY DEF Fail, End, Open, TypeOK
  <2> QED
    BY <1>0, <2>1 DEF TypeOK, Moved
<1>3. Counters'
  <2>1. CASE Open
    BY <2>1 DEF Open, Counters, RateWatched
  <2>2. CASE state # "half_open" /\ ~Tripping /\ state' = state
    <3>1. /\ ~(failures' >= FailureThreshold)
          /\ ~(/\ Len(outcomes') >= WindowSize
               /\ Failed(outcomes') >= RateFailures)
      BY <2>2, Zenon DEF Tripping
    <3>2. Failed(outcomes') \in Nat
      BY <1>0, FailedType DEF Moved
    <3>3. RateWatched'
      BY <3>1, <3>2 DEF RateWatched
    <3> QED
      BY <1>2, <2>2, <3>1, <3>3 DEF Counters, TypeOK
  <2> QED
    BY <2>1, <2>2, Zenon DEF Fail
<1>4. Budget'
  <2>1. IsFiniteSet(trials')
    BY EndTrials DEF Fail, End, Budget
  <2> QED
    BY <2>1 DEF Fail, Open, Budget, TypeOK
<1> QED
  BY <1>1, <1>2, <1>3, <1>4

\* Ending without a report leaves the counters alone, whoever it is that ends.
LEMMA EndEffect ==
  ASSUME NEW r \in Runs, Inv, End(r), UNCHANGED <<breaker, admitted>>
  PROVE  Inv'
<1> USE DEF Inv
<1>1. TypeOK' /\ Counters' /\ CountsFailures'
  BY DEF End, breaker, TypeOK, Counters, RateWatched, CountsFailures
<1>2. Budget'
  <2>1. /\ IsFiniteSet(trials')
        /\ Cardinality(trials') <= Cardinality(trials)
    BY EndTrials DEF End, Budget
  <2> QED
    BY <2>1, FS_CardinalityType DEF breaker, Budget, TypeOK
<1> QED
  BY <1>1, <1>2

LEMMA BreakerInductive == Inv /\ [Next]_vars => Inv'
<1> SUFFICES ASSUME Inv, [Next]_vars PROVE Inv'
  OBVIOUS
<1>1. CASE Tick
  <2>1. TypeOK'
    BY <1>1, BreakerOptions DEF Tick, Inv, TypeOK
  <2>2. Counters' /\ Budget' /\ CountsFailures'
    BY <1>1 DEF Tick, Inv, Counters, RateWatched, Budget, CountsFailures
  <2> QED
    BY <2>1, <2>2 DEF Inv
<1>2. CASE \E r \in Runs : Attempt(r) \/ Succeed(r) \/ Fail(r) \/ Abandon(r)
  BY <1>2, AttemptEffect, SucceedEffect, FailEffect, EndEffect DEF Abandon
<1>3. CASE UNCHANGED vars
  BY <1>3 DEF vars, breaker, Inv, TypeOK, Counters, RateWatched, Budget,
              CountsFailures
<1> QED
  BY <1>1, <1>2, <1>3 DEF Next

LEMMA BreakerInvariant == Spec => []Inv
<1>1. Init => Inv
  BY BreakerInitial
<1>2. Inv /\ [Next]_vars => Inv'
  BY BreakerInductive
<1> QED
  BY <1>1, <1>2, PTL DEF Spec

-----------------------------------------------------------------------------
\* The counters of CircuitBreaker (canAttempt, recordSuccess, recordFailure)
\* stay within their bounds and the window within windowSize.
THEOREM BreakerTypeCorrect == Spec => []TypeOK
<1>1. Inv => TypeOK
  BY DEF Inv
<1> QED
  BY <1>1, BreakerInvariant, PTL

LEMMA BudgetShedsLoad == Inv => LoadIsShed
BY BreakerOptions, FS_CardinalityType
   DEF Inv, TypeOK, Budget, LoadIsShed

\* From an opening on no more runs are let through than halfOpenTrialCount,
\* for any number of runs and any late reports (canAttempt, 58-63).
THEOREM TrialBudget == Spec => []LoadIsShed
BY BudgetShedsLoad, BreakerInvariant, PTL

\* A window that ends in failureThreshold failures has been counted.
LEMMA CountNoticesOutage == Inv => NoticesOutage
<1> SUFFICES ASSUME Inv, state = "closed",
                    FailureThreshold <= Len(outcomes),
                    ~\E i \in 0..(FailureThreshold - 1) :
                        outcomes[Len(outcomes) - i]
             PROVE  FALSE
  BY DEF NoticesOutage, Inv, Counters, RateWatched
<1>1. EndsInFailures(outcomes, FailureThreshold)
  BY DEF EndsInFailures
<1>2. failures >= FailureThreshold
  BY <1>1, BreakerOptions DEF Inv, CountsFailures
<1>3. failures < FailureThreshold /\ failures \in Nat
  BY BreakerOptions DEF Inv, Counters, TypeOK
<1> QED
  BY <1>2, <1>3, BreakerOptions

\* The breaker is never closed over failureThreshold failures in a row, nor
\* after a failure over a full window of the failure rate, for every threshold,
\* rate and window size (recordFailure, 91-98).
THEOREM OutageNoticed == Spec => []NoticesOutage
BY CountNoticesOutage, BreakerInvariant, PTL

-----------------------------------------------------------------------------
\* Every slot of the trial budget is held by a trial or paid for by a success.
SlotsAccounted ==
  state = "half_open" =>
    halfOpenInFlight <= Cardinality(trials) + halfOpenSuccesses

\* A trial that ends by a report takes one from the left and adds one to the
\* right; a run that ends unreported is no trial.
LEMMA SlotsStayAccounted ==
  ASSUME TrialsReport, Inv, SlotsAccounted, [Next]_vars
  PROVE  SlotsAccounted'
<1> USE BreakerOptions DEF SlotsAccounted
<1>0. IsFiniteSet(trials) /\ Cardinality(trials) \in Nat /\ TypeOK
  BY FS_CardinalityType DEF Inv, Budget
<1>1. CASE Tick
  BY <1>1 DEF Tick
<1>2. ASSUME NEW r \in Runs, Attempt(r) PROVE SlotsAccounted'
  <2>1. CASE AttemptClosed(r)
    BY <2>1 DEF AttemptClosed, breaker
  <2>2. CASE AttemptAfterOpen(r)
    <3>1. Cardinality(trials') = 1
      BY <2>2, FS_Singleton DEF AttemptAfterOpen
    <3>2. halfOpenInFlight' = 1 /\ halfOpenSuccesses' = 0
      BY <2>2 DEF AttemptAfterOpen
    <3> QED
      BY <3>1, <3>2
  <2>3. CASE AttemptHalfOpen(r)
    <3>1. r \notin trials /\ trials' = trials \cup {r}
      BY <1>0, <2>3 DEF AttemptHalfOpen, TypeOK
    <3>2. Cardinality(trials') = Cardinality(trials) + 1
      BY <1>0, <3>1, FS_AddElement
    <3> QED
      BY <1>0, <2>3, <3>2 DEF AttemptHalfOpen, TypeOK
  <2> QED
    BY <1>2, <2>1, <2>2, <2>3 DEF Attempt
<1>3. ASSUME NEW r \in Runs, Succeed(r) PROVE SlotsAccounted'
  <2>1. /\ trials' = trials \ {r}
        /\ Cardinality(trials') \in Nat
        /\ Cardinality(trials) <= Cardinality(trials') + 1
    <3>1. trials' = trials \ {r}
      BY <1>3 DEF Succeed, End
    <3>2. Cardinality(trials \ {r})
            = IF r \in trials THEN Cardinality(trials) - 1
                              ELSE Cardinality(trials)
      BY <1>0, FS_RemoveElement
    <3>3. IsFiniteSet(trials') /\ Cardinality(trials') \in Nat
      BY <1>0, <3>1, FS_Subset, FS_CardinalityType
    <3> QED
      BY <1>0, <3>1, <3>2, <3>3
  <2>2. state' = "half_open" =>
          /\ state = "half_open" /\ halfOpenInFlight' = halfOpenInFlight
          /\ halfOpenSuccesses' = halfOpenSuccesses + 1
    BY <1>3 DEF Succeed
  <2> QED
    BY <1>0, <2>1, <2>2 DEF TypeOK
<1>4. ASSUME NEW r \in Runs, Fail(r) PROVE SlotsAccounted'
  BY <1>4 DEF Fail, Open
<1>5. ASSUME NEW r \in Runs, Abandon(r) PROVE SlotsAccounted'
  <2>1. trials' = trials
    BY <1>5 DEF Abandon, End
  <2> QED
    BY <1>5, <2>1 DEF Abandon, breaker
<1>6. CASE UNCHANGED vars
  BY <1>6 DEF vars, breaker
<1> QED
  BY <1>1, <1>2, <1>3, <1>4, <1>5, <1>6 DEF Next

LEMMA AccountedTrialReturns == Inv /\ SlotsAccounted => TrialWhenIdle
<1> SUFFICES ASSUME Inv, SlotsAccounted, state = "half_open", running = {}
             PROVE  halfOpenInFlight < HalfOpenTrials
  BY DEF TrialWhenIdle
<1>1. Cardinality(trials) = 0
  <2>1. trials = {}
    BY DEF Inv, TypeOK
  <2> QED
    BY <2>1, FS_EmptySet
<1> QED
  BY <1>1, BreakerOptions DEF Inv, TypeOK, Counters, SlotsAccounted

\* If every trial reports, no trial is refused while nothing is in flight
\* (circuit-breaker.ts:58-63), although halfOpenInFlight never goes down.
THEOREM TrialsComeBack ==
  ASSUME TrialsReport PROVE Spec => []TrialWhenIdle
<1>1. Init => Inv /\ SlotsAccounted
  BY BreakerInitial DEF Init, SlotsAccounted
<1>2. Inv /\ SlotsAccounted /\ [Next]_vars => (Inv /\ SlotsAccounted)'
  BY BreakerInductive, SlotsStayAccounted
<1>3. Inv /\ SlotsAccounted => TrialWhenIdle
  BY AccountedTrialReturns
<1> QED
  BY <1>1, <1>2, <1>3, PTL DEF Spec
=============================================================================
