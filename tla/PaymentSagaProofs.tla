-------------------------- MODULE PaymentSagaProofs --------------------------
(***************************************************************************)
(* Proofs about PaymentSaga, for any number of steps.  The invariant says  *)
(* for each phase which effects stand: going forward those of the steps so *)
(* far; going back those still to be compensated, with what failed to be.  *)
(***************************************************************************)
EXTENDS PaymentSaga, TLAPS

UpTo(k) == [i \in 1..k |-> i]

Forward ==
  pc = "forward" =>
    /\ completed = UpTo(at - 1) /\ ctx = 1..(at - 1)
    /\ effects = 1..(at - 1) /\ manual = {}

Backward ==
  pc = "backward" =>
    \E k \in 1..(at - 1) :
      /\ remaining = UpTo(k) /\ ctx = 1..(at - 1)
      /\ 1..k \subseteq effects
      /\ effects \subseteq (1..k) \cup manual \cup {at}
      /\ manual \subseteq (k + 1)..(at - 1)

Ended ==
  /\ pc = "done" => effects = 1..Steps /\ manual = {}
  /\ pc = "aborted" => /\ manual \subseteq 1..(at - 1)
                       /\ effects \subseteq manual \cup {at}

Inv == TypeOK /\ Forward /\ Backward /\ Ended

LEMMA UpToSeq ==
  ASSUME NEW k \in Nat, k <= Steps
  PROVE  UpTo(k) \in Seq(1..Steps) /\ Len(UpTo(k)) = k
BY SagaOptions DEF UpTo

LEMMA UpToAppend ==
  ASSUME NEW k \in Nat, k < Steps
  PROVE  Append(UpTo(k), k + 1) = UpTo(k + 1)
BY SagaOptions DEF UpTo

LEMMA UpToFront ==
  ASSUME NEW k \in Nat \ {0}, k <= Steps
  PROVE  /\ UpTo(k)[k] = k
         /\ SubSeq(UpTo(k), 1, k - 1) = UpTo(k - 1)
BY SagaOptions DEF UpTo

LEMMA SagaInitial == Init => Inv
<1> SUFFICES ASSUME Init PROVE Inv
  OBVIOUS
<1>1. TypeOK /\ Backward /\ Ended
  BY SagaOptions DEF Init, TypeOK, Backward, Ended
<1>2. Forward
  <2>1. 1..(1 - 1) = {} /\ UpTo(1 - 1) = <<>>
    BY DEF UpTo
  <2> QED
    BY <2>1 DEF Init, Forward
<1> QED
  BY <1>1, <1>2 DEF Inv

LEMMA ExecuteStep ==
  ASSUME Inv, Execute
  PROVE  Inv'
<1>1. /\ pc = "forward" /\ at \in 1..Steps /\ Steps \in Nat
      /\ completed = UpTo(at - 1) /\ ctx = 1..(at - 1)
      /\ effects = 1..(at - 1) /\ manual = {}
      /\ remaining \in Seq(1..Steps)
  BY SagaOptions DEF Inv, Execute, Forward, TypeOK
<1>2. completed' = UpTo(at)
  <2>1. at - 1 \in Nat /\ at - 1 < Steps /\ (at - 1) + 1 = at
    BY <1>1
  <2>2. completed' = Append(UpTo(at - 1), at)
    BY <1>1 DEF Execute
  <2> QED
    BY <2>1, <2>2, UpToAppend
<1>3. completed' \in Seq(1..Steps)
  BY <1>1, <1>2, UpToSeq
<1>4. effects' = 1..at /\ ctx' = 1..at /\ manual' = {}
  BY <1>1 DEF Execute
<1>5. CASE at < Steps
  <2>1. at' = at + 1 /\ pc' = "forward" /\ remaining' = remaining
    BY <1>5, <1>1 DEF Execute
  <2>2. at' - 1 = at /\ at' \in 1..Steps
    BY <1>1, <1>5, <2>1
  <2>3. TypeOK'
    BY <1>1, <1>3, <1>4, <2>1, <2>2 DEF TypeOK
  <2>4. Forward'
    BY <1>2, <1>4, <2>2 DEF Forward
  <2> QED
    BY <2>1, <2>3, <2>4 DEF Inv, Backward, Ended
<1>6. CASE at = Steps
  <2>1. at' = at /\ pc' = "done" /\ remaining' = remaining
    BY <1>6, <1>1 DEF Execute
  <2>2. TypeOK'
    BY <1>1, <1>3, <1>4, <2>1 DEF TypeOK
  <2> QED
    BY <1>4, <1>6, <2>1, <2>2 DEF Inv, Forward, Backward, Ended
<1> QED
  BY <1>1, <1>5, <1>6

LEMMA ThrowStep ==
  ASSUME Inv, Throw
  PROVE  Inv'
<1>1. /\ pc = "forward" /\ at \in 1..Steps /\ Steps \in Nat
      /\ completed = UpTo(at - 1) /\ ctx = 1..(at - 1)
      /\ effects = 1..(at - 1) /\ manual = {}
      /\ completed \in Seq(1..Steps)
  BY SagaOptions DEF Inv, Throw, Forward, TypeOK
<1>2. /\ remaining' = completed
      /\ UNCHANGED <<at, completed, ctx, manual>>
      /\ effects' = effects \/ effects' = effects \cup {at}
      /\ pc' = IF completed = <<>> THEN "aborted" ELSE "backward"
  BY DEF Throw
<1>3. TypeOK'
  BY <1>1, <1>2 DEF TypeOK
<1>4. /\ 1..(at - 1) \subseteq effects'
      /\ effects' \subseteq (1..(at - 1)) \cup {at}
  BY <1>1, <1>2
<1>5. CASE at = 1
  <2>1. completed = <<>>
    BY <1>1, <1>5 DEF UpTo
  <2>2. effects' \subseteq {at} /\ manual' = {}
    BY <1>1, <1>2, <1>4, <1>5
  <2> QED
    BY <1>2, <1>3, <2>1, <2>2 DEF Inv, Forward, Backward, Ended
<1>6. CASE at # 1
  <2>1. at - 1 \in 1..(at - 1) /\ at - 1 \in Nat
    BY <1>1, <1>6
  <2>2. completed # <<>>
    BY <1>1, <2>1, UpToSeq
  <2>3. Backward'
    BY <1>1, <1>2, <1>4, <2>1 DEF Backward
  <2> QED
    BY <1>2, <1>3, <2>2, <2>3 DEF Inv, Forward, Ended
<1> QED
  BY <1>5, <1>6

LEMMA UndoStep ==
  ASSUME Inv, Undo
  PROVE  Inv'
<1>1. pc = "backward" /\ at \in 1..Steps /\ Steps \in Nat
  BY SagaOptions DEF Inv, Undo, TypeOK
<1>2. PICK k \in 1..(at - 1) :
        /\ remaining = UpTo(k) /\ ctx = 1..(at - 1)
        /\ 1..k \subseteq effects
        /\ effects \subseteq (1..k) \cup manual \cup {at}
        /\ manual \subseteq (k + 1)..(at - 1)
  BY <1>1 DEF Inv, Backward
<1>3. /\ Len(remaining) = k /\ remaining[k] = k
      /\ SubSeq(remaining, 1, k - 1) = UpTo(k - 1)
  <2>1. k \in Nat \ {0} /\ k \in Nat /\ k <= Steps
    BY <1>1, <1>2
  <2>2. Len(UpTo(k)) = k
    BY <2>1, UpToSeq
  <2>3. UpTo(k)[k] = k /\ SubSeq(UpTo(k), 1, k - 1) = UpTo(k - 1)
    BY <2>1, UpToFront
  <2> QED
    BY <1>2, <2>2, <2>3
<1>4. /\ Undone(k) \/ UndoFailed(k)
      /\ remaining' = UpTo(k - 1)
      /\ pc' = IF k = 1 THEN "aborted" ELSE "backward"
      /\ UNCHANGED <<at, completed, ctx>>
  BY <1>3 DEF Undo
<1>5. k \in ctx \ NoUndo
  BY <1>1, <1>2, SagaOptions
<1>6. /\ 1..(k - 1) \subseteq effects'
      /\ effects' \subseteq (1..(k - 1)) \cup manual' \cup {at}
      /\ manual' \subseteq k..(at - 1)
  <2>1. \/ effects' = effects \ {k} /\ manual' = manual
        \/ /\ manual' = manual \cup {k}
           /\ effects' = effects \/ effects' = effects \ {k}
    BY <1>4, <1>5 DEF Undone, UndoFailed
  <2>2. k \in Nat /\ k >= 1 /\ k <= at - 1 /\ at \in Nat
    BY <1>1, <1>2
  <2>3. 1..(k - 1) \subseteq (1..k) \ {k} /\ (1..k) \ {k} \subseteq 1..(k - 1)
    BY <2>2
  <2>4. (k + 1)..(at - 1) \subseteq k..(at - 1) /\ k \in k..(at - 1)
    BY <2>2
  <2>5. 1..(k - 1) \subseteq effects'
    BY <1>2, <2>1, <2>3
  <2>6. effects' \subseteq (1..(k - 1)) \cup manual' \cup {at}
    BY <1>2, <2>1, <2>3
  <2>7. manual' \subseteq k..(at - 1)
    BY <1>2, <2>1, <2>4
  <2> QED
    BY <2>5, <2>6, <2>7
<1>7. TypeOK'
  <2>1. remaining' \in Seq(1..Steps)
    BY <1>1, <1>2, <1>4, UpToSeq
  <2>2. effects' \subseteq 1..Steps /\ manual' \subseteq 1..Steps
    BY <1>1, <1>2, <1>6
  <2> QED
    BY <1>4, <2>1, <2>2 DEF Inv, TypeOK
<1>8. CASE k = 1
  <2>1. /\ manual' \subseteq 1..(at - 1)
        /\ effects' \subseteq manual' \cup {at}
    BY <1>6, <1>8
  <2> QED
    BY <1>4, <1>7, <1>8, <2>1 DEF Inv, Forward, Backward, Ended
<1>9. CASE k # 1
  <2>1. k - 1 \in 1..(at - 1) /\ (k - 1) + 1 = k
    BY <1>1, <1>2, <1>9
  <2>2. Backward'
    BY <1>2, <1>4, <1>6, <2>1 DEF Backward
  <2> QED
    BY <1>4, <1>7, <1>9, <2>2 DEF Inv, Forward, Ended
<1> QED
  BY <1>8, <1>9

LEMMA SagaInductive == Inv /\ [Next]_vars => Inv'
<1> SUFFICES ASSUME Inv, [Next]_vars PROVE Inv'
  OBVIOUS
<1>1. CASE UNCHANGED vars
  BY <1>1 DEF vars, Inv, TypeOK, Forward, Backward, Ended
<1> QED
  BY <1>1, ExecuteStep, ThrowStep, UndoStep DEF Next

LEMMA SagaInvariant == Spec => []Inv
BY SagaInitial, SagaInductive, PTL DEF Spec

-----------------------------------------------------------------------------
\* The orchestrator's variables keep their types for any list of steps.
THEOREM SagaTypeCorrect == Spec => []TypeOK
<1>1. Inv => TypeOK
  BY DEF Inv
<1> QED
  BY <1>1, SagaInvariant, PTL

\* At no time does a later step's effect stand without an earlier one's,
\* failed compensations and the step that threw aside (saga.ts:29-33, 68-83).
THEOREM EffectsStandInOrder == Spec => []StandsInOrder
<1>1. ASSUME Inv PROVE StandsInOrder
  <2> SUFFICES ASSUME NEW i \in 1..Steps, NEW j \in 1..Steps, i < j,
                      j \in effects, j \notin manual, j # at
               PROVE  i \in effects
    BY DEF StandsInOrder
  <2>1. at \in 1..Steps /\ Steps \in Nat
    BY <1>1, SagaOptions DEF Inv, TypeOK
  <2>2. CASE pc = "forward"
    BY <1>1, <2>1, <2>2 DEF Inv, Forward
  <2>3. CASE pc = "backward"
    BY <1>1, <2>1, <2>3 DEF Inv, Backward
  <2>4. CASE pc \in {"done", "aborted"}
    BY <1>1, <2>1, <2>4 DEF Inv, Ended
  <2> QED
    BY <1>1, <2>2, <2>3, <2>4 DEF Inv, TypeOK
<1> QED
  BY <1>1, SagaInvariant, PTL

\* The orchestrator implements its contract: it has done everything when run
\* returns, and when run throws it has left nothing but what it reported and
\* what the step that threw may have done (run and compensate, saga.ts:48-83).
THEOREM SagaKeepsPromise == Spec => KeepsPromise
<1>1. Init => Promise!Open
  BY DEF Init, Promise!Open
<1>2. ASSUME Inv, Inv', [Next]_vars
      PROVE  [Promise!Commit \/ \E f \in 1..Steps : Promise!Abort(f)]_
                (Promise!contractVars)
  <2>0. at \in 1..Steps
    BY <1>2 DEF Inv, TypeOK
  <2>1. CASE Execute
    <3>1. CASE pc' = "done"
      BY <1>2, <2>1, <3>1 DEF Execute, Inv, Ended, Forward, Promise!Commit
    <3>2. CASE pc' = "forward"
      BY <2>1, <3>2 DEF Execute, Promise!contractVars
    <3> QED
      BY <2>1, <3>1, <3>2 DEF Execute
  <2>2. CASE Throw \/ Undo
    <3>1. pc \in {"forward", "backward"} /\ at' = at
      BY <2>2 DEF Throw, Undo
    <3>2. CASE pc' = "aborted"
      <4>1. /\ manual' \subseteq 1..(at - 1)
            /\ effects' \subseteq manual' \cup {at}
        BY <1>2, <3>1, <3>2 DEF Inv, Ended
      <4>2. Promise!Abort(at)
        BY <3>1, <3>2, <4>1 DEF Promise!Abort
      <4> QED
        BY <2>0, <4>2
    <3>3. CASE pc' = "backward"
      BY <3>1, <3>3 DEF Promise!contractVars
    <3> QED
      BY <2>2, <3>2, <3>3 DEF Throw, Undo
  <2>3. CASE UNCHANGED vars
    BY <2>3 DEF vars, Promise!contractVars
  <2> QED
    BY <1>2, <2>1, <2>2, <2>3 DEF Next
<1> QED
  BY <1>1, <1>2, SagaInvariant, PTL DEF Spec, KeepsPromise, Promise!Contract
=============================================================================
