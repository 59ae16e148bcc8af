----------------------------- MODULE PaymentSaga -----------------------------
(***************************************************************************)
(* One run of the saga orchestrator over any number of steps.  A step that *)
(* throws may have taken effect (its response was lost); a compensation    *)
(* that throws may have worked.  Each await of a step is one action.       *)
(***************************************************************************)
EXTENDS Naturals, Sequences

CONSTANTS
  Steps,    \* the number of steps
  NoUndo    \* steps whose compensation does nothing, as notify_customer's

\* "which is why it's the last step" (saga.ts:138)
ASSUME SagaOptions == Steps \in Nat \ {0} /\ NoUndo \subseteq {Steps}

VARIABLES
  pc,         \* "forward", "backward", "done" or "aborted"
  at,         \* the step being executed, or that threw
  completed,  \* completedSteps
  remaining,  \* what compensate has still to go through
  ctx,        \* the steps whose patch is in the context
  effects,    \* ghost: the steps whose effects stand
  manual      \* ghost: steps logged as requiring manual reconciliation

vars == <<pc, at, completed, remaining, ctx, effects, manual>>

TypeOK ==
  /\ pc \in {"forward", "backward", "done", "aborted"}
  /\ at \in 1..Steps
  /\ completed \in Seq(1..Steps) /\ remaining \in Seq(1..Steps)
  /\ ctx \subseteq 1..Steps
  /\ effects \subseteq 1..Steps /\ manual \subseteq 1..Steps

Init ==
  /\ pc = "forward" /\ at = 1 /\ completed = <<>> /\ remaining = <<>>
  /\ ctx = {} /\ effects = {} /\ manual = {}

\* Faulty variant of Execute: the loop runs once too often.
ExecutePastEnd ==
  /\ pc = "forward"
  /\ effects' = effects \cup {at} /\ ctx' = ctx \cup {at}
  /\ completed' = Append(completed, at)
  /\ at' = at + 1
  /\ pc' = IF at <= Steps THEN "forward" ELSE "done"
  /\ UNCHANGED <<remaining, manual>>

\* execute resolves: the patch is merged, the step recorded, and run returns
\* after the last one.
Execute ==
  /\ pc = "forward"
  /\ effects' = effects \cup {at} /\ ctx' = ctx \cup {at}
  /\ completed' = Append(completed, at)
  /\ \/ at < Steps /\ at' = at + 1 /\ UNCHANGED pc
     \/ at = Steps /\ pc' = "done" /\ UNCHANGED at
  /\ UNCHANGED <<remaining, manual>>

\* execute rejects: compensate goes through the completed steps, and run
\* throws at once when there are none.
Throw ==
  /\ pc = "forward"
  /\ effects' = effects \/ effects' = effects \cup {at}
  /\ remaining' = completed
  /\ pc' = IF completed = <<>> THEN "aborted" ELSE "backward"
  /\ UNCHANGED <<at, completed, ctx, manual>>

\* compensate of step s resolves; the concrete ones look at the context.
Undone(s) ==
  /\ effects' = IF s \in ctx \ NoUndo THEN effects \ {s} ELSE effects
  /\ UNCHANGED manual

\* ... or rejects, which is logged for a human.
UndoFailed(s) ==
  /\ manual' = manual \cup {s}
  /\ effects' = effects \/ effects' = effects \ {s}

\* Faulty variant of Undo: the steps are compensated in their order.
UndoForward ==
  /\ pc = "backward"
  /\ Undone(Head(remaining)) \/ UndoFailed(Head(remaining))
  /\ remaining' = Tail(remaining)
  /\ pc' = IF remaining' = <<>> THEN "aborted" ELSE "backward"
  /\ UNCHANGED <<at, completed, ctx>>

\* Faulty variant of Undo: a compensation that rejects ends the unwinding.
UndoGivingUp ==
  /\ pc = "backward"
  /\ LET n == Len(remaining) IN
     /\ remaining' = SubSeq(remaining, 1, n - 1)
     /\ \/ /\ Undone(remaining[n])
           /\ pc' = IF n = 1 THEN "aborted" ELSE "backward"
        \/ UndoFailed(remaining[n]) /\ pc' = "aborted"
  /\ UNCHANGED <<at, completed, ctx>>

\* Faulty variant of Undo: a compensation that rejects starts the loop over.
UndoStartingOver ==
  /\ pc = "backward"
  /\ LET n == Len(remaining) IN
     \/ /\ Undone(remaining[n])
        /\ remaining' = SubSeq(remaining, 1, n - 1)
        /\ pc' = IF n = 1 THEN "aborted" ELSE "backward"
     \/ UndoFailed(remaining[n]) /\ remaining' = completed /\ UNCHANGED pc
  /\ UNCHANGED <<at, completed, ctx>>

\* The last step not yet compensated; run throws after the first.
Undo ==
  /\ pc = "backward"
  /\ LET n == Len(remaining) IN
     /\ Undone(remaining[n]) \/ UndoFailed(remaining[n])
     /\ remaining' = SubSeq(remaining, 1, n - 1)
     /\ pc' = IF n = 1 THEN "aborted" ELSE "backward"
  /\ UNCHANGED <<at, completed, ctx>>

Next == Execute \/ Throw \/ Undo

Spec == Init /\ [][Next]_vars

\* Every promise a step returns settles.
FairSpec == Spec /\ WF_vars(Next)

-----------------------------------------------------------------------------
\* The effects that nobody has to look after stand in the order of the steps:
\* at no time a later one without an earlier one, no ledger entry without its
\* capture (saga.ts:29-33), forward or backward, whichever compensations fail.
StandsInOrder ==
  \A i, j \in 1..Steps :
    i < j /\ j \in effects \ (manual \cup {at}) => i \in effects

\* A saga ends, and as promised: all done, or nothing left but what was
\* reported and what the step that threw may have done.  The latter is never
\* compensated, although saga.ts:4-6 provides for it.
Promise == INSTANCE SagaContract WITH
  outcome  <- IF pc \in {"done", "aborted"} THEN pc ELSE "open",
  standing <- IF pc \in {"done", "aborted"} THEN effects ELSE {},
  manual   <- IF pc = "aborted" THEN manual ELSE {}

KeepsPromise == Promise!Contract

Ends == <>(pc \in {"done", "aborted"})
=============================================================================
