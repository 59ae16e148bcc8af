---------------------------- MODULE SagaContract ----------------------------
(***************************************************************************)
(* What a saga promises whoever waits for it: in one step it turns out to  *)
(* have done everything, or to have left nothing but what a human has been *)
(* told about and what the step that threw may have done.                  *)
(***************************************************************************)
EXTENDS Naturals

CONSTANT Steps    \* the number of steps

VARIABLES
  outcome,    \* "open", "done" or "aborted"
  standing,   \* the steps whose effects stand, once it is decided
  manual      \* steps reported as requiring manual reconciliation

contractVars == <<outcome, standing, manual>>

Open == outcome = "open" /\ standing = {} /\ manual = {}

Commit == /\ outcome = "open" /\ outcome' = "done"
          /\ standing' = 1..Steps
          /\ UNCHANGED manual

\* Step f threw.
Abort(f) == /\ outcome = "open" /\ outcome' = "aborted"
            /\ manual' \subseteq 1..(f - 1)
            /\ standing' \subseteq manual' \cup {f}

Contract == /\ Open
            /\ [][Commit \/ \E f \in 1..Steps : Abort(f)]_contractVars
=============================================================================
