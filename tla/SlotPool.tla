------------------------------ MODULE SlotPool ------------------------------
(***************************************************************************)
(* What the per-gateway semaphore promises: at most Max runs are inside    *)
(* the gateway at a time, and a slot that is given up while somebody waits *)
(* for one is taken over at once.  This is the abstract specification that *)
(* GatewaySemaphore implements.                                            *)
(***************************************************************************)
EXTENDS Naturals, FiniteSets

CONSTANTS Runs,   \* runs of process() that ask for a slot
          Max     \* maxConcurrency of the gateway

VARIABLES inside,    \* runs that hold a slot
          wanting    \* runs that asked for one and wait

vars == <<inside, wanting>>

Init == inside = {} /\ wanting = {}

\* A run is let in while a slot is free.
Enter(r) == /\ r \notin inside \cup wanting
            /\ Cardinality(inside) < Max
            /\ inside' = inside \cup {r}
            /\ UNCHANGED wanting

\* It has to wait only while all slots are taken.
Wait(r) == /\ r \notin inside \cup wanting
           /\ Cardinality(inside) >= Max
           /\ wanting' = wanting \cup {r}
           /\ UNCHANGED inside

\* A slot becomes free only if nobody waits for it.
Exit(r) == /\ r \in inside /\ wanting = {}
           /\ inside' = inside \ {r}
           /\ UNCHANGED wanting

\* Otherwise it passes to one of those that wait.
HandOver(r, next) == /\ r \in inside /\ next \in wanting
                     /\ inside' = (inside \ {r}) \cup {next}
                     /\ wanting' = wanting \ {next}

Next == \E r \in Runs : \/ Enter(r) \/ Wait(r) \/ Exit(r)
                        \/ \E next \in Runs : HandOver(r, next)

Spec == Init /\ [][Next]_vars
=============================================================================
