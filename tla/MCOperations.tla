---------------------------- MODULE MCOperations ----------------------------
(***************************************************************************)
(* Instances of Operations for TLC.                                        *)
(***************************************************************************)
EXTENDS Operations

CONSTANTS s1, h1, d1, sick, healthy, i1, i2, i3

\* s1 is sent to a gateway that may hang, h1 to one that answers, and d1 to
\* the same with a delay.
ThreeJobs == {s1, h1, d1}
OwnIds ==
  [j \in ThreeJobs |-> IF j = s1 THEN i1 ELSE IF j = h1 THEN i2 ELSE i3]
TwoQueues == {sick, healthy}
ByGateway == [j \in ThreeJobs |-> IF j = s1 THEN sick ELSE healthy]
OneQueueEach == [q \in TwoQueues |-> q]
=============================================================================
