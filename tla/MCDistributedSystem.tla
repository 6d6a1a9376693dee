------------------------ MODULE MCDistributedSystem ------------------------
(* System c2 asks c1 a question, and c1 may send a message to c2.          *)
EXTENDS DistributedSystem

CONSTANTS c1, c2, m1, q1, r1

MCAnswerTo == [q \in {q1} |-> r1]
MCOrigin == [id \in Msgs \cup Answers |-> IF id = q1 THEN c2 ELSE c1]
MCTarget == [id \in Msgs \cup Answers |-> IF id = q1 THEN c1 ELSE c2]
=============================================================================
