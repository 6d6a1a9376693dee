-------------------------- MODULE MCSocketMessages --------------------------
(* Two clients.  c2 asks c1 a question or two; a message is sent to c2,    *)
(* or by c2, which then has both kinds of entries for its check.           *)
EXTENDS SocketMessages

CONSTANTS c1, c2, m1, q1, q2, r1, r2

MCAnswerTo == [q \in Questions |-> IF q = q1 THEN r1 ELSE r2]
ToAsker == [id \in Ids |-> IF id \in Questions THEN c2 ELSE c1]
ToAskerTarget == [id \in Ids |-> IF id \in Questions THEN c1 ELSE c2]
ByAsker == [id \in Ids |-> IF id \in Answers THEN c1 ELSE c2]
ByAskerTarget == [id \in Ids |-> IF id \in Answers THEN c2 ELSE c1]
=============================================================================
