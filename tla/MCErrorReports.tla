--------------------------- MODULE MCErrorReports ---------------------------
(* The system asks an actor, and an actor sends it a message; another      *)
(* actor is the error receiver.                                            *)
EXTENDS ErrorReports

CONSTANTS a1, er, sysAsk, actorSend

MCActors == {a1, er}
MCMsgs == {sysAsk, actorSend}
MCTo == [m \in MCMsgs |-> a1]
MCStrategy == [a \in MCActors |-> "Restart"]
=============================================================================
