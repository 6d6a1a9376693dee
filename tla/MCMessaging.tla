---------------------------- MODULE MCMessaging ----------------------------
(* Four calls, by the system and by actors, to two actors that supervision *)
(* treats differently.                                                     *)
EXTENDS Messaging

CONSTANTS a1, a2, sysAsk, sysSend, actorAsk, actorSend

MCActors == {a1, a2}
MCMsgs == {sysAsk, sysSend, actorAsk, actorSend}
MCAsks == {sysAsk, actorAsk}
MCFromSystem == {sysAsk, sysSend}
MCTo == [m \in MCMsgs |-> IF m = sysSend THEN a2 ELSE a1]
MCStrategy == [a \in MCActors |-> IF a = a1 THEN "Restart" ELSE "Resume"]
=============================================================================
