-------------------------- MODULE DistributedSystem --------------------------
(***************************************************************************)
(* Actor systems that reach each other over websockets: the steps of       *)
(* SocketMessages composed with what DistributedActorSystem and            *)
(* WebsocketDistributor do at both ends.  An ask that leaves a system goes *)
(* through the distributor to its client; at the target it becomes a       *)
(* message of the inbox with an ask timer, whose callback answers over the *)
(* client; the client's promise is handed to the asker's callback.         *)
(*                                                                         *)
(* A step is what one event, timer or call from outside does at both       *)
(* levels.  The messages here are the ones for other systems; the rest is  *)
(* in Messaging.  Which actor receives is left out: there may be none by   *)
(* that name, then it is the system actor.  System names have no dot:      *)
(* the distributor sends to what comes before the first one.               *)
(***************************************************************************)
EXTENDS Naturals, Sequences, SequencesExt, FiniteSets

CONSTANTS
    Clients, Sends, Questions, Answers, AnswerTo, Origin, Target, Void, MaxConns, Closing, SocketErrors,
    Reconnecting \* bound: the clients that open another connection

VARIABLES
    acks, questions, older, pending, overdue, outcome, shutdown, link, conn,
    retries, up, down, received, sockets, broken, \* see SocketMessages
    phase,    \* "running"; shutdown() makes it "disconnected", then "stopped"
    at,       \* where a message is at its target
    deadline, \* the ask timer of handleInboxMessage at the target
    answer    \* the promise that ask() of the asking system returned

socket == <<acks, questions, older, pending, overdue, outcome, shutdown, link, conn,
            retries, up, down, received, sockets, broken>>
vars == <<socket, phase, at, deadline, answer>>

Socket == INSTANCE SocketMessages

ASSUME DistributedAssumption == Socket!SocketConstants /\ Reconnecting \subseteq Clients

Msgs == Sends \cup Questions
Places == {"away", "dropped", "receiving", "handled", "failed"}

-----------------------------------------------------------------------------
(* remoteSubscription hands on the client's promise: a result, also one    *)
(* that is an error of the target, resolves the ask, a rejection rejects.  *)
HandOn ==
    answer' = [q \in Questions |->
                  IF answer[q] = "pending" /\ outcome'[q] \in {"result", "error"}
                  THEN outcome'[q] ELSE answer[q]]

Quiet == UNCHANGED <<phase, at, deadline, answer>>

\* A wrong variant: the promise of the client is not awaited.
AskAtOnce(q) ==
    /\ answer[q] = "unasked"
    /\ answer' = [answer EXCEPT ![q] = "result"]
    /\ Socket!Ask(q)
    /\ UNCHANGED <<phase, at, deadline>>

(* ActorSystem.ask with a remote target.  A stopped inbox throws; a        *)
(* disconnected one still hands the question to the client.                *)
Ask(q) ==
    /\ answer[q] = "unasked"
    /\ IF phase[Origin[q]] = "stopped"
       THEN answer' = [answer EXCEPT ![q] = "refused"] /\ UNCHANGED socket
       ELSE answer' = [answer EXCEPT ![q] = "pending"] /\ Socket!Ask(q)
    /\ UNCHANGED <<phase, at, deadline>>

\* ActorSystem.send with a remote target; it answers nothing.
Send(m) ==
    /\ phase[Origin[m]] # "stopped"
    /\ Socket!Send(m)
    /\ Quiet

\* A wrong variant: the callback does not notice that the inbox is stopped.
GiveAlways(c, id) ==
    /\ at' = [at EXCEPT ![id] = "receiving"]
    /\ deadline' = IF id \in Questions THEN [deadline EXCEPT ![id] = "armed"] ELSE deadline

\* A wrong variant: the ask timer is left to the asking system.
GiveUntimed(c, id) ==
    /\ at' = [at EXCEPT ![id] = IF phase[c] = "stopped" THEN "dropped" ELSE "receiving"]
    /\ UNCHANGED deadline

(* The distributor's callback gives a message to the inbox: the local      *)
(* handler sets the timer of an ask and calls receive.  A stopped inbox    *)
(* throws out of the callback, after the ACK was sent.                     *)
Give(c, id) ==
    IF phase[c] = "stopped"
    THEN at' = [at EXCEPT ![id] = "dropped"] /\ UNCHANGED deadline
    ELSE /\ at' = [at EXCEPT ![id] = "receiving"]
         /\ deadline' = IF id \in Questions THEN [deadline EXCEPT ![id] = "armed"] ELSE deadline

ReceiveMessage(c) ==
    /\ Socket!ReceiveMessage(c)
    /\ Give(c, Head(down[c]).id)
    /\ UNCHANGED <<phase, answer>>

(* receive settled at the target.  The result of a question is answered    *)
(* unless its timer fired, also when the client is closed by then.         *)
ReceiveReturns(id) ==
    /\ at[id] = "receiving"
    /\ at' = [at EXCEPT ![id] = "handled"]
    /\ IF id \in Questions /\ deadline[id] = "armed"
       THEN /\ deadline' = [deadline EXCEPT ![id] = "cleared"]
            /\ \E void \in BOOLEAN : Socket!AnswerQuestion(id, void)
       ELSE UNCHANGED <<deadline, socket>>
    /\ UNCHANGED <<phase, answer>>

\* receive rejected: the question is left to its timer.
ReceiveRejects(id) ==
    /\ at[id] = "receiving"
    /\ at' = [at EXCEPT ![id] = "failed"]
    /\ UNCHANGED <<socket, phase, deadline, answer>>

\* The target's timer answers with an error, whatever became of receive.
DeadlineFires(q) ==
    /\ deadline[q] = "armed"
    /\ deadline' = [deadline EXCEPT ![q] = "fired"]
    /\ Socket!AnswerQuestion(q, FALSE)
    /\ UNCHANGED <<phase, at, answer>>

ReceiveAnswer(c) == Socket!ReceiveAnswer(c) /\ HandOn /\ UNCHANGED <<phase, at, deadline>>

HandleTimeouts(c) == Socket!HandleTimeouts(c) /\ HandOn /\ UNCHANGED <<phase, at, deadline>>

-----------------------------------------------------------------------------
\* A wrong variant: the actors and the inbox are stopped first.
ShutdownInboxFirst(c) ==
    /\ phase[c] = "running"
    /\ phase' = [phase EXCEPT ![c] = "stopped"]
    /\ UNCHANGED <<socket, at, deadline, answer>>

(* DistributedActorSystem.shutdown: the distributor is disconnected first, *)
(* while the actors still run; nothing waits for the socket to close.      *)
Shutdown(c) ==
    /\ phase[c] = "running"
    /\ phase' = [phase EXCEPT ![c] = "disconnected"]
    /\ Socket!Close(c)
    /\ UNCHANGED <<at, deadline, answer>>

\* The actors are shut down, the inbox is completed and unsubscribed.
StopInbox(c) ==
    /\ phase[c] = "disconnected"
    /\ phase' = [phase EXCEPT ![c] = "stopped"]
    /\ UNCHANGED <<socket, at, deadline, answer>>

\* What concerns the sockets only.
Transport(c) ==
    /\ \/ Socket!ReceiveAck(c) \/ Socket!Retry(c)
       \/ Socket!Disconnect(c) \/ Socket!Open(c) \/ Socket!Proxy(c)
       \/ c \in Reconnecting /\ Socket!Reconnect(c)
       \/ \E k \in 1..MaxConns : Socket!ProxyClose(c, k) \/ Socket!ProxyError(c, k)
    /\ Quiet

-----------------------------------------------------------------------------
\* create() has returned at every system.
Init ==
    /\ Socket!Init
    /\ phase = [c \in Clients |-> "running"]
    /\ at = [id \in Msgs |-> "away"]
    /\ deadline = [q \in Questions |-> "none"]
    /\ answer = [q \in Questions |-> "unasked"]

Receive(c) == ReceiveMessage(c) \/ ReceiveAnswer(c) \/ (Socket!ReceiveAck(c) /\ Quiet)

Next ==
    \/ \E q \in Questions : Ask(q) \/ DeadlineFires(q)
    \/ \E m \in Sends : Send(m)
    \/ \E id \in Msgs : ReceiveReturns(id) \/ ReceiveRejects(id)
    \/ \E c \in Clients :
        \/ ReceiveMessage(c) \/ ReceiveAnswer(c) \/ HandleTimeouts(c)
        \/ Shutdown(c) \/ StopInbox(c) \/ Transport(c)

Spec == Init /\ [][Next]_vars

(* As in SocketMessages, with the ask timer in place of the assumption     *)
(* that questions are answered.  Nothing makes a receive settle.           *)
Fairness ==
    /\ \A c \in Clients :
        /\ WF_vars(HandleTimeouts(c)) /\ WF_vars(Receive(c))
        /\ WF_vars(Socket!Proxy(c) /\ Quiet)
    /\ \A q \in Questions : WF_vars(DeadlineFires(q))

FairSpec == Spec /\ Fairness

-----------------------------------------------------------------------------
\* The kinds of values the variables hold.
TypeOK ==
    /\ Socket!TypeOK
    /\ phase \in [Clients -> {"running", "disconnected", "stopped"}]
    /\ at \in [Msgs -> Places]
    /\ deadline \in [Questions -> {"none", "armed", "fired", "cleared"}]
    /\ answer \in [Questions -> {"unasked", "refused", "pending", "result", "error"}]

(* No promise of ask() is forgotten: while it is pending the client keeps  *)
(* the question, so that an answer can still settle it.                    *)
PendingIsOpen ==
    \A q \in Questions : answer[q] = "pending" => q \in questions

(* A send that resolved was taken over by the inbox of its target, unless  *)
(* that opened another connection: in a shutdown the socket stops sending  *)
(* ACKs before the inbox stops.                                            *)
AckedIsTaken ==
    \A m \in Sends : outcome[m] = "result" /\ conn[Target[m]] = 1 => at[m] # "dropped"

(* A message is received once at most, though it may wait for a connecting *)
(* socket, and connections come and go.                                    *)
AtMostOnce ==
    [][\A id \in Msgs : at[id] # "away" => at'[id] \in {at[id], "handled", "failed"}]_vars

(* No receive starts in a system that is shut down, though its socket may  *)
(* still be closing and deliver.                                           *)
NothingAfterStop ==
    [][\A id \in Msgs :
        phase[Target[id]] = "stopped" /\ at[id] # "receiving" => at'[id] # "receiving"]_vars

(* What an asking system hands to its actors is an AskPromise again: an    *)
(* answer, a rejection of the client and a stopped inbox settle it once,   *)
(* in whatever order they come.                                            *)
Promise == INSTANCE AskPromise WITH Asks <- Questions, outcome <- answer
PromiseSpec == Promise!Spec

\* Something broke or was shut down.
Disturbed == \E c \in Clients : phase[c] # "running" \/ link[c] # "open" \/ conn[c] > 1

(* An ask across systems settles, also if the target's receive hangs or    *)
(* rejects, while the connections and systems stay up; and whatever        *)
(* breaks, it settles as long as the client's check does not throw at one  *)
(* of its entries.                                                         *)
AskSettles ==
    \A q \in Questions :
        /\ answer[q] = "pending" ~> (answer[q] # "pending" \/ Disturbed)
        /\ answer[q] = "pending" ~>
            (answer[q] # "pending" \/ shutdown[Origin[q]] \/ Socket!Stuck(Origin[q]))

(* The client's check removes every message without ACK in the end, also   *)
(* an answer with a value, while connections and systems come and go,      *)
(* unless close() was called.                                              *)
AcksLeave == Socket!AcksLeave

-----------------------------------------------------------------------------
(* What the code does not keep.                                            *)

\* The promise of an ask that timed out at its target rejects.
TimeoutRejects == \A q \in Questions : deadline[q] = "fired" => answer[q] # "result"
=============================================================================
