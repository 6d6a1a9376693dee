--------------------------- MODULE SocketMessages ---------------------------
(***************************************************************************)
(* Messages between actor systems over websockets: WebsocketClient, one    *)
(* per actor system, and WebsocketMessageProxy, which forwards between     *)
(* them.  A client keeps acks, questions and pending for what it sent, and *)
(* an interval timer that looks for overdue entries; a connection may      *)
(* break at any time and is opened again.                                  *)
(*                                                                         *)
(* A step is one event handler, timer callback or call from outside.  A    *)
(* connection carries messages in order and loses what is in it when it    *)
(* breaks; the proxy learns of the break later.  Left out here: attempts   *)
(* to connect that fail (onerror), close() during an attempt, keep-alives  *)
(* and authorization, which are in SocketConnection.                       *)
(***************************************************************************)
EXTENDS Naturals, Sequences, SequencesExt, FiniteSets

CONSTANTS
    Clients,     \* client ids: the names of actor systems
    Sends,       \* message ids of calls of send
    Questions,   \* message ids of calls of ask
    Answers,     \* message ids of calls of answer
    AnswerTo,    \* [Questions -> Answers]: each question is answered once at most
    Origin,      \* [Sends \cup Questions \cup Answers -> Clients]
    Target,      \* [Sends \cup Questions \cup Answers -> Clients]
    Void,        \* answers that may be undefined or null: receive returned nothing
    MaxConns,    \* bound on connections a client opens
    Closing,     \* bound: the clients that may be closed
    SocketErrors \* TRUE: a socket of the proxy that breaks emits "error" before "close"

Ids == Sends \cup Questions \cup Answers
Links == {"connecting", "open", "closing", "closed", "lost"}
Outcomes == {"unasked", "pending", "result", "error"}

\* An answer has the id of its question in it: no two questions share one.
SocketConstants ==
    /\ Sends \cap Questions = {} /\ Sends \cap Answers = {} /\ Questions \cap Answers = {}
    /\ Origin \in [Ids -> Clients] /\ Target \in [Ids -> Clients]
    /\ AnswerTo \in [Questions -> Answers]
    /\ \A p, q \in Questions : AnswerTo[p] = AnswerTo[q] => p = q
    /\ \A q \in Questions :
        Origin[AnswerTo[q]] = Target[q] /\ Target[AnswerTo[q]] = Origin[q]
    /\ \A id \in Sends \cup Questions : Origin[id] # Target[id]
    /\ Void \subseteq Answers /\ Closing \subseteq Clients
    /\ MaxConns \in Nat \ {0}
    /\ SocketErrors \in BOOLEAN

ASSUME SocketAssumption == SocketConstants

VARIABLES
    acks,      \* WebsocketClient.acks of all clients: sends and answers without an ACK
    questions, \* WebsocketClient.questions of all clients
    older,     \* <<p, q>>: acks, or questions, of a client has p before q
    pending,   \* WebsocketClient.pending: ids for which it has a payload, not undefined or null
    overdue,   \* entries of acks and questions that the next check finds too old
    outcome,   \* the promise that send, ask or answer returned
    shutdown,  \* WebsocketClient.shutdown: close() was called
    link,      \* readyState of the socket; "lost" is closed with a timer to init again
    conn,      \* the number of the client's latest connection
    retries,   \* trySend calls that wait for a connecting socket, the latest last
    up,        \* on the way from the client to the proxy
    down,      \* on the way from the proxy to the client
    received,  \* messages and answers that a client was given
    sockets,   \* WebsocketMessageProxy.sockets: the connection of a client id, or 0
    broken     \* <<client, connection>> whose "close" the proxy has yet to handle

vars == <<acks, questions, older, pending, overdue, outcome, shutdown, link, conn,
          retries, up, down, received, sockets, broken>>
book == <<acks, questions, older, pending, overdue, outcome>>
proxy == <<sockets, broken>>
outgoing == <<up, retries>>

ClientId(c) == [type |-> "client", id |-> c]
Message(id) == [type |-> IF id \in Answers THEN "answer" ELSE "msg", id |-> id]
Ack(id) == [type |-> "ack", id |-> id]
Wires == [type : {"client", "msg", "ack", "answer"}, id : Ids \cup Clients]
Receiver(w) == IF w.type = "ack" THEN Origin[w.id] ELSE Target[w.id]
OwnAcks(c) == {id \in acks : Origin[id] = c}
OwnQuestions(c) == {q \in questions : Origin[q] = c}

-----------------------------------------------------------------------------
(* trySend: a connecting socket is tried again later, one that is closing  *)
(* or closed drops the message.                                            *)
TrySend(c, w) ==
    /\ up' = IF link[c] = "open" THEN [up EXCEPT ![c] = Append(@, w)] ELSE up
    /\ retries' = IF link[c] = "connecting" THEN [retries EXCEPT ![c] = Append(@, w)] ELSE retries

(* The timer of a trySend, once the socket is no longer connecting.  Every *)
(* message that waits has its own timer: they leave in any order.          *)
Retry(c) ==
    \E i \in DOMAIN retries[c] :
        /\ link[c] # "connecting"
        /\ retries' = [retries EXCEPT ![c] = RemoveAt(@, i)]
        /\ up' = IF link[c] = "open" THEN [up EXCEPT ![c] = Append(@, retries[c][i])] ELSE up
        /\ UNCHANGED <<book, shutdown, link, conn, down, received, proxy>>

\* send, ask and answer up to the entry in acks or questions.
Post(id, payload) ==
    /\ outcome[id] = "unasked"
    /\ outcome' = [outcome EXCEPT ![id] = "pending"]
    /\ pending' = [pending EXCEPT ![Origin[id]] = @ \cup payload]
    /\ TrySend(Origin[id], Message(id))
    /\ UNCHANGED <<overdue, shutdown, link, conn, down, received, proxy>>

\* A new entry of a Map comes last.
EnterAcks(id) ==
    /\ acks' = acks \cup {id}
    /\ older' = older \cup (OwnAcks(Origin[id]) \X {id})
    /\ UNCHANGED questions

EnterQuestions(q) ==
    /\ questions' = questions \cup {q}
    /\ older' = older \cup (OwnQuestions(Origin[q]) \X {q})

\* Entries that are deleted leave the order of their Map.
Leave(ids) == older' = {e \in older : e[1] \notin ids /\ e[2] \notin ids}

Send(m) == Post(m, {m}) /\ EnterAcks(m)

\* A wrong variant: a question waits for its ACK as a send does.
AskForAck(q) ==
    /\ Post(q, {q})
    /\ EnterQuestions(q)
    /\ acks' = acks \cup {q}

Ask(q) ==
    /\ Post(q, {q})
    /\ EnterQuestions(q)
    /\ UNCHANGED acks

(* The actor system at the target calls the ask callback that came with q, *)
(* with a value or, if void, with undefined or null.                       *)
AnswerQuestion(q, void) ==
    /\ q \in received
    /\ void => AnswerTo[q] \in Void
    /\ Post(AnswerTo[q], IF void THEN {} ELSE {AnswerTo[q]})
    /\ EnterAcks(AnswerTo[q])

-----------------------------------------------------------------------------
\* onmessage: the next message of the connection, of a type.
Arrives(c, w) ==
    /\ link[c] \in {"open", "closing"}
    /\ down[c] # <<>> /\ w = Head(down[c])
    /\ down' = [down EXCEPT ![c] = Tail(@)]
    /\ UNCHANGED <<overdue, shutdown, link, conn, proxy>>

\* A message is acknowledged and given to the actor system.
ReceiveMessage(c) ==
    \E id \in Sends \cup Questions :
        /\ Arrives(c, Message(id))
        /\ received' = received \cup {id}
        /\ TrySend(c, Ack(id))
        /\ UNCHANGED <<acks, questions, older, pending, outcome>>

\* A wrong variant: the payload is forgotten, the entry of acks is not.
ReceiveAckKeeping(c) ==
    \E id \in Ids :
        /\ Arrives(c, Ack(id))
        /\ pending' = [pending EXCEPT ![c] = @ \ {id}]
        /\ outcome' = IF id \in acks THEN [outcome EXCEPT ![id] = "result"] ELSE outcome
        /\ UNCHANGED <<acks, questions, older, received, outgoing>>

(* An ACK resolves the promise of a send or an answer.  For a question, it *)
(* only removes the payload that was kept for the error message.           *)
ReceiveAck(c) ==
    \E id \in Ids :
        /\ Arrives(c, Ack(id))
        /\ acks' = acks \ {id} /\ Leave({id})
        /\ pending' = [pending EXCEPT ![c] = @ \ {id}]
        /\ outcome' = IF id \in acks THEN [outcome EXCEPT ![id] = "result"] ELSE outcome
        /\ UNCHANGED <<questions, received, outgoing>>

\* A wrong variant: the promise is not looked up in questions.
ReceiveAnswerLate(c) ==
    \E q \in Questions :
        /\ Arrives(c, Message(AnswerTo[q]))
        /\ outcome' = [outcome EXCEPT ![q] = "result"]
        /\ questions' = questions \ {q}
        /\ pending' = [pending EXCEPT ![c] = @ \ {AnswerTo[q]}]
        /\ received' = received \cup {AnswerTo[q]}
        /\ TrySend(c, Ack(AnswerTo[q]))
        /\ UNCHANGED <<acks, older>>

(* An answer resolves its question's promise, if that is still open, and   *)
(* is acknowledged.  The payload that is removed is looked up under the    *)
(* answer's id, not the question's.                                        *)
ReceiveAnswer(c) ==
    \E q \in Questions :
        /\ Arrives(c, Message(AnswerTo[q]))
        /\ outcome' = IF q \in questions THEN [outcome EXCEPT ![q] = "result"] ELSE outcome
        /\ questions' = questions \ {q} /\ Leave({q})
        /\ pending' = [pending EXCEPT ![c] = @ \ {AnswerTo[q]}]
        /\ received' = received \cup {AnswerTo[q]}
        /\ TrySend(c, Ack(AnswerTo[q]))
        /\ UNCHANGED acks

(* The entries of a Map that a check finds too old and reports: in order,  *)
(* up to the first one without payload.  DeliveryError looks into the      *)
(* payload and throws there, out of the timer callback.                    *)
Reported(c, late) ==
    {id \in late : \A p \in late : p = id \/ <<p, id>> \in older => p \in pending[c]}

LateAcks(c) == OwnAcks(c) \cap overdue
LostAcks(c) == Reported(c, LateAcks(c))
Rejected(c) ==
    IF LateAcks(c) \subseteq pending[c]
    THEN Reported(c, OwnQuestions(c) \cap overdue) ELSE {}

\* A wrong variant: the promise of a message without ACK is resolved.
HandleTimeoutsResolving(c) ==
    /\ ~shutdown[c]
    /\ acks' = acks \ LateAcks(c)
    /\ pending' = [pending EXCEPT ![c] = @ \ LateAcks(c)]
    /\ outcome' = [id \in Ids |-> IF id \in LateAcks(c) THEN "result" ELSE outcome[id]]
    /\ overdue' = (overdue \cup OwnAcks(c) \cup OwnQuestions(c)) \ LateAcks(c)
    /\ UNCHANGED <<questions, older, shutdown, link, conn, outgoing, down, received, proxy>>

\* A wrong variant: entries without ACK are reported and kept.
HandleTimeoutsKeeping(c) ==
    /\ ~shutdown[c]
    /\ overdue' = overdue \cup OwnAcks(c) \cup OwnQuestions(c)
    /\ UNCHANGED <<acks, questions, older, pending, outcome, shutdown, link, conn, outgoing, down, received, proxy>>

\* A wrong variant: what the peer did not acknowledge or answer is sent again.
HandleTimeoutsResending(c) ==
    /\ ~shutdown[c]
    /\ \E id \in OwnAcks(c) \cup OwnQuestions(c) : TrySend(c, Message(id))
    /\ UNCHANGED <<book, shutdown, link, conn, down, received, proxy>>

\* A wrong variant: entries leave the books before their error is made.
HandleTimeoutsForgetting(c) ==
    /\ ~shutdown[c]
    /\ acks' = acks \ overdue
    /\ questions' = questions \ (OwnQuestions(c) \cap overdue)
    /\ pending' = [pending EXCEPT ![c] = @ \ overdue]
    /\ outcome' = [id \in Ids |-> IF id \in Rejected(c) THEN "error" ELSE outcome[id]]
    /\ overdue' = overdue \cup OwnAcks(c) \cup OwnQuestions(c)
    /\ UNCHANGED <<older, shutdown, link, conn, outgoing, down, received, proxy>>

(* The interval timer.  Deadlines are 5 s away and the timer runs every    *)
(* 5 s: an entry is left alone by the first check and found by the second. *)
(* The promise of a missing ACK is neither resolved nor rejected.          *)
HandleTimeouts(c) ==
    LET gone == LostAcks(c) \cup Rejected(c)
    IN /\ ~shutdown[c]
       /\ acks' = acks \ LostAcks(c)
       /\ questions' = questions \ Rejected(c)
       /\ Leave(gone)
       /\ pending' = [pending EXCEPT ![c] = @ \ gone]
       /\ outcome' = [id \in Ids |-> IF id \in Rejected(c) THEN "error" ELSE outcome[id]]
       /\ overdue' = (overdue \cup OwnAcks(c) \cup OwnQuestions(c)) \ gone
       /\ UNCHANGED <<shutdown, link, conn, outgoing, down, received, proxy>>

-----------------------------------------------------------------------------
(* close(): the check stops, and the socket starts to close.               *)
Close(c) ==
    /\ c \in Closing
    /\ link[c] # "connecting"
    /\ shutdown' = [shutdown EXCEPT ![c] = TRUE]
    /\ link' = IF link[c] = "open" THEN [link EXCEPT ![c] = "closing"] ELSE link
    /\ UNCHANGED <<book, conn, outgoing, down, received, proxy>>

(* The socket closes, or the connection breaks; onclose sets a timer to    *)
(* connect again unless close() was called before.                         *)
Disconnect(c) ==
    /\ link[c] \in {"open", "closing"}
    /\ link' = [link EXCEPT ![c] = IF shutdown[c] THEN "closed" ELSE "lost"]
    /\ up' = [up EXCEPT ![c] = <<>>]
    /\ down' = [down EXCEPT ![c] = <<>>]
    /\ broken' = broken \cup {<<c, conn[c]>>}
    /\ UNCHANGED <<book, shutdown, conn, retries, received, sockets>>

\* That timer calls init; a close() in between does not stop it.
Reconnect(c) ==
    /\ link[c] = "lost" /\ conn[c] < MaxConns
    /\ link' = [link EXCEPT ![c] = "connecting"]
    /\ conn' = [conn EXCEPT ![c] = @ + 1]
    /\ UNCHANGED <<book, shutdown, outgoing, down, received, proxy>>

\* onopen: the client tells the proxy its id first.
Open(c) ==
    /\ link[c] = "connecting"
    /\ link' = [link EXCEPT ![c] = "open"]
    /\ up' = [up EXCEPT ![c] = <<ClientId(c)>>]
    /\ UNCHANGED <<book, shutdown, conn, retries, down, received, proxy>>

-----------------------------------------------------------------------------
\* The proxy's "message" event of a client's id: the socket is registered.
ProxyRegister(c) ==
    /\ up[c] # <<>> /\ Head(up[c]) = ClientId(c)
    /\ up' = [up EXCEPT ![c] = Tail(@)]
    /\ sockets' = [sockets EXCEPT ![c] = conn[c]]
    /\ UNCHANGED <<book, shutdown, link, conn, retries, down, received, broken>>

(* Any other message is forwarded to the socket registered for its target: *)
(* lost if there is none or if that connection is broken.                  *)
ProxyForward(c) ==
    /\ up[c] # <<>> /\ Head(up[c]) # ClientId(c)
    /\ LET w == Head(up[c])
           t == Receiver(w)
       IN down' = IF sockets[t] = conn[t] /\ link[t] \in {"open", "closing"}
                  THEN [down EXCEPT ![t] = Append(@, w)] ELSE down
    /\ up' = [up EXCEPT ![c] = Tail(@)]
    /\ UNCHANGED <<book, shutdown, link, conn, retries, received, proxy>>

\* A wrong variant: the registration is looked up by client.
ProxyCloseClient(c, k) ==
    /\ <<c, k>> \in broken
    /\ broken' = broken \ {<<c, k>>}
    /\ sockets' = [sockets EXCEPT ![c] = 0]
    /\ UNCHANGED <<book, shutdown, link, conn, outgoing, down, received>>

(* The proxy's "close" event of a socket takes out the registration that   *)
(* has this socket; the client may have registered a new one by now.       *)
ProxyClose(c, k) ==
    /\ <<c, k>> \in broken
    /\ broken' = broken \ {<<c, k>>}
    /\ sockets' = IF sockets[c] = k THEN [sockets EXCEPT ![c] = 0] ELSE sockets
    /\ UNCHANGED <<book, shutdown, link, conn, outgoing, down, received>>

(* The proxy's "error" event takes out the first registration that has     *)
(* another socket than the one with the error.                             *)
ProxyError(c, k) ==
    /\ SocketErrors /\ <<c, k>> \in broken
    /\ \E d \in Clients :
        /\ sockets[d] # 0 /\ <<d, sockets[d]>> # <<c, k>>
        /\ sockets' = [sockets EXCEPT ![d] = 0]
    /\ UNCHANGED <<book, shutdown, link, conn, outgoing, down, received, broken>>

-----------------------------------------------------------------------------
\* The state after createClient: the sockets are open.
Init ==
    /\ acks = {} /\ questions = {} /\ older = {}
    /\ overdue = {} /\ received = {} /\ broken = {}
    /\ pending = [c \in Clients |-> {}]
    /\ outcome = [id \in Ids |-> "unasked"]
    /\ shutdown = [c \in Clients |-> FALSE]
    /\ link = [c \in Clients |-> "open"]
    /\ conn = [c \in Clients |-> 1]
    /\ retries = [c \in Clients |-> <<>>]
    /\ up = [c \in Clients |-> <<ClientId(c)>>]
    /\ down = [c \in Clients |-> <<>>]
    /\ sockets = [c \in Clients |-> 0]

Receive(c) == ReceiveMessage(c) \/ ReceiveAck(c) \/ ReceiveAnswer(c)

Proxy(c) == ProxyRegister(c) \/ ProxyForward(c)

Next ==
    \/ \E m \in Sends : Send(m)
    \/ \E q \in Questions : Ask(q) \/ \E void \in BOOLEAN : AnswerQuestion(q, void)
    \/ \E c \in Clients :
        \/ Receive(c) \/ Retry(c) \/ HandleTimeouts(c)
        \/ Close(c) \/ Disconnect(c) \/ Reconnect(c) \/ Open(c)
        \/ Proxy(c)
        \/ \E k \in 1..MaxConns : ProxyClose(c, k) \/ ProxyError(c, k)

Spec == Init /\ [][Next]_vars

(* The interval timer fires while it is set, events on a connection are    *)
(* handled, and an actor system answers every question (its ask timer).    *)
Fairness ==
    /\ \A c \in Clients :
        WF_vars(HandleTimeouts(c)) /\ WF_vars(Receive(c)) /\ WF_vars(Proxy(c))
    /\ \A q \in Questions : WF_vars(\E void \in BOOLEAN : AnswerQuestion(q, void))

FairSpec == Spec /\ Fairness

-----------------------------------------------------------------------------
\* The kinds of values the variables hold.
TypeOK ==
    /\ acks \subseteq Sends \cup Answers
    /\ questions \subseteq Questions /\ older \subseteq Ids \X Ids
    /\ pending \in [Clients -> SUBSET Ids]
    /\ overdue \subseteq Ids /\ received \subseteq Ids
    /\ outcome \in [Ids -> Outcomes]
    /\ shutdown \in [Clients -> BOOLEAN]
    /\ link \in [Clients -> Links]
    /\ conn \in [Clients -> 1..MaxConns]
    /\ retries \in [Clients -> Seq(Wires)]
    /\ up \in [Clients -> Seq(Wires)] /\ down \in [Clients -> Seq(Wires)]
    /\ sockets \in [Clients -> 0..MaxConns]
    /\ broken \subseteq Clients \X (1..MaxConns)

(* Whatever is lost or late, the promise of a message that waits for its   *)
(* ACK is open, and the check can report it: its payload is there, unless  *)
(* it is an answer that has none.                                          *)
AcksArePending ==
    \A id \in acks :
        /\ outcome[id] = "pending"
        /\ id \in pending[Origin[id]] \/ id \in Void

(* A promise of send or answer that resolved means that the target was     *)
(* given the message, and one of ask that it was given the answer.         *)
ResultIsReceived ==
    \A id \in Ids : outcome[id] = "result" =>
        IF id \in Questions THEN {id, AnswerTo[id]} \subseteq received ELSE id \in received

(* A client whose connection is open and whose id arrived on it can be     *)
(* reached: a late "close" event of an earlier connection does not take    *)
(* the registration of the present one.                                    *)
OpenIsReachable ==
    \A c \in Clients :
        link[c] = "open" /\ ~Contains(up[c], ClientId(c)) => sockets[c] = conn[c]

\* A promise settles once: a late ACK or answer changes nothing.
Promise == INSTANCE AskPromise WITH Asks <- Ids
PromiseSpec == Promise!Spec

(* The check throws at some entry of the client, or will: an answer that   *)
(* has no payload, or a question that was acknowledged.                    *)
StuckAtAck(c) == \E id \in OwnAcks(c) : id \notin pending[c]
Stuck(c) == StuckAtAck(c) \/ \E q \in OwnQuestions(c) : q \notin pending[c]

(* The check of a client removes every message without ACK in the end, no  *)
(* matter where its connections broke, unless close() was called or an     *)
(* answer without a payload is not acknowledged.                           *)
AcksLeave ==
    \A id \in Sends \cup Answers :
        id \in acks ~> (id \notin acks \/ shutdown[Origin[id]] \/ StuckAtAck(Origin[id]))

(* A question is answered or rejected in the end, whatever is lost, unless *)
(* close() was called or the check is stuck at some entry.                 *)
UnstuckSettles ==
    \A q \in Questions :
        outcome[q] = "pending" ~>
            (outcome[q] # "pending" \/ shutdown[Origin[q]] \/ Stuck(Origin[q]))

-----------------------------------------------------------------------------
(* What the code does not keep.                                            *)

\* Every message without ACK is removed, also an answer without a value.
EveryAckLeaves ==
    \A id \in Sends \cup Answers : id \in acks ~> (id \notin acks \/ shutdown[Origin[id]])

\* Every question is answered or rejected, unless the client is closed.
QuestionSettles ==
    \A q \in Questions : outcome[q] = "pending" ~> (outcome[q] # "pending" \/ shutdown[Origin[q]])
=============================================================================
