----------------------- MODULE DistributedSystemProofs -----------------------
(***************************************************************************)
(* Proofs about DistributedSystem, for any systems and messages.  What     *)
(* SocketMessagesProofs shows of the clients and the proxy is used here:   *)
(* a step of the systems is one of SocketMessages or leaves it alone.      *)
(***************************************************************************)
EXTENDS DistributedSystem, TLAPS

P == INSTANCE SocketMessagesProofs

LEMMA SocketAssumptionHolds == P!SocketConstants
BY DistributedAssumption DEF Socket!SocketConstants, P!SocketConstants, Socket!Ids, P!Ids

\* The definitions of the two instances of SocketMessages agree.
LEMMA SameNames ==
    /\ Socket!Ids = P!Ids /\ Socket!Wires = P!Wires
    /\ \A id : Socket!Message(id) = P!Message(id) /\ Socket!Ack(id) = P!Ack(id)
    /\ Socket!vars = P!vars
    /\ Socket!book = P!book /\ Socket!proxy = P!proxy /\ Socket!outgoing = P!outgoing
BY DEF Socket!Ids, P!Ids, Socket!Wires, P!Wires, Socket!Message, P!Message, Socket!Ack, P!Ack,
       Socket!vars, P!vars, Socket!book, P!book, Socket!proxy, P!proxy, Socket!outgoing, P!outgoing

LEMMA SameInit == Socket!Init <=> P!Init
BY DEF Socket!Init, P!Init, Socket!ClientId, P!ClientId, Socket!Ids, P!Ids

LEMMA SameType == Socket!TypeOK <=> P!TypeOK
BY DEF Socket!TypeOK, P!TypeOK, Socket!Ids, P!Ids, Socket!Wires, P!Wires, Socket!Outcomes,
       P!Outcomes, Socket!Links, P!Links

LEMMA SamePost ==
    \A id, payload : Socket!Post(id, payload) <=> P!Post(id, payload)
BY DEF Socket!Post, P!Post, Socket!TrySend, P!TrySend, Socket!proxy, P!proxy, Socket!Message, P!Message

LEMMA SameSends ==
    /\ \A m : Socket!Send(m) <=> P!Send(m)
    /\ \A q : Socket!Ask(q) <=> P!Ask(q)
    /\ \A q, void : Socket!AnswerQuestion(q, void) <=> P!AnswerQuestion(q, void)
BY SamePost
DEF Socket!Send, P!Send, Socket!Ask, P!Ask, Socket!AnswerQuestion, P!AnswerQuestion,
    Socket!EnterAcks, P!EnterAcks, Socket!EnterQuestions, P!EnterQuestions,
    Socket!OwnAcks, P!OwnAcks, Socket!OwnQuestions, P!OwnQuestions

LEMMA SameArrives == \A c, w : Socket!Arrives(c, w) <=> P!Arrives(c, w)
BY DEF Socket!Arrives, P!Arrives, Socket!proxy, P!proxy

LEMMA SameReceives ==
    \A c : /\ Socket!ReceiveMessage(c) <=> P!ReceiveMessage(c)
           /\ Socket!ReceiveAck(c) <=> P!ReceiveAck(c)
           /\ Socket!ReceiveAnswer(c) <=> P!ReceiveAnswer(c)
           /\ Socket!HandleTimeouts(c) <=> P!HandleTimeouts(c)
<1>1. \A c : Socket!ReceiveMessage(c) <=> P!ReceiveMessage(c)
  BY DEF Socket!ReceiveMessage, P!ReceiveMessage, Socket!Arrives, P!Arrives, Socket!TrySend, P!TrySend, Socket!proxy, P!proxy, Socket!Message, P!Message, Socket!Ack, P!Ack
<1>2. \A c : Socket!ReceiveAck(c) <=> P!ReceiveAck(c)
  BY DEF Socket!ReceiveAck, P!ReceiveAck, Socket!Arrives, P!Arrives, Socket!Leave, P!Leave, Socket!proxy, P!proxy, Socket!outgoing, P!outgoing, Socket!Ids, P!Ids, Socket!Message, P!Message, Socket!Ack, P!Ack
<1>3. \A c : Socket!ReceiveAnswer(c) <=> P!ReceiveAnswer(c)
  BY DEF Socket!ReceiveAnswer, P!ReceiveAnswer, Socket!Arrives, P!Arrives, Socket!Leave, P!Leave, Socket!TrySend, P!TrySend, Socket!proxy, P!proxy, Socket!Message, P!Message, Socket!Ack, P!Ack
<1>4. \A c : Socket!HandleTimeouts(c) <=> P!HandleTimeouts(c)
  BY DEF Socket!HandleTimeouts, P!HandleTimeouts, Socket!LostAcks, P!LostAcks, Socket!Rejected, P!Rejected, Socket!LateAcks, P!LateAcks, Socket!Reported, P!Reported, Socket!OwnAcks, P!OwnAcks, Socket!OwnQuestions, P!OwnQuestions, Socket!Leave, P!Leave, Socket!proxy, P!proxy, Socket!outgoing, P!outgoing, Socket!Ids, P!Ids
<1> QED
  BY <1>1, <1>2, <1>3, <1>4

LEMMA SameLinks ==
    \A c : /\ Socket!Retry(c) <=> P!Retry(c)
           /\ Socket!Close(c) <=> P!Close(c)
           /\ Socket!Disconnect(c) <=> P!Disconnect(c)
           /\ Socket!Reconnect(c) <=> P!Reconnect(c)
           /\ Socket!Open(c) <=> P!Open(c)
<1>1. \A c : Socket!Retry(c) <=> P!Retry(c)
  BY DEF Socket!Retry, P!Retry, Socket!RemoveAt, P!RemoveAt, Socket!book, P!book, Socket!proxy, P!proxy
<1>2. \A c : Socket!Close(c) <=> P!Close(c)
  BY DEF Socket!Close, P!Close, Socket!book, P!book, Socket!proxy, P!proxy, Socket!outgoing, P!outgoing
<1>3. \A c : Socket!Disconnect(c) <=> P!Disconnect(c)
  BY DEF Socket!Disconnect, P!Disconnect, Socket!book, P!book
<1>4. \A c : Socket!Reconnect(c) <=> P!Reconnect(c)
  BY DEF Socket!Reconnect, P!Reconnect, Socket!book, P!book, Socket!proxy, P!proxy, Socket!outgoing, P!outgoing
<1>5. \A c : Socket!Open(c) <=> P!Open(c)
  BY DEF Socket!Open, P!Open, Socket!ClientId, P!ClientId, Socket!book, P!book, Socket!proxy, P!proxy
<1> QED
  BY <1>1, <1>2, <1>3, <1>4, <1>5

LEMMA SameProxy ==
    \A c : /\ Socket!Proxy(c) <=> P!Proxy(c)
<1>1. \A c : Socket!Proxy(c) <=> P!Proxy(c)
  BY DEF Socket!Proxy, P!Proxy, Socket!ProxyRegister, P!ProxyRegister, Socket!ProxyForward, P!ProxyForward, Socket!Receiver, P!Receiver, Socket!ClientId, P!ClientId, Socket!book, P!book, Socket!proxy, P!proxy
<1> QED
  BY <1>1

LEMMA SameBreaks ==
    \A c, k : /\ Socket!ProxyClose(c, k) <=> P!ProxyClose(c, k)
              /\ Socket!ProxyError(c, k) <=> P!ProxyError(c, k)
BY DEF Socket!ProxyClose, P!ProxyClose, Socket!ProxyError, P!ProxyError, Socket!book, P!book, Socket!outgoing, P!outgoing

\* Every step of the systems is a step of SocketMessages or a stutter.
LEMMA SocketStep ==
    ASSUME [Next]_vars
    PROVE  P!Next \/ UNCHANGED socket
<1>0. \A q \in Questions, void \in BOOLEAN : Socket!AnswerQuestion(q, void) => P!Next
  BY SameSends DEF P!Next
<1>1. ASSUME NEW q \in Questions, Ask(q) \/ DeadlineFires(q) PROVE P!Next \/ UNCHANGED socket
  BY <1>0, <1>1, SameSends DEF Ask, DeadlineFires, P!Next
<1>2. ASSUME NEW m \in Sends, Send(m) PROVE P!Next
  BY <1>2, SameSends DEF Send, P!Next
<1>3. ASSUME NEW id \in Msgs, ReceiveReturns(id) \/ ReceiveRejects(id)
      PROVE  P!Next \/ UNCHANGED socket
  BY <1>0, <1>3 DEF ReceiveReturns, ReceiveRejects
<1>4. ASSUME NEW c \in Clients,
             ReceiveMessage(c) \/ ReceiveAnswer(c) \/ HandleTimeouts(c) \/ Shutdown(c)
      PROVE  P!Next
  BY <1>4, SameReceives, SameLinks
     DEF ReceiveMessage, ReceiveAnswer, HandleTimeouts, Shutdown, P!Next, P!Receive
<1>5. ASSUME NEW c \in Clients, StopInbox(c) PROVE UNCHANGED socket
  BY <1>5 DEF StopInbox
<1>6. ASSUME NEW c \in Clients, Transport(c) PROVE P!Next
  BY <1>6, SameReceives, SameLinks, SameProxy, SameBreaks DEF Transport, P!Next, P!Receive
<1>7. CASE UNCHANGED vars
  BY <1>7 DEF vars
<1> QED
  BY <1>1, <1>2, <1>3, <1>4, <1>5, <1>6, <1>7 DEF Next

(* The composed systems do with their sockets what SocketMessages allows:  *)
(* what is shown of the clients and the proxy holds inside the systems.    *)
THEOREM ImplementsSockets == Spec => P!Spec
<1>1. Init => P!Init
  BY SameInit DEF Init
<1>2. [Next]_vars => [P!Next]_(P!vars)
  BY SocketStep DEF socket, P!vars
<1> QED
  BY <1>1, <1>2, PTL DEF Spec, P!Spec

-----------------------------------------------------------------------------
(* The inductive invariant, on top of that of the sockets.                 *)

\* The asking system hands on what is still open at its client.
PendingAsked == \A q \in Questions : answer[q] = "pending" => outcome[q] = "pending"

\* What the inbox was given was delivered.
GivenIsReceived == \A id \in Msgs : at[id] # "away" => id \in received

\* A shutdown closes the client first.
ShutdownCloses == \A c \in Clients : phase[c] # "running" => shutdown[c]

\* A message that a stopped inbox refused is not acknowledged by a closing socket.
DroppedIsSilent ==
    \A m \in Sends : at[m] = "dropped" /\ conn[Target[m]] = 1 =>
        outcome[m] # "result" /\ P!NoAck(m)

Local ==
    /\ phase \in [Clients -> {"running", "disconnected", "stopped"}]
    /\ at \in [Msgs -> Places]
    /\ deadline \in [Questions -> {"none", "armed", "fired", "cleared"}]
    /\ answer \in [Questions -> {"unasked", "refused", "pending", "result", "error"}]

IInv ==
    /\ P!IInv /\ P!Closed /\ Local
    /\ PendingAsked /\ GivenIsReceived /\ ShutdownCloses /\ DroppedIsSilent

LEMMA SocketTypes ==
    ASSUME P!IInv
    PROVE  /\ outcome \in [P!Ids -> P!Outcomes] /\ received \subseteq P!Ids
           /\ questions \subseteq Questions /\ link \in [Clients -> P!Links]
           /\ \A q \in Questions : q \in questions <=> outcome[q] = "pending"
           /\ P!ResultIsReceived /\ P!TypeOK
BY DEF P!IInv, P!TypeOK, P!Books

LEMMA Names ==
    /\ Sends \subseteq P!Ids /\ Questions \subseteq P!Ids /\ Msgs \subseteq P!Ids
    /\ \A id \in P!Ids : Origin[id] \in Clients /\ Target[id] \in Clients
    /\ Sends \cap Questions = {}
BY P!Constants, SocketAssumptionHolds DEF Msgs

\* A message that arrives is new, at its target, and given to the inbox.
LEMMA Given ==
    ASSUME IInv, NEW c \in Clients, ReceiveMessage(c)
    PROVE  \E id \in Msgs :
              /\ Target[id] = c /\ id \notin received /\ received' = received \cup {id}
              /\ P!Arrives(c, P!Message(id)) /\ P!TrySend(c, P!Ack(id))
              /\ Give(c, id) /\ UNCHANGED <<outcome, conn, link, shutdown, phase, answer>>
<1>1. P!ReceiveMessage(c) /\ Give(c, Head(down[c]).id) /\ UNCHANGED <<phase, answer>>
  BY SameReceives DEF ReceiveMessage
<1>2. PICK id \in Msgs :
        /\ P!Arrives(c, P!Message(id)) /\ received' = received \cup {id}
        /\ P!TrySend(c, P!Ack(id)) /\ outcome' = outcome
  BY <1>1 DEF P!ReceiveMessage, Msgs
<1>3. id \in P!Ids
  BY Names
<1>4. Target[id] = c /\ id \notin received
  BY <1>2, <1>3, P!ArrivingMessage, SocketAssumptionHolds DEF IInv
<1>5. Head(down[c]).id = id /\ UNCHANGED <<conn, link, shutdown>>
  BY <1>2, <1>3, P!WireForms, SocketAssumptionHolds DEF P!Arrives
<1> QED
  BY <1>1, <1>2, <1>4, <1>5

\* What a step may do to a message at its target.
LEMMA Placed ==
    ASSUME IInv, [Next]_vars, NEW id \in Msgs
    PROVE  \/ at'[id] = at[id]
           \/ at[id] = "receiving" /\ at'[id] \in {"handled", "failed"}
           \/ /\ id \notin received /\ id \in received'
              /\ at'[id] = IF phase[Target[id]] = "stopped" THEN "dropped" ELSE "receiving"
              /\ ReceiveMessage(Target[id])
<1>t. at \in [Msgs -> Places]
  BY DEF IInv, Local
<1>1. ASSUME NEW q \in Questions, Ask(q) \/ DeadlineFires(q) PROVE at' = at
  BY <1>1 DEF Ask, DeadlineFires
<1>2. ASSUME NEW m \in Sends, Send(m) PROVE at' = at
  BY <1>2 DEF Send, Quiet
<1>3. ASSUME NEW i \in Msgs, ReceiveReturns(i) \/ ReceiveRejects(i)
      PROVE  at'[id] = at[id] \/ (at[id] = "receiving" /\ at'[id] \in {"handled", "failed"})
  BY <1>3, <1>t DEF ReceiveReturns, ReceiveRejects
<1>4. ASSUME NEW c \in Clients,
             ReceiveAnswer(c) \/ HandleTimeouts(c) \/ Shutdown(c) \/ StopInbox(c) \/ Transport(c)
      PROVE  at' = at
  BY <1>4 DEF ReceiveAnswer, HandleTimeouts, Shutdown, StopInbox, Transport, Quiet
<1>5. ASSUME NEW c \in Clients, ReceiveMessage(c)
      PROVE  \/ at'[id] = at[id]
             \/ /\ id \notin received /\ id \in received' /\ c = Target[id]
                /\ at'[id] = IF phase[c] = "stopped" THEN "dropped" ELSE "receiving"
  BY <1>5, <1>t, Given DEF Give
<1>6. CASE UNCHANGED vars
  BY <1>6 DEF vars
<1> QED
  BY <1>1, <1>2, <1>3, <1>4, <1>5, <1>6 DEF Next

\* Two ways for a step to change the promises of asks: one is asked, or some settle.
LEMMA Answered ==
    ASSUME IInv, [Next]_vars
    PROVE  \/ \E q \in Questions : Ask(q)
           \/ HandOn
           \/ answer' = answer /\ \A q \in Questions : outcome[q] = "pending" => outcome'[q] = "pending"
<1> DEFINE Kept == \A q \in Questions : outcome[q] = "pending" => outcome'[q] = "pending"
<1>t. /\ outcome \in [P!Ids -> P!Outcomes] /\ acks \cap Questions = {}
      /\ Questions \subseteq P!Ids
  BY Names, P!Constants, SocketAssumptionHolds DEF IInv, P!IInv, P!TypeOK
<1>0. ASSUME NEW id, NEW payload, P!Post(id, payload) PROVE Kept
  BY <1>0, <1>t DEF P!Post
<1>a. ASSUME NEW q \in Questions, NEW void, Socket!AnswerQuestion(q, void) PROVE Kept
  BY <1>0, <1>a, SameSends DEF P!AnswerQuestion
<1>s. ASSUME UNCHANGED socket PROVE Kept
  BY <1>s DEF socket
<1>1. ASSUME NEW q \in Questions, DeadlineFires(q) PROVE answer' = answer /\ Kept
  BY <1>1, <1>a DEF DeadlineFires
<1>2. ASSUME NEW m \in Sends, Send(m) PROVE answer' = answer /\ Kept
  BY <1>2, <1>0, SameSends DEF Send, Quiet, P!Send
<1>3. ASSUME NEW i \in Msgs, ReceiveReturns(i) \/ ReceiveRejects(i) PROVE answer' = answer /\ Kept
  BY <1>3, <1>a, <1>s DEF ReceiveReturns, ReceiveRejects, socket
<1>4. ASSUME NEW c \in Clients, ReceiveMessage(c) PROVE answer' = answer /\ Kept
  BY <1>4, Given
<1>5. ASSUME NEW c \in Clients, ReceiveAnswer(c) \/ HandleTimeouts(c) PROVE HandOn
  BY <1>5 DEF ReceiveAnswer, HandleTimeouts
<1>6. ASSUME NEW c \in Clients, Shutdown(c) \/ StopInbox(c) PROVE answer' = answer /\ Kept
  BY <1>6, <1>s, SameLinks DEF Shutdown, StopInbox, P!Close, P!book
<1>7. ASSUME NEW c \in Clients, P!ReceiveAck(c) PROVE Kept
  BY <1>7, <1>t DEF P!ReceiveAck
<1>8. ASSUME NEW c \in Clients,
             P!Retry(c) \/ P!Disconnect(c) \/ P!Open(c) \/ P!Proxy(c) \/ P!Reconnect(c)
                 \/ \E k \in 1..MaxConns : P!ProxyClose(c, k) \/ P!ProxyError(c, k)
      PROVE  Kept
  BY <1>8 DEF P!Retry, P!Disconnect, P!Open, P!Proxy, P!Reconnect, P!ProxyClose, P!ProxyError,
              P!ProxyRegister, P!ProxyForward, P!book
<1>9. ASSUME NEW c \in Clients, Transport(c) PROVE answer' = answer /\ Kept
  BY <1>7, <1>8, <1>9, SameReceives, SameLinks, SameProxy, SameBreaks DEF Transport, Quiet
<1>10. CASE UNCHANGED vars
  BY <1>10, <1>s DEF vars, socket
<1> QED
  BY <1>1, <1>2, <1>3, <1>4, <1>5, <1>6, <1>9, <1>10 DEF Next

-----------------------------------------------------------------------------
(* Every part of the invariant is kept.                                    *)

LEMMA LocalStep ==
    ASSUME IInv, [Next]_vars
    PROVE  Local'
<1> USE DEF IInv, Local
<1>1. at' \in [Msgs -> Places] /\ deadline' \in [Questions -> {"none", "armed", "fired", "cleared"}]
  <2>1. ASSUME NEW c \in Clients, ReceiveMessage(c)
        PROVE  at' \in [Msgs -> Places] /\ deadline' \in [Questions -> {"none", "armed", "fired", "cleared"}]
    BY <2>1, Given DEF Give, Places
  <2>2. ASSUME NEW q \in Questions, Ask(q) \/ DeadlineFires(q)
        PROVE  at' \in [Msgs -> Places] /\ deadline' \in [Questions -> {"none", "armed", "fired", "cleared"}]
    BY <2>2 DEF Ask, DeadlineFires
  <2>3. ASSUME NEW id \in Msgs, ReceiveReturns(id) \/ ReceiveRejects(id)
        PROVE  at' \in [Msgs -> Places] /\ deadline' \in [Questions -> {"none", "armed", "fired", "cleared"}]
    BY <2>3 DEF ReceiveReturns, ReceiveRejects, Places
  <2>4. ASSUME NEW m, Send(m) PROVE UNCHANGED <<at, deadline>>
    BY <2>4 DEF Send, Quiet
  <2>5. ASSUME NEW c, ReceiveAnswer(c) \/ HandleTimeouts(c) \/ Shutdown(c) \/ StopInbox(c) \/ Transport(c)
        PROVE  UNCHANGED <<at, deadline>>
    BY <2>5 DEF ReceiveAnswer, HandleTimeouts, Shutdown, StopInbox, Transport, Quiet
  <2>6. CASE UNCHANGED vars
    BY <2>6 DEF vars
  <2> QED
    BY <2>1, <2>2, <2>3, <2>4, <2>5, <2>6 DEF Next
<1>2. answer' \in [Questions -> {"unasked", "refused", "pending", "result", "error"}]
  BY Answered DEF Ask, HandOn
<1>3. phase' \in [Clients -> {"running", "disconnected", "stopped"}]
  <2>1. ASSUME NEW c \in Clients, Shutdown(c) \/ StopInbox(c)
        PROVE  phase' \in [Clients -> {"running", "disconnected", "stopped"}]
    BY <2>1 DEF Shutdown, StopInbox
  <2>2. ASSUME NEW c, ReceiveMessage(c) \/ ReceiveAnswer(c) \/ HandleTimeouts(c) \/ Transport(c)
        PROVE  phase' = phase
    BY <2>2 DEF ReceiveMessage, ReceiveAnswer, HandleTimeouts, Transport, Quiet
  <2>3. ASSUME NEW m, Ask(m) \/ DeadlineFires(m) \/ Send(m) \/ ReceiveReturns(m) \/ ReceiveRejects(m)
        PROVE  phase' = phase
    BY <2>3 DEF Ask, DeadlineFires, Send, Quiet, ReceiveReturns, ReceiveRejects
  <2>4. CASE UNCHANGED vars
    BY <2>4 DEF vars
  <2> QED
    BY <2>1, <2>2, <2>3, <2>4 DEF Next
<1> QED
  BY <1>1, <1>2, <1>3

LEMMA PendingAskedStep ==
    ASSUME IInv, [Next]_vars
    PROVE  PendingAsked'
<1> SUFFICES ASSUME NEW q \in Questions, answer'[q] = "pending" PROVE outcome'[q] = "pending"
  BY DEF PendingAsked
<1>t. /\ answer \in [Questions -> {"unasked", "refused", "pending", "result", "error"}]
      /\ outcome \in [P!Ids -> P!Outcomes] /\ Questions \subseteq P!Ids
  BY Names, SocketTypes DEF IInv, Local
<1>1. CASE answer' = answer /\ \A p \in Questions : outcome[p] = "pending" => outcome'[p] = "pending"
  BY <1>1 DEF IInv, PendingAsked
<1>2. ASSUME NEW p \in Questions, Ask(p) PROVE outcome'[q] = "pending"
  <2>1. CASE UNCHANGED socket /\ answer' = [answer EXCEPT ![p] = "refused"]
    BY <1>t, <2>1 DEF socket, IInv, PendingAsked
  <2>2. CASE P!Ask(p) /\ answer' = [answer EXCEPT ![p] = "pending"]
    <3>1. outcome' = [outcome EXCEPT ![p] = "pending"]
      BY <2>2 DEF P!Ask, P!Post
    <3>2. p = q \/ answer[q] = "pending"
      BY <1>t, <2>2
    <3> QED
      BY <1>t, <3>1, <3>2 DEF IInv, PendingAsked
  <2> QED
    BY <1>2, <2>1, <2>2, SameSends DEF Ask
<1>3. CASE HandOn
  <2>1. answer[q] = "pending" /\ outcome'[q] \notin {"result", "error"}
    BY <1>3, <1>t DEF HandOn
  <2>2. outcome[q] = "pending"
    BY <2>1 DEF IInv, PendingAsked
  <2>3. outcome'[q] # "unasked" /\ outcome' \in [P!Ids -> P!Outcomes]
    <3>1. P!Next \/ UNCHANGED P!vars
      BY SocketStep DEF socket, P!vars
    <3>2. outcome'[q] # "unasked"
      BY <1>t, <2>2, <3>1, P!OutcomeStays, SocketAssumptionHolds, SocketTypes DEF IInv
    <3>3. P!TypeOK'
      BY <3>1, P!TypeStep, SocketAssumptionHolds, SocketTypes DEF IInv
    <3> QED
      BY <3>2, <3>3 DEF P!TypeOK
  <2> QED
    BY <1>t, <2>1, <2>3 DEF P!Outcomes
<1> QED
  BY <1>1, <1>2, <1>3, Answered

LEMMA ReceivedGrows == ASSUME IInv, [Next]_vars PROVE received \subseteq received'
<1>1. ASSUME NEW id, NEW payload, P!Post(id, payload) PROVE received' = received
  BY <1>1 DEF P!Post
<1>2. P!Next => received \subseteq received'
  <2>1. ASSUME NEW c \in Clients,
               P!Receive(c) \/ P!Retry(c) \/ P!HandleTimeouts(c) \/ P!Close(c) \/ P!Disconnect(c)
                 \/ P!Reconnect(c) \/ P!Open(c) \/ P!Proxy(c)
        PROVE  received \subseteq received'
    BY <2>1 DEF P!Receive, P!ReceiveMessage, P!ReceiveAck, P!ReceiveAnswer, P!Retry,
                P!HandleTimeouts, P!Close, P!Disconnect, P!Reconnect, P!Open, P!Proxy,
                P!ProxyRegister, P!ProxyForward
  <2>2. ASSUME NEW c, NEW k, P!ProxyClose(c, k) \/ P!ProxyError(c, k) PROVE received' = received
    BY <2>2 DEF P!ProxyClose, P!ProxyError
  <2>3. ASSUME NEW m, P!Send(m) \/ P!Ask(m) \/ \E void \in BOOLEAN : P!AnswerQuestion(m, void)
        PROVE  received' = received
    BY <1>1, <2>3 DEF P!Send, P!Ask, P!AnswerQuestion
  <2> QED
    BY <2>1, <2>2, <2>3 DEF P!Next
<1> QED
  BY <1>2, SocketStep DEF socket

LEMMA ShutdownClosesStep ==
    ASSUME IInv, [Next]_vars
    PROVE  ShutdownCloses'
<1> SUFFICES ASSUME NEW c \in Clients, phase'[c] # "running" PROVE shutdown'[c]
  BY DEF ShutdownCloses
<1>t. /\ phase \in [Clients -> {"running", "disconnected", "stopped"}]
      /\ shutdown \in [Clients -> BOOLEAN]
  BY DEF IInv, Local, P!IInv, P!TypeOK
<1>1. phase[c] # "running" => shutdown[c]
  BY DEF IInv, ShutdownCloses
<1>2. ASSUME NEW d \in Clients, Shutdown(d) PROVE shutdown'[c]
  BY <1>1, <1>2, <1>t, SameLinks DEF Shutdown, P!Close
<1>3. ASSUME NEW d \in Clients, StopInbox(d) PROVE shutdown'[c]
  BY <1>1, <1>3, <1>t DEF StopInbox, socket
<1>4. CASE phase' = phase
  <2>1. shutdown[c]
    BY <1>1, <1>4
  <2>2. CASE P!Next
    <3>1. ASSUME NEW d \in Clients, P!Close(d) PROVE shutdown'[c]
      BY <1>t, <2>1, <3>1 DEF P!Close
    <3>2. ASSUME NEW d \in Clients, P!Disconnect(d) \/ P!Reconnect(d) \/ P!Open(d)
          PROVE  shutdown' = shutdown
      BY <3>2 DEF P!Disconnect, P!Reconnect, P!Open
    <3>3. ASSUME NEW d \in Clients, NEW k \in 1..MaxConns, P!ProxyClose(d, k)
          PROVE  shutdown' = shutdown
      BY <3>3 DEF P!ProxyClose
    <3> QED
      BY <2>1, <2>2, <3>1, <3>2, <3>3, P!LinksStay, SocketAssumptionHolds
  <2>3. CASE UNCHANGED socket
    BY <2>1, <2>3 DEF socket
  <2> QED
    BY <2>2, <2>3, SocketStep
<1>5. ASSUME NEW d, ReceiveMessage(d) \/ ReceiveAnswer(d) \/ HandleTimeouts(d) \/ Transport(d)
      PROVE  phase' = phase
  BY <1>5 DEF ReceiveMessage, ReceiveAnswer, HandleTimeouts, Transport, Quiet
<1>6. ASSUME NEW m, Ask(m) \/ DeadlineFires(m) \/ Send(m) \/ ReceiveReturns(m) \/ ReceiveRejects(m)
      PROVE  phase' = phase
  BY <1>6 DEF Ask, DeadlineFires, Send, Quiet, ReceiveReturns, ReceiveRejects
<1>7. UNCHANGED vars => phase' = phase
  BY DEF vars
<1> QED
  BY <1>2, <1>3, <1>4, <1>5, <1>6, <1>7 DEF Next

\* A stopped inbox refuses a message: no ACK leaves its socket, which is closing.
LEMMA RefusedIsSilent ==
    ASSUME IInv, NEW m \in Sends, ReceiveMessage(Target[m]), phase[Target[m]] = "stopped",
           conn[Target[m]] = 1, m \notin received, m \in received'
    PROVE  outcome'[m] # "result" /\ P!NoAck(m)'
<1> DEFINE c == Target[m]
<1>n. m \in P!Ids /\ c \in Clients /\ m \notin Questions
  BY Names
<1>1. PICK id \in Msgs :
        /\ received' = received \cup {id} /\ P!Arrives(c, P!Message(id))
        /\ P!TrySend(c, P!Ack(id)) /\ outcome' = outcome
  BY <1>n, Given
<1>2. outcome'[m] # "result"
  BY <1>n, <1>1, SocketTypes DEF IInv, P!ResultIsReceived
<1>3. link[c] \notin {"open", "connecting"}
  BY <1>n DEF IInv, ShutdownCloses, P!Closed
<1>4. up' = up /\ retries' = retries
  BY <1>1, <1>3 DEF P!TrySend
<1>5. P!Dequeued(down, down', c, P!Message(id))
  BY <1>n, <1>1, P!ArrivesEffect, SocketAssumptionHolds, SocketTypes DEF IInv
<1>6. P!NoAck(m)
  <2>1. P!Routes
    BY DEF IInv, P!IInv
  <2> QED
    BY <1>n, <2>1 DEF P!Routes, P!NoAck
<1>7. P!NoAck(m)'
  BY <1>4, <1>5, <1>6 DEF P!NoAck, P!Dequeued, P!Ack
<1> QED
  BY <1>2, <1>7

LEMMA DroppedIsSilentStep ==
    ASSUME IInv, [Next]_vars
    PROVE  DroppedIsSilent'
<1> SUFFICES ASSUME NEW m \in Sends, at'[m] = "dropped", conn'[Target[m]] = 1
             PROVE  outcome'[m] # "result" /\ P!NoAck(m)'
  BY DEF DroppedIsSilent
<1>n. m \in P!Ids /\ m \in Msgs /\ Target[m] \in Clients
  BY Names DEF Msgs
<1>s. [P!Next]_(P!vars)
  BY SocketStep DEF socket, P!vars
<1>1. conn[Target[m]] = 1
  BY <1>n, <1>s, P!ConnGrows, SocketAssumptionHolds, SocketTypes DEF IInv
<1>2. CASE at[m] = "dropped"
  <2>1. outcome[m] # "result" /\ P!NoAck(m) /\ m \in received
    BY <1>1, <1>2, <1>n DEF IInv, DroppedIsSilent, GivenIsReceived
  <2> QED
    BY <1>n, <1>s, <2>1, P!NoAckStep, P!OnlyAckResolves, SocketAssumptionHolds DEF IInv
<1>3. CASE at[m] # "dropped"
  BY <1>1, <1>3, <1>n, Placed, RefusedIsSilent
<1> QED
  BY <1>2, <1>3

LEMMA StepIInv == IInv /\ [Next]_vars => IInv'
<1> SUFFICES ASSUME IInv, [Next]_vars PROVE IInv'
  OBVIOUS
<1>1. P!IInv' /\ P!Closed'
  <2>1. [P!Next]_(P!vars)
    BY SocketStep DEF socket, P!vars
  <2> QED
    BY <2>1, P!StepIInv, P!ClosedStep, SocketAssumptionHolds, SocketTypes DEF IInv
<1>2. GivenIsReceived'
  <2> SUFFICES ASSUME NEW id \in Msgs, at'[id] # "away" PROVE id \in received'
    BY DEF GivenIsReceived
  <2> QED
    BY Placed, ReceivedGrows DEF IInv, GivenIsReceived
<1> QED
  BY <1>1, <1>2, LocalStep, PendingAskedStep, ShutdownClosesStep, DroppedIsSilentStep DEF IInv

LEMMA InitIInv == Init => IInv
<1> SUFFICES ASSUME Init PROVE IInv
  OBVIOUS
<1>1. P!Init
  BY SameInit DEF Init
<1>2. P!IInv
  BY <1>1, P!InitIInv, SocketAssumptionHolds
<1>3. P!Closed
  BY <1>1 DEF P!Init, P!Closed
<1>4. Local /\ PendingAsked /\ GivenIsReceived /\ ShutdownCloses /\ DroppedIsSilent
  BY DEF Init, Local, Places, PendingAsked, GivenIsReceived, ShutdownCloses, DroppedIsSilent, Msgs
<1> QED
  BY <1>2, <1>3, <1>4 DEF IInv

LEMMA Invariance == Spec => []IInv
BY InitIInv, StepIInv, PTL DEF Spec

-----------------------------------------------------------------------------
\* The variables keep their types, at the sockets and in the systems.
THEOREM TypeCorrect == Spec => []TypeOK
<1>1. IInv => TypeOK
  BY SameType, SocketTypes DEF IInv, Local, TypeOK
<1> QED
  BY Invariance, <1>1, PTL

(* A promise of ask() that is pending has its question in the client of    *)
(* the asking system: remoteSubscription, answers and timeouts never lose  *)
(* one, for any number of questions and whatever breaks.                   *)
THEOREM PendingStaysOpen == Spec => []PendingIsOpen
<1>1. IInv => PendingIsOpen
  BY SocketTypes DEF IInv, PendingAsked, PendingIsOpen
<1> QED
  BY Invariance, <1>1, PTL

(* A system in a shutdown acknowledges no message that its inbox refuses,  *)
(* as long as its client did not connect again after close().              *)
THEOREM AckMeansTaken == Spec => []AckedIsTaken
<1>1. IInv => AckedIsTaken
  BY DEF IInv, DroppedIsSilent, AckedIsTaken
<1> QED
  BY Invariance, <1>1, PTL

\* No message is given to a target twice, on whatever connection it comes.
THEOREM ReceivedOnce == Spec => AtMostOnce
<1>1. IInv /\ [Next]_vars =>
        [\A id \in Msgs : at[id] # "away" => at'[id] \in {at[id], "handled", "failed"}]_vars
  BY Placed DEF IInv, GivenIsReceived
<1> QED
  BY Invariance, <1>1, PTL DEF Spec, AtMostOnce

\* What the closing socket of a stopped system delivers starts no receive.
THEOREM StoppedReceivesNothing == Spec => NothingAfterStop
<1>1. IInv /\ [Next]_vars =>
        [\A id \in Msgs :
            phase[Target[id]] = "stopped" /\ at[id] # "receiving" => at'[id] # "receiving"]_vars
  BY Placed
<1> QED
  BY Invariance, <1>1, PTL DEF Spec, NothingAfterStop

(* What is handed on in a step settles with one outcome.                   *)
LEMMA HandedOn ==
    ASSUME IInv, [Next]_vars, HandOn
    PROVE  Promise!AskNext
<1> DEFINE settled == {q \in Questions : answer[q] = "pending" /\ outcome'[q] \in {"result", "error"}}
<1>t. /\ answer \in [Questions -> {"unasked", "refused", "pending", "result", "error"}]
      /\ outcome \in [P!Ids -> P!Outcomes] /\ Questions \subseteq P!Ids
  BY Names, SocketTypes DEF IInv, Local
<1>1. PICK r \in {"result", "error"} : \A q \in settled : outcome'[q] = r
  <2>p. \A q \in settled : outcome[q] = "pending" /\ outcome'[q] # "pending"
    BY DEF IInv, PendingAsked
  <2>1. P!Promise!AskNext \/ outcome' = outcome
    <3>1. [P!Next]_(P!vars)
      BY SocketStep DEF socket, P!vars
    <3> QED
      BY <3>1, P!PromiseStep, SocketAssumptionHolds DEF IInv
  <2>2. ASSUME NEW m \in P!Ids, P!Promise!Ask(m) PROVE settled = {}
    BY <1>t, <2>2, <2>p DEF P!Promise!Ask
  <2>3. ASSUME NEW answered \in SUBSET P!Ids, P!Promise!Answer(answered)
        PROVE  \E r \in {"result", "error"} : \A q \in settled : outcome'[q] = r
    BY <1>t, <2>3, <2>p DEF P!Promise!Answer, P!Promise!Settlements
  <2>4. CASE outcome' = outcome
    BY <2>4, <2>p
  <2> QED
    BY <2>1, <2>2, <2>3, <2>4 DEF P!Promise!AskNext
<1>2. answer' = [q \in Questions |-> IF q \in settled THEN r ELSE answer[q]]
  BY <1>1 DEF HandOn
<1>3. settled \in SUBSET Questions /\ \A q \in settled : answer[q] = "pending"
  OBVIOUS
<1> HIDE DEF settled
<1>4. Promise!Answer(settled)
  BY <1>2, <1>3 DEF Promise!Answer, Promise!Settlements
<1> QED
  BY <1>3, <1>4 DEF Promise!AskNext

(* Across systems, too, ask() is an AskPromise: it is refused or pending,  *)
(* and a result or an error settles it once.                               *)
THEOREM ImplementsPromise == Spec => PromiseSpec
<1>1. Init => Promise!AskInit
  BY DEF Init, Promise!AskInit
<1>2. IInv /\ [Next]_vars => [Promise!AskNext]_answer
  <2> SUFFICES ASSUME IInv, [Next]_vars PROVE Promise!AskNext \/ answer' = answer
    OBVIOUS
  <2>1. ASSUME NEW q \in Questions, Ask(q) PROVE Promise!AskNext
    BY <2>1 DEF Ask, Promise!AskNext, Promise!Ask
  <2>2. CASE HandOn
    BY <2>2, HandedOn
  <2> QED
    BY <2>1, <2>2, Answered
<1> QED
  BY Invariance, <1>1, <1>2, PTL DEF Spec, PromiseSpec, Promise!Spec
=============================================================================
