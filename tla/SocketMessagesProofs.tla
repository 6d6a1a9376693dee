------------------------ MODULE SocketMessagesProofs ------------------------
(***************************************************************************)
(* Proofs about SocketMessages, for any clients and messages, connections  *)
(* that break at any time, and events of the proxy that come late.         *)
(***************************************************************************)
EXTENDS SocketMessages, SequenceTheorems, TLAPS

\* One occurrence of w in s at most.
Once(s, w) == \A i, j \in 1..Len(s) : s[i] = w /\ s[j] = w => i = j

(* What the maps of a client say about its promises, and the promises      *)
(* about what was delivered.                                               *)
Books ==
    /\ AcksArePending
    /\ \A q \in Questions : q \in questions <=> outcome[q] = "pending"
    /\ \A q \in Questions : outcome[AnswerTo[q]] # "unasked" => q \in received
    /\ \A id \in received : outcome[id] # "unasked"
    /\ ResultIsReceived

(* A message travels from its origin to its target, and an ACK is only     *)
(* made for what was received.                                             *)
Routes ==
    \A c \in Clients : \A id \in Ids :
        /\ Contains(retries[c], Message(id)) => Origin[id] = c
        /\ Contains(up[c], Message(id)) => Origin[id] = c
        /\ Contains(down[c], Message(id)) => Target[id] = c
        /\ Contains(down[c], Ack(id)) => Origin[id] = c
        /\ Contains(retries[c], Ack(id)) \/ Contains(up[c], Ack(id)) \/ Contains(down[c], Ack(id))
               => id \in received

(* A message is in one place at most on its way, and in none before it is  *)
(* sent and after it was received.                                         *)
Single(id) ==
    LET waits == Contains(retries[Origin[id]], Message(id))
        leaves == Contains(up[Origin[id]], Message(id))
        comes == Contains(down[Target[id]], Message(id))
    IN /\ Once(retries[Origin[id]], Message(id))
       /\ Once(up[Origin[id]], Message(id))
       /\ Once(down[Target[id]], Message(id))
       /\ ~(waits /\ leaves) /\ ~(waits /\ comes) /\ ~(leaves /\ comes)
       /\ waits \/ leaves \/ comes => outcome[id] # "unasked" /\ id \notin received

(* The proxy has yet to hear of the end of former connections only.        *)
Breaks ==
    \A c \in Clients : \A k \in 1..MaxConns :
        <<c, k>> \in broken => k <= conn[c] /\ (k = conn[c] => link[c] \in {"closed", "lost"})

IInv == TypeOK /\ Books /\ Routes /\ (\A id \in Ids : Single(id)) /\ Breaks

-----------------------------------------------------------------------------
(* Lemmas about sequences and families of sequences.                       *)

LEMMA AppendContains ==
    ASSUME NEW S, NEW s \in Seq(S), NEW v \in S, NEW w
    PROVE  /\ Append(s, v) \in Seq(S)
           /\ Contains(Append(s, v), w) <=> Contains(s, w) \/ v = w
           /\ Once(s, w) /\ (v = w => ~Contains(s, w)) => Once(Append(s, v), w)
BY DEF Contains, Once

LEMMA TailContains ==
    ASSUME NEW S, NEW s \in Seq(S), s # <<>>, NEW w
    PROVE  /\ Head(s) \in S /\ Tail(s) \in Seq(S)
           /\ Contains(s, w) <=> Head(s) = w \/ Contains(Tail(s), w)
           /\ Once(s, w) => Once(Tail(s), w) /\ ~(Head(s) = w /\ Contains(Tail(s), w))
BY DEF Contains, Once

\* The elements of a sequence without its i-th one.
LEMMA RemoveAtElements ==
    ASSUME NEW S, NEW s \in Seq(S), NEW i \in 1..Len(s)
    PROVE  /\ RemoveAt(s, i) \in Seq(S) /\ Len(RemoveAt(s, i)) = Len(s) - 1
           /\ \A j \in 1..Len(s) - 1 : RemoveAt(s, i)[j] = IF j < i THEN s[j] ELSE s[j + 1]
<1> DEFINE a == SubSeq(s, 1, i - 1)
           b == SubSeq(s, i + 1, Len(s))
<1>1. a \in Seq(S) /\ Len(a) = i - 1 /\ \A j \in 1..i - 1 : a[j] = s[j]
  OBVIOUS
<1>2. b \in Seq(S) /\ Len(b) = Len(s) - i /\ \A j \in 1..Len(s) - i : b[j] = s[i + j]
  OBVIOUS
<1>3. RemoveAt(s, i) = a \o b
  BY DEF RemoveAt
<1> HIDE DEF a, b
<1>4. /\ a \o b \in Seq(S) /\ Len(a \o b) = Len(a) + Len(b)
      /\ \A j \in 1..Len(a) + Len(b) : (a \o b)[j] = IF j <= Len(a) THEN a[j] ELSE b[j - Len(a)]
  BY <1>1, <1>2, ConcatProperties
<1>5. ASSUME NEW j \in 1..Len(s) - 1
      PROVE  RemoveAt(s, i)[j] = IF j < i THEN s[j] ELSE s[j + 1]
  <2>1. j \in 1..Len(a) + Len(b)
    BY <1>1, <1>2
  <2>2. CASE j < i
    BY <1>1, <1>3, <1>4, <2>1, <2>2
  <2>3. CASE ~(j < i)
    <3>1. (a \o b)[j] = b[j - (i - 1)]
      BY <1>1, <1>4, <2>1, <2>3
    <3>2. j - (i - 1) \in 1..Len(s) - i /\ i + (j - (i - 1)) = j + 1
      BY <2>3
    <3> QED
      BY <1>2, <1>3, <2>3, <3>1, <3>2
  <2> QED
    BY <2>2, <2>3
<1> QED
  BY <1>1, <1>2, <1>3, <1>4, <1>5

LEMMA RemoveAtContains ==
    ASSUME NEW S, NEW s \in Seq(S), NEW i \in 1..Len(s), NEW w
    PROVE  /\ s[i] \in S /\ RemoveAt(s, i) \in Seq(S)
           /\ Contains(s, w) <=> s[i] = w \/ Contains(RemoveAt(s, i), w)
           /\ Once(s, w) => /\ Once(RemoveAt(s, i), w)
                            /\ ~(s[i] = w /\ Contains(RemoveAt(s, i), w))
<1> DEFINE r == RemoveAt(s, i)
           at(j) == IF j < i THEN j ELSE j + 1
<1>1. r \in Seq(S) /\ Len(r) = Len(s) - 1 /\ \A j \in 1..Len(s) - 1 : r[j] = s[at(j)]
  BY RemoveAtElements
<1>2. /\ \A j \in 1..Len(s) - 1 : at(j) \in 1..Len(s) /\ at(j) # i
      /\ \A j, k \in 1..Len(s) - 1 : at(j) = at(k) => j = k
      /\ \A k \in 1..Len(s) : k # i => \E j \in 1..Len(s) - 1 : at(j) = k
  <2>1. ASSUME NEW k \in 1..Len(s), k # i PROVE \E j \in 1..Len(s) - 1 : at(j) = k
    <3>1. CASE k < i
      BY <2>1, <3>1
    <3>2. CASE ~(k < i)
      <4>1. k - 1 \in 1..Len(s) - 1 /\ at(k - 1) = k
        BY <2>1, <3>2
      <4> QED
        BY <4>1
    <3> QED
      BY <3>1, <3>2
  <2>2. /\ \A j \in 1..Len(s) - 1 : at(j) \in 1..Len(s) /\ at(j) # i
        /\ \A j, k \in 1..Len(s) - 1 : at(j) = at(k) => j = k
    OBVIOUS
  <2> QED
    BY <2>1, <2>2
<1> HIDE DEF r, at
<1>3. Contains(s, w) <=> s[i] = w \/ Contains(r, w)
  BY <1>1, <1>2 DEF Contains
<1>4. Once(s, w) => Once(r, w) /\ ~(s[i] = w /\ Contains(r, w))
  BY <1>1, <1>2 DEF Contains, Once
<1> QED
  BY <1>1, <1>3, <1>4 DEF r

LEMMA Empty == \A w : ~Contains(<<>>, w) /\ Once(<<>>, w)
BY DEF Contains, Once

\* new is old with w at the end of the sequence of c.
Enqueued(old, new, c, w) ==
    /\ new \in [Clients -> Seq(Wires)]
    /\ \A d \in Clients : \A x : Contains(new[d], x) <=> Contains(old[d], x) \/ (d = c /\ x = w)
    /\ \A d \in Clients : \A x :
        Once(old[d], x) /\ ~(d = c /\ x = w /\ Contains(old[d], x)) => Once(new[d], x)

\* new is old without one element of the sequence of c, which is w.
Dequeued(old, new, c, w) ==
    /\ w \in Wires
    /\ new \in [Clients -> Seq(Wires)]
    /\ \A d \in Clients : \A x : Contains(old[d], x) <=> Contains(new[d], x) \/ (d = c /\ x = w)
    /\ \A d \in Clients : \A x :
        Once(old[d], x) => Once(new[d], x) /\ ~(d = c /\ x = w /\ Contains(new[d], x))

\* new is old with the sequence of c emptied.
Emptied(old, new, c) ==
    /\ new \in [Clients -> Seq(Wires)]
    /\ \A d \in Clients : \A x :
        /\ Contains(new[d], x) <=> d # c /\ Contains(old[d], x)
        /\ Once(old[d], x) => Once(new[d], x)

LEMMA AppendAt ==
    ASSUME NEW f \in [Clients -> Seq(Wires)], NEW c \in Clients, NEW w \in Wires
    PROVE  Enqueued(f, [f EXCEPT ![c] = Append(@, w)], c, w)
<1> DEFINE g == [f EXCEPT ![c] = Append(@, w)]
<1>1. g[c] = Append(f[c], w) /\ \A d \in Clients : d # c => g[d] = f[d]
  OBVIOUS
<1>2. f[c] \in Seq(Wires)
  OBVIOUS
<1>3. g \in [Clients -> Seq(Wires)]
  BY <1>2, AppendContains
<1>4. \A x : /\ Contains(g[c], x) <=> Contains(f[c], x) \/ w = x
             /\ Once(f[c], x) /\ (w = x => ~Contains(f[c], x)) => Once(g[c], x)
  BY <1>1, <1>2, AppendContains
<1> HIDE DEF g
<1>5. Enqueued(f, g, c, w)
  BY <1>1, <1>3, <1>4 DEF Enqueued
<1> QED
  BY <1>5 DEF g

LEMMA TailAt ==
    ASSUME NEW f \in [Clients -> Seq(Wires)], NEW c \in Clients, f[c] # <<>>
    PROVE  Dequeued(f, [f EXCEPT ![c] = Tail(@)], c, Head(f[c]))
<1> DEFINE g == [f EXCEPT ![c] = Tail(@)]
           w == Head(f[c])
<1>1. g[c] = Tail(f[c]) /\ \A d \in Clients : d # c => g[d] = f[d]
  OBVIOUS
<1>2. f[c] \in Seq(Wires)
  OBVIOUS
<1>3. g \in [Clients -> Seq(Wires)] /\ w \in Wires
  BY <1>2, TailContains
<1>4. \A x : /\ Contains(f[c], x) <=> w = x \/ Contains(g[c], x)
             /\ Once(f[c], x) => Once(g[c], x) /\ ~(w = x /\ Contains(g[c], x))
  BY <1>1, <1>2, TailContains
<1> HIDE DEF g, w
<1>5. Dequeued(f, g, c, w)
  BY <1>1, <1>3, <1>4 DEF Dequeued
<1> QED
  BY <1>5 DEF g, w

LEMMA RemovedAt ==
    ASSUME NEW f \in [Clients -> Seq(Wires)], NEW c \in Clients, NEW i \in DOMAIN f[c]
    PROVE  Dequeued(f, [f EXCEPT ![c] = RemoveAt(@, i)], c, f[c][i])
<1> DEFINE g == [f EXCEPT ![c] = RemoveAt(@, i)]
           w == f[c][i]
<1>1. g[c] = RemoveAt(f[c], i) /\ \A d \in Clients : d # c => g[d] = f[d]
  OBVIOUS
<1>2. f[c] \in Seq(Wires) /\ i \in 1..Len(f[c])
  OBVIOUS
<1>3. RemoveAt(f[c], i) \in Seq(Wires) /\ w \in Wires
  BY <1>2, RemoveAtContains
<1>4. g \in [Clients -> Seq(Wires)]
  BY <1>3
<1>5. \A x : /\ Contains(f[c], x) <=> w = x \/ Contains(g[c], x)
             /\ Once(f[c], x) => Once(g[c], x) /\ ~(w = x /\ Contains(g[c], x))
  BY <1>1, <1>2, RemoveAtContains
<1> HIDE DEF g, w
<1>6. Dequeued(f, g, c, w)
  BY <1>1, <1>3, <1>4, <1>5 DEF Dequeued
<1> QED
  BY <1>6 DEF g, w

LEMMA EmptyAt ==
    ASSUME NEW f \in [Clients -> Seq(Wires)], NEW c \in Clients
    PROVE  Emptied(f, [f EXCEPT ![c] = <<>>], c)
<1> DEFINE g == [f EXCEPT ![c] = <<>>]
<1>1. g[c] = <<>> /\ \A d \in Clients : d # c => g[d] = f[d]
  OBVIOUS
<1>2. g \in [Clients -> Seq(Wires)]
  OBVIOUS
<1> HIDE DEF g
<1>3. Emptied(f, g, c)
  BY <1>1, <1>2, Empty DEF Emptied
<1> QED
  BY <1>3 DEF g

-----------------------------------------------------------------------------
(* Lemmas about the constants and the operators of the model.              *)

LEMMA Constants ==
    /\ Sends \subseteq Ids /\ Questions \subseteq Ids /\ Answers \subseteq Ids
    /\ \A id \in Ids : Origin[id] \in Clients /\ Target[id] \in Clients
    /\ \A q \in Questions : /\ AnswerTo[q] \in Answers
                            /\ Origin[AnswerTo[q]] = Target[q] /\ Target[AnswerTo[q]] = Origin[q]
    /\ \A id \in Ids : Origin[id] # Target[id] \/ id \in Answers
    /\ \A q \in Questions : Origin[q] # Target[q]
    /\ \A p, q \in Questions : AnswerTo[p] = AnswerTo[q] => p = q
    /\ Sends \cap Questions = {} /\ Sends \cap Answers = {} /\ Questions \cap Answers = {}
    /\ MaxConns \in Nat \ {0} /\ Void \subseteq Answers /\ SocketErrors \in BOOLEAN
BY SocketAssumption DEF SocketConstants, Ids

LEMMA WireForms ==
    /\ \A i \in Ids : Message(i) \in Wires /\ Ack(i) \in Wires
    /\ \A c \in Clients : ClientId(c) \in Wires
    /\ \A i, j \in Ids : /\ Message(i) = Message(j) => i = j
                         /\ Ack(i) = Ack(j) => i = j
                         /\ Message(i) # Ack(j)
    /\ \A c \in Clients, i \in Ids : ClientId(c) # Message(i) /\ ClientId(c) # Ack(i)
    /\ \A i \in Ids : Receiver(Message(i)) = Target[i] /\ Receiver(Ack(i)) = Origin[i]
                      /\ Message(i).id = i
BY DEF Wires, Message, Ack, ClientId, Receiver

\* What trySend does to the connection and to the calls that wait.
LEMMA TrySendEffect ==
    ASSUME TypeOK, NEW c \in Clients, NEW w \in Wires, TrySend(c, w)
    PROVE  \/ link[c] = "open" /\ Enqueued(up, up', c, w) /\ retries' = retries
           \/ link[c] = "connecting" /\ Enqueued(retries, retries', c, w) /\ up' = up
           \/ link[c] \notin {"open", "connecting"} /\ up' = up /\ retries' = retries
BY AppendAt DEF TrySend, TypeOK

\* What the timer of a waiting call does.
LEMMA RetryEffect ==
    ASSUME TypeOK, NEW c \in Clients, Retry(c)
    PROVE  \E w \in Wires : /\ Dequeued(retries, retries', c, w)
                            /\ up' = up \/ Enqueued(up, up', c, w)
                            /\ UNCHANGED <<book, shutdown, link, conn, down, received, proxy>>
<1> PICK i \in DOMAIN retries[c] :
        /\ retries' = [retries EXCEPT ![c] = RemoveAt(@, i)]
        /\ up' = IF link[c] = "open" THEN [up EXCEPT ![c] = Append(@, retries[c][i])] ELSE up
        /\ UNCHANGED <<book, shutdown, link, conn, down, received, proxy>>
  BY DEF Retry
<1>1. retries \in [Clients -> Seq(Wires)] /\ up \in [Clients -> Seq(Wires)]
  BY DEF TypeOK
<1>2. Dequeued(retries, retries', c, retries[c][i])
  BY <1>1, RemovedAt
<1>3. retries[c][i] \in Wires
  BY <1>2 DEF Dequeued
<1>4. up' = up \/ Enqueued(up, up', c, retries[c][i])
  BY <1>1, <1>3, AppendAt
<1> QED
  BY <1>2, <1>3, <1>4

\* What the arrival of a message does to the connection.
LEMMA ArrivesEffect ==
    ASSUME TypeOK, NEW c \in Clients, NEW w, Arrives(c, w)
    PROVE  Dequeued(down, down', c, w)
BY TailAt DEF Arrives, TypeOK

\* Every entry that a check reports is an entry of that client.
LEMMA CheckedEntries ==
    ASSUME NEW c \in Clients
    PROVE  /\ LostAcks(c) \subseteq acks /\ LostAcks(c) \subseteq pending[c]
           /\ \A id \in LostAcks(c) : Origin[id] = c
           /\ Rejected(c) \subseteq questions
           /\ \A id \in Rejected(c) : Origin[id] = c
<1>1. \A late : Reported(c, late) \subseteq late \cap pending[c]
  BY DEF Reported
<1>2. LostAcks(c) \subseteq OwnAcks(c) \cap pending[c]
  BY <1>1 DEF LostAcks, LateAcks
<1>3. Rejected(c) \subseteq OwnQuestions(c)
  BY <1>1 DEF Rejected
<1> QED
  BY <1>2, <1>3 DEF OwnAcks, OwnQuestions

-----------------------------------------------------------------------------
(* Types.                                                                  *)

LEMMA PostType ==
    ASSUME TypeOK, NEW id \in Ids, NEW payload \in SUBSET Ids, Post(id, payload)
    PROVE  /\ outcome' \in [Ids -> Outcomes]
           /\ pending' \in [Clients -> SUBSET Ids]
           /\ up' \in [Clients -> Seq(Wires)] /\ retries' \in [Clients -> Seq(Wires)]
           /\ UNCHANGED <<overdue, shutdown, link, conn, down, received, sockets, broken>>
<1>1. Origin[id] \in Clients /\ Message(id) \in Wires
  BY Constants, WireForms
<1>2. up' \in [Clients -> Seq(Wires)] /\ retries' \in [Clients -> Seq(Wires)]
  BY <1>1, TrySendEffect DEF Post, TypeOK, Enqueued
<1>3. outcome' \in [Ids -> Outcomes] /\ pending' \in [Clients -> SUBSET Ids]
  BY <1>1 DEF Post, TypeOK, Outcomes
<1> QED
  BY <1>2, <1>3 DEF Post, proxy

LEMMA TypeStep == TypeOK /\ [Next]_vars => TypeOK'
<1> SUFFICES ASSUME TypeOK, [Next]_vars PROVE TypeOK'
  OBVIOUS
<1> USE Constants
<1>t. /\ up \in [Clients -> Seq(Wires)] /\ down \in [Clients -> Seq(Wires)]
      /\ retries \in [Clients -> Seq(Wires)]
  BY DEF TypeOK
<1>1. ASSUME NEW m \in Sends, Send(m) PROVE TypeOK'
  <2>1. Post(m, {m}) /\ EnterAcks(m)
    BY <1>1 DEF Send
  <2>2. acks' \subseteq Sends \cup Answers /\ older' \subseteq Ids \X Ids /\ questions' = questions
    BY <2>1 DEF EnterAcks, OwnAcks, TypeOK
  <2>3. m \in Ids /\ {m} \in SUBSET Ids
    OBVIOUS
  <2> QED
    BY <2>1, <2>2, <2>3, PostType DEF TypeOK
<1>2. ASSUME NEW q \in Questions, Ask(q) PROVE TypeOK'
  <2>1. Post(q, {q}) /\ EnterQuestions(q) /\ UNCHANGED acks
    BY <1>2 DEF Ask
  <2>2. questions' \subseteq Questions /\ older' \subseteq Ids \X Ids
    BY <2>1 DEF EnterQuestions, OwnQuestions, TypeOK
  <2>3. q \in Ids /\ {q} \in SUBSET Ids
    OBVIOUS
  <2> QED
    BY <2>1, <2>2, <2>3, PostType DEF TypeOK
<1>3. ASSUME NEW q \in Questions, NEW void \in BOOLEAN, AnswerQuestion(q, void) PROVE TypeOK'
  <2>1. \E payload \in SUBSET Ids : Post(AnswerTo[q], payload)
    BY <1>3 DEF AnswerQuestion
  <2>2. EnterAcks(AnswerTo[q])
    BY <1>3 DEF AnswerQuestion
  <2>3. acks' \subseteq Sends \cup Answers /\ older' \subseteq Ids \X Ids /\ questions' = questions
    BY <2>2 DEF EnterAcks, OwnAcks, TypeOK
  <2> QED
    BY <2>1, <2>3, PostType DEF TypeOK
<1>4. ASSUME NEW c \in Clients, ReceiveMessage(c) PROVE TypeOK'
  <2> PICK id \in Sends \cup Questions :
        /\ Arrives(c, Message(id)) /\ received' = received \cup {id} /\ TrySend(c, Ack(id))
        /\ UNCHANGED <<acks, questions, older, pending, outcome>>
    BY <1>4 DEF ReceiveMessage
  <2>1. down' \in [Clients -> Seq(Wires)]
    BY ArrivesEffect DEF Dequeued
  <2>2. up' \in [Clients -> Seq(Wires)] /\ retries' \in [Clients -> Seq(Wires)]
    BY <1>t, TrySendEffect, WireForms DEF Enqueued
  <2>3. UNCHANGED <<overdue, shutdown, link, conn, sockets, broken>> /\ received' \subseteq Ids
    BY DEF Arrives, proxy, TypeOK
  <2> QED
    BY <2>1, <2>2, <2>3 DEF TypeOK
<1>5. ASSUME NEW c \in Clients, ReceiveAck(c) PROVE TypeOK'
  <2> PICK id \in Ids :
        /\ Arrives(c, Ack(id)) /\ acks' = acks \ {id} /\ Leave({id})
        /\ pending' = [pending EXCEPT ![c] = @ \ {id}]
        /\ outcome' = IF id \in acks THEN [outcome EXCEPT ![id] = "result"] ELSE outcome
        /\ UNCHANGED <<questions, received, outgoing>>
    BY <1>5 DEF ReceiveAck
  <2>1. down' \in [Clients -> Seq(Wires)]
    BY ArrivesEffect DEF Dequeued
  <2>2. outcome' \in [Ids -> Outcomes] /\ pending' \in [Clients -> SUBSET Ids]
    BY DEF TypeOK, Outcomes
  <2> QED
    BY <2>1, <2>2 DEF TypeOK, Arrives, Leave, proxy, outgoing
<1>6. ASSUME NEW c \in Clients, ReceiveAnswer(c) PROVE TypeOK'
  <2> PICK q \in Questions :
        /\ Arrives(c, Message(AnswerTo[q]))
        /\ outcome' = IF q \in questions THEN [outcome EXCEPT ![q] = "result"] ELSE outcome
        /\ questions' = questions \ {q} /\ Leave({q})
        /\ pending' = [pending EXCEPT ![c] = @ \ {AnswerTo[q]}]
        /\ received' = received \cup {AnswerTo[q]}
        /\ TrySend(c, Ack(AnswerTo[q]))
        /\ UNCHANGED acks
    BY <1>6 DEF ReceiveAnswer
  <2>1. down' \in [Clients -> Seq(Wires)]
    BY ArrivesEffect DEF Dequeued
  <2>2. up' \in [Clients -> Seq(Wires)] /\ retries' \in [Clients -> Seq(Wires)]
    BY <1>t, TrySendEffect, WireForms DEF Enqueued
  <2>3. outcome' \in [Ids -> Outcomes] /\ pending' \in [Clients -> SUBSET Ids]
    BY DEF TypeOK, Outcomes
  <2> QED
    BY <2>1, <2>2, <2>3 DEF TypeOK, Arrives, Leave, proxy
<1>7. ASSUME NEW c \in Clients, Retry(c) PROVE TypeOK'
  BY <1>7, RetryEffect DEF TypeOK, Dequeued, Enqueued, book, proxy
<1>8. ASSUME NEW c \in Clients, HandleTimeouts(c) PROVE TypeOK'
  <2>1. outcome' \in [Ids -> Outcomes] /\ pending' \in [Clients -> SUBSET Ids]
    BY <1>8 DEF HandleTimeouts, TypeOK, Outcomes
  <2>2. overdue' \subseteq Ids /\ older' \subseteq Ids \X Ids
    BY <1>8 DEF HandleTimeouts, TypeOK, OwnAcks, OwnQuestions, Leave
  <2> QED
    BY <1>8, <2>1, <2>2 DEF HandleTimeouts, TypeOK, proxy, outgoing
<1>9. ASSUME NEW c \in Clients, Close(c) PROVE TypeOK'
  BY <1>9 DEF Close, TypeOK, Links, book, proxy, outgoing
<1>10. ASSUME NEW c \in Clients, Disconnect(c) PROVE TypeOK'
  <2>1. Emptied(up, up', c) /\ Emptied(down, down', c)
    BY <1>10, <1>t, EmptyAt DEF Disconnect
  <2>2. link' \in [Clients -> Links] /\ broken' \subseteq Clients \X (1..MaxConns)
    BY <1>10 DEF Disconnect, TypeOK, Links
  <2> QED
    BY <1>10, <2>1, <2>2 DEF Disconnect, TypeOK, Emptied, book
<1>11. ASSUME NEW c \in Clients, Reconnect(c) PROVE TypeOK'
  <2>1. conn[c] \in 1..MaxConns /\ conn[c] < MaxConns /\ conn' = [conn EXCEPT ![c] = @ + 1]
    BY <1>11 DEF Reconnect, TypeOK
  <2>2. conn' \in [Clients -> 1..MaxConns] /\ link' \in [Clients -> Links]
    BY <1>11, <2>1 DEF Reconnect, TypeOK, Links
  <2> QED
    BY <1>11, <2>2 DEF Reconnect, TypeOK, book, proxy, outgoing
<1>12. ASSUME NEW c \in Clients, Open(c) PROVE TypeOK'
  <2>1. <<ClientId(c)>> \in Seq(Wires)
    BY WireForms
  <2> QED
    BY <1>12, <2>1 DEF Open, TypeOK, Links, book, proxy
<1>13. ASSUME NEW c \in Clients, ProxyRegister(c) PROVE TypeOK'
  <2>1. up' \in [Clients -> Seq(Wires)]
    BY <1>13, <1>t, TailAt DEF ProxyRegister, Dequeued
  <2> QED
    BY <1>13, <2>1 DEF ProxyRegister, TypeOK, book
<1>14. ASSUME NEW c \in Clients, ProxyForward(c) PROVE TypeOK'
  <2>1. Dequeued(up, up', c, Head(up[c]))
    BY <1>14, <1>t, TailAt DEF ProxyForward
  <2>2. Head(up[c]) \in Wires
    BY <2>1 DEF Dequeued
  <2>3. \A t \in Clients : [down EXCEPT ![t] = Append(@, Head(up[c]))] \in [Clients -> Seq(Wires)]
    BY <1>t, <2>2, AppendAt DEF Enqueued
  <2>4. \A t : t \notin Clients => [down EXCEPT ![t] = Append(@, Head(up[c]))] = down
    BY <1>t
  <2>5. down' \in [Clients -> Seq(Wires)]
    BY <1>14, <1>t, <2>3, <2>4 DEF ProxyForward
  <2> QED
    BY <1>14, <2>1, <2>5 DEF ProxyForward, TypeOK, Dequeued, book, proxy
<1>15. ASSUME NEW c \in Clients, NEW k \in 1..MaxConns, ProxyClose(c, k) \/ ProxyError(c, k)
       PROVE  TypeOK'
  <2>1. 0 \in 0..MaxConns
    OBVIOUS
  <2>2. CASE ProxyClose(c, k)
    BY <2>1, <2>2 DEF ProxyClose, TypeOK, book, outgoing
  <2>3. CASE ProxyError(c, k)
    BY <2>1, <2>3 DEF ProxyError, TypeOK, book, outgoing
  <2> QED
    BY <1>15, <2>2, <2>3
<1>16. CASE UNCHANGED vars
  BY <1>16 DEF vars, TypeOK
<1> QED
  BY <1>1, <1>2, <1>3, <1>4, <1>5, <1>6, <1>7, <1>8, <1>9, <1>10, <1>11, <1>12, <1>13,
     <1>14, <1>15, <1>16 DEF Next, Receive, Proxy

-----------------------------------------------------------------------------
(* How messages move in a step: the view of the connections that Routes    *)
(* and Single need.                                                        *)

Sending(c, w) ==
    \/ Enqueued(up, up', c, w) /\ retries' = retries
    \/ Enqueued(retries, retries', c, w) /\ up' = up
    \/ up' = up /\ retries' = retries

Posting == \E id \in Ids :
    /\ outcome[id] = "unasked" /\ outcome'[id] # "unasked"
    /\ Sending(Origin[id], Message(id))
    /\ UNCHANGED <<down, received>>

Delivery == \E c \in Clients, id \in Ids :
    /\ Dequeued(down, down', c, Message(id))
    /\ received' = received \cup {id}
    /\ Sending(c, Ack(id))

AckArrival == \E c \in Clients, id \in Ids :
    /\ Dequeued(down, down', c, Ack(id))
    /\ UNCHANGED <<up, retries, received>>

Retrying == \E c \in Clients, w \in Wires :
    /\ Dequeued(retries, retries', c, w)
    /\ up' = up \/ Enqueued(up, up', c, w)
    /\ UNCHANGED <<down, received>>

Breaking == \E c \in Clients :
    /\ Emptied(up, up', c) /\ Emptied(down, down', c)
    /\ UNCHANGED <<retries, received>>

Opening == \E c \in Clients :
    /\ \A d \in Clients : \A x :
        Contains(up'[d], x) => Contains(up[d], x) \/ x = ClientId(c)
    /\ \A d \in Clients : \A x : Once(up[d], x) => Once(up'[d], x)
    /\ UNCHANGED <<down, retries, received>>

Registering == \E c \in Clients :
    /\ Dequeued(up, up', c, ClientId(c))
    /\ UNCHANGED <<down, retries, received>>

Forwarding == \E c \in Clients, w \in Wires :
    /\ Dequeued(up, up', c, w)
    /\ down' = down \/ (Receiver(w) \in Clients /\ Enqueued(down, down', Receiver(w), w))
    /\ UNCHANGED <<retries, received>>

Resting == UNCHANGED <<up, down, retries, received>>

Move ==
    \/ Posting \/ Delivery \/ AckArrival \/ Retrying \/ Breaking
    \/ Opening \/ Registering \/ Forwarding \/ Resting

LEMMA PostMove ==
    ASSUME TypeOK, NEW id \in Ids, NEW payload, Post(id, payload)
    PROVE  Posting
<1>1. Origin[id] \in Clients /\ Message(id) \in Wires
  BY Constants, WireForms
<1>2. Sending(Origin[id], Message(id))
  BY <1>1, TrySendEffect DEF Post, Sending
<1>3. outcome[id] = "unasked" /\ outcome'[id] # "unasked"
  BY DEF Post, TypeOK
<1> QED
  BY <1>2, <1>3 DEF Posting, Post

\* Every step moves messages in one of these ways.
LEMMA Moves == TypeOK /\ [Next]_vars => Move
<1> SUFFICES ASSUME TypeOK, [Next]_vars PROVE Move
  OBVIOUS
<1> USE Constants, WireForms
<1>t. /\ up \in [Clients -> Seq(Wires)] /\ down \in [Clients -> Seq(Wires)]
      /\ retries \in [Clients -> Seq(Wires)]
  BY DEF TypeOK
<1>1. ASSUME NEW m \in Sends, Send(m) PROVE Posting
  BY <1>1, PostMove DEF Send
<1>2. ASSUME NEW q \in Questions, Ask(q) PROVE Posting
  BY <1>2, PostMove DEF Ask
<1>3. ASSUME NEW q \in Questions, NEW void \in BOOLEAN, AnswerQuestion(q, void) PROVE Posting
  BY <1>3, PostMove DEF AnswerQuestion
<1>4. ASSUME NEW c \in Clients, NEW id \in Ids, Arrives(c, Message(id)),
             received' = received \cup {id}, TrySend(c, Ack(id))
      PROVE  Delivery
  BY <1>4, ArrivesEffect, TrySendEffect DEF Delivery, Sending
<1>5. ASSUME NEW c \in Clients, ReceiveMessage(c) \/ ReceiveAnswer(c) PROVE Delivery
  BY <1>4, <1>5 DEF ReceiveMessage, ReceiveAnswer
<1>6. ASSUME NEW c \in Clients, ReceiveAck(c) PROVE AckArrival
  BY <1>6, ArrivesEffect DEF ReceiveAck, AckArrival, outgoing
<1>7. ASSUME NEW c \in Clients, Retry(c) PROVE Retrying
  BY <1>7, RetryEffect DEF Retrying
<1>8. ASSUME NEW c \in Clients, Disconnect(c) PROVE Breaking
  BY <1>8, <1>t, EmptyAt DEF Disconnect, Breaking
<1>9. ASSUME NEW c \in Clients, Open(c) PROVE Opening
  <2>1. up'[c] = <<ClientId(c)>> /\ \A d \in Clients : d # c => up'[d] = up[d]
    BY <1>9, <1>t DEF Open
  <2>2. \A x : (Contains(up'[c], x) => x = ClientId(c)) /\ Once(up'[c], x)
    BY <2>1 DEF Contains, Once
  <2>3. /\ \A d \in Clients : \A x : Contains(up'[d], x) => Contains(up[d], x) \/ x = ClientId(c)
        /\ \A d \in Clients : \A x : Once(up[d], x) => Once(up'[d], x)
    BY <2>1, <2>2
  <2> QED
    BY <1>9, <2>3 DEF Open, Opening
<1>10. ASSUME NEW c \in Clients, ProxyRegister(c) PROVE Registering
  <2>1. Dequeued(up, up', c, Head(up[c])) /\ Head(up[c]) = ClientId(c)
    BY <1>10, <1>t, TailAt DEF ProxyRegister
  <2> QED
    BY <1>10, <2>1 DEF ProxyRegister, Registering
<1>11. ASSUME NEW c \in Clients, ProxyForward(c) PROVE Forwarding
  <2> DEFINE w == Head(up[c])
  <2>1. Dequeued(up, up', c, w)
    BY <1>11, <1>t, TailAt DEF ProxyForward
  <2>2. w \in Wires
    BY <2>1 DEF Dequeued
  <2>3. down' = down \/ down' = [down EXCEPT ![Receiver(w)] = Append(@, w)]
    BY <1>11 DEF ProxyForward
  <2>4. CASE Receiver(w) \notin Clients
    BY <1>11, <1>t, <2>1, <2>2, <2>3, <2>4 DEF ProxyForward, Forwarding
  <2>5. CASE Receiver(w) \in Clients
    <3>1. Enqueued(down, [down EXCEPT ![Receiver(w)] = Append(@, w)], Receiver(w), w)
      BY <1>t, <2>2, <2>5, AppendAt
    <3> QED
      BY <1>11, <2>3, <2>1, <2>2, <2>5, <3>1 DEF ProxyForward, Forwarding
  <2> QED
    BY <2>4, <2>5
<1>12. ASSUME NEW c \in Clients, HandleTimeouts(c) \/ Close(c) \/ Reconnect(c) PROVE Resting
  BY <1>12 DEF HandleTimeouts, Close, Reconnect, Resting, outgoing
<1>13. ASSUME NEW c \in Clients, NEW k \in 1..MaxConns, ProxyClose(c, k) \/ ProxyError(c, k)
       PROVE  Resting
  BY <1>13 DEF ProxyClose, ProxyError, Resting, outgoing
<1>14. CASE UNCHANGED vars
  BY <1>14 DEF vars, Move, Resting
<1> QED
  BY <1>1, <1>2, <1>3, <1>5, <1>6, <1>7, <1>8, <1>9, <1>10, <1>11, <1>12, <1>13, <1>14
     DEF Next, Receive, Proxy, Move

\* A promise that was made stays made.
LEMMA OutcomeStays ==
    ASSUME TypeOK, [Next]_vars, NEW id \in Ids, outcome[id] # "unasked"
    PROVE  outcome'[id] # "unasked"
<1>t. outcome \in [Ids -> Outcomes]
  BY DEF TypeOK
<1>1. ASSUME NEW m \in Ids, NEW payload, Post(m, payload) PROVE outcome'[id] # "unasked"
  BY <1>1, <1>t DEF Post
<1>2. ASSUME NEW c \in Clients, Receive(c) \/ HandleTimeouts(c) PROVE outcome'[id] # "unasked"
  <2>1. CASE ReceiveMessage(c)
    BY <2>1 DEF ReceiveMessage
  <2>2. CASE ReceiveAck(c)
    BY <2>2, <1>t DEF ReceiveAck
  <2>3. CASE ReceiveAnswer(c)
    BY <2>3, <1>t DEF ReceiveAnswer
  <2>4. CASE HandleTimeouts(c)
    BY <2>4, <1>t DEF HandleTimeouts
  <2> QED
    BY <1>2, <2>1, <2>2, <2>3, <2>4 DEF Receive
<1>3. ASSUME NEW c \in Clients,
             Retry(c) \/ Close(c) \/ Disconnect(c) \/ Reconnect(c) \/ Open(c) \/ Proxy(c)
      PROVE  outcome' = outcome
  BY <1>3 DEF Retry, Close, Disconnect, Reconnect, Open, Proxy, ProxyRegister, ProxyForward, book
<1>4. ASSUME NEW c \in Clients, NEW k \in 1..MaxConns, ProxyClose(c, k) \/ ProxyError(c, k)
      PROVE  outcome' = outcome
  BY <1>4 DEF ProxyClose, ProxyError, book
<1>5. ASSUME UNCHANGED vars PROVE outcome' = outcome
  BY <1>5 DEF vars
<1>6. ASSUME NEW m \in Sends, Send(m) PROVE \E payload : Post(m, payload)
  BY <1>6 DEF Send
<1>7. ASSUME NEW q \in Questions, Ask(q) PROVE \E payload : Post(q, payload)
  BY <1>7 DEF Ask
<1>8. ASSUME NEW q \in Questions, NEW void \in BOOLEAN, AnswerQuestion(q, void)
      PROVE  \E payload : Post(AnswerTo[q], payload)
  BY <1>8 DEF AnswerQuestion
<1> QED
  BY <1>1, <1>2, <1>3, <1>4, <1>5, <1>6, <1>7, <1>8, Constants DEF Next

-----------------------------------------------------------------------------
(* The inductive invariant, part by part.                                  *)

LEMMA RoutesStep == IInv /\ [Next]_vars => Routes'
<1> SUFFICES ASSUME IInv, [Next]_vars, NEW c \in Clients, NEW id \in Ids
             PROVE  /\ Contains(retries'[c], Message(id)) => Origin[id] = c
                    /\ Contains(up'[c], Message(id)) => Origin[id] = c
                    /\ Contains(down'[c], Message(id)) => Target[id] = c
                    /\ Contains(down'[c], Ack(id)) => Origin[id] = c
                    /\ Contains(retries'[c], Ack(id)) \/ Contains(up'[c], Ack(id))
                           \/ Contains(down'[c], Ack(id)) => id \in received'
  BY DEF Routes, Message, Ack
<1> USE Constants, WireForms
<1>r. /\ Contains(retries[c], Message(id)) => Origin[id] = c
      /\ Contains(up[c], Message(id)) => Origin[id] = c
      /\ Contains(down[c], Message(id)) => Target[id] = c
      /\ Contains(down[c], Ack(id)) => Origin[id] = c
      /\ Contains(retries[c], Ack(id)) \/ Contains(up[c], Ack(id)) \/ Contains(down[c], Ack(id))
             => id \in received
  BY DEF IInv, Routes
<1>m. Move
  BY Moves DEF IInv
<1>1. CASE Posting
  <2> PICK n \in Ids : Sending(Origin[n], Message(n)) /\ UNCHANGED <<down, received>>
    BY <1>1 DEF Posting
  <2>1. Message(n) # Ack(id) /\ (Message(n) = Message(id) => n = id)
    OBVIOUS
  <2>2. /\ Contains(up'[c], Message(id)) => Contains(up[c], Message(id)) \/ (n = id /\ c = Origin[n])
        /\ Contains(up'[c], Ack(id)) => Contains(up[c], Ack(id))
    BY <2>1 DEF Sending, Enqueued
  <2>3. /\ Contains(retries'[c], Message(id)) =>
               Contains(retries[c], Message(id)) \/ (n = id /\ c = Origin[n])
        /\ Contains(retries'[c], Ack(id)) => Contains(retries[c], Ack(id))
    BY <2>1 DEF Sending, Enqueued
  <2> QED
    BY <1>r, <2>2, <2>3
<1>2. CASE Delivery
  <2> PICK d \in Clients, n \in Ids :
        /\ Dequeued(down, down', d, Message(n))
        /\ received' = received \cup {n} /\ Sending(d, Ack(n))
    BY <1>2 DEF Delivery
  <2>1. /\ Contains(down'[c], Message(id)) => Contains(down[c], Message(id))
        /\ Contains(down'[c], Ack(id)) => Contains(down[c], Ack(id))
    BY DEF Dequeued
  <2>2. Ack(n) # Message(id) /\ (Ack(n) = Ack(id) => n = id)
    OBVIOUS
  <2> QED
    BY <1>r, <2>1, <2>2 DEF Sending, Enqueued
<1>3. CASE AckArrival
  BY <1>3, <1>r DEF AckArrival, Dequeued
<1>4. CASE Retrying
  BY <1>4, <1>r DEF Retrying, Dequeued, Enqueued
<1>5. CASE Breaking
  BY <1>5, <1>r DEF Breaking, Emptied
<1>6. CASE Opening
  BY <1>6, <1>r DEF Opening
<1>7. CASE Registering
  BY <1>7, <1>r DEF Registering, Dequeued
<1>8. CASE Forwarding
  <2> PICK d \in Clients, w \in Wires :
        /\ Dequeued(up, up', d, w)
        /\ down' = down \/ (Receiver(w) \in Clients /\ Enqueued(down, down', Receiver(w), w))
        /\ UNCHANGED <<retries, received>>
    BY <1>8 DEF Forwarding
  <2>1. Contains(up[d], w)
    BY DEF Dequeued
  <2>2. w = Ack(id) => id \in received
    BY <2>1 DEF IInv, Routes
  <2>3. /\ Contains(up'[c], Message(id)) => Contains(up[c], Message(id))
        /\ Contains(up'[c], Ack(id)) => Contains(up[c], Ack(id))
    BY DEF Dequeued
  <2>4. Contains(down'[c], Message(id)) =>
            Contains(down[c], Message(id)) \/ (w = Message(id) /\ c = Receiver(w))
    BY DEF Enqueued
  <2>5. Contains(down'[c], Ack(id)) =>
            Contains(down[c], Ack(id)) \/ (w = Ack(id) /\ c = Receiver(w))
    BY DEF Enqueued
  <2> QED
    BY <1>r, <2>2, <2>3, <2>4, <2>5
<1>9. CASE Resting
  BY <1>9, <1>r DEF Resting
<1> QED
  BY <1>m, <1>1, <1>2, <1>3, <1>4, <1>5, <1>6, <1>7, <1>8, <1>9 DEF Move

LEMMA SingleStep ==
    ASSUME IInv, [Next]_vars, NEW id \in Ids
    PROVE  Single(id)'
<1> USE Constants, WireForms
<1> DEFINE o == Origin[id]
           t == Target[id]
           m == Message(id)
<1>s. /\ Once(retries[o], m) /\ Once(up[o], m) /\ Once(down[t], m)
      /\ ~(Contains(retries[o], m) /\ Contains(up[o], m))
      /\ ~(Contains(retries[o], m) /\ Contains(down[t], m))
      /\ ~(Contains(up[o], m) /\ Contains(down[t], m))
      /\ Contains(retries[o], m) \/ Contains(up[o], m) \/ Contains(down[t], m)
             => outcome[id] # "unasked" /\ id \notin received
  BY DEF IInv, Single
<1>w. \A d \in Clients : /\ Contains(retries[d], m) => d = o
                         /\ Contains(up[d], m) => d = o
                         /\ Contains(down[d], m) => d = t
  BY DEF IInv, Routes
<1>x. /\ outcome[id] # "unasked" => outcome'[id] # "unasked"
      /\ id \in received => outcome[id] # "unasked"
  BY OutcomeStays DEF IInv, Books
<1>y. o \in Clients /\ t \in Clients /\ m \in Wires
  OBVIOUS
<1>m. Move
  BY Moves DEF IInv
<1> SUFFICES
      /\ Once(retries'[o], m) /\ Once(up'[o], m) /\ Once(down'[t], m)
      /\ ~(Contains(retries'[o], m) /\ Contains(up'[o], m))
      /\ ~(Contains(retries'[o], m) /\ Contains(down'[t], m))
      /\ ~(Contains(up'[o], m) /\ Contains(down'[t], m))
      /\ Contains(retries'[o], m) \/ Contains(up'[o], m) \/ Contains(down'[t], m)
             => outcome'[id] # "unasked" /\ id \notin received'
  BY DEF Single, Message
<1>1. CASE Posting
  <2> PICK n \in Ids :
        /\ outcome[n] = "unasked" /\ outcome'[n] # "unasked"
        /\ Sending(Origin[n], Message(n)) /\ UNCHANGED <<down, received>>
    BY <1>1 DEF Posting
  <2>1. CASE n = id
    <3>1. id \notin received /\ ~Contains(retries[o], m) /\ ~Contains(up[o], m) /\ ~Contains(down[t], m)
      BY <1>s, <1>x, <2>1
    <3> QED
      BY <1>s, <1>y, <2>1, <3>1 DEF Sending, Enqueued
  <2>2. CASE n # id
    <3>1. Message(n) # m
      BY <2>2
    <3> HIDE DEF m
    <3> QED
      BY <1>s, <1>x, <1>y, <3>1 DEF Sending, Enqueued
  <2> QED
    BY <2>1, <2>2
<1>2. CASE Delivery
  <2> PICK c \in Clients, n \in Ids :
        /\ Dequeued(down, down', c, Message(n))
        /\ received' = received \cup {n} /\ Sending(c, Ack(n))
    BY <1>2 DEF Delivery
  <2>1. m # Ack(n)
    OBVIOUS
  <2>2. CASE n = id
    <3>1. Contains(down[t], m) /\ c = t
      BY <1>w, <2>2 DEF Dequeued
    <3>2. ~Contains(down'[t], m) /\ Once(down'[t], m)
      BY <1>s, <1>y, <2>2, <3>1 DEF Dequeued
    <3> HIDE DEF m
    <3> QED
      BY <1>s, <1>x, <1>y, <2>1, <3>1, <3>2 DEF Sending, Enqueued
  <2>3. CASE n # id
    <3>1. Message(n) # m
      BY <2>3
    <3> HIDE DEF m
    <3> QED
      BY <1>s, <1>x, <1>y, <2>1, <2>3, <3>1 DEF Sending, Enqueued, Dequeued
  <2> QED
    BY <2>2, <2>3
<1>3. CASE AckArrival
  BY <1>3, <1>s, <1>x, <1>y DEF AckArrival, Dequeued
<1>4. CASE Retrying
  <2> PICK c \in Clients, w \in Wires :
        /\ Dequeued(retries, retries', c, w) /\ (up' = up \/ Enqueued(up, up', c, w))
        /\ UNCHANGED <<down, received>>
    BY <1>4 DEF Retrying
  <2> HIDE DEF m
  <2>1. w = m => c = o /\ Contains(retries[o], m) /\ ~Contains(retries'[o], m)
    BY <1>s, <1>w DEF Dequeued
  <2> QED
    BY <1>s, <1>x, <1>y, <2>1 DEF Dequeued, Enqueued
<1>5. CASE Breaking
  BY <1>5, <1>s, <1>x, <1>y DEF Breaking, Emptied
<1>6. CASE Opening
  BY <1>6, <1>s, <1>x, <1>y DEF Opening
<1>7. CASE Registering
  BY <1>7, <1>s, <1>x, <1>y DEF Registering, Dequeued
<1>8. CASE Forwarding
  <2> PICK c \in Clients, w \in Wires :
        /\ Dequeued(up, up', c, w)
        /\ down' = down \/ (Receiver(w) \in Clients /\ Enqueued(down, down', Receiver(w), w))
        /\ UNCHANGED <<retries, received>>
    BY <1>8 DEF Forwarding
  <2>0. Receiver(m) = t
    OBVIOUS
  <2> HIDE DEF m
  <2>1. w = m => c = o /\ Contains(up[o], m) /\ ~Contains(up'[o], m)
    BY <1>s, <1>w DEF Dequeued
  <2> QED
    BY <1>s, <1>x, <1>y, <2>0, <2>1 DEF Dequeued, Enqueued
<1>9. CASE Resting
  BY <1>9, <1>s, <1>x, <1>y DEF Resting
<1> QED
  BY <1>m, <1>1, <1>2, <1>3, <1>4, <1>5, <1>6, <1>7, <1>8, <1>9 DEF Move

\* A call of send, ask or answer keeps the books.
LEMMA PostBooks ==
    ASSUME IInv, NEW id \in Ids, NEW payload \in SUBSET Ids, Post(id, payload),
           \/ acks' = acks \cup {id} /\ questions' = questions /\ id \notin Questions
              /\ (id \in payload \/ id \in Void)
           \/ id \in Questions /\ questions' = questions \cup {id} /\ acks' = acks,
           \A q \in Questions : AnswerTo[q] = id => q \in received
    PROVE  Books'
<1> USE Constants
<1>t. /\ outcome \in [Ids -> Outcomes] /\ pending \in [Clients -> SUBSET Ids]
      /\ acks \subseteq Sends \cup Answers /\ questions \subseteq Questions
  BY DEF IInv, TypeOK
<1>o. outcome[id] = "unasked" /\ \A i \in Ids : outcome'[i] = IF i = id THEN "pending" ELSE outcome[i]
  BY <1>t DEF Post
<1>p. \A i \in Ids : i \in pending[Origin[i]] \/ (i = id /\ id \in payload) => i \in pending'[Origin[i]]
  BY <1>t DEF Post
<1>r. received' = received
  BY DEF Post
<1>1. AcksArePending'
  <2> SUFFICES ASSUME NEW i \in acks'
               PROVE  outcome'[i] = "pending" /\ (i \in pending'[Origin[i]] \/ i \in Void)
    BY DEF AcksArePending
  <2>1. CASE i \in acks
    BY <1>t, <1>o, <1>p, <2>1 DEF IInv, Books, AcksArePending
  <2>2. CASE i \notin acks
    BY <1>o, <1>p, <2>2
  <2> QED
    BY <2>1, <2>2
<1>2. \A q \in Questions : q \in questions' <=> outcome'[q] = "pending"
  BY <1>o DEF IInv, Books
<1>3. \A q \in Questions : outcome'[AnswerTo[q]] # "unasked" => q \in received'
  BY <1>o, <1>r DEF IInv, Books
<1>4. \A i \in received' : outcome'[i] # "unasked"
  BY <1>o, <1>r DEF IInv, Books, TypeOK
<1>5. ResultIsReceived'
  BY <1>o, <1>r DEF IInv, Books, ResultIsReceived
<1> QED
  BY <1>1, <1>2, <1>3, <1>4, <1>5 DEF Books

\* Where a message that arrives comes from.
LEMMA ArrivingMessage ==
    ASSUME IInv, NEW c \in Clients, NEW id \in Ids, Arrives(c, Message(id))
    PROVE  Target[id] = c /\ outcome[id] # "unasked" /\ id \notin received
<1>1. Contains(down[c], Message(id))
  BY ArrivesEffect DEF IInv, Dequeued
<1> QED
  BY <1>1, Constants DEF IInv, Routes, Single

LEMMA BooksStep == IInv /\ [Next]_vars => Books'
<1> SUFFICES ASSUME IInv, [Next]_vars PROVE Books'
  OBVIOUS
<1> USE Constants
<1>t. /\ outcome \in [Ids -> Outcomes] /\ pending \in [Clients -> SUBSET Ids]
      /\ acks \subseteq Sends \cup Answers /\ questions \subseteq Questions
      /\ received \subseteq Ids
  BY DEF IInv, TypeOK
<1>b. /\ AcksArePending /\ ResultIsReceived
      /\ \A q \in Questions : q \in questions <=> outcome[q] = "pending"
      /\ \A q \in Questions : outcome[AnswerTo[q]] # "unasked" => q \in received
      /\ \A id \in received : outcome[id] # "unasked"
  BY DEF IInv, Books
<1>1. ASSUME NEW m \in Sends, Send(m) PROVE Books'
  <2>1. Post(m, {m}) /\ acks' = acks \cup {m} /\ questions' = questions
    BY <1>1 DEF Send, EnterAcks
  <2>2. m \in Ids /\ {m} \in SUBSET Ids /\ m \notin Questions /\ \A q \in Questions : AnswerTo[q] # m
    OBVIOUS
  <2> QED
    BY <2>1, <2>2, PostBooks
<1>2. ASSUME NEW q \in Questions, Ask(q) PROVE Books'
  <2>1. Post(q, {q}) /\ questions' = questions \cup {q} /\ acks' = acks
    BY <1>2 DEF Ask, EnterQuestions
  <2>2. q \in Ids /\ {q} \in SUBSET Ids /\ \A p \in Questions : AnswerTo[p] # q
    OBVIOUS
  <2> QED
    BY <2>1, <2>2, PostBooks
<1>3. ASSUME NEW q \in Questions, NEW void \in BOOLEAN, AnswerQuestion(q, void) PROVE Books'
  <2> DEFINE a == AnswerTo[q]
             payload == IF void THEN {} ELSE {a}
  <2>1. Post(a, payload) /\ acks' = acks \cup {a} /\ questions' = questions
    BY <1>3 DEF AnswerQuestion, EnterAcks
  <2>2. /\ a \in Ids /\ payload \in SUBSET Ids /\ a \notin Questions
        /\ a \in payload \/ a \in Void
        /\ \A p \in Questions : AnswerTo[p] = a => p \in received
    BY <1>3 DEF AnswerQuestion
  <2> QED
    BY <2>1, <2>2, PostBooks
<1>4. ASSUME NEW c \in Clients, ReceiveMessage(c) PROVE Books'
  <2> PICK id \in Sends \cup Questions :
        /\ Arrives(c, Message(id)) /\ received' = received \cup {id}
        /\ UNCHANGED <<acks, questions, pending, outcome>>
    BY <1>4 DEF ReceiveMessage
  <2>1. outcome[id] # "unasked"
    BY ArrivingMessage
  <2> QED
    BY <1>b, <2>1 DEF Books, AcksArePending, ResultIsReceived
<1>5. ASSUME NEW c \in Clients, ReceiveAck(c) PROVE Books'
  <2> PICK id \in Ids :
        /\ Arrives(c, Ack(id)) /\ acks' = acks \ {id}
        /\ pending' = [pending EXCEPT ![c] = @ \ {id}]
        /\ outcome' = IF id \in acks THEN [outcome EXCEPT ![id] = "result"] ELSE outcome
        /\ UNCHANGED <<questions, received>>
    BY <1>5 DEF ReceiveAck, outgoing
  <2>1. Contains(down[c], Ack(id))
    BY ArrivesEffect DEF IInv, Dequeued
  <2>2. id \in received
    BY <2>1 DEF IInv, Routes
  <2>o. \A i \in Ids : outcome'[i] = IF i = id /\ id \in acks THEN "result" ELSE outcome[i]
    BY <1>t
  <2>p. \A i \in Ids : i # id /\ i \in pending[Origin[i]] => i \in pending'[Origin[i]]
    BY <1>t
  <2>3. AcksArePending'
    BY <1>t, <1>b, <2>o, <2>p DEF AcksArePending
  <2>4. \A q \in Questions : outcome'[q] = outcome[q]
    BY <1>t, <2>o
  <2>5. \A i \in Ids : outcome'[i] = "unasked" <=> outcome[i] = "unasked"
    BY <1>t, <1>b, <2>o DEF AcksArePending
  <2>6. ResultIsReceived'
    BY <1>t, <1>b, <2>2, <2>o DEF ResultIsReceived
  <2> QED
    BY <1>t, <1>b, <2>3, <2>4, <2>5, <2>6 DEF Books
<1>6. ASSUME NEW c \in Clients, ReceiveAnswer(c) PROVE Books'
  <2> PICK q \in Questions :
        /\ Arrives(c, Message(AnswerTo[q]))
        /\ outcome' = IF q \in questions THEN [outcome EXCEPT ![q] = "result"] ELSE outcome
        /\ questions' = questions \ {q}
        /\ pending' = [pending EXCEPT ![c] = @ \ {AnswerTo[q]}]
        /\ received' = received \cup {AnswerTo[q]}
        /\ UNCHANGED acks
    BY <1>6 DEF ReceiveAnswer
  <2> DEFINE a == AnswerTo[q]
  <2>1. Target[a] = c /\ outcome[a] # "unasked" /\ a \in Ids
    BY ArrivingMessage
  <2>2. q \in received
    BY <1>b, <2>1
  <2>o. \A i \in Ids : outcome'[i] = IF i = q /\ q \in questions THEN "result" ELSE outcome[i]
    BY <1>t
  <2>p. \A i \in Ids : i \in pending[Origin[i]] => i \in pending'[Origin[i]]
    <3>1. Origin[a] # c
      BY <2>1
    <3> QED
      BY <1>t, <3>1
  <2>3. AcksArePending'
    BY <1>t, <1>b, <2>o, <2>p DEF AcksArePending
  <2>4. \A p \in Questions : p \in questions' <=> outcome'[p] = "pending"
    BY <1>b, <2>o
  <2>5. \A i \in Ids : outcome'[i] = "unasked" <=> outcome[i] = "unasked"
    BY <1>b, <2>o
  <2>6. ResultIsReceived'
    BY <1>b, <2>2, <2>o DEF ResultIsReceived
  <2> QED
    BY <1>t, <1>b, <2>1, <2>3, <2>4, <2>5, <2>6 DEF Books
<1>7. ASSUME NEW c \in Clients, HandleTimeouts(c) PROVE Books'
  <2>1. /\ acks' = acks \ LostAcks(c) /\ questions' = questions \ Rejected(c)
        /\ pending' = [pending EXCEPT ![c] = @ \ (LostAcks(c) \cup Rejected(c))]
        /\ outcome' = [id \in Ids |-> IF id \in Rejected(c) THEN "error" ELSE outcome[id]]
        /\ received' = received
    BY <1>7 DEF HandleTimeouts
  <2>2. LostAcks(c) \subseteq acks /\ Rejected(c) \subseteq questions
    BY CheckedEntries
  <2>p. \A i \in acks' : i \in pending[Origin[i]] => i \in pending'[Origin[i]]
    BY <1>t, <2>1, <2>2
  <2>3. AcksArePending'
    BY <1>t, <1>b, <2>1, <2>2, <2>p DEF AcksArePending
  <2>4. \A p \in Questions : p \in questions' <=> outcome'[p] = "pending"
    BY <1>b, <2>1
  <2>5. \A i \in Ids : outcome'[i] = "unasked" <=> outcome[i] = "unasked"
    BY <1>t, <1>b, <2>1, <2>2
  <2>6. ResultIsReceived'
    BY <1>b, <2>1 DEF ResultIsReceived
  <2> QED
    BY <1>t, <1>b, <2>1, <2>3, <2>4, <2>5, <2>6 DEF Books
<1>8. ASSUME UNCHANGED <<book, received>> PROVE Books'
  BY <1>8, <1>b DEF Books, book, AcksArePending, ResultIsReceived
<1>9. ASSUME NEW c \in Clients,
             Retry(c) \/ Close(c) \/ Disconnect(c) \/ Reconnect(c) \/ Open(c) \/ Proxy(c)
      PROVE  UNCHANGED <<book, received>>
  BY <1>9 DEF Retry, Close, Disconnect, Reconnect, Open, Proxy, ProxyRegister, ProxyForward
<1>10. ASSUME NEW c \in Clients, NEW k \in 1..MaxConns, ProxyClose(c, k) \/ ProxyError(c, k)
       PROVE  UNCHANGED <<book, received>>
  BY <1>10 DEF ProxyClose, ProxyError
<1>11. ASSUME UNCHANGED vars PROVE UNCHANGED <<book, received>>
  BY <1>11 DEF vars, book
<1> QED
  BY <1>1, <1>2, <1>3, <1>4, <1>5, <1>6, <1>7, <1>8, <1>9, <1>10, <1>11 DEF Next, Receive

\* What most steps leave alone.
LEMMA LinksStay ==
    ASSUME [Next]_vars
    PROVE  \/ UNCHANGED <<shutdown, link, conn, broken>>
           \/ \E c \in Clients : Close(c) \/ Disconnect(c) \/ Reconnect(c) \/ Open(c)
           \/ \E c \in Clients, k \in 1..MaxConns : ProxyClose(c, k)
<1>1. ASSUME NEW id, NEW payload, Post(id, payload) PROVE UNCHANGED <<shutdown, link, conn, broken>>
  BY <1>1 DEF Post, proxy
<1>2. ASSUME NEW m, Send(m) \/ Ask(m) \/ \E void \in BOOLEAN : AnswerQuestion(m, void)
      PROVE  UNCHANGED <<shutdown, link, conn, broken>>
  BY <1>1, <1>2 DEF Send, Ask, AnswerQuestion
<1>3. ASSUME NEW c, Receive(c) \/ Retry(c) \/ HandleTimeouts(c) \/ Proxy(c)
      PROVE  UNCHANGED <<shutdown, link, conn, broken>>
  BY <1>3 DEF Receive, ReceiveMessage, ReceiveAck, ReceiveAnswer, Arrives, Retry, HandleTimeouts,
              Proxy, ProxyRegister, ProxyForward, proxy
<1>4. ASSUME NEW c, NEW k, ProxyError(c, k) PROVE UNCHANGED <<shutdown, link, conn, broken>>
  BY <1>4 DEF ProxyError
<1>5. ASSUME UNCHANGED vars PROVE UNCHANGED <<shutdown, link, conn, broken>>
  BY <1>5 DEF vars
<1> QED
  BY <1>2, <1>3, <1>4, <1>5 DEF Next

LEMMA BreaksStep == TypeOK /\ Breaks /\ [Next]_vars => Breaks'
<1> SUFFICES ASSUME TypeOK, Breaks, [Next]_vars, NEW c \in Clients, NEW k \in 1..MaxConns,
                    <<c, k>> \in broken'
             PROVE  k <= conn'[c] /\ (k = conn'[c] => link'[c] \in {"closed", "lost"})
  BY DEF Breaks
<1>t. conn \in [Clients -> 1..MaxConns] /\ link \in [Clients -> Links] /\ MaxConns \in Nat
  BY Constants DEF TypeOK
<1>0. conn[c] \in 1..MaxConns
  BY <1>t
<1>1. ASSUME NEW d \in Clients, Close(d) PROVE k <= conn'[c] /\ (k = conn'[c] => link'[c] \in {"closed", "lost"})
  BY <1>1, <1>t DEF Close, Breaks, proxy
<1>2. ASSUME NEW d \in Clients, Disconnect(d) PROVE k <= conn'[c] /\ (k = conn'[c] => link'[c] \in {"closed", "lost"})
  <2>1. <<c, k>> \in broken \/ (c = d /\ k = conn[c])
    BY <1>2 DEF Disconnect
  <2> QED
    BY <1>2, <1>t, <1>0, <2>1 DEF Disconnect, Breaks
<1>3. ASSUME NEW d \in Clients, Reconnect(d) PROVE k <= conn'[c] /\ (k = conn'[c] => link'[c] \in {"closed", "lost"})
  <2>1. <<c, k>> \in broken
    BY <1>3 DEF Reconnect, proxy
  <2>2. conn'[c] = IF c = d THEN conn[c] + 1 ELSE conn[c]
    BY <1>3, <1>t DEF Reconnect
  <2> QED
    BY <1>3, <1>t, <1>0, <2>1, <2>2 DEF Reconnect, Breaks
<1>4. ASSUME NEW d \in Clients, Open(d) PROVE k <= conn'[c] /\ (k = conn'[c] => link'[c] \in {"closed", "lost"})
  BY <1>4, <1>t DEF Open, Breaks, proxy
<1>5. ASSUME NEW d \in Clients, NEW j \in 1..MaxConns, ProxyClose(d, j)
      PROVE  k <= conn'[c] /\ (k = conn'[c] => link'[c] \in {"closed", "lost"})
  BY <1>5 DEF ProxyClose, Breaks
<1>6. CASE UNCHANGED <<shutdown, link, conn, broken>>
  BY <1>6 DEF Breaks
<1> QED
  BY <1>1, <1>2, <1>3, <1>4, <1>5, <1>6, LinksStay

\* The initial states satisfy the invariant.
LEMMA InitIInv == Init => IInv
<1> SUFFICES ASSUME Init PROVE IInv
  OBVIOUS
<1> USE Constants, WireForms
<1>1. TypeOK
  <2>1. \A c \in Clients : <<ClientId(c)>> \in Seq(Wires)
    OBVIOUS
  <2> QED
    BY <2>1 DEF Init, TypeOK, Outcomes, Links
<1>2. Books
  BY DEF Init, Books, AcksArePending, ResultIsReceived
<1>3. \A c \in Clients : \A w :
          /\ ~Contains(retries[c], w) /\ ~Contains(down[c], w)
          /\ Contains(up[c], w) => w = ClientId(c)
          /\ Once(retries[c], w) /\ Once(down[c], w) /\ Once(up[c], w)
  <2>1. \A c \in Clients : retries[c] = <<>> /\ down[c] = <<>> /\ up[c] = <<ClientId(c)>>
    BY DEF Init
  <2>2. \A x, w : (Contains(<<x>>, w) => w = x) /\ Once(<<x>>, w)
    BY DEF Contains, Once
  <2> SUFFICES ASSUME NEW c \in Clients, NEW w
               PROVE  /\ ~Contains(retries[c], w) /\ ~Contains(down[c], w)
                      /\ Contains(up[c], w) => w = ClientId(c)
                      /\ Once(retries[c], w) /\ Once(down[c], w) /\ Once(up[c], w)
    OBVIOUS
  <2>3. retries[c] = <<>> /\ down[c] = <<>> /\ up[c] = <<ClientId(c)>>
    BY <2>1
  <2> QED
    BY <2>2, <2>3, Empty
<1>4. \A c \in Clients, id \in Ids : /\ ~Contains(up[c], Message(id)) /\ ~Contains(up[c], Ack(id))
                                     /\ ~Contains(retries[c], Message(id)) /\ ~Contains(retries[c], Ack(id))
                                     /\ ~Contains(down[c], Message(id)) /\ ~Contains(down[c], Ack(id))
  <2> SUFFICES ASSUME NEW c \in Clients, NEW id \in Ids
               PROVE  /\ ~Contains(up[c], Message(id)) /\ ~Contains(up[c], Ack(id))
                      /\ ~Contains(retries[c], Message(id)) /\ ~Contains(retries[c], Ack(id))
                      /\ ~Contains(down[c], Message(id)) /\ ~Contains(down[c], Ack(id))
    OBVIOUS
  <2>1. Message(id) # ClientId(c) /\ Ack(id) # ClientId(c)
    BY DEF Message, Ack, ClientId
  <2> QED
    BY <1>3, <2>1
<1>5. Routes
  BY <1>4 DEF Routes
<1>7. \A id \in Ids : Single(id)
  <2> SUFFICES ASSUME NEW id \in Ids PROVE Single(id)
    OBVIOUS
  <2>1. Origin[id] \in Clients /\ Target[id] \in Clients
    OBVIOUS
  <2> QED
    BY <1>3, <1>4, <2>1 DEF Single
<1>6. Breaks
  BY DEF Init, Breaks
<1> QED
  BY <1>1, <1>2, <1>5, <1>6, <1>7 DEF IInv

LEMMA StepIInv == IInv /\ [Next]_vars => IInv'
<1> SUFFICES ASSUME IInv, [Next]_vars PROVE IInv'
  OBVIOUS
<1>1. TypeOK' /\ Breaks'
  BY TypeStep, BreaksStep DEF IInv
<1>2. Books' /\ Routes'
  BY BooksStep, RoutesStep
<1>3. (\A id \in Ids : Single(id))'
  BY SingleStep
<1> QED
  BY <1>1, <1>2, <1>3 DEF IInv

LEMMA Invariance == Spec => []IInv
BY InitIInv, StepIInv, PTL DEF Spec

-----------------------------------------------------------------------------
\* The variables keep their types, for any number of clients and messages.
THEOREM TypeCorrect == Spec => []TypeOK
<1>1. IInv => TypeOK
  BY DEF IInv
<1> QED
  BY Invariance, <1>1, PTL

(* Whatever is lost or late, what waits for its ACK has an open promise    *)
(* and a payload to report, so the check of handleTimeouts does not throw  *)
(* at it unless it is an answer without value.                             *)
THEOREM AcksStayPending == Spec => []AcksArePending
<1>1. IInv => AcksArePending
  BY DEF IInv, Books
<1> QED
  BY Invariance, <1>1, PTL

(* A promise resolves only when the message, or the answer to the          *)
(* question, was delivered: ACKs and answers are never taken for others.   *)
THEOREM ResultMeansReceived == Spec => []ResultIsReceived
<1>1. IInv => ResultIsReceived
  BY DEF IInv, Books
<1> QED
  BY Invariance, <1>1, PTL

-----------------------------------------------------------------------------
\* The id of an open connection is under way or registered.
Reach == \A c \in Clients : link[c] = "open" => Contains(up[c], ClientId(c)) \/ sockets[c] = conn[c]

LEMMA ReachStep ==
    ASSUME ~SocketErrors, IInv, Reach, [Next]_vars
    PROVE  Reach'
<1> SUFFICES ASSUME NEW c \in Clients, link'[c] = "open"
             PROVE  Contains(up'[c], ClientId(c)) \/ sockets'[c] = conn'[c]
  BY DEF Reach, ClientId
<1> DEFINE id == ClientId(c)
<1> USE Constants, WireForms
<1>t. /\ up \in [Clients -> Seq(Wires)] /\ link \in [Clients -> Links]
      /\ sockets \in [Clients -> 0..MaxConns] /\ conn \in [Clients -> 1..MaxConns]
  BY DEF IInv, TypeOK
<1>r. link[c] = "open" => Contains(up[c], id) \/ sockets[c] = conn[c]
  BY DEF Reach
<1>q. ASSUME link[c] = "open", UNCHANGED <<sockets, conn>>, Contains(up[c], id) => Contains(up'[c], id)
      PROVE  Contains(up'[c], id) \/ sockets'[c] = conn'[c]
  BY <1>r, <1>q
<1>s. ASSUME NEW d \in Clients, NEW w \in Wires, TrySend(d, w), UNCHANGED <<link, sockets, conn>>
      PROVE  Contains(up'[c], id) \/ sockets'[c] = conn'[c]
  <2>1. Contains(up[c], id) => Contains(up'[c], id)
    BY <1>s, TrySendEffect DEF IInv, Enqueued
  <2> QED
    BY <1>q, <1>s, <2>1
<1>1. ASSUME NEW i \in Ids, NEW payload, Post(i, payload)
      PROVE  Contains(up'[c], id) \/ sockets'[c] = conn'[c]
  BY <1>1, <1>s DEF Post, proxy
<1>2. ASSUME NEW m \in Ids, Send(m) \/ Ask(m)
      PROVE  Contains(up'[c], id) \/ sockets'[c] = conn'[c]
  BY <1>1, <1>2 DEF Send, Ask
<1>3. ASSUME NEW q \in Questions, NEW void \in BOOLEAN, AnswerQuestion(q, void)
      PROVE  Contains(up'[c], id) \/ sockets'[c] = conn'[c]
  BY <1>1, <1>3 DEF AnswerQuestion
<1>4. ASSUME NEW d \in Clients, ReceiveMessage(d) \/ ReceiveAnswer(d)
      PROVE  Contains(up'[c], id) \/ sockets'[c] = conn'[c]
  BY <1>4, <1>s DEF ReceiveMessage, ReceiveAnswer, Arrives, proxy
<1>5. ASSUME NEW d \in Clients, ReceiveAck(d) \/ HandleTimeouts(d) \/ Close(d)
      PROVE  Contains(up'[c], id) \/ sockets'[c] = conn'[c]
  <2>1. UNCHANGED <<up, sockets, conn>>
    BY <1>5 DEF ReceiveAck, HandleTimeouts, Close, Arrives, outgoing, proxy
  <2>2. link[c] = "open"
    BY <1>5, <1>t DEF ReceiveAck, HandleTimeouts, Close, Arrives
  <2> QED
    BY <1>q, <2>1, <2>2
<1>6. ASSUME NEW d \in Clients, Retry(d)
      PROVE  Contains(up'[c], id) \/ sockets'[c] = conn'[c]
  <2>1. up' = up \/ \E w \in Wires : Enqueued(up, up', d, w)
    BY <1>6, RetryEffect DEF IInv
  <2>2. Contains(up[c], id) => Contains(up'[c], id)
    BY <2>1 DEF Enqueued
  <2> QED
    BY <1>6, <1>q, <2>2 DEF Retry, proxy
<1>7. ASSUME NEW d \in Clients, Disconnect(d)
      PROVE  Contains(up'[c], id) \/ sockets'[c] = conn'[c]
  <2>1. c # d
    BY <1>7, <1>t DEF Disconnect
  <2>2. up'[c] = up[c] /\ link[c] = "open" /\ UNCHANGED <<sockets, conn>>
    BY <1>7, <1>t, <2>1 DEF Disconnect
  <2> QED
    BY <1>q, <2>2
<1>8. ASSUME NEW d \in Clients, Reconnect(d)
      PROVE  Contains(up'[c], id) \/ sockets'[c] = conn'[c]
  <2>1. c # d
    BY <1>8, <1>t DEF Reconnect
  <2>2. up' = up /\ link[c] = "open" /\ sockets' = sockets /\ conn'[c] = conn[c]
    BY <1>8, <1>t, <2>1 DEF Reconnect, outgoing, proxy
  <2> QED
    BY <1>r, <2>2
<1>9. ASSUME NEW d \in Clients, Open(d)
      PROVE  Contains(up'[c], id) \/ sockets'[c] = conn'[c]
  <2>1. CASE c = d
    <3>1. up'[c] = <<id>>
      BY <1>9, <1>t, <2>1 DEF Open
    <3> QED
      BY <3>1 DEF Contains
  <2>2. CASE c # d
    <3>1. up'[c] = up[c] /\ link[c] = "open" /\ UNCHANGED <<sockets, conn>>
      BY <1>9, <1>t, <2>2 DEF Open, proxy
    <3> QED
      BY <1>q, <3>1
  <2> QED
    BY <2>1, <2>2
<1>10. ASSUME NEW d \in Clients, ProxyRegister(d)
       PROVE  Contains(up'[c], id) \/ sockets'[c] = conn'[c]
  <2>1. CASE c = d
    BY <1>10, <1>t, <2>1 DEF ProxyRegister
  <2>2. CASE c # d
    <3>1. up'[c] = up[c] /\ link[c] = "open" /\ sockets'[c] = sockets[c] /\ conn' = conn
      BY <1>10, <1>t, <2>2 DEF ProxyRegister
    <3> QED
      BY <1>r, <3>1
  <2> QED
    BY <2>1, <2>2
<1>11. ASSUME NEW d \in Clients, ProxyForward(d)
       PROVE  Contains(up'[c], id) \/ sockets'[c] = conn'[c]
  <2>1. Dequeued(up, up', d, Head(up[d])) /\ Head(up[d]) # ClientId(d)
    BY <1>11, <1>t, TailAt DEF ProxyForward
  <2>2. Contains(up[c], id) => Contains(up'[c], id)
    BY <2>1 DEF Dequeued
  <2> QED
    BY <1>11, <1>q, <2>2 DEF ProxyForward, proxy
<1>12. ASSUME NEW d \in Clients, NEW k \in 1..MaxConns, ProxyClose(d, k)
       PROVE  Contains(up'[c], id) \/ sockets'[c] = conn'[c]
  <2>1. up' = up /\ link[c] = "open" /\ conn' = conn
    BY <1>12 DEF ProxyClose, outgoing
  <2>2. CASE c = d
    <3>1. k # conn[c]
      BY <1>12, <2>1, <2>2 DEF ProxyClose, IInv, Breaks
    <3> QED
      BY <1>12, <1>r, <1>t, <2>1, <2>2, <3>1 DEF ProxyClose
  <2>3. CASE c # d
    BY <1>12, <1>r, <1>t, <2>1, <2>3 DEF ProxyClose
  <2> QED
    BY <2>2, <2>3
<1>13. ASSUME NEW d \in Clients, NEW k \in 1..MaxConns, ProxyError(d, k)
       PROVE  FALSE
  BY <1>13 DEF ProxyError
<1>14. CASE UNCHANGED vars
  BY <1>14, <1>r DEF vars
<1> HIDE DEF id
<1> QED
  BY <1>2, <1>3, <1>4, <1>5, <1>6, <1>7, <1>8, <1>9, <1>10, <1>11, <1>12, <1>13, <1>14
     DEF Next, Receive, Proxy, id

(* Without the proxy's error handler, which takes out a registration of    *)
(* another client, a client whose id arrived on an open connection can be  *)
(* reached, though "close" events of its former connections come late.     *)
THEOREM OpenStaysReachable ==
    ASSUME ~SocketErrors
    PROVE  Spec => []OpenIsReachable
<1>1. Init => Reach
  <2>1. \A c : Contains(<<ClientId(c)>>, ClientId(c))
    BY DEF Contains
  <2> QED
    BY <2>1 DEF Init, Reach
<1>2. IInv /\ Reach /\ [Next]_vars => Reach'
  BY ReachStep
<1>3. Reach => OpenIsReachable
  BY DEF Reach, OpenIsReachable
<1> QED
  BY Invariance, <1>1, <1>2, <1>3, PTL DEF Spec

-----------------------------------------------------------------------------
(* Some promises that settle in one step are an answer of AskPromise.      *)
LEMMA Settling ==
    ASSUME outcome \in [Ids -> Outcomes], NEW settled \in SUBSET Ids,
           \A id \in settled : outcome[id] = "pending",
           NEW r \in Promise!Settlements,
           outcome' = [id \in Ids |-> IF id \in settled THEN r ELSE outcome[id]]
    PROVE  Promise!AskNext
BY DEF Promise!AskNext, Promise!Answer

\* Every step is one of AskPromise, or changes no promise.
LEMMA PromiseStep == IInv /\ [Next]_vars => [Promise!AskNext]_outcome
<1> SUFFICES ASSUME IInv, [Next]_vars PROVE Promise!AskNext \/ UNCHANGED outcome
  OBVIOUS
<1> USE Constants
<1>t. outcome \in [Ids -> Outcomes] /\ acks \subseteq Ids /\ questions \subseteq Questions
  BY DEF IInv, TypeOK
<1>b. /\ \A id \in acks : outcome[id] = "pending"
      /\ \A q \in questions : outcome[q] = "pending"
  BY <1>t DEF IInv, Books, AcksArePending
<1>1. ASSUME NEW id \in Ids, NEW payload, Post(id, payload) PROVE Promise!AskNext
  BY <1>1 DEF Post, Promise!AskNext, Promise!Ask
<1>2. ASSUME NEW m \in Ids, Send(m) \/ Ask(m) PROVE Promise!AskNext
  BY <1>1, <1>2 DEF Send, Ask
<1>3. ASSUME NEW q \in Questions, NEW void \in BOOLEAN, AnswerQuestion(q, void)
      PROVE  Promise!AskNext
  BY <1>1, <1>3 DEF AnswerQuestion
<1>4. ASSUME NEW id \in Ids, outcome[id] = "pending",
             outcome' = [outcome EXCEPT ![id] = "result"]
      PROVE  Promise!AskNext
  <2>1. outcome' = [i \in Ids |-> IF i \in {id} THEN "result" ELSE outcome[i]]
    BY <1>t, <1>4
  <2>2. "result" \in Promise!Settlements /\ {id} \in SUBSET Ids
    BY DEF Promise!Settlements
  <2>3. \A i \in {id} : outcome[i] = "pending"
    BY <1>4
  <2> QED
    BY ONLY <1>t, <2>1, <2>2, <2>3, Settling
<1>5. ASSUME NEW c \in Clients, ReceiveAck(c) PROVE Promise!AskNext \/ UNCHANGED outcome
  BY <1>5, <1>b, <1>4 DEF ReceiveAck
<1>6. ASSUME NEW c \in Clients, ReceiveAnswer(c) PROVE Promise!AskNext \/ UNCHANGED outcome
  BY <1>6, <1>b, <1>4 DEF ReceiveAnswer
<1>7. ASSUME NEW c \in Clients, HandleTimeouts(c) PROVE Promise!AskNext
  <2>1. Rejected(c) \in SUBSET Ids /\ \A id \in Rejected(c) : outcome[id] = "pending"
    BY <1>t, <1>b, CheckedEntries
  <2>2. outcome' = [id \in Ids |-> IF id \in Rejected(c) THEN "error" ELSE outcome[id]]
    BY <1>7 DEF HandleTimeouts
  <2> QED
    BY <1>t, <2>1, <2>2, Settling DEF Promise!Settlements
<1>8. ASSUME NEW c \in Clients,
             ReceiveMessage(c) \/ Retry(c) \/ Close(c) \/ Disconnect(c) \/ Reconnect(c)
                 \/ Open(c) \/ Proxy(c)
      PROVE  UNCHANGED outcome
  BY <1>8 DEF ReceiveMessage, Retry, Close, Disconnect, Reconnect, Open, Proxy,
              ProxyRegister, ProxyForward, book
<1>9. ASSUME NEW c \in Clients, NEW k \in 1..MaxConns, ProxyClose(c, k) \/ ProxyError(c, k)
      PROVE  UNCHANGED outcome
  BY <1>9 DEF ProxyClose, ProxyError, book
<1>10. CASE UNCHANGED vars
  BY <1>10 DEF vars
<1> QED
  BY <1>2, <1>3, <1>5, <1>6, <1>7, <1>8, <1>9, <1>10 DEF Next, Receive

(* The clients implement AskPromise for every send, ask and answer: each   *)
(* promise settles once at most, whatever is lost, late or sent twice.     *)
THEOREM ImplementsPromise == Spec => PromiseSpec
<1>1. Init => Promise!AskInit
  BY DEF Init, Promise!AskInit
<1> QED
  BY Invariance, <1>1, PromiseStep, PTL DEF Spec, PromiseSpec, Promise!Spec

-----------------------------------------------------------------------------
(* Facts for the composition with the actor systems.                       *)

\* A client that was closed on its first connection does not send.
Closed == \A c \in Clients :
    shutdown[c] /\ conn[c] = 1 => link[c] \in {"closing", "closed", "lost"}

LEMMA ClosedStep == TypeOK /\ Closed /\ [Next]_vars => Closed'
<1> SUFFICES ASSUME TypeOK, Closed, [Next]_vars, NEW c \in Clients, shutdown'[c], conn'[c] = 1
             PROVE  link'[c] \in {"closing", "closed", "lost"}
  BY DEF Closed
<1>t. /\ conn \in [Clients -> 1..MaxConns] /\ link \in [Clients -> Links] /\ MaxConns \in Nat
      /\ shutdown \in [Clients -> BOOLEAN]
  BY Constants DEF TypeOK
<1>1. ASSUME NEW d \in Clients, Close(d) PROVE link'[c] \in {"closing", "closed", "lost"}
  BY <1>1, <1>t DEF Close, Closed, Links
<1>2. ASSUME NEW d \in Clients, Disconnect(d) PROVE link'[c] \in {"closing", "closed", "lost"}
  BY <1>2, <1>t DEF Disconnect, Closed
<1>3. ASSUME NEW d \in Clients, Reconnect(d) PROVE link'[c] \in {"closing", "closed", "lost"}
  BY <1>3, <1>t DEF Reconnect, Closed
<1>4. ASSUME NEW d \in Clients, Open(d) PROVE link'[c] \in {"closing", "closed", "lost"}
  BY <1>4, <1>t DEF Open, Closed
<1>5. ASSUME NEW d \in Clients, NEW k \in 1..MaxConns, ProxyClose(d, k)
      PROVE  link'[c] \in {"closing", "closed", "lost"}
  BY <1>5 DEF ProxyClose, Closed
<1>6. CASE UNCHANGED <<shutdown, link, conn, broken>>
  BY <1>6 DEF Closed
<1> QED
  BY <1>1, <1>2, <1>3, <1>4, <1>5, <1>6, LinksStay

\* No ACK of a message is on its way.
NoAck(id) == \A c \in Clients :
    ~Contains(retries[c], Ack(id)) /\ ~Contains(up[c], Ack(id)) /\ ~Contains(down[c], Ack(id))

\* The first connection is the one the count starts with.
LEMMA ConnGrows ==
    ASSUME TypeOK, [Next]_vars, NEW c \in Clients, conn'[c] = 1
    PROVE  conn[c] = 1
<1>t. conn \in [Clients -> 1..MaxConns] /\ MaxConns \in Nat
  BY Constants DEF TypeOK
<1>1. ASSUME NEW d \in Clients, Close(d) \/ Disconnect(d) \/ Open(d) PROVE conn' = conn
  BY <1>1 DEF Close, Disconnect, Open
<1>2. ASSUME NEW d \in Clients, Reconnect(d) PROVE conn[c] = 1
  BY <1>2, <1>t DEF Reconnect
<1>3. ASSUME NEW d \in Clients, NEW k \in 1..MaxConns, ProxyClose(d, k) PROVE conn' = conn
  BY <1>3 DEF ProxyClose
<1> QED
  BY <1>1, <1>2, <1>3, LinksStay

\* After its delivery, no ACK of a message is made.
LEMMA NoAckStep ==
    ASSUME IInv, [Next]_vars, NEW id \in Ids, id \in received, NoAck(id)
    PROVE  NoAck(id)'
<1> USE Constants, WireForms
<1> SUFFICES ASSUME NEW c \in Clients
             PROVE  ~Contains(retries'[c], Ack(id)) /\ ~Contains(up'[c], Ack(id))
                    /\ ~Contains(down'[c], Ack(id))
  BY DEF NoAck, Ack
<1> DEFINE a == Ack(id)
<1>n. \A d \in Clients : ~Contains(retries[d], a) /\ ~Contains(up[d], a) /\ ~Contains(down[d], a)
  BY DEF NoAck
<1>f. \A m \in Ids : Message(m) # a
  OBVIOUS
<1>g. \A m \in Ids : Ack(m) = a => m = id
  OBVIOUS
<1>h. \A d \in Clients : ClientId(d) # a
  OBVIOUS
<1>m. Move
  BY Moves DEF IInv
<1> HIDE DEF a
<1>1. CASE Posting
  BY <1>1, <1>n, <1>f DEF Posting, Sending, Enqueued, a
<1>2. CASE Delivery
  <2> PICK d \in Clients, m \in Ids :
        /\ Dequeued(down, down', d, Message(m))
        /\ received' = received \cup {m} /\ Sending(d, Ack(m))
    BY <1>2 DEF Delivery
  <2>1. Contains(down[d], Message(m)) /\ ~Contains(down'[c], a)
    BY <1>n DEF Dequeued
  <2>2. m \notin received
    BY <2>1 DEF IInv, Routes, Single
  <2>3. Ack(m) # a
    BY <2>2, <1>g
  <2> QED
    BY <1>n, <2>1, <2>3 DEF Sending, Enqueued, a
<1>3. CASE AckArrival
  BY <1>3, <1>n DEF AckArrival, Dequeued, a
<1>4. CASE Retrying
  BY <1>4, <1>n DEF Retrying, Dequeued, Enqueued, a
<1>5. CASE Breaking
  BY <1>5, <1>n DEF Breaking, Emptied, a
<1>6. CASE Opening
  BY <1>6, <1>n, <1>h DEF Opening, a
<1>7. CASE Registering
  BY <1>7, <1>n DEF Registering, Dequeued, a
<1>8. CASE Forwarding
  BY <1>8, <1>n DEF Forwarding, Dequeued, Enqueued, a
<1>9. CASE Resting
  BY <1>9, <1>n DEF Resting, a
<1> QED
  BY <1>m, <1>1, <1>2, <1>3, <1>4, <1>5, <1>6, <1>7, <1>8, <1>9 DEF Move

\* The promise of a send resolves when its ACK arrives.
LEMMA OnlyAckResolves ==
    ASSUME IInv, [Next]_vars, NEW m \in Sends, NoAck(m), outcome[m] # "result"
    PROVE  outcome'[m] # "result"
<1> USE Constants
<1>t. outcome \in [Ids -> Outcomes] /\ questions \subseteq Questions
  BY DEF IInv, TypeOK
<1>1. ASSUME NEW id \in Ids, NEW payload, Post(id, payload) PROVE outcome'[m] # "result"
  BY <1>1, <1>t DEF Post
<1>2. ASSUME NEW id \in Ids, Send(id) \/ Ask(id) PROVE outcome'[m] # "result"
  BY <1>1, <1>2 DEF Send, Ask
<1>3. ASSUME NEW q \in Questions, NEW void \in BOOLEAN, AnswerQuestion(q, void)
      PROVE  outcome'[m] # "result"
  BY <1>1, <1>3 DEF AnswerQuestion
<1>4. ASSUME NEW c \in Clients, ReceiveAck(c) PROVE outcome'[m] # "result"
  <2> PICK id \in Ids :
        /\ Arrives(c, Ack(id))
        /\ outcome' = IF id \in acks THEN [outcome EXCEPT ![id] = "result"] ELSE outcome
    BY <1>4 DEF ReceiveAck
  <2>1. Contains(down[c], Ack(id))
    BY ArrivesEffect DEF IInv, Dequeued
  <2>2. id # m
    BY <2>1 DEF NoAck
  <2> QED
    BY <1>t, <2>2
<1>5. ASSUME NEW c \in Clients, ReceiveAnswer(c) PROVE outcome'[m] # "result"
  BY <1>5, <1>t DEF ReceiveAnswer
<1>6. ASSUME NEW c \in Clients, HandleTimeouts(c) PROVE outcome'[m] # "result"
  BY <1>6, <1>t DEF HandleTimeouts
<1>7. ASSUME NEW c \in Clients,
             ReceiveMessage(c) \/ Retry(c) \/ Close(c) \/ Disconnect(c) \/ Reconnect(c)
                 \/ Open(c) \/ Proxy(c)
      PROVE  UNCHANGED outcome
  BY <1>7 DEF ReceiveMessage, Retry, Close, Disconnect, Reconnect, Open, Proxy,
              ProxyRegister, ProxyForward, book
<1>8. ASSUME NEW c \in Clients, NEW k \in 1..MaxConns, ProxyClose(c, k) \/ ProxyError(c, k)
      PROVE  UNCHANGED outcome
  BY <1>8 DEF ProxyClose, ProxyError, book
<1>9. CASE UNCHANGED vars
  BY <1>9 DEF vars
<1> QED
  BY <1>2, <1>3, <1>4, <1>5, <1>6, <1>7, <1>8, <1>9 DEF Next, Receive
=============================================================================
