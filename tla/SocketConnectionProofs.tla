----------------------- MODULE SocketConnectionProofs -----------------------
(***************************************************************************)
(* Proofs about SocketConnection, for any clients, in browsers or not, and *)
(* any number of sockets, timers and faults.                               *)
(***************************************************************************)
EXTENDS SocketConnection, FiniteSetTheorems, TLAPS

States == {"none", "connecting", "open", "closing"}

\* The closer counts down from a positive number.
Counting == proxy = "closing" => attempts > 0

(* How many connections, attempts and timers a client has: none before     *)
(* subscribe, one at a time in a browser, one at least until it is closed. *)
LineInv(c) ==
    /\ created[c] = "uncalled" => Lines(c) = 0
    /\ c \in Browser => Lines(c) <= 1
    /\ created[c] \in {"pending", "resolved"} /\ ~shutdown[c] => Lines(c) > 0

(* The id of a client is only on the way over a socket that is open, or    *)
(* that close() is closing; a socket whose end the proxy has yet to handle *)
(* is gone.                                                                *)
Ends(c) == \A k \in Numbers :
    /\ <<c, k>> \in hello => sock[c][k] = "open" \/ (sock[c][k] = "closing" /\ shutdown[c])
    /\ <<c, k>> \in broken => sock[c][k] = "none"

(* An open socket has its id on the way, or another one is registered, or  *)
(* will be, or was until the error of a socket: the cause of               *)
(* OpenIsRegistered.                                                       *)
Known(c) ==
    ~shutdown[c] /\ current[c] # 0 /\ sock[c][current[c]] = "open" =>
        \/ <<c, current[c]>> \in hello \/ timers[c] > 0
        \/ registered[c] # 0 /\ sock[c][registered[c]] = "open"
        \/ c \in evicted

IInv ==
    /\ TypeOK /\ Counting
    /\ \A c \in Clients : LineInv(c) /\ Ends(c) /\ Known(c)

-----------------------------------------------------------------------------
(* Lemmas about the sockets of a client.                                   *)

LEMMA SockAt ==
    ASSUME sock \in [Clients -> [Numbers -> States]], NEW c \in Clients, NEW k \in Numbers,
           NEW v \in States, sock' = [sock EXCEPT ![c][k] = v]
    PROVE  /\ sock' \in [Clients -> [Numbers -> States]]
           /\ \A d \in Clients, j \in Numbers :
                sock'[d][j] = IF d = c /\ j = k THEN v ELSE sock[d][j]
OBVIOUS

LEMMA LiveFinite == \A c : IsFiniteSet(Live(c)) /\ Cardinality(Live(c)) \in Nat
<1> TAKE c
<1>1. IsFiniteSet(Numbers)
  BY FS_Interval, ConnectionAssumption DEF Numbers
<1>2. Live(c) \in SUBSET Numbers
  BY DEF Live
<1>3. IsFiniteSet(Live(c))
  BY <1>1, <1>2, FS_Subset
<1> QED
  BY <1>3, FS_CardinalityType

\* A line is a number, and a client with a socket has one.
LEMMA LinesNat ==
    ASSUME TypeOK, NEW c \in Clients
    PROVE  /\ Lines(c) \in Nat
           /\ timers[c] > 0 => Lines(c) > 0
           /\ \A k \in Numbers : sock[c][k] # "none" => Lines(c) > 0
<1>1. Cardinality(Live(c)) \in Nat /\ timers[c] \in Nat
  BY LiveFinite, ConnectionAssumption DEF TypeOK
<1>2. ASSUME NEW k \in Numbers, sock[c][k] # "none" PROVE Cardinality(Live(c)) # 0
  BY <1>2, LiveFinite, FS_EmptySet DEF Live
<1> QED
  BY <1>1, <1>2 DEF Lines

\* With one line, a live socket is the only one.
LEMMA OnlyOne ==
    ASSUME TypeOK, NEW c \in Clients, Lines(c) <= 1, NEW k \in Numbers, NEW j \in Numbers,
           sock[c][k] # "none", sock[c][j] # "none"
    PROVE  j = k
<1>1. Cardinality(Live(c)) \in Nat /\ timers[c] \in Nat
  BY LiveFinite, ConnectionAssumption DEF TypeOK
<1>2. Cardinality(Live(c)) <= 1 /\ k \in Live(c) /\ j \in Live(c)
  BY <1>1 DEF Lines, Live
<1>3. IsFiniteSet(Live(c) \ {k}) /\ Cardinality(Live(c) \ {k}) = Cardinality(Live(c)) - 1
  BY <1>2, LiveFinite, FS_RemoveElement
<1>4. IsFiniteSet(Live(c) \ {k}) => Cardinality(Live(c) \ {k}) \in Nat
  BY FS_CardinalityType
<1>5. Cardinality(Live(c) \ {k}) = 0
  BY <1>1, <1>2, <1>3, <1>4
<1>6. Live(c) \ {k} = {}
  BY <1>3, <1>5, FS_EmptySet
<1> QED
  BY <1>2, <1>6

LEMMA LiveAdds ==
    ASSUME sock \in [Clients -> [Numbers -> States]], NEW c \in Clients, NEW k \in Numbers,
           sock[c][k] = "none", sock' = [sock EXCEPT ![c][k] = "connecting"], NEW d \in Clients
    PROVE  Cardinality(Live(d)') = Cardinality(Live(d)) + (IF d = c THEN 1 ELSE 0)
<1>1. \A e \in Clients, j \in Numbers :
        sock'[e][j] = IF e = c /\ j = k THEN "connecting" ELSE sock[e][j]
  BY SockAt DEF States
<1>2. CASE d = c
  <2>1. Live(d)' = Live(d) \cup {k} /\ k \notin Live(d)
    BY <1>1, <1>2 DEF Live
  <2> QED
    BY <1>2, <2>1, LiveFinite, FS_AddElement
<1>3. CASE d # c
  <2>1. Live(d)' = Live(d)
    BY <1>1, <1>3 DEF Live
  <2> QED
    BY <1>3, <2>1, LiveFinite
<1> QED
  BY <1>2, <1>3

LEMMA LiveEnds ==
    ASSUME sock \in [Clients -> [Numbers -> States]], NEW c \in Clients, NEW k \in Numbers,
           sock[c][k] # "none", sock' = [sock EXCEPT ![c][k] = "none"], NEW d \in Clients
    PROVE  Cardinality(Live(d)') = Cardinality(Live(d)) - (IF d = c THEN 1 ELSE 0)
<1>1. \A e \in Clients, j \in Numbers :
        sock'[e][j] = IF e = c /\ j = k THEN "none" ELSE sock[e][j]
  BY SockAt DEF States
<1>2. CASE d = c
  <2>1. Live(d)' = Live(d) \ {k} /\ k \in Live(d)
    BY <1>1, <1>2 DEF Live
  <2> QED
    BY <1>2, <2>1, LiveFinite, FS_RemoveElement
<1>3. CASE d # c
  <2>1. Live(d)' = Live(d)
    BY <1>1, <1>3 DEF Live
  <2> QED
    BY <1>3, <2>1, LiveFinite
<1> QED
  BY <1>2, <1>3

LEMMA LiveStays ==
    ASSUME sock \in [Clients -> [Numbers -> States]], NEW c \in Clients, NEW k \in Numbers,
           sock[c][k] # "none", NEW v \in States \ {"none"},
           sock' = [sock EXCEPT ![c][k] = v], NEW d \in Clients
    PROVE  Live(d)' = Live(d)
<1>1. \A e \in Clients, j \in Numbers :
        sock'[e][j] = IF e = c /\ j = k THEN v ELSE sock[e][j]
  BY SockAt
<1> QED
  BY <1>1 DEF Live

\* The parts of TypeOK with which the lemmas above are used.
LEMMA Types ==
    ASSUME TypeOK
    PROVE  /\ sock \in [Clients -> [Numbers -> States]]
           /\ timers \in [Clients -> 0..MaxTimers] /\ timers \in [Clients -> Nat]
           /\ current \in [Clients -> 0..MaxSockets]
           /\ registered \in [Clients -> 0..MaxSockets]
           /\ \A c \in Clients : /\ current[c] = 0 \/ current[c] \in Numbers
                                 /\ registered[c] = 0 \/ registered[c] \in Numbers
           /\ created \in [Clients -> {"uncalled", "pending", "resolved", "rejected"}]
           /\ shutdown \in [Clients -> BOOLEAN] /\ keepAlive \in [Clients -> BOOLEAN]
           /\ hello \subseteq Clients \X Numbers /\ broken \subseteq Clients \X Numbers
<1>1. /\ current \in [Clients -> 0..MaxSockets] /\ registered \in [Clients -> 0..MaxSockets]
      /\ timers \in [Clients -> 0..MaxTimers] /\ MaxSockets \in Nat /\ MaxTimers \in Nat
  BY ConnectionAssumption DEF TypeOK
<1>2. \A x \in 0..MaxSockets : x = 0 \/ x \in Numbers
  BY <1>1 DEF Numbers
<1>3. \A c \in Clients : /\ current[c] = 0 \/ current[c] \in Numbers
                         /\ registered[c] = 0 \/ registered[c] \in Numbers
  BY <1>1, <1>2
<1>4. timers \in [Clients -> Nat]
  BY <1>1
<1> QED
  BY <1>1, <1>3, <1>4 DEF TypeOK, States

-----------------------------------------------------------------------------
(* Types.                                                                  *)

LEMMA EndTypes ==
    ASSUME TypeOK, NEW c \in Clients, NEW k \in Numbers, NEW n \in Nat, SocketEnds(c, k, n)
    PROVE  /\ sock' \in [Clients -> [Numbers -> States]]
           /\ current' \in [Clients -> 0..MaxSockets]
           /\ keepAlive' \in [Clients -> BOOLEAN]
           /\ timers' \in [Clients -> 0..MaxTimers]
<1>1. sock' \in [Clients -> [Numbers -> States]]
  BY Types, SockAt DEF SocketEnds, States
<1>2. timers' \in [Clients -> 0..MaxTimers]
  <2>1. timers[c] \in Nat /\ timers[c] + n \in 0..MaxTimers
    BY ConnectionAssumption DEF SocketEnds, TypeOK
  <2> QED
    BY <2>1 DEF SocketEnds, TypeOK
<1>3. current' \in [Clients -> 0..MaxSockets] /\ keepAlive' \in [Clients -> BOOLEAN]
  BY ConnectionAssumption DEF SocketEnds, TypeOK
<1> QED
  BY <1>1, <1>2, <1>3

LEMMA ConnectTypes ==
    ASSUME TypeOK, NEW c \in Clients, NEW k \in Numbers, Connect(c, k)
    PROVE  /\ sock' \in [Clients -> [Numbers -> States]]
           /\ current' \in [Clients -> 0..MaxSockets]
<1>1. sock' \in [Clients -> [Numbers -> States]]
  BY Types, SockAt DEF Connect, States
<1>2. current' \in [Clients -> 0..MaxSockets]
  BY ConnectionAssumption DEF Connect, TypeOK, Numbers
<1> QED
  BY <1>1, <1>2

LEMMA TrySendTypes ==
    ASSUME TypeOK, NEW c \in Clients, TrySend(c)
    PROVE  hello' \subseteq Clients \X Numbers /\ retries' \in [Clients -> Nat]
BY Types DEF TrySend, TypeOK

LEMMA OnCloseNat == \A c : OnClose(c) \in {0, 1}
BY DEF OnClose

LEMMA TypeStep == TypeOK /\ Counting /\ [Next]_vars => TypeOK'
<1> SUFFICES ASSUME TypeOK, Counting, [Next]_vars PROVE TypeOK'
  OBVIOUS
<1> USE ConnectionAssumption
<1>1. CASE Import
  BY <1>1 DEF Import, TypeOK, promise
<1>2. CASE Closer
  <2>1. attempts \in 0..MaxAttempts /\ attempts > 0
    BY <1>2 DEF Closer, Counting, TypeOK
  <2>2. attempts' \in 0..MaxAttempts
    BY <1>2, <2>1 DEF Closer
  <2> QED
    BY <1>2, <2>2 DEF Closer, TypeOK, promise
<1>3. ASSUME NEW c \in Clients, Subscribe(c) PROVE TypeOK'
  <2>1. CASE c = Host /\ proxy = "absent"
    BY <1>3, <2>1 DEF Subscribe, TypeOK
  <2>2. CASE ~(c = Host /\ proxy = "absent")
    <3> PICK k \in Numbers : Connect(c, k) /\ awaited' = [awaited EXCEPT ![c] = k]
      BY <1>3, <2>2 DEF Subscribe
    <3>1. awaited' \in [Clients -> 0..MaxSockets]
      BY DEF TypeOK, Numbers
    <3> QED
      BY <1>3, <2>2, <3>1, ConnectTypes DEF Subscribe, TypeOK, States
  <2> QED
    BY <2>1, <2>2
<1>4. ASSUME NEW c \in Clients, NEW k \in Numbers, Open(c, k) PROVE TypeOK'
  <2>1. sock' \in [Clients -> [Numbers -> States]]
    BY <1>4, Types, SockAt DEF Open, States
  <2>2. awaited' \in [Clients -> 0..MaxSockets]
        /\ created' \in [Clients -> {"uncalled", "pending", "resolved", "rejected"}]
    BY <1>4 DEF Open, TypeOK
  <2>3. hello' \subseteq Clients \X Numbers /\ retries' \in [Clients -> Nat]
    BY <1>4, TrySendTypes DEF Open
  <2> QED
    BY <1>4, <2>1, <2>2, <2>3 DEF Open, TypeOK, States, server
<1>5. ASSUME NEW c \in Clients, Retry(c) PROVE TypeOK'
  <2>1. retries' \in [Clients -> Nat]
    BY <1>5 DEF Retry, TypeOK
  <2>2. hello' \subseteq Clients \X Numbers
    BY <1>5, Types DEF Retry
  <2> QED
    BY <1>5, <2>1, <2>2 DEF Retry, TypeOK, promise, server
<1>6. ASSUME NEW c \in Clients, NEW k \in Numbers, AttemptFails(c, k) PROVE TypeOK'
  <2> PICK refused \in BOOLEAN :
        OnError(c, k, refused) /\ SocketEnds(c, k, OnErrorTimer(refused) + OnClose(c))
    BY <1>6 DEF AttemptFails
  <2>1. OnErrorTimer(refused) + OnClose(c) \in Nat
    BY OnCloseNat DEF OnErrorTimer
  <2>2. check' \in [Clients -> BOOLEAN]
        /\ created' \in [Clients -> {"uncalled", "pending", "resolved", "rejected"}]
    BY DEF OnError, TypeOK
  <2>3. awaited' \in [Clients -> 0..MaxSockets] /\ faults' \in 0..MaxFaults
    BY <1>6 DEF AttemptFails, Fault, TypeOK
  <2> QED
    BY <1>6, <2>1, <2>2, <2>3, EndTypes DEF AttemptFails, TypeOK, States, server
<1>7. ASSUME NEW c \in Clients, NEW k \in Numbers, Disconnect(c, k) PROVE TypeOK'
  <2>1. OnClose(c) \in Nat
    BY OnCloseNat
  <2>2. check' \in [Clients -> BOOLEAN] /\ faults' \in 0..MaxFaults
    BY <1>7 DEF Disconnect, Fault, TypeOK
  <2>3. hello' \subseteq Clients \X Numbers /\ broken' \subseteq Clients \X Numbers
    BY <1>7 DEF Disconnect, TypeOK
  <2> QED
    BY <1>7, <2>1, <2>2, <2>3, EndTypes DEF Disconnect, TypeOK, States, promise
<1>8. ASSUME NEW c \in Clients, Reconnect(c) PROVE TypeOK'
  <2> PICK k \in Numbers : Connect(c, k)
    BY <1>8 DEF Reconnect
  <2>1. timers' \in [Clients -> 0..MaxTimers]
    BY <1>8 DEF Reconnect, TypeOK
  <2> QED
    BY <1>8, <2>1, ConnectTypes DEF Reconnect, TypeOK, States, promise, server
<1>9. ASSUME NEW c \in Clients, Close(c) PROVE TypeOK'
  <2>1. /\ sock' \in [Clients -> [Numbers -> States]]
        /\ current' \in [Clients -> 0..MaxSockets]
        /\ keepAlive' \in [Clients -> BOOLEAN]
        /\ timers' \in [Clients -> 0..MaxTimers]
    <3> DEFINE k == current[c]
    <3>0. k = 0 \/ k \in Numbers
      BY Types
    <3>1. CASE k # 0 /\ SocketEnds(c, k, IF c \in Browser THEN 0 ELSE 1)
      BY <3>0, <3>1, EndTypes
    <3>2. CASE k # 0 /\ sock' = [sock EXCEPT ![c][k] = "closing"] /\ UNCHANGED <<current, timers, keepAlive>>
      BY <3>0, <3>2, Types, SockAt DEF States
    <3>3. CASE UNCHANGED <<sock, current, timers, keepAlive>>
      BY <3>3, Types
    <3> QED
      BY <1>9, <3>1, <3>2, <3>3 DEF Close, CloseSocket
  <2>2. proxy' \in {"absent", "unset", "serving", "closing", "closed"} /\ attempts' \in 0..MaxAttempts
    BY <1>9 DEF Close, CloseProxy, TypeOK
  <2>3. shutdown' \in [Clients -> BOOLEAN] /\ check' \in [Clients -> BOOLEAN]
    BY <1>9 DEF Close, TypeOK
  <2> QED
    BY <1>9, <2>1, <2>2, <2>3 DEF Close, TypeOK, States, promise
<1>10. ASSUME NEW c \in Clients, NEW k \in Numbers, ProxyEvent(c, k) PROVE TypeOK'
  <2>0. 0 \in 0..MaxSockets /\ k \in 0..MaxSockets /\ registered \in [Clients -> 0..MaxSockets]
    BY DEF TypeOK, Numbers
  <2>1. registered' \in [Clients -> 0..MaxSockets]
    BY <1>10, <2>0 DEF ProxyEvent, ProxyRegister, ProxyClose
  <2> QED
    BY <1>10, <2>1 DEF ProxyEvent, ProxyRegister, ProxyClose, TypeOK, promise
<1>11. ASSUME NEW c \in Clients, NEW k \in Numbers, ProxyError(c, k) PROVE TypeOK'
  <2>1. registered' \in [Clients -> 0..MaxSockets] /\ evicted' \subseteq Clients
    BY <1>11 DEF ProxyError, TypeOK
  <2> QED
    BY <1>11, <2>1 DEF ProxyError, TypeOK, promise
<1>12. CASE UNCHANGED vars
  BY <1>12 DEF vars, TypeOK
<1> QED
  BY <1>1, <1>2, <1>3, <1>4, <1>5, <1>6, <1>7, <1>8, <1>9, <1>10, <1>11, <1>12 DEF Next, SocketEvent

LEMMA CountingStep == TypeOK /\ Counting /\ [Next]_vars => Counting'
<1> SUFFICES ASSUME TypeOK, Counting, [Next]_vars PROVE Counting'
  OBVIOUS
<1> USE ConnectionAssumption
<1>1. CASE Closer
  BY <1>1 DEF Closer, Counting, TypeOK
<1>2. ASSUME NEW c \in Clients, Close(c) PROVE Counting'
  BY <1>2 DEF Close, CloseProxy, Counting, TypeOK
<1>3. ASSUME NEW c \in Clients, Subscribe(c) PROVE Counting'
  BY <1>3 DEF Subscribe, Counting
<1>4. CASE Import
  BY <1>4 DEF Import, Counting
<1>5. ASSUME NEW c, NEW k,
             SocketEvent(c, k) \/ ProxyEvent(c, k) \/ ProxyError(c, k) \/ Retry(c) \/ Reconnect(c)
      PROVE  UNCHANGED <<proxy, attempts>>
  BY <1>5 DEF SocketEvent, Open, AttemptFails, Disconnect, ProxyEvent, ProxyRegister, ProxyClose,
              ProxyError, Retry, Reconnect, server
<1>6. CASE UNCHANGED <<proxy, attempts>>
  BY <1>6 DEF Counting
<1>7. CASE UNCHANGED vars
  BY <1>6, <1>7 DEF vars
<1> QED
  BY <1>1, <1>2, <1>3, <1>4, <1>5, <1>6, <1>7 DEF Next

-----------------------------------------------------------------------------
(* What a step does to the number of connections, attempts and timers.     *)

\* A line of c began with subscribe, or its lines stay or one of them ends.
LineMove(c) ==
    \/ created[c] = "uncalled" /\ created'[c] = "pending" /\ Lines(c)' = Lines(c) + 1
    \/ /\ created'[c] = "uncalled" => created[c] = "uncalled"
       /\ created'[c] \in {"pending", "resolved"} =>
            created[c] \in {"pending", "resolved"} \/ Lines(c) > 0
       /\ shutdown[c] => shutdown'[c]
       /\ \/ Lines(c)' = Lines(c)
          \/ /\ Lines(c) > 0 /\ Lines(c)' \in Nat
             /\ c \in Browser => Lines(c)' <= Lines(c)
             /\ ~shutdown'[c] => Lines(c)' > 0

LEMMA LinesEnd ==
    ASSUME TypeOK, NEW c \in Clients, NEW k \in Numbers, NEW n \in Nat, SocketEnds(c, k, n),
           sock[c][k] # "none", NEW d \in Clients
    PROVE  Lines(d)' = IF d = c THEN Lines(d) - 1 + n ELSE Lines(d)
<1>1. Cardinality(Live(d)') = Cardinality(Live(d)) - (IF d = c THEN 1 ELSE 0)
  BY Types, LiveEnds DEF SocketEnds
<1>2. timers'[d] = IF d = c THEN timers[d] + n ELSE timers[d]
  BY Types DEF SocketEnds
<1>3. Cardinality(Live(d)) \in Nat /\ timers[d] \in Nat
  BY LiveFinite, Types
<1> QED
  BY <1>1, <1>2, <1>3 DEF Lines

LEMMA LinesStay ==
    ASSUME UNCHANGED <<sock, timers>>, NEW c
    PROVE  Lines(c)' = Lines(c)
BY DEF Lines, Live

LEMMA LineStep ==
    ASSUME TypeOK, [Next]_vars, NEW c \in Clients
    PROVE  LineMove(c)
<1>t. Lines(c) \in Nat /\ \A k \in Numbers : sock[c][k] # "none" => Lines(c) > 0
  BY LinesNat
<1>1. ASSUME UNCHANGED <<sock, timers, created, shutdown>> PROVE LineMove(c)
  BY <1>1, LinesStay DEF LineMove
<1>2. ASSUME NEW d \in Clients, Subscribe(d) PROVE LineMove(c)
  <2>1. CASE d = Host /\ proxy = "absent"
    BY <1>2, <2>1, Types, LinesStay DEF Subscribe, LineMove
  <2>2. CASE ~(d = Host /\ proxy = "absent")
    <3> PICK k \in Numbers : Connect(d, k)
      BY <1>2, <2>2 DEF Subscribe
    <3>1. Cardinality(Live(c)') = Cardinality(Live(c)) + (IF c = d THEN 1 ELSE 0)
      BY Types, LiveAdds DEF Connect
    <3>2. timers' = timers /\ shutdown' = shutdown
      BY <1>2 DEF Subscribe
    <3>3. Lines(c)' = Lines(c) + (IF c = d THEN 1 ELSE 0)
      BY <3>1, <3>2, LiveFinite, Types DEF Lines
    <3>4. created[d] = "uncalled" /\ created' = [created EXCEPT ![d] = "pending"]
      BY <1>2, <2>2 DEF Subscribe
    <3> QED
      BY <1>t, <3>2, <3>3, <3>4, Types DEF LineMove
  <2> QED
    BY <2>1, <2>2
<1>3. ASSUME NEW d \in Clients, NEW k \in Numbers, Open(d, k) PROVE LineMove(c)
  <2>1. Live(c)' = Live(c)
    BY <1>3, Types, LiveStays DEF Open, States
  <2>2. Lines(c)' = Lines(c) /\ shutdown' = shutdown
    BY <1>3, <2>1 DEF Open, Lines
  <2>3. sock[d][k] # "none" /\ (created' = created \/ created' = [created EXCEPT ![d] = "resolved"])
    BY <1>3 DEF Open
  <2>4. created'[c] = created[c] \/ (created'[c] = "resolved" /\ c = d)
    BY <2>3, Types
  <2> QED
    BY <1>t, <2>2, <2>3, <2>4 DEF LineMove
<1>4. ASSUME NEW d \in Clients, NEW k \in Numbers, AttemptFails(d, k) PROVE LineMove(c)
  <2> PICK refused \in BOOLEAN :
        /\ d \in Browser => refused
        /\ OnError(d, k, refused) /\ SocketEnds(d, k, OnErrorTimer(refused) + OnClose(d))
    BY <1>4 DEF AttemptFails
  <2>1. /\ OnErrorTimer(refused) + OnClose(d) \in Nat
        /\ d \in Browser => OnErrorTimer(refused) + OnClose(d) <= 1
        /\ ~shutdown[d] => OnErrorTimer(refused) + OnClose(d) > 0
    BY DEF OnErrorTimer, OnClose
  <2>2. sock[d][k] # "none" /\ shutdown' = shutdown
    BY <1>4 DEF AttemptFails
  <2>3. created' = created \/ created' = [created EXCEPT ![d] = "rejected"]
    BY DEF OnError
  <2>4. created'[c] = created[c] \/ created'[c] = "rejected"
    BY <2>3, Types
  <2>5. Lines(c)' = IF c = d THEN Lines(c) - 1 + (OnErrorTimer(refused) + OnClose(d)) ELSE Lines(c)
    BY <2>1, <2>2, LinesEnd
  <2> QED
    BY <1>t, <2>1, <2>2, <2>4, <2>5 DEF LineMove
<1>5. ASSUME NEW d \in Clients, NEW k \in Numbers, Disconnect(d, k) PROVE LineMove(c)
  <2>1. OnClose(d) \in Nat /\ OnClose(d) <= 1 /\ (~shutdown[d] => OnClose(d) > 0)
    BY DEF OnClose
  <2>2. sock[d][k] # "none" /\ SocketEnds(d, k, OnClose(d)) /\ UNCHANGED <<created, shutdown>>
    BY <1>5 DEF Disconnect, promise
  <2>3. Lines(c)' = IF c = d THEN Lines(c) - 1 + OnClose(d) ELSE Lines(c)
    BY <2>1, <2>2, LinesEnd
  <2> QED
    BY <1>t, <2>1, <2>2, <2>3 DEF LineMove
<1>6. ASSUME NEW d \in Clients, Reconnect(d) PROVE LineMove(c)
  <2> PICK k \in Numbers : Connect(d, k)
    BY <1>6 DEF Reconnect
  <2>1. Cardinality(Live(c)') = Cardinality(Live(c)) + (IF c = d THEN 1 ELSE 0)
    BY Types, LiveAdds DEF Connect
  <2>2. timers'[c] = IF c = d THEN timers[c] - 1 ELSE timers[c]
    BY <1>6, Types DEF Reconnect
  <2>3. Lines(c)' = Lines(c)
    BY <2>1, <2>2, LiveFinite, Types DEF Lines
  <2>4. UNCHANGED <<created, shutdown>>
    BY <1>6 DEF Reconnect, promise
  <2> QED
    BY <2>3, <2>4 DEF LineMove
<1>7. ASSUME NEW d \in Clients, Close(d) PROVE LineMove(c)
  <2> DEFINE k == current[d]
  <2>0. /\ created' = created /\ (k = 0 \/ k \in Numbers)
        /\ shutdown[c] => shutdown'[c] /\ (c = d => shutdown'[c])
    BY <1>7, Types DEF Close, promise
  <2>1. CASE k # 0 /\ sock[d][k] = "connecting" /\ SocketEnds(d, k, IF d \in Browser THEN 0 ELSE 1)
    <3>1. Lines(c)' = IF c = d THEN Lines(c) - 1 + (IF d \in Browser THEN 0 ELSE 1) ELSE Lines(c)
      BY <2>0, <2>1, LinesEnd
    <3>2. c = d => Lines(c) > 0 /\ shutdown'[c]
      BY <1>7, <2>0, <2>1, <1>t, Types DEF Close
    <3> QED
      BY <1>t, <2>0, <3>1, <3>2 DEF LineMove
  <2>2. CASE k # 0 /\ sock[d][k] = "open" /\ sock' = [sock EXCEPT ![d][k] = "closing"] /\ UNCHANGED timers
    <3>1. Live(c)' = Live(c)
      BY <2>0, <2>2, Types, LiveStays DEF States
    <3> QED
      BY <2>0, <2>2, <3>1 DEF LineMove, Lines
  <2>3. CASE UNCHANGED <<sock, timers>>
    BY <2>0, <2>3, LinesStay DEF LineMove
  <2> QED
    BY <1>7, <2>1, <2>2, <2>3 DEF Close, CloseSocket
<1>8. ASSUME NEW d, NEW k,
             ProxyEvent(d, k) \/ ProxyError(d, k) \/ Retry(d) \/ Import \/ Closer \/ UNCHANGED vars
      PROVE  UNCHANGED <<sock, timers, created, shutdown>>
  BY <1>8 DEF ProxyEvent, ProxyRegister, ProxyClose, ProxyError, Retry, Import, Closer, vars, promise
<1> QED
  BY <1>1, <1>2, <1>3, <1>4, <1>5, <1>6, <1>7, <1>8 DEF Next, SocketEvent

LEMMA LineInvStep ==
    ASSUME TypeOK, [Next]_vars, NEW c \in Clients, LineInv(c)
    PROVE  LineInv(c)'
<1>1. LineMove(c)
  BY LineStep
<1>2. Lines(c) \in Nat
  BY LinesNat
<1>3. created[c] \in {"uncalled", "pending", "resolved", "rejected"}
  BY Types
<1> QED
  BY <1>1, <1>2, <1>3 DEF LineMove, LineInv

-----------------------------------------------------------------------------
(* What is on its way to the proxy.                                        *)

LEMMA EndsStep ==
    ASSUME TypeOK, [Next]_vars, NEW c \in Clients, Ends(c)
    PROVE  Ends(c)'
<1> SUFFICES ASSUME NEW k \in Numbers
             PROVE  /\ <<c, k>> \in hello' =>
                         sock'[c][k] = "open" \/ (sock'[c][k] = "closing" /\ shutdown'[c])
                    /\ <<c, k>> \in broken' => sock'[c][k] = "none"
  BY DEF Ends
<1> DEFINE Kept == /\ <<c, k>> \in hello' =>
                        sock'[c][k] = "open" \/ (sock'[c][k] = "closing" /\ shutdown'[c])
                   /\ <<c, k>> \in broken' => sock'[c][k] = "none"
<1>e. /\ <<c, k>> \in hello => sock[c][k] = "open" \/ (sock[c][k] = "closing" /\ shutdown[c])
      /\ <<c, k>> \in broken => sock[c][k] = "none"
  BY DEF Ends
<1>t. sock \in [Clients -> [Numbers -> States]] /\ shutdown \in [Clients -> BOOLEAN]
  BY Types
<1>1. ASSUME hello' \subseteq hello, broken' \subseteq broken, UNCHANGED <<sock, shutdown>> PROVE Kept
  BY <1>1, <1>e
<1>c. ASSUME NEW d \in Clients, NEW j \in Numbers, Connect(d, j), UNCHANGED <<hello, broken, shutdown>>
      PROVE  Kept
  <2>1. sock[d][j] = "none" /\ sock'[c][k] = IF c = d /\ k = j THEN "connecting" ELSE sock[c][k]
    BY <1>c, <1>t, SockAt DEF Connect, States
  <2>2. <<d, j>> \notin broken
    BY <1>c DEF Connect
  <2> QED
    BY <1>c, <1>e, <2>1, <2>2
<1>s. ASSUME NEW d \in Clients, NEW j \in Numbers, NEW n, SocketEnds(d, j, n)
      PROVE  sock'[c][k] = IF c = d /\ k = j THEN "none" ELSE sock[c][k]
  BY <1>s, <1>t, SockAt DEF SocketEnds, States
<1>2. ASSUME NEW d \in Clients, Subscribe(d) PROVE Kept
  <2>1. CASE d = Host /\ proxy = "absent"
    BY <1>1, <1>2, <2>1 DEF Subscribe
  <2>2. CASE ~(d = Host /\ proxy = "absent")
    BY <1>2, <1>c, <2>2 DEF Subscribe
  <2> QED
    BY <2>1, <2>2
<1>3. ASSUME NEW d \in Clients, NEW j \in Numbers, Open(d, j) PROVE Kept
  <2>1. sock[d][j] = "connecting" /\ sock'[c][k] = IF c = d /\ k = j THEN "open" ELSE sock[c][k]
    BY <1>3, <1>t, SockAt DEF Open, States
  <2>2. TrySend(d) /\ UNCHANGED <<broken, shutdown>>
    BY <1>3 DEF Open, server
  <2>3. <<c, k>> \in hello' => <<c, k>> \in hello \/ sock'[c][k] = "open"
    BY <2>2 DEF TrySend
  <2> QED
    BY <1>e, <2>1, <2>2, <2>3
<1>4. ASSUME NEW d \in Clients, NEW j \in Numbers, AttemptFails(d, j) PROVE Kept
  <2>1. sock[d][j] = "connecting" /\ UNCHANGED <<hello, broken, shutdown>>
    BY <1>4 DEF AttemptFails, server
  <2>2. sock'[c][k] = IF c = d /\ k = j THEN "none" ELSE sock[c][k]
    BY <1>4, <1>s DEF AttemptFails
  <2> QED
    BY <1>e, <2>1, <2>2
<1>5. ASSUME NEW d \in Clients, NEW j \in Numbers, Disconnect(d, j) PROVE Kept
  <2>1. /\ hello' = hello \ {<<d, j>>} /\ broken' = broken \cup {<<d, j>>} /\ shutdown' = shutdown
        /\ sock'[c][k] = IF c = d /\ k = j THEN "none" ELSE sock[c][k]
    BY <1>5, <1>s DEF Disconnect
  <2> QED
    BY <1>e, <2>1
<1>6. ASSUME NEW d \in Clients, Reconnect(d) PROVE Kept
  BY <1>6, <1>c DEF Reconnect, server
<1>7. ASSUME NEW d \in Clients, Close(d) PROVE Kept
  <2>1. /\ UNCHANGED <<hello, broken>> /\ (shutdown[c] => shutdown'[c]) /\ (c = d => shutdown'[c])
        /\ current[d] = 0 \/ current[d] \in Numbers
    BY <1>7, <1>t, Types DEF Close
  <2>2. ASSUME current[d] # 0, sock[d][current[d]] = "connecting", NEW n, SocketEnds(d, current[d], n)
        PROVE  Kept
    <3>1. sock'[c][k] = IF c = d /\ k = current[d] THEN "none" ELSE sock[c][k]
      BY <2>1, <2>2, <1>s
    <3> QED
      BY <1>e, <2>1, <2>2, <3>1
  <2>3. ASSUME current[d] # 0, sock[d][current[d]] = "open", sock' = [sock EXCEPT ![d][current[d]] = "closing"]
        PROVE  Kept
    <3>1. sock'[c][k] = IF c = d /\ k = current[d] THEN "closing" ELSE sock[c][k]
      BY <1>t, <2>1, <2>3, SockAt DEF States
    <3> QED
      BY <1>e, <2>1, <2>3, <3>1
  <2>4. ASSUME sock' = sock PROVE Kept
    BY <1>e, <2>1, <2>4
  <2> QED
    BY <1>7, <2>2, <2>3, <2>4 DEF Close, CloseSocket
<1>8. ASSUME NEW d \in Clients, Retry(d) PROVE Kept
  <2>1. <<c, k>> \in hello' => <<c, k>> \in hello \/ sock[c][k] = "open"
    BY <1>8 DEF Retry
  <2>2. UNCHANGED <<sock, shutdown, broken>>
    BY <1>8 DEF Retry, server
  <2> QED
    BY <1>e, <2>1, <2>2
<1>9. ASSUME NEW d, NEW j, ProxyEvent(d, j) \/ ProxyError(d, j) \/ Import \/ Closer \/ UNCHANGED vars
      PROVE  Kept
  BY <1>1, <1>9 DEF ProxyEvent, ProxyRegister, ProxyClose, ProxyError, Import, Closer, vars
<1> QED
  BY <1>2, <1>3, <1>4, <1>5, <1>6, <1>7, <1>8, <1>9 DEF Next, SocketEvent

LEMMA KnownStep ==
    ASSUME TypeOK, [Next]_vars, NEW c \in Clients, Ends(c), Known(c)
    PROVE  Known(c)'
<1> DEFINE k == current'[c]
<1> SUFFICES ASSUME ~shutdown'[c], k # 0, sock'[c][k] = "open"
             PROVE  \/ <<c, k>> \in hello' \/ timers'[c] > 0
                    \/ registered'[c] # 0 /\ sock'[c][registered'[c]] = "open"
                    \/ c \in evicted'
  BY DEF Known
<1> DEFINE Kept == \/ <<c, k>> \in hello' \/ timers'[c] > 0
                   \/ registered'[c] # 0 /\ sock'[c][registered'[c]] = "open"
                   \/ c \in evicted'
<1>t. /\ sock \in [Clients -> [Numbers -> States]] /\ timers \in [Clients -> Nat]
      /\ shutdown \in [Clients -> BOOLEAN]
      /\ current \in [Clients -> 0..MaxSockets] /\ registered \in [Clients -> 0..MaxSockets]
      /\ current[c] = 0 \/ current[c] \in Numbers
      /\ registered[c] = 0 \/ registered[c] \in Numbers
  BY Types
<1>k. ~shutdown[c] /\ current[c] # 0 /\ sock[c][current[c]] = "open" =>
        \/ <<c, current[c]>> \in hello \/ timers[c] > 0
        \/ registered[c] # 0 /\ sock[c][registered[c]] = "open"
        \/ c \in evicted
  BY DEF Known
<1>1. ASSUME hello \subseteq hello', UNCHANGED <<sock, current, timers, shutdown, registered, evicted>> PROVE Kept
  BY <1>1, <1>k
<1>c. ASSUME NEW d \in Clients, NEW j \in Numbers, Connect(d, j),
             UNCHANGED <<hello, registered, evicted, shutdown>>, d # c => timers'[c] = timers[c]
      PROVE  Kept
  <2>1. \A i \in Numbers : sock'[c][i] = IF c = d /\ i = j THEN "connecting" ELSE sock[c][i]
    BY <1>c, <1>t, SockAt DEF Connect, States
  <2>2. current'[c] = IF c = d THEN j ELSE current[c]
    BY <1>c, <1>t DEF Connect
  <2>3. c # d
    BY <2>1, <2>2
  <2> QED
    BY <1>c, <1>k, <1>t, <2>1, <2>2, <2>3
<1>s. ASSUME NEW d \in Clients, NEW j \in Numbers, NEW n \in Nat, SocketEnds(d, j, n),
             d = c /\ ~shutdown[c] => n > 0,
             UNCHANGED <<registered, evicted, shutdown>>, d # c => hello' \cap ({c} \X Numbers) = hello \cap ({c} \X Numbers)
      PROVE  Kept
  <2>1. CASE d = c
    <3>1. timers'[c] = timers[c] + n
      BY <1>s, <1>t, <2>1 DEF SocketEnds
    <3> QED
      BY <1>s, <1>t, <2>1, <3>1
  <2>2. CASE d # c
    <3>1. /\ \A i \in Numbers : sock'[c][i] = sock[c][i]
          /\ current'[c] = current[c] /\ timers'[c] = timers[c]
      BY <1>s, <1>t, <2>2, SockAt DEF SocketEnds, States
    <3> QED
      BY <1>s, <1>k, <1>t, <2>2, <3>1
  <2> QED
    BY <2>1, <2>2
<1>2. ASSUME NEW d \in Clients, Subscribe(d) PROVE Kept
  <2>1. CASE d = Host /\ proxy = "absent"
    BY <1>1, <1>2, <2>1 DEF Subscribe
  <2>2. CASE ~(d = Host /\ proxy = "absent")
    BY <1>2, <1>c, <2>2 DEF Subscribe
  <2> QED
    BY <2>1, <2>2
<1>3. ASSUME NEW d \in Clients, NEW j \in Numbers, Open(d, j) PROVE Kept
  <2>1. \A i \in Numbers : sock'[c][i] = IF c = d /\ i = j THEN "open" ELSE sock[c][i]
    BY <1>3, <1>t, SockAt DEF Open, States
  <2>2. TrySend(d) /\ hello \subseteq hello' /\ UNCHANGED <<current, timers, registered, evicted, shutdown>>
    BY <1>3 DEF Open, TrySend, server
  <2>3. CASE c = d
    BY <2>2, <2>3 DEF TrySend
  <2>4. CASE c # d
    BY <1>k, <1>t, <2>1, <2>2, <2>4
  <2> QED
    BY <2>3, <2>4
<1>4. ASSUME NEW d \in Clients, NEW j \in Numbers, AttemptFails(d, j) PROVE Kept
  <2> PICK refused \in BOOLEAN : SocketEnds(d, j, OnErrorTimer(refused) + OnClose(d))
    BY <1>4 DEF AttemptFails
  <2>1. /\ OnErrorTimer(refused) + OnClose(d) \in Nat
        /\ ~shutdown[d] => OnErrorTimer(refused) + OnClose(d) > 0
    BY DEF OnErrorTimer, OnClose
  <2>2. UNCHANGED <<registered, evicted, shutdown, hello>>
    BY <1>4 DEF AttemptFails, server
  <2> QED
    BY <1>s, <2>1, <2>2
<1>5. ASSUME NEW d \in Clients, NEW j \in Numbers, Disconnect(d, j) PROVE Kept
  <2>1. OnClose(d) \in Nat /\ (~shutdown[d] => OnClose(d) > 0)
    BY DEF OnClose
  <2>2. SocketEnds(d, j, OnClose(d)) /\ hello' = hello \ {<<d, j>>} /\ UNCHANGED <<registered, evicted, shutdown>>
    BY <1>5 DEF Disconnect
  <2> QED
    BY <1>s, <2>1, <2>2
<1>6. ASSUME NEW d \in Clients, Reconnect(d) PROVE Kept
  <2>1. /\ \E j \in Numbers : Connect(d, j)
        /\ UNCHANGED <<hello, registered, evicted, shutdown>>
        /\ d # c => timers'[c] = timers[c]
    BY <1>6, <1>t DEF Reconnect, server
  <2> QED
    BY <1>c, <2>1
<1>7. ASSUME NEW d \in Clients, Close(d) PROVE Kept
  <2>1. UNCHANGED <<hello, registered, evicted>> /\ c # d /\ shutdown'[c] = shutdown[c]
        /\ (current[d] = 0 \/ current[d] \in Numbers)
    BY <1>7, <1>t, Types DEF Close
  <2>2. /\ \A i \in Numbers : sock'[c][i] = sock[c][i]
        /\ current'[c] = current[c] /\ timers'[c] = timers[c]
    <3>1. ASSUME current[d] # 0, NEW n, SocketEnds(d, current[d], n)
          PROVE  /\ \A i \in Numbers : sock'[c][i] = sock[c][i]
                 /\ current'[c] = current[c] /\ timers'[c] = timers[c]
      BY <1>t, <2>1, <3>1, SockAt DEF SocketEnds, States
    <3>2. ASSUME current[d] # 0, sock' = [sock EXCEPT ![d][current[d]] = "closing"]
          PROVE  \A i \in Numbers : sock'[c][i] = sock[c][i]
      BY <1>t, <2>1, <3>2, SockAt DEF States
    <3> QED
      BY <1>7, <3>1, <3>2 DEF Close, CloseSocket
  <2> QED
    BY <1>k, <1>t, <2>1, <2>2
<1>8. ASSUME NEW d \in Clients, Retry(d) PROVE Kept
  BY <1>1, <1>8 DEF Retry, server
<1>9. ASSUME NEW d \in Clients, NEW j \in Numbers, ProxyRegister(d, j) PROVE Kept
  <2>1. /\ <<d, j>> \in hello /\ hello' = hello \ {<<d, j>>}
        /\ UNCHANGED <<sock, current, timers, shutdown>>
        /\ registered'[c] = IF c = d THEN j ELSE registered[c]
        /\ evicted' = evicted \ {d}
    BY <1>9, <1>t DEF ProxyRegister
  <2>2. c = d => sock[c][j] = "open" /\ j # 0
    BY <2>1 DEF Ends, Numbers
  <2> QED
    BY <1>k, <1>t, <2>1, <2>2
<1>10. ASSUME NEW d \in Clients, NEW j \in Numbers, ProxyClose(d, j) PROVE Kept
  <2>1. /\ <<d, j>> \in broken /\ UNCHANGED <<hello, sock, current, timers, shutdown, evicted>>
        /\ registered'[c] = IF c = d /\ registered[d] = j THEN 0 ELSE registered[c]
    BY <1>10, <1>t DEF ProxyClose
  <2>2. c = d => sock[c][j] = "none"
    BY <2>1 DEF Ends
  <2> QED
    BY <1>k, <1>t, <2>1, <2>2
<1>11. ASSUME NEW d \in Clients, NEW j \in Numbers, ProxyError(d, j) PROVE Kept
  <2>1. /\ UNCHANGED <<hello, sock, current, timers, shutdown>> /\ evicted \subseteq evicted'
        /\ registered'[c] = registered[c] \/ c \in evicted'
    BY <1>11, <1>t DEF ProxyError
  <2> QED
    BY <1>k, <2>1
<1>12. ASSUME Import \/ Closer \/ UNCHANGED vars PROVE Kept
  BY <1>1, <1>12 DEF Import, Closer, vars
<1> QED
  BY <1>2, <1>3, <1>4, <1>5, <1>6, <1>7, <1>8, <1>9, <1>10, <1>11, <1>12 DEF Next, SocketEvent, ProxyEvent

-----------------------------------------------------------------------------
LEMMA InitIInv == Init => IInv
<1> SUFFICES ASSUME Init PROVE IInv
  OBVIOUS
<1>1. TypeOK
  BY ConnectionAssumption DEF Init, TypeOK
<1>2. ASSUME NEW c \in Clients PROVE LineInv(c) /\ Ends(c) /\ Known(c)
  <2>1. Live(c) = {} /\ Cardinality({}) = 0
    BY FS_EmptySet DEF Init, Live
  <2>2. Lines(c) = 0 /\ created[c] = "uncalled"
    BY <2>1 DEF Lines, Init
  <2> QED
    BY <2>2 DEF Init, LineInv, Ends, Known
<1> QED
  BY <1>1, <1>2 DEF IInv, Counting, Init

LEMMA StepIInv == IInv /\ [Next]_vars => IInv'
<1> SUFFICES ASSUME IInv, [Next]_vars PROVE IInv'
  OBVIOUS
<1>1. TypeOK' /\ Counting'
  BY TypeStep, CountingStep DEF IInv
<1>2. ASSUME NEW c \in Clients PROVE LineInv(c)' /\ Ends(c)' /\ Known(c)'
  BY LineInvStep, EndsStep, KnownStep DEF IInv
<1> QED
  BY <1>1, <1>2 DEF IInv

LEMMA Invariance == Spec => []IInv
BY InitIInv, StepIInv, PTL DEF Spec

-----------------------------------------------------------------------------
(* The variables keep their types, whatever the bounds; above all, the     *)
(* closer of the proxy stops before it counts below zero.                  *)
THEOREM TypeCorrect == Spec => []TypeOK
<1>1. IInv => TypeOK
  BY DEF IInv
<1> QED
  BY Invariance, <1>1, PTL

(* In a browser, no order of errors, close events and timers gives a       *)
(* client a second connection, attempt or timer.                           *)
THEOREM BrowserKeepsOneLine == Spec => []BrowserHasOneLine
<1>1. IInv => BrowserHasOneLine
  BY ConnectionAssumption DEF IInv, LineInv, BrowserHasOneLine, OneLine
<1> QED
  BY Invariance, <1>1, PTL

(* A client that is neither closed nor refused always has a connection, an *)
(* attempt or a timer: no failure leaves it without one.                   *)
THEOREM TriesForever == Spec => []NeverGivesUp
<1>1. IInv => NeverGivesUp
  BY DEF IInv, LineInv, NeverGivesUp
<1> QED
  BY Invariance, <1>1, PTL

(* When everything under way has arrived, the proxy knows an open socket   *)
(* of every client that has one, also with several sockets per client, but *)
(* for the clients that the error of another socket took out.              *)
THEOREM OpenGetsRegistered == Spec => []OpenIsRegistered
<1>1. IInv => OpenIsRegistered
  <2> SUFFICES ASSUME IInv, NEW c \in Clients, current[c] # 0, sock[c][current[c]] = "open",
                      ~shutdown[c], ~Settling(c)
               PROVE  (registered[c] # 0 /\ sock[c][registered[c]] = "open") \/ c \in evicted
    BY DEF OpenIsRegistered
  <2>1. current[c] \in Numbers
    BY Types DEF IInv
  <2> QED
    BY <2>1 DEF IInv, Known, Settling
<1> QED
  BY Invariance, <1>1, PTL

-----------------------------------------------------------------------------
(* A keep-alive timer that an older socket clears is none of a client with *)
(* one line: the reason why browsers keep theirs.                          *)
LEMMA KeptAliveStep ==
    ASSUME IInv, OpenIsKeptAlive, [Next]_vars
    PROVE  OpenIsKeptAlive'
<1> SUFFICES ASSUME NEW c \in Browser, current'[c] # 0, sock'[c][current'[c]] = "open"
             PROVE  keepAlive'[c]
  BY DEF OpenIsKeptAlive
<1> DEFINE k == current'[c]
<1>0. c \in Clients /\ TypeOK /\ Lines(c) <= 1
  BY ConnectionAssumption DEF IInv, LineInv
<1>t. /\ sock \in [Clients -> [Numbers -> States]] /\ keepAlive \in [Clients -> BOOLEAN]
      /\ current \in [Clients -> 0..MaxSockets]
      /\ \A d \in Clients : current[d] = 0 \/ current[d] \in Numbers
  BY <1>0, Types
<1>k. current[c] # 0 /\ sock[c][current[c]] = "open" => keepAlive[c]
  BY DEF OpenIsKeptAlive
<1>1. ASSUME UNCHANGED <<sock, current, keepAlive>> PROVE keepAlive'[c]
  BY <1>1, <1>k
<1>c. ASSUME NEW d \in Clients, NEW j \in Numbers, Connect(d, j), UNCHANGED keepAlive
      PROVE  keepAlive'[c]
  <2>1. \A i \in Numbers : sock'[c][i] = IF c = d /\ i = j THEN "connecting" ELSE sock[c][i]
    BY <1>0, <1>c, <1>t, SockAt DEF Connect, States
  <2>2. current'[c] = IF c = d THEN j ELSE current[c]
    BY <1>0, <1>c, <1>t DEF Connect
  <2> QED
    BY <1>0, <1>c, <1>k, <1>t, <2>1, <2>2
<1>s. ASSUME NEW d \in Clients, NEW j \in Numbers, NEW n, SocketEnds(d, j, n), sock[d][j] # "none"
      PROVE  keepAlive'[c]
  <2>1. \A i \in Numbers : sock'[c][i] = IF c = d /\ i = j THEN "none" ELSE sock[c][i]
    BY <1>0, <1>s, <1>t, SockAt DEF SocketEnds, States
  <2>2. current'[c] = current[c] \/ current'[c] = 0
    BY <1>0, <1>s, <1>t DEF SocketEnds
  <2>3. k \in Numbers /\ k = current[c] /\ sock[c][k] = "open" /\ ~(c = d /\ k = j)
    BY <1>0, <1>t, <2>1, <2>2
  <2>4. c # d
    BY <1>0, <1>s, <2>3, OnlyOne
  <2> QED
    BY <1>0, <1>s, <1>k, <1>t, <2>3, <2>4 DEF SocketEnds
<1>2. ASSUME NEW d \in Clients, Subscribe(d) PROVE keepAlive'[c]
  <2>1. CASE d = Host /\ proxy = "absent"
    BY <1>1, <1>2, <2>1 DEF Subscribe
  <2>2. CASE ~(d = Host /\ proxy = "absent")
    BY <1>2, <1>c, <2>2 DEF Subscribe
  <2> QED
    BY <2>1, <2>2
<1>3. ASSUME NEW d \in Clients, NEW j \in Numbers, Open(d, j) PROVE keepAlive'[c]
  <2>1. \A i \in Numbers : sock'[c][i] = IF c = d /\ i = j THEN "open" ELSE sock[c][i]
    BY <1>0, <1>3, <1>t, SockAt DEF Open, States
  <2>2. current' = current /\ keepAlive' = [keepAlive EXCEPT ![d] = TRUE]
    BY <1>3 DEF Open
  <2> QED
    BY <1>0, <1>k, <1>t, <2>1, <2>2
<1>4. ASSUME NEW d \in Clients, NEW j \in Numbers, AttemptFails(d, j) \/ Disconnect(d, j)
      PROVE  keepAlive'[c]
  BY <1>4, <1>s DEF AttemptFails, Disconnect
<1>5. ASSUME NEW d \in Clients, Reconnect(d) PROVE keepAlive'[c]
  BY <1>5, <1>c DEF Reconnect
<1>6. ASSUME NEW d \in Clients, Close(d) PROVE keepAlive'[c]
  <2>1. ASSUME current[d] # 0, sock[d][current[d]] = "open",
               sock' = [sock EXCEPT ![d][current[d]] = "closing"], UNCHANGED <<current, keepAlive>>
        PROVE  keepAlive'[c]
    <3>1. \A i \in Numbers :
            sock'[c][i] = IF c = d /\ i = current[d] THEN "closing" ELSE sock[c][i]
      BY <1>0, <1>t, <2>1, SockAt DEF States
    <3> QED
      BY <1>0, <1>k, <1>t, <2>1, <3>1
  <2> QED
    BY <1>1, <1>6, <1>s, <1>t, <2>1 DEF Close, CloseSocket
<1>7. ASSUME NEW d, NEW j,
             ProxyEvent(d, j) \/ ProxyError(d, j) \/ Retry(d) \/ Import \/ Closer \/ UNCHANGED vars
      PROVE  UNCHANGED <<sock, current, keepAlive>>
  BY <1>7 DEF ProxyEvent, ProxyRegister, ProxyClose, ProxyError, Retry, Import, Closer, vars
<1> QED
  BY <1>1, <1>2, <1>3, <1>4, <1>5, <1>6, <1>7 DEF Next, SocketEvent

(* In a browser an open connection is kept alive: the close event of an    *)
(* earlier one never comes after the timer of the present one is set.      *)
THEOREM OpenStaysAlive == Spec => []OpenIsKeptAlive
<1>1. Init => OpenIsKeptAlive
  BY ConnectionAssumption DEF Init, OpenIsKeptAlive
<1> QED
  BY Invariance, <1>1, KeptAliveStep, PTL DEF Spec
=============================================================================
