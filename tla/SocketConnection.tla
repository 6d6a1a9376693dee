-------------------------- MODULE SocketConnection --------------------------
(***************************************************************************)
(* How a WebsocketClient gets and keeps its connection: createClient,      *)
(* init with the handlers onopen, onclose and onerror and the timers they  *)
(* set, close(); the proxy that registers sockets and is closed in turn;   *)
(* and WebsocketDistributor, which makes the proxy and the client.         *)
(*                                                                         *)
(* Every init makes a new socket and puts it into this.client; earlier     *)
(* sockets keep their handlers.  A failed attempt emits "error" and then   *)
(* "close": with the package ws the error comes while the socket is        *)
(* closing, and onerror sets a timer of its own; in a browser it comes     *)
(* when the socket is closed already, which onerror takes for a failed     *)
(* authorization.  What is sent over connections is in SocketMessages; a   *)
(* connection that breaks loses the client's id when that is under way.    *)
(* The proxy handles the end of a socket, and its error, by which it takes *)
(* out the registration of another client.                                 *)
(***************************************************************************)
EXTENDS Naturals, FiniteSets

CONSTANTS
    Clients,     \* WebsocketClient objects: one for each call of subscribe
    Browser,     \* the clients that run in a browser
    Host,        \* the client whose distributor also makes the proxy
    Doubtful,    \* clients that the authentication middleware may refuse
    MaxSockets,  \* bound on sockets of a client that are in use at a time
    MaxTimers,   \* bound on timers of a client that call init
    MaxFaults,   \* bound on connections and attempts that fail by themselves
    MaxAttempts  \* attempts of the closer: 5 in the code

ASSUME ConnectionAssumption ==
    /\ Browser \subseteq Clients /\ Doubtful \subseteq Clients
    /\ Host \in Clients \ Browser
    /\ MaxSockets \in Nat /\ MaxTimers \in Nat /\ MaxFaults \in Nat /\ MaxAttempts \in Nat

VARIABLES
    created,    \* the promise of WebsocketDistributor.subscribe
    awaited,    \* the socket of the init that createClient waits for, 0 if none
    sock,       \* readyState of every socket; "none" before init and after close
    current,    \* the socket in this.client, 0 if that is closed
    timers,     \* how many timers will call init
    check,      \* the interval timer of handleTimeouts is set
    keepAlive,  \* the interval timer of the keep-alives is set
    shutdown,   \* WebsocketClient.shutdown
    retries,    \* trySend calls of the client id that wait for a connecting socket
    hello,      \* sockets with the client id on the way to the proxy
    registered, \* WebsocketMessageProxy.sockets: the socket of a client id, or 0
    broken,     \* sockets whose "close" the proxy has yet to handle
    evicted,    \* history: clients that another socket's "error" unregistered
    proxy,      \* "absent" before the import, "unset" without errorHandler, ...
    attempts,   \* attemptsLeft of the closer
    faults      \* failures so far

vars == <<created, awaited, sock, current, timers, check, keepAlive, shutdown,
          retries, hello, registered, broken, evicted, proxy, attempts, faults>>
promise == <<created, awaited>>
server == <<registered, broken, evicted, proxy, attempts>>

Numbers == 1..MaxSockets
Accepting == proxy \in {"unset", "serving", "closing"}
Live(c) == {k \in Numbers : sock[c][k] # "none"}
Lines(c) == Cardinality(Live(c)) + timers[c]

-----------------------------------------------------------------------------
(* trySend of the client id: over this.client, whichever socket that is.   *)
TrySend(c) ==
    /\ hello' = IF current[c] # 0 /\ sock'[c][current[c]] = "open"
                THEN hello \cup {<<c, current[c]>>} ELSE hello
    /\ retries' = IF current[c] # 0 /\ sock'[c][current[c]] = "connecting"
                  THEN [retries EXCEPT ![c] = @ + 1] ELSE retries

\* init: a new socket, in place of the one in this.client.
Connect(c, k) ==
    /\ sock[c][k] = "none" /\ registered[c] # k
    /\ <<c, k>> \notin broken
    /\ \A j \in 1..(k - 1) : sock[c][j] # "none" \/ registered[c] = j \/ <<c, j>> \in broken
    /\ sock' = [sock EXCEPT ![c][k] = "connecting"]
    /\ current' = [current EXCEPT ![c] = k]

(* The dynamic import in the distributor's constructor is done.            *)
Import ==
    /\ proxy = "absent"
    /\ proxy' = "unset"
    /\ UNCHANGED <<promise, sock, current, timers, check, keepAlive, shutdown,
                   retries, hello, registered, broken, evicted, attempts, faults>>

(* WebsocketDistributor.subscribe.  On the host it sets the proxy's        *)
(* errorHandler first, which throws if there is no proxy yet.              *)
Subscribe(c) ==
    /\ created[c] = "uncalled"
    /\ IF c = Host /\ proxy = "absent"
       THEN /\ created' = [created EXCEPT ![c] = "rejected"]
            /\ UNCHANGED <<awaited, sock, current, check, proxy>>
       ELSE /\ \E k \in Numbers : Connect(c, k) /\ awaited' = [awaited EXCEPT ![c] = k]
            /\ created' = [created EXCEPT ![c] = "pending"]
            /\ check' = [check EXCEPT ![c] = TRUE]
            /\ proxy' = IF c = Host THEN "serving" ELSE proxy
    /\ UNCHANGED <<timers, keepAlive, shutdown, retries, hello, registered, broken, evicted, attempts, faults>>

\* A wrong variant: only the first connection gets the id and the keep-alives.
OpenOnce(c, k) ==
    /\ sock[c][k] = "connecting" /\ Accepting
    /\ sock' = [sock EXCEPT ![c][k] = "open"]
    /\ IF awaited[c] = k THEN TrySend(c) ELSE UNCHANGED <<hello, retries>>
    /\ keepAlive' = IF awaited[c] = k THEN [keepAlive EXCEPT ![c] = TRUE] ELSE keepAlive
    /\ created' = IF awaited[c] = k THEN [created EXCEPT ![c] = "resolved"] ELSE created
    /\ awaited' = IF awaited[c] = k THEN [awaited EXCEPT ![c] = 0] ELSE awaited
    /\ UNCHANGED <<current, timers, check, shutdown, server, faults>>

(* onopen.  createClient waits for the first init only: a later one that   *)
(* succeeds resolves a promise that nobody has.                            *)
Open(c, k) ==
    /\ sock[c][k] = "connecting" /\ Accepting
    /\ sock' = [sock EXCEPT ![c][k] = "open"]
    /\ TrySend(c)
    /\ keepAlive' = [keepAlive EXCEPT ![c] = TRUE]
    /\ created' = IF awaited[c] = k THEN [created EXCEPT ![c] = "resolved"] ELSE created
    /\ awaited' = IF awaited[c] = k THEN [awaited EXCEPT ![c] = 0] ELSE awaited
    /\ UNCHANGED <<current, timers, check, shutdown, server, faults>>

\* The timer of a trySend, once this.client is no longer connecting.
Retry(c) ==
    /\ retries[c] > 0
    /\ current[c] # 0 => sock[c][current[c]] # "connecting"
    /\ retries' = [retries EXCEPT ![c] = @ - 1]
    /\ hello' = IF current[c] # 0 /\ sock[c][current[c]] = "open"
                THEN hello \cup {<<c, current[c]>>} ELSE hello
    /\ UNCHANGED <<promise, sock, current, timers, check, keepAlive, shutdown, server, faults>>

-----------------------------------------------------------------------------
(* What onerror and onclose have in common with the end of a socket: it is *)
(* no longer in use, and n timers are set that call init.                  *)
SocketEnds(c, k, n) ==
    /\ sock' = [sock EXCEPT ![c][k] = "none"]
    /\ current' = IF current[c] = k THEN [current EXCEPT ![c] = 0] ELSE current
    /\ keepAlive' = [keepAlive EXCEPT ![c] = FALSE]
    /\ timers[c] + n <= MaxTimers
    /\ timers' = [timers EXCEPT ![c] = @ + n]

\* onclose sets a timer unless close() was called.
OnClose(c) == IF shutdown[c] THEN 0 ELSE 1

\* Something fails that need not have.
Fault == faults < MaxFaults /\ faults' = faults + 1

\* A wrong variant: a failed authorization also sets onerror's timer.
OnErrorTimerAlways(refused) == 1

(* onerror: what it takes for a failed authorization stops the check and   *)
(* rejects the promise of this init; anything else sets a timer.           *)
OnErrorTimer(refused) == IF refused THEN 0 ELSE 1

\* A wrong variant: nothing rejects the promise.
OnErrorPending(c, k, refused) ==
    /\ check' = IF refused THEN [check EXCEPT ![c] = FALSE] ELSE check
    /\ UNCHANGED created

OnError(c, k, refused) ==
    /\ check' = IF refused THEN [check EXCEPT ![c] = FALSE] ELSE check
    /\ created' = IF refused /\ awaited[c] = k THEN [created EXCEPT ![c] = "rejected"] ELSE created

\* A wrong variant: onclose leaves attempts that fail to onerror.
AttemptFailsOnce(c, k) ==
    /\ sock[c][k] = "connecting"
    /\ IF Accepting THEN Fault ELSE UNCHANGED faults
    /\ \E unauthorized \in {FALSE} \cup {c \in Doubtful} :
        LET refused == unauthorized \/ c \in Browser
        IN OnError(c, k, refused) /\ SocketEnds(c, k, OnErrorTimer(refused))
    /\ awaited' = IF awaited[c] = k THEN [awaited EXCEPT ![c] = 0] ELSE awaited
    /\ UNCHANGED <<shutdown, retries, hello, server>>

(* An attempt fails: onerror, then onclose.                                *)
AttemptFails(c, k) ==
    /\ sock[c][k] = "connecting"
    /\ IF Accepting THEN Fault ELSE UNCHANGED faults
    /\ \E unauthorized \in {FALSE} \cup {c \in Doubtful} :
        LET refused == unauthorized \/ c \in Browser
        IN /\ OnError(c, k, refused)
           /\ SocketEnds(c, k, OnErrorTimer(refused) + OnClose(c))
    /\ awaited' = IF awaited[c] = k THEN [awaited EXCEPT ![c] = 0] ELSE awaited
    /\ UNCHANGED <<shutdown, retries, hello, server>>

(* An open connection ends.  With ws only "close" is emitted; a browser    *)
(* emits "error" before it when the connection was not closed properly.    *)
Disconnect(c, k) ==
    /\ sock[c][k] \in {"open", "closing"}
    /\ IF sock[c][k] = "open" THEN Fault ELSE UNCHANGED faults
    /\ \E abnormal \in {FALSE} \cup {c \in Browser} :
        check' = IF abnormal THEN [check EXCEPT ![c] = FALSE] ELSE check
    /\ SocketEnds(c, k, OnClose(c))
    /\ hello' = hello \ {<<c, k>>}
    /\ broken' = broken \cup {<<c, k>>}
    /\ UNCHANGED <<promise, shutdown, retries, registered, evicted, proxy, attempts>>

\* A timer calls init; nothing stops it.
Reconnect(c) ==
    /\ timers[c] > 0
    /\ timers' = [timers EXCEPT ![c] = @ - 1]
    /\ \E k \in Numbers : Connect(c, k)
    /\ UNCHANGED <<promise, check, keepAlive, shutdown, retries, hello, server, faults>>

-----------------------------------------------------------------------------
(* WebsocketClient.close(): only the socket in this.client starts to       *)
(* close.  One that is connecting is aborted: with ws that is an error     *)
(* like any other, to which onerror answers with a timer.                  *)
CloseSocket(c) ==
    LET k == current[c]
    IN \/ /\ k # 0 /\ sock[c][k] = "connecting"
          /\ SocketEnds(c, k, IF c \in Browser THEN 0 ELSE 1)
       \/ /\ k # 0 /\ sock[c][k] = "open"
          /\ sock' = [sock EXCEPT ![c][k] = "closing"]
          /\ UNCHANGED <<current, timers, keepAlive>>
       \/ /\ k = 0
          /\ UNCHANGED <<sock, current, timers, keepAlive>>

NobodyRegistered == \A c \in Clients : registered[c] = 0

\* WebsocketMessageProxy.close(): the server closes once nobody is registered.
CloseProxy ==
    /\ proxy' = IF NobodyRegistered \/ MaxAttempts = 0 THEN "closed" ELSE "closing"
    /\ attempts' = MaxAttempts

\* WebsocketDistributor.disconnect: the client, and on the host the proxy.
Close(c) ==
    /\ created[c] = "resolved" /\ ~shutdown[c]
    /\ shutdown' = [shutdown EXCEPT ![c] = TRUE]
    /\ check' = [check EXCEPT ![c] = FALSE]
    /\ CloseSocket(c)
    /\ IF c = Host THEN CloseProxy ELSE UNCHANGED <<proxy, attempts>>
    /\ UNCHANGED <<promise, retries, hello, registered, broken, evicted, faults>>

\* A wrong variant: the closer waits for the clients without counting.
CloserPatient ==
    /\ proxy = "closing" /\ NobodyRegistered
    /\ proxy' = "closed"
    /\ UNCHANGED <<promise, sock, current, timers, check, keepAlive, shutdown,
                   retries, hello, registered, broken, evicted, attempts, faults>>

\* A wrong variant: the closer counts, but does not look at the count.
CloserCounting ==
    /\ proxy = "closing"
    /\ attempts' = attempts - 1
    /\ proxy' = IF NobodyRegistered THEN "closed" ELSE "closing"
    /\ UNCHANGED <<promise, sock, current, timers, check, keepAlive, shutdown,
                   retries, hello, registered, broken, evicted, faults>>

\* The closer's timer, a second later each time.
Closer ==
    /\ proxy = "closing"
    /\ attempts' = attempts - 1
    /\ proxy' = IF attempts' = 0 \/ NobodyRegistered THEN "closed" ELSE "closing"
    /\ UNCHANGED <<promise, sock, current, timers, check, keepAlive, shutdown,
                   retries, hello, registered, broken, evicted, faults>>

\* The proxy gets the client's id over a socket.
ProxyRegister(c, k) ==
    /\ <<c, k>> \in hello
    /\ hello' = hello \ {<<c, k>>}
    /\ registered' = [registered EXCEPT ![c] = k]
    /\ evicted' = evicted \ {c}
    /\ UNCHANGED <<promise, sock, current, timers, check, keepAlive, shutdown,
                   retries, broken, proxy, attempts, faults>>

\* The "close" of a socket takes out the registration that has this socket.
ProxyClose(c, k) ==
    /\ <<c, k>> \in broken
    /\ broken' = broken \ {<<c, k>>}
    /\ registered' = IF registered[c] = k THEN [registered EXCEPT ![c] = 0] ELSE registered
    /\ UNCHANGED <<promise, sock, current, timers, check, keepAlive, shutdown,
                   retries, hello, evicted, proxy, attempts, faults>>

(* The "error" of a socket, which comes before its "close", takes out the  *)
(* first registration that has another socket: its client stays connected  *)
(* and is not told.                                                        *)
ProxyError(c, k) ==
    /\ sock[c][k] \in {"open", "closing"} \/ <<c, k>> \in broken
    /\ \E d \in Clients :
        /\ registered[d] # 0 /\ <<d, registered[d]>> # <<c, k>>
        /\ registered' = [registered EXCEPT ![d] = 0]
        /\ evicted' = evicted \cup {d}
    /\ UNCHANGED <<promise, sock, current, timers, check, keepAlive, shutdown,
                   retries, hello, broken, proxy, attempts, faults>>

-----------------------------------------------------------------------------
Init ==
    /\ created = [c \in Clients |-> "uncalled"]
    /\ awaited = [c \in Clients |-> 0]
    /\ sock = [c \in Clients |-> [k \in Numbers |-> "none"]]
    /\ current = [c \in Clients |-> 0]
    /\ timers = [c \in Clients |-> 0]
    /\ check = [c \in Clients |-> FALSE]
    /\ keepAlive = [c \in Clients |-> FALSE]
    /\ shutdown = [c \in Clients |-> FALSE]
    /\ retries = [c \in Clients |-> 0]
    /\ hello = {} /\ broken = {} /\ evicted = {}
    /\ registered = [c \in Clients |-> 0]
    /\ proxy = "absent"
    /\ attempts = 0 /\ faults = 0

SocketEvent(c, k) == Open(c, k) \/ AttemptFails(c, k) \/ Disconnect(c, k)

ProxyEvent(c, k) == ProxyRegister(c, k) \/ ProxyClose(c, k)

Next ==
    \/ Import \/ Closer
    \/ \E c \in Clients :
        \/ Subscribe(c) \/ Retry(c) \/ Reconnect(c) \/ Close(c)
        \/ \E k \in Numbers : SocketEvent(c, k) \/ ProxyEvent(c, k) \/ ProxyError(c, k)

Spec == Init /\ [][Next]_vars

(* Timers fire, the import ends, an attempt has an outcome, the proxy      *)
(* handles what it gets, and a socket that is closing closes.              *)
Fairness ==
    /\ WF_vars(Import) /\ WF_vars(Closer)
    /\ \A c \in Clients :
        /\ WF_vars(Retry(c)) /\ WF_vars(Reconnect(c))
        /\ \A k \in Numbers :
            /\ WF_vars(Open(c, k) \/ AttemptFails(c, k))
            /\ WF_vars(sock[c][k] = "closing" /\ Disconnect(c, k))
            /\ WF_vars(ProxyEvent(c, k))

FairSpec == Spec /\ Fairness

-----------------------------------------------------------------------------
\* The kinds of values the variables hold.
TypeOK ==
    /\ created \in [Clients -> {"uncalled", "pending", "resolved", "rejected"}]
    /\ awaited \in [Clients -> 0..MaxSockets] /\ current \in [Clients -> 0..MaxSockets]
    /\ registered \in [Clients -> 0..MaxSockets]
    /\ sock \in [Clients -> [Numbers -> {"none", "connecting", "open", "closing"}]]
    /\ timers \in [Clients -> 0..MaxTimers]
    /\ check \in [Clients -> BOOLEAN] /\ keepAlive \in [Clients -> BOOLEAN]
    /\ shutdown \in [Clients -> BOOLEAN]
    /\ retries \in [Clients -> Nat]
    /\ hello \subseteq Clients \X Numbers /\ broken \subseteq Clients \X Numbers
    /\ evicted \subseteq Clients
    /\ proxy \in {"absent", "unset", "serving", "closing", "closed"}
    /\ attempts \in 0..MaxAttempts /\ faults \in 0..MaxFaults

\* A client has one connection, attempt or timer to make one at a time.
OneLine(c) == Lines(c) <= 1

(* In a browser every failure ends one connection and starts one attempt.  *)
BrowserHasOneLine == \A c \in Browser : OneLine(c)

(* A client that is not closed or refused never gives up: it has a         *)
(* connection or is about to make one, whatever failed, and in whatever    *)
(* order the events of its sockets came.                                   *)
NeverGivesUp ==
    \A c \in Clients : created[c] \in {"pending", "resolved"} /\ ~shutdown[c] => Lines(c) > 0

\* Something is under way that will register a socket of c.
Settling(c) ==
    \/ retries[c] > 0 \/ timers[c] > 0
    \/ \E k \in Numbers : <<c, k>> \in hello \/ sock[c][k] = "connecting"

(* When a client's socket is open and nothing is under way, the proxy has  *)
(* an open socket of the client, though older sockets register late, and   *)
(* their ends are noticed late; or the error of a socket took it out.      *)
OpenIsRegistered ==
    \A c \in Clients :
        current[c] # 0 /\ sock[c][current[c]] = "open" /\ ~shutdown[c] /\ ~Settling(c)
            => \/ registered[c] # 0 /\ sock[c][registered[c]] = "open"
               \/ c \in evicted

(* With one connection at a time, an open one is kept alive: no late close *)
(* of an earlier one clears its timer.                                     *)
OpenIsKeptAlive ==
    \A c \in Browser : current[c] # 0 /\ sock[c][current[c]] = "open" => keepAlive[c]

(* A client that was created can be reached again and again until it is    *)
(* closed, or the proxy is; but one that the error of another socket took  *)
(* out stays out for as long as its own connection holds.                  *)
Reachable(c) == current[c] # 0 /\ registered[c] # 0 /\ sock[c][registered[c]] = "open"

ComesBack ==
    \A c \in Clients :
        created[c] = "resolved" ~>
            (Reachable(c) \/ shutdown[c] \/ proxy = "closed" \/ c \in evicted)

\* In a browser createClient resolves or rejects.
BrowserCreateSettles ==
    \A c \in Browser : created[c] = "pending" ~> (created[c] # "pending" \/ proxy = "absent")

(* The proxy's server closes though clients stay, come back or never leave. *)
ProxyCloses == proxy = "closing" ~> proxy = "closed"

-----------------------------------------------------------------------------
(* What the code does not keep; see the findings.                          *)

\* Every client, also with the package ws, has one connection at a time.
EveryoneHasOneLine == \A c \in Clients : OneLine(c)

\* A client that was closed makes no new connection.
ClosedStaysClosed ==
    [][\A c \in Clients : shutdown[c] => Live(c)' \subseteq Live(c)]_vars

\* A client whose createClient was rejected is gone.
RejectedIsGone == \A c \in Clients : created[c] = "rejected" => Lines(c) = 0

\* createClient resolves or rejects, when the proxy is there.
CreateSettles ==
    \A c \in Clients : created[c] = "pending" ~> (created[c] # "pending" \/ proxy = "closed")

\* When the proxy handles the end of a registered socket, its errorHandler is set.
HandlerIsSet ==
    \A c \in Clients : registered[c] # 0 /\ <<c, registered[c]>> \in broken => proxy # "unset"
=============================================================================
