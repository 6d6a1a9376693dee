# ts-actors in TLA+

A TLA+ model of the actor library in this repository (version 3.4.0), checked
with TLC and proved about with TLAPS. The references to lines are to the files
under `src/src`.

## The system

The library runs in one thread of JavaScript. What is concurrent are
continuations: every `await` in it is a point where anything else may run, and
timers and sockets call back whenever they like. A step of the models is what
runs between two such points.

| Component | State | Operations | Talks to |
|---|---|---|---|
| Actor system (`ActorSystem.ts`) | `actors` (URI to actor), `systemActor`, `errorActor`, `inbox`, `running` | `createActor`, `getActorRef`, `childrenOf`, `remove`, `updateChildren`, `send`, `ask`, `shutdown`, `handleInboxMessage` | calls the hooks and `receive` of actors; actors call back |
| Actor (`Actor.ts`) | `parent`, `children`, `actorRef`, `isShutdown`, `options`, `strategy` | `restart`, `shutdown`, `appendChild`, `removeChild`, `updateChildren`, `send`, `ask`, four lifecycle hooks, `receive` | parent and children through refs; the system's `inbox` |
| Actor ref (`ActorRefImpl.ts`) | `actor`: the instance it leads to now | forwards | a restart redirects it |
| Distributed actor system (`DistributedActorSystem.ts`) | `distributor`; an inbox handler of its own | `create`, `shutdown`, `remoteSubscription` | the local handler or the distributor |
| Websocket distributor (`WebsocketDistributor.ts`) | `client`, `proxy` | `connect`, `disconnect`, `subscribe`, `send`, `ask` | one client; on a server, one proxy |
| Websocket client (`WebSocketClient.ts`) | `acks`, `questions`, `pending`, the socket, two interval timers, `shutdown` | `createClient`, `init`, `send`, `ask`, `answer`, `trySend`, `handleTimeouts`, `close`, socket events | the proxy; its owner's callback |
| Websocket proxy (`WebSocketMessageProxy.ts`) | `sockets` (client id to socket), `errorHandler`, the closer's count | socket events, `closer`, `close` | every client |
| NATS distributor (`NatsDistributor.ts`) | connection, subscription | as the websocket distributor | the NATS library |
| Errors, loggers | none | | |

What is hard in them, and what makes them correct:

- **Lifecycle.** `createActor`, `restart` and `shutdown` each await hooks and
  then act on what they knew before: the parent's ref, the list of children, a
  flag. Nothing keeps two of them on one actor, or on an actor and its parent,
  apart. A restart exchanges the instance behind a ref and starts the restarts
  of the whole subtree at once. Correct means: the map of registered actors
  names live actors only; the map, the lists of children and the refs describe
  one tree, with no live actor under a dead parent; every shutdown settles.
- **Messaging.** Sends go through a timer callback, `receive` settles at any
  time or never, and an ask has a timer that races the answer. Correct means: an
  asker gets exactly one answer and always gets one; nothing is delivered after
  the system stopped; supervision hits the actor that failed.
- **Error reports.** The system reports failures to an actor that can fail itself,
  or be restarted or gone by then. Correct means: a receiver that is there hears of
  every failure, once, and reporting does no harm.
- **Websocket transport.** Connections break and lose what is in them, the proxy
  learns of it late, ACKs and answers come late or never. Correct means: what a
  client remembers is consistent and is cleaned up; a resolved promise means
  delivery; every promise settles; a connected client can be reached.
- **Connections.** A failure triggers one or two handlers, in an order that
  depends on the platform, and each may set a timer to connect; `close` may come at
  any point. Correct means: one connection at a time; a client that is not closed
  comes back; a closed one is gone; `createClient` settles; the proxy closes.
- **Distribution.** An ask across systems needs two timers, two connections in both
  directions and two shutdowns that do not wait for each other. Correct means: it
  settles; a message is received once at most; what was acknowledged is taken over.

## Modules

```
SupervisionTree        what the tree of names promises        (abstract)
  ^ implemented by                                            SupervisionTreeProofs
ActorLifecycle         create, restart, shutdown              MCActorLifecycle
                                                              ActorLifecycleProofs
                                                              SerialLifecycleProofs
AskPromise             what ask() promises                    (abstract)
  ^ implemented by
Messaging              send, ask, inbox, supervision          MCMessaging, MessagingProofs
  ^ extended by
ErrorReports           the error receiver and its reports     MCErrorReports
                                                              ErrorReportsProofs
AskPromise
  ^ implemented by
SocketMessages         messages between clients and proxy     MCSocketMessages
  ^ used (INSTANCE) by                                        SocketMessagesProofs
DistributedSystem      asks across systems, shutdown          MCDistributedSystem
  v implements AskPromise too                                 DistributedSystemProofs

SocketConnection       making, losing, closing connections    MCSocketConnection
                                                              SocketConnectionProofs
```

Definitions called "a wrong variant" are not part of a model. They are bugs that
this code could have had, one for every checked property, with which the property
fails.

### ActorLifecycle

An Actor object is a number of `Inst`; the ref its constructor makes has the same
number. `actorRef[i]` is the ref that instance `i` answers to, `refActor[r]` the
instance that ref `r` leads to. Both start as the identity, and only restarts
change them, so a step of a restart is visible exactly as in the code. `phase`
says how far `createActor` got with an instance; `stops` holds the calls of
`shutdown()` in progress, each with the path of calls that made it.

| Action | Code |
|---|---|
| `CreateActor` | `createActor` up to the await of `beforeStart` |
| `Restart` (from `Supervise` and `RestartCall`, and for the subtree) | `restart` up to the await of `createActor`, with `children.forEach(restart)` before it |
| `BeforeStartDone` | registration and `appendChild` |
| `AfterStartDone`, `RestartDone` | the end of `createActor`, and what `restart` does after it, to the instance that the returned ref leads to by then |
| `StartFails` | a start hook rejects; a restart then calls `shutdown()` |
| `Supervise`, `RestartCall`, `Shutdown`, `SystemShutdown` | the calls of `restart()` and `shutdown()`, by supervision and by the application |
| `BeforeShutdownDone`, `BeforeShutdownFails`, `ChildrenDone`, `AfterShutdownDone` | the parts of `shutdown` between its awaits |

Assumptions:

- Hooks settle at any time (in `FairSpec`: eventually). Which of them may reject
  is the constant `FailingHooks`. An `afterShutdown` that rejects has the same
  effect on the state as one that resolves; the system actor's hooks are the
  default ones.
- `Serial = TRUE` is a discipline of the clients, not something the code has: an
  operation on a name starts only when no operation is in progress on the name,
  its ancestors or its descendants, `restart()` and `shutdown()` are called on
  registered instances, a parent is given by the ref it answers to and is in the tree, and no actor is restarted whose lists still name a shut
  down one (see `ShutdownIsFinal`). `Serial = FALSE` allows everything.
- The names are finitely many, and every one begins with the system actor's
  (`NamesAssumption`). `Above[n]` is the set of names that `n` begins with; it, and
  the lists that `updateChildren` gets to (`Visited`), are written as the least
  closed set and not by recursion, so that they can be proved about.
- `restart()` and `shutdown()` are public: the application may call them on any
  instance, also on one that a restart has replaced or that is shut down
  (`Callable`); with `Serial`, only on a registered one. An actor does not restart
  or shut itself down in its own `beforeStart`.
- The order within `children` is left out, since nothing depends on it.
- Actors have names. Whether the application may pass `overwriteExisting` is the
  constant `Overwrite`.

### Messaging

A message is one call of `send` or `ask`, `at` says where it is, `deadline` is
its ask timer, `outcome` what the asker was told. `timers` are the zero
timeouts of actors' sends, in order. The lifecycle appears as `Register` and
`Unregister` of a URI, for any actor at any time, which is weaker than what
`ActorLifecycle` does. That a registered actor is never shut down is taken from
its `RegisteredIsLive`, which is proved. The order in which ask timers fire is
left open.

| Action | Code |
|---|---|
| `ActorSend`, `SendTimer` | `Actor.send` and `Actor.ask`, and their timer callback |
| `SystemSend` | `ActorSystem.send` and `ActorSystem.ask`, which deliver at once |
| `Deliver` (part of these) | `handleInboxMessage` up to the await of `receive` |
| `ReceiveReturns`, `ReceiveRejects` | the rest of `handleInboxMessage` |
| `DeadlineFires` | the ask timer |
| `StopInbox` | the end of `ActorSystem.shutdown` |

### ErrorReports

`Messaging` with `errorActor` and the reports that are sent to it. A report is a
message of the system without answer, delivered at once to the object that has the
receiver's name (`reader`), or to the system actor (0). `about` relates a report
to what it is about: a message, a name, or the report that the receiver failed to
handle. It has every report that is made, and `reader` is 0 for one that threw in
`send` or that the system actor logged: `Heard` are those with a reader. Each action of
`Messaging` either reports or does not; the restart or shutdown that follows a failure
is its `Register` or `Unregister`. A step that would report waits when all of `Reports`
are used up.

| Action | Code |
|---|---|
| `Reject`, `TimeOut` | the catch clause and the ask timer of `handleInboxMessage`, with `Report` |
| `NameFails` | `createActor` with a name that is taken, `getActorRef` with one that is not |
| `ReportReturns`, `ReportRejects` | the receiver's `receive` settles; a rejection is reported like any other |
| `RegisterActor` | `createActor`, which sets `errorActor` |

### SocketMessages

Two clients or more, the proxy, and between them connections that carry messages
in order (`up`, `down`) until they break. `acks`, `questions` and `pending` are
the client's maps, and `older` is the order in which entries were made:
`handleTimeouts` goes through each map in this order and stops where it throws.
`Void` are the answers that may have no value. `link` is `readyState`, where
`lost` is a closed socket with the timer to reconnect, `conn` numbers a client's
connections, and `sockets` of the proxy holds such a number.

A message that waits for a connecting socket has a timer of its own, so those that
wait go out in any order (`Retry`).

Time is left out except for one fact: deadlines are 5 s away and the check runs
every 5 s, so an entry survives the first check after it is made and is found by
the second (`overdue`).

| Action | Code |
|---|---|
| `Send`, `Ask`, `AnswerQuestion` (all `Post`, `TrySend`), `Retry` | `send`, `ask`, `answer`, `trySend` and its timer |
| `ReceiveMessage`, `ReceiveAck`, `ReceiveAnswer` | the cases of `onmessage` |
| `HandleTimeouts` | `handleTimeouts`, with the TypeError of `DeliveryError` |
| `Open`, `Disconnect`, `Reconnect`, `Close` | `onopen`, `onclose`, its timer, `close` |
| `ProxyRegister`, `ProxyForward`, `ProxyClose`, `ProxyError` | the proxy's socket events |

The process is assumed to survive the TypeError of a timer callback, as a browser
does; in Node it ends the process unless the application catches it.

### SocketConnection

The same clients without their messages, but with every socket they make. `sock`
is the `readyState` of each (a number is used again when a socket is gone on both
sides), `current` is `this.client`, `timers` counts the timers that will call
`init`, `created` is the promise of `subscribe`, `check` and `keepAlive` the
interval timers. The client's id is the one message that matters: it is sent over
`current`, which need not be the socket that opened.

A failed attempt differs by platform, and the handlers react to it differently:

- with the package ws, `error` comes first, while the socket is CLOSING, then
  `close`. `onerror` sets a timer, and `onclose` another. A connection that is lost
  emits `close` only. An attempt aborted by `close()` emits `error`.
- in a browser (`Browser`) `error` comes when the socket is CLOSED, which
  `onerror` takes for a failed authorization: it stops the check and rejects.
  `onclose` sets the timer. A connection may be lost with or without `error`.

The proxy's own `error` handler of a socket deletes the registration of another client
(see the findings), and that client, whose connection holds, never registers again.
`evicted` remembers whom that happened to since it last registered. Every socket may
emit `error` at the proxy at any time until the proxy has handled its end.

| Action | Code |
|---|---|
| `Import`, `Subscribe` | the distributor's constructor and `subscribe` with `createClient` |
| `Open`, `Retry` | `onopen`, and the timer of a `trySend` |
| `AttemptFails` | `onerror`, then `onclose`, of a connecting socket; `Doubtful` clients may be refused |
| `Disconnect` | `onclose` of an open or closing socket |
| `Reconnect` | a timer calls `init` |
| `Close` | `disconnect`: `close` of the client and, on the host, of the proxy |
| `Closer`, `ProxyRegister`, `ProxyClose`, `ProxyError` | the proxy |

### DistributedSystem

`SocketMessages` (as `Socket`) with an actor system at each client. `phase` is how
far the shutdown of a system got, `at` and `deadline` are those of `Messaging` for
the messages from other systems, `answer` is the promise of `ask()` at the asking
system.

| Action | Code |
|---|---|
| `Ask`, `Send` | `remoteSubscription` for a remote target, down to the client |
| `ReceiveMessage` | `onmessage`, the callback of `subscribe`, the inbox and the local handler, in one step |
| `ReceiveReturns`, `ReceiveRejects`, `DeadlineFires` | the rest of the local handler, whose ask callback calls `answer` |
| `ReceiveAnswer`, `HandleTimeouts` | the client settles its promise, and `remoteSubscription` hands it on |
| `Shutdown`, `StopInbox` | `disconnect`, then the end of `ActorSystem.shutdown` |
| `Transport` | the other steps of `SocketMessages` |

The proxy outlives the systems here (its end is in `SocketConnection`), and which
actor receives a message is left out. An ask is given `client.ask`'s own timeout of
5 s, whatever the asker said: the distributor does not pass it on.

## Runs

| Run | Bounds | What it shows |
|---|---|---|
| `lifecycle_serial` | 3 names (parent, child, sibling), 7 instances, 2 outside shutdowns, no failing hook, `Serial` | With clients that keep operations apart: no live actor under a dead parent, every registered actor is listed once by its parent and its ref leads to it, a live child can be reached, and the map implements `SupervisionTree` |
| `lifecycle_overlap` | parent and child, 3 instances, 2 shutdowns, `beforeStart` may fail, everything overlaps | The map names live actors only, and lists hold actors of the right level |
| `lifecycle_stops` | parent and child, 2 instances, 2 shutdowns, every hook may fail, fair | Every shutdown settles; the system stops |
| `messaging` | 2 actors, 4 messages (send and ask, by system and actor), 2 registrations, fair | Timers and answers agree, one answer only, nothing after the stop, asks settle |
| `errors` | an actor and an error receiver, 1 send, 1 ask, 3 registrations, 2 reports | No failure is reported twice; a receiver that is there hears of each |
| `socket` | 2 clients, 1 send, 1 question with its answer, 2 connections each | The client's maps agree, a result means delivery, a connected client is reachable, one outcome per promise |
| `socket_checks` | 2 clients, 2 questions of one of them, 1 connection each, socket errors, only the asker may be closed, fair | Each question settles unless the check throws |
| `socket_lost_ask` | 1 question, fair | Finding: a question that is never rejected |
| `connection` | a host and a client in a browser, 2 sockets and 3 timers each, 2 faults, errors of sockets at the proxy without bound, 2 attempts of the closer, fair | The browser has one connection at a time and an open one is kept alive; nobody gives up; open means registered, and everybody comes back, unless the proxy's error handler took the client out; the proxy closes |
| `connection_storm` | the host and a client that may be refused | Finding: connections multiply |
| `distribution` | 2 systems, 1 send, 1 ask the other way, 1 connection each, socket errors | No receive after the stop, an ACK over a first connection means that the inbox took the message, a pending ask is known to the client and settles once |
| `distribution_settles` | 2 systems, 1 ask, the asker may connect again, 2 connections each, answers may be empty, fair | A message is received once at most, also one that waited for a connecting socket or was sent over a later connection; an ask settles while connections stay up, and otherwise unless the check throws; messages without ACK are removed |

The bounds: seven instances are a parent and a child that are created and restarted
twice, or are restarted, shut down and created again, with room for the
sibling. In the overlapping runs three instances
are enough for a create racing a create, a create racing a restart of its
parent, two restarts of one instance racing, and a restart of an instance whose own
restart is not over, each with two shutdowns. Two reports are a
failure and the receiver's failure to handle its report, or both failures of an ask, a
timeout and a rejection. Two connections each are
what a registration and its late close event need, two sockets and three timers
what one failed attempt with two successors needs, two faults one failure
of each client, or a failure and that of the attempt that follows it; `MaxFaults` counts what fails
although the proxy is there, and attempts without a proxy fail for free. Two
questions are what it takes for one to block the other in a check.

Where a bound stops a model, it stops new requests only, with these exceptions:
`MaxCalls` also holds back a `StartFails` that would call `shutdown()`;
`Reports` holds back a step that would report; and `MaxTimers` and `MaxSockets` hold
back failures and reconnects of clients with the package ws, whose sockets
multiply. None of the runs checks for deadlock: all these systems may be at rest.

Fairness. `ActorLifecycle`: each instance that is starting, and some step of the
shutdowns in progress, are not put off for ever. That is the event loop, and the
assumption that hooks settle. `Messaging`: due timers run; nothing is
assumed of `receive`, so `AskSettles` holds even for a receive that hangs.
`SocketMessages`: the interval timer fires until `close()`, the events of a
connection are handled, and the actor system at the target answers, for which its
own ask timer is the reason. Nothing is assumed of connections.
`DistributedSystem` has that timer (`DeadlineFires`) in place of the assumption,
and assumes nothing of `receive`. `SocketConnection`: timers fire, the import
ends, every attempt succeeds or fails, a closing socket closes, and the proxy
handles what it gets. That attempts do not fail for ever is the bound on faults,
not fairness.

## Findings

Behaviours where the code and what is said of it differ; PROJECT.json has the
lines and the quotes.

Shown by a run:
- `socket_lost_ask`: the timeout of an acknowledged question throws instead of
  rejecting.
- `connection_storm`: with the package ws one failed attempt leads to two.

Stated under "What the code does not keep", or beside the other properties, and
found violated by TLC when put into a run:
- `ChildrenAreLive` (two names, five instances, one shutdown, `Serial`, nothing fails or
  is overwritten): a restarted actor that shuts down stays in its parent's list, because
  the list holds another ref than the one `removeChild` is given, and the next restart
  of the parent starts it again (`ShutdownIsFinal`, with `Serial = FALSE`). If its
  name was created anew, the list and the map then disagree about it; if it has a
  child of its own, that child may register under a parent that is shut down.
- `CreateNeverDisplaces` (two names, three instances, `Serial = FALSE`): unique names are
  checked before an await and used after it.
- `RegisteredIsListed`, `LiveChildIsRegistered` (`Serial`, `Overwrite`): an actor that
  was overwritten stays alive and listed.
- `NoOrphans` (failing `beforeStart`): a failing restart shuts a subtree down of
  which a member is being restarted, and which then registers under the dead parent.
- `AskAlwaysSettles`: an ask made just before the inbox stops is not answered.
- `SupervisesThrower`: the strategy hits whoever has the name.
- `NothingUncaught`: a report after the stop is an unhandled rejection;
  `NotToldOfItself`, `ReceiverIsRegistered`: a failing receiver is told of its own
  failure, and one that is gone is still sent reports.
- `EveryAckLeaves` (`Void = {r1}`): an empty answer without ACK blocks the check.
- `OpenIsReachable` (`SocketErrors`): the proxy's error handler takes out another
  client's registration. It stays out while its own connection holds, so
  `OpenIsRegistered` and `ComesBack` need their exception for `evicted`.
- `ClosedStaysClosed`, `RejectedIsGone`, `CreateSettles`, `HandlerIsSet`: a closed or
  refused client connects again; `createClient` stays pending after a first attempt
  that failed; the proxy may not have its error handler yet.
- `TimeoutRejects`: a remote timeout resolves the ask with an error.
- `AckedIsTaken` without its condition on `conn` (`Reconnecting = {c2}`,
  `MaxConns = 2`): the connection of c2 is lost and c2 is shut down while the timer
  to reconnect is pending. The timer calls `init` all the same, the client of the
  stopped system registers again, and `onmessage` acknowledges a message before the
  stopped inbox throws: the sender's promise resolves, and the message is lost.

Seen while modelling: a send without ACK is not rejected; `pending` is cleaned up
under the wrong id; the distributed system's `errorHandler` never reports; messages
to the system actor's own URI leave without a target; every failure in a browser
stops the check; `Actor.ask` resolves with an Error; a failing `afterStart` leaves an
actor registered, or alive and unregistered; receives of one actor interleave.

## Proofs

All for every value of the constants that the named assumptions allow.

`ActorLifecycleProofs` proves `TypeOK`, `RegisteredIsLive` and `ChildrenNested`,
with no assumption about `Serial` or failing hooks. `RegisteredIsLive` is not
inductive: `ChildrenDone` marks an instance dead and removes the name of whatever
its ref leads to. The invariant `IInv` adds what makes that the same name.
`Lineage`: refs and instances are redirected only within a name, also by a restart that
ends at another instance than it made. `FreshAlone`:
nobody knows an instance before its `beforeStart` ended, and it is alive, so what
`BeforeStartDone` registers is alive. `Registry`: an actor is
registered under its own name. `StopsOK`, `ReplacesOK`, `ParentsOK` and
`ChildrenOK` say that whatever is reached through a call, a restart, a parent or a
list is an instance that has started, with the name that fits. There is one lemma
for each action; `ConstructStep`, `StopsStep` and `PhaseStep` hold what
several have in common.

`SerialLifecycleProofs` proves what `lifecycle_serial` checks: `NoOrphans`,
`RegisteredIsListed`, `LiveChildIsRegistered` and that
`ActorLifecycle` implements `SupervisionTree`. The theorems assume `Disciplined`, that
is `Serial`, no `overwriteExisting` and no hook that rejects; without any one of the
three TLC finds some of the properties violated (see the findings). None of them is
inductive, since in the middle of a restart the map, the lists and the refs do not
agree: the map leads to the new instance from the end of `beforeStart` on, the refs and
lists of the children to the old one until `RestartDone`. The invariant `SInv` is
about the instances that refs lead to (`Held`), of which a name has one at any time.
`Shape` says that they are a tree: each hangs under a held parent by the ref the
parent answers to (`Ups`), which lists it by exactly one ref (`Listed`), and every live
entry of a list is such a child (`Lists`); `Map` relates the map to them while an
instance starts, and `Starts` says that a starting instance is known to its creator
only. `Calls` says where a shutdown can be: apart from all that starts (`Apart`), one
for each name (`StopsOnce`), above a call of its own that leads to any call further
down (`StopsNest`), and waiting for every held child (`StopsWait`), so that what
`ChildrenDone` takes out is a leaf. Names are followed upwards in place of an
induction: a set of names that holds the parent of each of its members holds the system
actor's (`AboveLeast`, `NamesAssumption`). So it is shown that `updateChildren` gets to
the list it has to change (`WalkMeetsParent`), that the members of a restarting
subtree are held and have different names (`SubtreeMembers`, `SubtreeNames`), and that
the system actor is the last to go (`RootLeaf`).

`MessagingProofs` proves `TypeOK`, `TimerMatchesAnswer`, `NothingAfterStop` and that
`Messaging` implements `AskPromise`. Its `IInv` says where a message can be when
its timer and its promise are in a given state (`AskState`), and that every
callback in `timers` belongs to one waiting message (`WaitingInTimers`), without
which a callback could deliver a message a second time.

`ErrorReportsProofs` proves that `ErrorReports` implements `Messaging`, so that the
theorems above hold with error reports too, and its three properties.
`OncePerFailure` counts: the reports about a message never outnumber its failures
(`Accounted`), which needs that failures are never undone (`FailuresGrow`, from the
invariant of `Messaging`) and that a report adds one pair to `about`.
`HearsOfEveryFailure` says that the reports which a receiver got keep up with the
failures of a message from any moment before the first one on. Its proof
(`HeardStep`) counts a failure and its report together: a report that is not sent yet is
about nothing (`FreshReports`), so it is one more (`HeardMore`), and no report about
something else takes a reader away (`HeardOther`). The receiver has to stay registered,
though by whatever instance, and the inbox open: the code keeps no more.

`SocketMessagesProofs` proves the invariants of run `socket` and that `ask` of the
client implements `AskPromise`. `Books` relates the client's maps to its promises
and to what was received. That `ResultIsReceived` is kept needs to know what an ACK
or an answer on its way says, over connections that break in between: `Routes` says
that a message only travels from its origin to its target, and that an ACK is only
made of what was received. `Single` says that a message is in one queue at most, once,
and in none after it was received: without it a second copy could be received. `Breaks`
says which connections the proxy has yet to hear of, so that `ProxyClose` takes out no
later registration. `OpenIsReachable` is proved for `~SocketErrors` only; with socket
errors the code does not keep it (see above). The lemmas `Enqueued`, `Dequeued` and
`Emptied` say what a step does to the queues in terms of what they contain, and no
proof of an action looks into a sequence.

`DistributedSystemProofs` first proves `ImplementsSockets`: a step of the actor
systems is a step of `SocketMessages` or leaves its variables alone, so the invariant
of `SocketMessagesProofs` is available through an instance of that module. On top of
it `IInv` says that a pending ask is pending at the client (`PendingAsked`), that what the inbox was given
was received by the client (`GivenIsReceived`), which with `Single` gives `AtMostOnce`,
and, for `AckedIsTaken`, that a system that is not running has closed its client
(`ShutdownCloses`) and that no ACK is made for a message that a first connection
delivered to a stopped inbox (`DroppedIsSilent`).

`SocketConnectionProofs` proves the four invariants of run `connection` and `TypeOK`.
`LineInv` counts sockets and timers of a client; one client in a browser has one line
at most, so that the events of two sockets cannot cross, and every client that is not
closed has one at least. `Ends` says in what state a socket can be while its id is on the
way or its end unnoticed, and `Known` why an open socket is registered, or will be, or
was taken out by the error of another socket.

`SupervisionTreeProofs` proves that in the abstract tree whatever is up has its
parent up, and that a closed system is empty.

The assumptions are the named ones of the modules on their constants: the kinds of the
constants, that there are finitely many names of actors and each leads up to the
system's, that names of actors are not the system's, that a question's answer belongs
to it alone and goes back where the question came from. Nothing is assumed about the
number of actors, clients, messages, sockets or connections.

Only model-checked: the liveness properties, which are out of reach of the
prover, as is ENABLED. Every other property of a passing run is proved.

## Not modelled

- The NATS distributor: single calls of an external library.
- Loggers and error classes: no state.
- Actors without names, and the constructor parameters of a restart.
- The distributed `errorHandler`, whose branch is never taken; channel names
  (system names have no dot, and no message goes to a remote system actor's URI).
- The payload of keep-alives, and the re-creation of the proxy's server after an
  error of the server, which leaves sockets and registrations as they are.
- A second shutdown of a system, which rejects without changing state.

## Plan

1. Done: all modules above.
2. Done: proofs of all properties of the runs that are not liveness properties.
3. Actors without names, as a variant of `Construct`.
