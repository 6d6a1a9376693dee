----------------------------- MODULE Messaging -----------------------------
(***************************************************************************)
(* Messages inside one ActorSystem: send and ask of actors and of the      *)
(* system, the inbox (an rxjs Subject), handleInboxMessage with its ask    *)
(* timer, and the supervision of a receive that rejects.  A step is what   *)
(* runs between two awaits or timer callbacks; receive() may settle at any *)
(* later time or never.                                                    *)
(*                                                                         *)
(* Starting, restarting and shutting down actors (module ActorLifecycle)   *)
(* appears here as Register and Unregister.  An Actor object is a number,  *)
(* a new one for every registration; 0 is the system actor, which gets the *)
(* messages for names nobody is registered under.  A registered actor is   *)
(* never shut down (ActorLifecycle!RegisteredIsLive), so the other way to  *)
(* a redirected message, a target that is shut down, is the system actor.  *)
(* No actor is the errorReceiver: errorActor is undefined.                 *)
(***************************************************************************)
EXTENDS Naturals, Sequences

CONSTANTS
    Actors,      \* actor URIs
    Msgs,        \* messages: each is one call of send or ask
    Asks,        \* the messages that are asks
    FromSystem,  \* the messages of ActorSystem.send and .ask; actors send the others
    To,          \* [Msgs -> Actors]: the URI a message is addressed to
    Strategy,    \* [Actors -> supervision strategy]
    MaxActors    \* bound on Actor objects

ASSUME MessagingAssumption ==
    /\ Asks \subseteq Msgs
    /\ FromSystem \subseteq Msgs
    /\ To \in [Msgs -> Actors]
    /\ Strategy \in [Actors -> {"Restart", "Resume", "Shutdown"}]
    /\ MaxActors \in Nat

Places == {"unsent", "refused", "waiting", "lost", "receiving", "handled", "failed"}
Timers == {"none", "armed", "fired", "cleared"}
Outcomes == {"unasked", "refused", "pending", "result", "error"}

VARIABLES
    inbox,      \* "open" until ActorSystem.shutdown completes it
    timers,     \* the setTimeout(..., 0) callbacks of actors' send and ask, in order
    at,         \* where a message is
    target,     \* the Actor object whose receive got it
    deadline,   \* the timer ts of an ask; "fired" is timedOut
    outcome,    \* what the asker's callback was last called with
    registered, \* the Actor object under a URI in ActorSystem.actors, 0 if there is none
    made,       \* how many Actor objects there are
    ward        \* the Actor object a failed receive applied a strategy to, 0 if none

vars == <<inbox, timers, at, target, deadline, outcome, registered, made, ward>>
tree == <<registered, made>>

\* A wrong variant: a send is treated like an ask.
SetOutcomeOfAny(m, r) ==
    outcome' = [n \in DOMAIN outcome \cup {m} |-> IF n = m THEN r ELSE outcome[n]]

\* The callback of an ask; a send has none.
SetOutcome(m, r) ==
    outcome' = IF m \in Asks THEN [outcome EXCEPT ![m] = r] ELSE outcome

-----------------------------------------------------------------------------
(* handleInboxMessage up to the await of receive; inbox.next calls it      *)
(* synchronously.  An ask gets its timer before receive is called.         *)
Deliver(m) ==
    /\ at' = [at EXCEPT ![m] = "receiving"]
    /\ target' = [target EXCEPT ![m] = registered[To[m]]]
    /\ deadline' = IF m \in Asks THEN [deadline EXCEPT ![m] = "armed"] ELSE deadline

(* Actor.send, Actor.ask: refused with an error once the inbox is stopped; *)
(* otherwise the message goes out from a timer callback.                   *)
ActorSend(m) ==
    /\ at[m] = "unsent" /\ m \notin FromSystem
    /\ IF inbox = "stopped"
       THEN /\ at' = [at EXCEPT ![m] = "refused"]
            /\ SetOutcome(m, "refused")
            /\ UNCHANGED timers
       ELSE /\ at' = [at EXCEPT ![m] = "waiting"]
            /\ SetOutcome(m, "pending")
            /\ timers' = Append(timers, m)
    /\ UNCHANGED <<inbox, target, deadline, tree, ward>>

\* A wrong variant: the callback trusts the look that send() took at the inbox.
SendTimerUnchecked ==
    /\ timers # <<>>
    /\ timers' = Tail(timers)
    /\ Deliver(Head(timers))
    /\ UNCHANGED <<inbox, outcome, tree, ward>>

(* The timer callback of an actor's send or ask looks at the inbox again,  *)
(* and does nothing when it was stopped in between.                        *)
SendTimer ==
    /\ timers # <<>>
    /\ timers' = Tail(timers)
    /\ LET m == Head(timers)
       IN IF inbox = "stopped"
          THEN /\ at' = [at EXCEPT ![m] = "lost"]
               /\ UNCHANGED <<target, deadline>>
          ELSE Deliver(m)
    /\ UNCHANGED <<inbox, outcome, tree, ward>>

\* ActorSystem.send, ActorSystem.ask: a closed Subject throws, the promise rejects.
SystemSend(m) ==
    /\ at[m] = "unsent" /\ m \in FromSystem
    /\ IF inbox = "stopped"
       THEN /\ at' = [at EXCEPT ![m] = "refused"]
            /\ SetOutcome(m, "refused")
            /\ UNCHANGED <<target, deadline>>
       ELSE Deliver(m) /\ SetOutcome(m, "pending")
    /\ UNCHANGED <<inbox, timers, tree, ward>>

\* A wrong variant: the result is passed on without looking at timedOut.
ReceiveReturnsLate(m) ==
    /\ at[m] = "receiving"
    /\ at' = [at EXCEPT ![m] = "handled"]
    /\ SetOutcome(m, "result")
    /\ UNCHANGED <<inbox, timers, target, deadline, tree, ward>>

\* receive settled with a result: unless the ask timed out it is the answer.
ReceiveReturns(m) ==
    /\ at[m] = "receiving"
    /\ at' = [at EXCEPT ![m] = "handled"]
    /\ IF deadline[m] = "fired"
       THEN UNCHANGED <<deadline, outcome>>
       ELSE /\ deadline' = IF m \in Asks THEN [deadline EXCEPT ![m] = "cleared"] ELSE deadline
            /\ SetOutcome(m, "result")
    /\ UNCHANGED <<inbox, timers, target, tree, ward>>

\* A wrong variant: the timer of an ask is cleared in a finally block.
ReceiveRejectsClearing(m) ==
    /\ at[m] = "receiving" /\ target[m] # 0
    /\ at' = [at EXCEPT ![m] = "failed"]
    /\ deadline' = IF deadline[m] = "armed" THEN [deadline EXCEPT ![m] = "none"] ELSE deadline
    /\ UNCHANGED <<inbox, timers, target, outcome, tree, ward>>

(* receive rejected: the target is looked up by name again, and its        *)
(* strategy applied.  An ask is left to its timer.  The system actor only  *)
(* logs the message, which does not fail for one that JSON can express.    *)
ReceiveRejects(m) ==
    /\ at[m] = "receiving" /\ target[m] # 0
    /\ at' = [at EXCEPT ![m] = "failed"]
    /\ ward' = [ward EXCEPT ![m] = IF Strategy[To[m]] = "Resume" THEN 0 ELSE registered[To[m]]]
    /\ UNCHANGED <<inbox, timers, target, deadline, outcome, tree>>

\* The timer of an ask fires, whatever became of receive.
DeadlineFires(m) ==
    /\ deadline[m] = "armed"
    /\ deadline' = [deadline EXCEPT ![m] = "fired"]
    /\ SetOutcome(m, "error")
    /\ UNCHANGED <<inbox, timers, at, target, tree, ward>>

-----------------------------------------------------------------------------
\* createActor or restart puts a new Actor object under a URI.
Register(a) ==
    /\ made < MaxActors
    /\ made' = made + 1
    /\ registered' = [registered EXCEPT ![a] = made']
    /\ UNCHANGED <<inbox, timers, at, target, deadline, outcome, ward>>

\* shutdown takes it out.
Unregister(a) ==
    /\ registered[a] # 0
    /\ registered' = [registered EXCEPT ![a] = 0]
    /\ UNCHANGED <<inbox, timers, at, target, deadline, outcome, made, ward>>

\* ActorSystem.shutdown after its await: the inbox is completed and unsubscribed.
StopInbox ==
    /\ inbox = "open"
    /\ inbox' = "stopped"
    /\ UNCHANGED <<timers, at, target, deadline, outcome, tree, ward>>

-----------------------------------------------------------------------------
Init ==
    /\ inbox = "open"
    /\ timers = <<>>
    /\ at = [m \in Msgs |-> "unsent"]
    /\ target = [m \in Msgs |-> 0]
    /\ deadline = [m \in Msgs |-> "none"]
    /\ outcome = [m \in Asks |-> "unasked"]
    /\ registered = [a \in Actors |-> 0]
    /\ made = 0
    /\ ward = [m \in Msgs |-> 0]

Next ==
    \/ \E m \in Msgs : ActorSend(m) \/ SystemSend(m)
    \/ SendTimer
    \/ \E m \in Msgs : ReceiveReturns(m) \/ ReceiveRejects(m) \/ DeadlineFires(m)
    \/ \E a \in Actors : Register(a) \/ Unregister(a)
    \/ StopInbox

Spec == Init /\ [][Next]_vars

(* Node runs the timers that are due.  Nothing makes a receive settle.     *)
Fairness == WF_vars(SendTimer) /\ \A m \in Asks : WF_vars(DeadlineFires(m))

FairSpec == Spec /\ Fairness

-----------------------------------------------------------------------------
\* The kinds of values the variables hold.
TypeOK ==
    /\ inbox \in {"open", "stopped"}
    /\ timers \in Seq(Msgs)
    /\ at \in [Msgs -> Places]
    /\ target \in [Msgs -> Nat]
    /\ deadline \in [Msgs -> Timers]
    /\ outcome \in [Asks -> Outcomes]
    /\ registered \in [Actors -> Nat]
    /\ made \in Nat
    /\ ward \in [Msgs -> Nat]

(* The timer and the answer of an ask agree: a result disarms the timer, a *)
(* timeout is answered with the error, and while the promise is pending    *)
(* there is a timer, or the callback that will set it, or the callback     *)
(* that found the inbox stopped.                                           *)
TimerMatchesAnswer ==
    \A m \in Asks :
        /\ deadline[m] = "cleared" <=> outcome[m] = "result"
        /\ deadline[m] = "fired" <=> outcome[m] = "error"
        /\ outcome[m] = "pending" => deadline[m] = "armed" \/ at[m] \in {"waiting", "lost"}

(* Once the inbox is stopped no receive starts, though callbacks that were *)
(* set before it stopped still run.                                        *)
NothingAfterStop ==
    [][inbox = "stopped" => \A m \in Msgs : at[m] # "receiving" => at'[m] # "receiving"]_vars

(* A strategy is applied to the Actor object whose receive rejected, not   *)
(* to one that has its name by then.                                       *)
SupervisesThrower == \A m \in Msgs : ward[m] # 0 => ward[m] = target[m]

(* Every ask is answered within its timeout, unless the inbox stops before *)
(* its callback runs.                                                      *)
AskSettles ==
    \A m \in Asks : outcome[m] = "pending" ~> (outcome[m] # "pending" \/ at[m] = "lost")

\* Every ask is answered within its timeout.
AskAlwaysSettles == \A m \in Asks : outcome[m] = "pending" ~> outcome[m] # "pending"

\* An asker gets one answer: a late result or a late timeout changes nothing.
Promise == INSTANCE AskPromise
PromiseSpec == Promise!Spec
=============================================================================
