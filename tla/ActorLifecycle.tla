--------------------------- MODULE ActorLifecycle ---------------------------
(***************************************************************************)
(* The supervision tree of one ActorSystem: createActor, restart and       *)
(* shutdown of actors (src/Actor.ts, src/ActorSystem.ts) as the event loop *)
(* runs them.  A step is what one continuation does between two awaits;    *)
(* a lifecycle hook (beforeStart, afterStart, beforeShutdown,              *)
(* afterShutdown) may settle at any later time, so everything else can     *)
(* happen while an operation waits for it.                                 *)
(*                                                                         *)
(* An Actor object is an instance; the ActorRefImpl its constructor makes  *)
(* has the same identity, so refs are instances too.  A restart replaces   *)
(* an instance by a new one and redirects the old ref: refActor and        *)
(* actorRef start as the identity and are changed by restarts alone.       *)
(***************************************************************************)
EXTENDS Naturals, Sequences, SequencesExt, Functions, FiniteSets

CONSTANTS
    Names,        \* the actor URIs that are used
    TopName,      \* the URI of the system actor
    ParentName,   \* [Names -> Names \cup {TopName}]: the URI up to its last "/"
    Strategy,     \* [Names -> supervision strategy]
    Inst,         \* Actor objects that can be made: bounds creates and restarts
    Root,         \* the system actor
    None,         \* no instance
    MaxCalls,     \* bound on shutdown() calls that come from outside a shutdown
    FailingHooks, \* the hooks whose promise may reject
    Overwrite,    \* TRUE: the application may create with overwriteExisting
    Serial        \* TRUE: clients keep operations on one branch apart (see MayStart)

Hooks == {"beforeStart", "afterStart", "beforeShutdown"}
Strategies == {"Restart", "Resume", "Shutdown"}
Phases == {"unborn", "starting", "started", "up", "failed"}
StopPhases == {"beforeShutdown", "children", "afterShutdown"}

ASSUME ConstantsAssumption ==
    /\ TopName \notin Names
    /\ ParentName \in [Names -> Names \cup {TopName}]
    /\ Strategy \in [Names -> Strategies]
    /\ Root \notin Inst /\ None \notin Inst \cup {Root}
    /\ MaxCalls \in Nat
    /\ FailingHooks \subseteq Hooks
    /\ Overwrite \in BOOLEAN
    /\ Serial \in BOOLEAN

\* A name and the names of its ancestors, which its URI begins with.
Above == [n \in Names \cup {TopName} |->
    {m \in Names \cup {TopName} : \A S \in SUBSET (Names \cup {TopName}) :
        n \in S /\ (\A k \in S \cap Names : ParentName[k] \in S) => m \in S}]

\* Every URI begins with the URI of the system actor.
ASSUME NamesAssumption == IsFiniteSet(Names) /\ \A n \in Names : TopName \in Above[n]

VARIABLES
    actors,     \* ActorSystem.actors: the registered instance of a name, or None
    name,       \* Actor.name
    parent,     \* Actor.parent, a ref
    children,   \* Actor.children, as a set of refs
    actorRef,   \* Actor.actorRef: the ref an instance answers to
    refActor,   \* ActorRefImpl.actor: the instance a ref points to
    isShutdown, \* Actor.isShutdown
    phase,      \* how far createActor got with an instance
    replaces,   \* the instance whose restart() made this one, or None
    stops,      \* the shutdown() calls in progress
    calls,      \* how many shutdown() calls came from outside a shutdown
    running     \* ActorSystem.running

vars == <<actors, name, parent, children, actorRef, refActor, isShutdown,
          phase, replaces, stops, calls, running>>
treeVars == <<actors, children, actorRef, refActor, isShutdown>>
newVars == <<name, parent, phase, replaces>>

All == Inst \cup {Root}
StopCalls == [path : Seq(Nat \cup Inst), inst : All, at : StopPhases]
Born == {x \in Inst : phase[x] # "unborn"}
Unborn == Inst \ Born
Kids(i) == {refActor[r] : r \in children[i]}
Registered(i) == i \in Born /\ actors[name[i]] = i
InTree(i) == IF i = Root THEN ~isShutdown[Root] ELSE Registered(i)
Starting(x) == phase[x] \in {"starting", "started"}

(***************************************************************************)
(* Nothing in the code stops two operations on one actor from overlapping, *)
(* or checks that a parent is still alive.  With Serial the clients take   *)
(* care of it: an operation on a name starts only when no operation is in  *)
(* progress on the name, an ancestor or a descendant of it, a parent is    *)
(* given by the ref it answers to itself and is in the tree, and no actor  *)
(* is restarted that has a shut down one in its subtree (ShutdownIsFinal). *)
(***************************************************************************)
Related(m, n) == m \in Above[n] \/ n \in Above[m]
Busy == {name[x] : x \in {y \in Born : Starting(y)}} \cup {name[s.inst] : s \in stops}
QuietBranch(n) == \A m \in Busy : ~Related(m, n)
MayStart(n) == Serial => QuietBranch(n)

-----------------------------------------------------------------------------
(* Calling shutdown() on i.  The flag is looked at here and set only after *)
(* two awaits, so a second call on an actor that is shutting down runs the *)
(* whole procedure again.                                                  *)
CallShutdown(i) ==
    IF isShutdown[i]
    THEN UNCHANGED <<stops, calls>>
    ELSE /\ calls < MaxCalls
         /\ calls' = calls + 1
         /\ stops' = stops \cup {[path |-> <<calls'>>, inst |-> i, at |-> "beforeShutdown"]}

\* The constructor call of createActor, for the instances `made` at once.
Construct(made, newName, newParent, old) ==
    /\ phase' = [x \in Inst |-> IF x \in made THEN "starting" ELSE phase[x]]
    /\ name' = [x \in All |-> IF x \in made THEN newName[x] ELSE name[x]]
    /\ parent' = [x \in Inst |-> IF x \in made THEN newParent[x] ELSE parent[x]]
    /\ replaces' = [x \in Inst |-> IF x \in made THEN old[x] ELSE replaces[x]]

(* createActor called by the application, up to the await of beforeStart.  *)
(* A name that is registered is refused (no state changes then) unless the *)
(* options say overwriteExisting.                                          *)
CreateActor(n, p) ==
    /\ actors[n] = None \/ Overwrite
    /\ name[refActor[p]] = ParentName[n]
    /\ Serial => InTree(refActor[p]) /\ p = actorRef[refActor[p]]
    /\ MayStart(n)
    /\ Unborn # {}
    /\ LET x == CHOOSE y \in Unborn : TRUE
       IN Construct({x}, [y \in {x} |-> n], [y \in {x} |-> p], [y \in {x} |-> None])
    /\ UNCHANGED <<treeVars, stops, calls, running>>

(* restart() of i runs, before its first await, restart() of every child,  *)
(* so the whole subtree begins to restart at once, dead members included.  *)
(* A name extends its parent's: no path of children is longer than Names.  *)
Subtree(i) ==
    {path \in BoundedSeq(UNION Range(children), Cardinality(Names)) :
        \A k \in DOMAIN path :
            path[k] \in children[IF k = 1 THEN i ELSE refActor[path[k - 1]]]}

Restart(i) ==
    LET group == Subtree(i)
        actor(path) == IF path = <<>> THEN i ELSE refActor[Last(path)]
        places == Injection(group, Unborn)
        new == CHOOSE f \in places : TRUE
        made == Range(new)
        old == [x \in made |-> actor(CHOOSE path \in group : new[path] = x)]
    IN /\ Serial => \A path \in group : ~isShutdown[actor(path)]
       /\ Cardinality(group) <= Cardinality(Unborn)
       /\ places # {}
       /\ Construct(made, [x \in made |-> name[old[x]]], [x \in made |-> parent[old[x]]], old)
       /\ UNCHANGED <<treeVars, stops, calls, running>>

(* handleInboxMessage caught an exception of receive: it looks the target  *)
(* up by name again and applies its strategy, without awaiting the result. *)
Supervise(n) ==
    /\ actors[n] # None
    /\ MayStart(n)
    /\ \/ /\ Strategy[n] = "Restart"
          /\ Restart(actors[n])
       \/ /\ Strategy[n] = "Shutdown"
          /\ CallShutdown(actors[n])
          /\ UNCHANGED <<treeVars, newVars, running>>

(* restart() and shutdown() are called by the application or by an actor   *)
(* on itself, too: an instance that a restart has replaced may still be    *)
(* executing receive, and one that is shut down may be restarted.  In its  *)
(* beforeStart an actor is assumed not to restart or shut itself down.     *)
Callable(i) ==
    /\ phase[i] \in {"started", "up"} \/ Registered(i)
    /\ Serial => actors[name[i]] = i
    /\ MayStart(name[i])

RestartCall(i) == Callable(i) /\ Restart(i)

Shutdown(i) ==
    /\ Callable(i)
    /\ CallShutdown(i)
    /\ UNCHANGED <<treeVars, newVars, running>>

SystemShutdown ==
    /\ running
    /\ MayStart(TopName)
    /\ CallShutdown(Root)
    /\ running' = ~isShutdown[Root]
    /\ UNCHANGED <<treeVars, newVars>>

-----------------------------------------------------------------------------
\* beforeStart settled: the instance is registered and appended to its parent.
BeforeStartDone(x) ==
    /\ phase[x] = "starting"
    /\ phase' = [phase EXCEPT ![x] = "started"]
    /\ actors' = [actors EXCEPT ![name[x]] = x]
    /\ children' = [children EXCEPT ![refActor[parent[x]]] = @ \cup {actorRef[x]}]
    /\ UNCHANGED <<name, parent, replaces, actorRef, refActor, isShutdown, stops, calls, running>>

\* afterStart settled, and createActor was called by the application.
AfterStartDone(x) ==
    /\ phase[x] = "started"
    /\ replaces[x] = None
    /\ phase' = [phase EXCEPT ![x] = "up"]
    /\ UNCHANGED <<treeVars, name, parent, replaces, stops, calls, running>>

(* The lists that updateChildren gets to: it walks down from the system    *)
(* actor, and does not enter an actor with the name that is exchanged.     *)
Visited(n, kids) ==
    LET lists == {i \in All : kids[i] # {}}
        entered(i) == {refActor[r] : r \in {q \in kids[i] : name[refActor[q]] # n}}
    IN {i \in lists : \A S \in SUBSET lists :
            (\A j \in S \cup {Root} : entered(j) \cap lists \subseteq S) => i \in S \cup {Root}}

\* A wrong variant: the old entry is filtered out and the new one not pushed.
UpdateChildrenDropping(n, new, kids) ==
    [i \in All |->
        IF i \in Visited(n, kids) THEN {r \in kids[i] : name[refActor[r]] # n} ELSE kids[i]]

\* A wrong variant: the new entry is pushed and the old one not filtered out.
UpdateChildrenKeeping(n, new, kids) ==
    [i \in All |->
        IF i \in Visited(n, kids) /\ (\E r \in kids[i] : name[refActor[r]] = n)
        THEN kids[i] \cup {new} ELSE kids[i]]

\* A wrong variant: every list on the way gets the new entry.
UpdateChildrenEverywhere(n, new, kids) ==
    [i \in All |-> IF i \in Visited(n, kids)
                   THEN {r \in kids[i] : name[refActor[r]] # n} \cup {new}
                   ELSE kids[i]]

UpdateChildren(n, new, kids) ==
    LET visited == Visited(n, kids)
        same(i) == {r \in kids[i] : name[refActor[r]] = n}
    IN [i \in All |-> IF i \in visited /\ same(i) # {}
                      THEN (kids[i] \ same(i)) \cup {new} ELSE kids[i]]

\* A wrong variant: the ref gets the new actor's name.
RedirectRefToName(ref, x) == [refActor EXCEPT ![ref] = name[x]]

RedirectRef(ref, x) == [refActor EXCEPT ![ref] = x]

(* afterStart settled, and createActor was called by restart() of old: the *)
(* instance that the ref it returns points to takes over old's ref and     *)
(* children, and the lists of children get that ref.  The instance is x,   *)
(* unless x was restarted itself while its afterStart was pending.         *)
RestartDone(x) ==
    LET old == replaces[x]
        ref == actorRef[old]
        got == actorRef[x]
        new == refActor[got]
        copied == [children EXCEPT ![new] = children[old]]
    IN /\ phase[x] = "started"
       /\ old # None
       /\ phase' = [phase EXCEPT ![x] = "up"]
       /\ actorRef' = [actorRef EXCEPT ![new] = ref]
       /\ refActor' = RedirectRef(ref, new)
       /\ children' = [UpdateChildren(name[refActor[ref]], got, copied) EXCEPT ![old] = {}]
       /\ UNCHANGED <<actors, isShutdown, name, parent, replaces, stops, calls, running>>

(* A start hook rejects and createActor with it.  A restart then shuts the *)
(* old instance down; what BeforeStartDone did is not undone.              *)
StartFails(x) ==
    /\ \/ phase[x] = "starting" /\ "beforeStart" \in FailingHooks
       \/ phase[x] = "started" /\ "afterStart" \in FailingHooks
    /\ phase' = [phase EXCEPT ![x] = "failed"]
    /\ IF replaces[x] = None THEN UNCHANGED <<stops, calls>> ELSE CallShutdown(replaces[x])
    /\ UNCHANGED <<treeVars, name, parent, replaces, running>>

-----------------------------------------------------------------------------
\* A wrong variant: shutdown() does not wait for its children's calls.
ChildStopsIgnored(s) == {}

\* The shutdown() calls on children that a call waits for.
ChildStops(s) == {t \in stops : Len(t.path) = Len(s.path) + 1 /\ Front(t.path) = s.path}

\* beforeShutdown settled: shut down the children listed now and wait for them.
BeforeShutdownDone(s) ==
    /\ s.at = "beforeShutdown"
    /\ LET live == {r \in children[s.inst] : ~isShutdown[refActor[r]]}
       IN stops' = (stops \ {s}) \cup {[s EXCEPT !.at = "children"]}
                     \cup {[path |-> Append(s.path, r), inst |-> refActor[r],
                            at |-> "beforeShutdown"] : r \in live}
    /\ UNCHANGED <<treeVars, newVars, calls, running>>

\* A wrong variant: the call never settles.
BeforeShutdownHangs(s) ==
    /\ s.at = "beforeShutdown" /\ s.inst # Root
    /\ "beforeShutdown" \in FailingHooks
    /\ stops' = (stops \ {s}) \cup {[s EXCEPT !.at = "failed"]}
    /\ UNCHANGED <<treeVars, newVars, calls, running>>

\* A wrong variant: a child that rejects makes all calls above it reject.
BeforeShutdownFailsAll(s) ==
    /\ s.at = "beforeShutdown" /\ s.inst # Root
    /\ "beforeShutdown" \in FailingHooks
    /\ stops' = {t \in stops : ~IsPrefix(t.path, s.path)}
    /\ UNCHANGED <<treeVars, newVars, calls, running>>

\* beforeShutdown rejects: shutdown() ends here, and a parent takes it as settled.
BeforeShutdownFails(s) ==
    /\ s.at = "beforeShutdown" /\ s.inst # Root
    /\ "beforeShutdown" \in FailingHooks
    /\ stops' = stops \ {s}
    /\ UNCHANGED <<treeVars, newVars, calls, running>>

\* A wrong variant: a registration the ref does not point to is left alone.
RemoveActorOfRef(ref) ==
    [n \in Names |-> IF n = name[refActor[ref]] /\ actors[n] = refActor[ref]
                     THEN None ELSE actors[n]]

(* remove(ref) takes out the name of the actor the ref now points to.      *)
RemoveActor(ref) ==
    [n \in Names |-> IF n = name[refActor[ref]] THEN None ELSE actors[n]]

(* All children's shutdown() settled: mark the instance, take its ref out  *)
(* of the parent's children and its name out of the system.                *)
ChildrenDone(s) ==
    LET i == s.inst
        ref == actorRef[i]
    IN /\ s.at = "children"
       /\ ChildStops(s) = {}
       /\ isShutdown' = [isShutdown EXCEPT ![i] = TRUE]
       /\ children' = IF i = Root THEN children
                      ELSE [children EXCEPT ![refActor[parent[i]]] = @ \ {ref}]
       /\ actors' = RemoveActor(ref)
       /\ stops' = (stops \ {s}) \cup {[s EXCEPT !.at = "afterShutdown"]}
       /\ UNCHANGED <<newVars, actorRef, refActor, calls, running>>

\* afterShutdown settled; if the call was ActorSystem.shutdown, the system stops.
AfterShutdownDone(s) ==
    /\ s.at = "afterShutdown"
    /\ stops' = stops \ {s}
    /\ running' = (running /\ s.inst # Root)
    /\ UNCHANGED <<treeVars, newVars, calls>>

-----------------------------------------------------------------------------
Init ==
    /\ actors = [n \in Names |-> None]
    /\ name = [x \in All |-> TopName]
    /\ parent = [x \in Inst |-> Root]
    /\ children = [x \in All |-> {}]
    /\ actorRef = [x \in All |-> x]
    /\ refActor = [x \in All |-> x]
    /\ isShutdown = [x \in All |-> FALSE]
    /\ phase = [x \in Inst |-> "unborn"]
    /\ replaces = [x \in Inst |-> None]
    /\ stops = {}
    /\ calls = 0
    /\ running = TRUE

Request ==
    \/ \E n \in Names, p \in Born \cup {Root} : CreateActor(n, p)
    \/ \E n \in Names : Supervise(n)
    \/ \E i \in Inst : RestartCall(i) \/ Shutdown(i)
    \/ SystemShutdown

StartStep(x) ==
    \/ BeforeStartDone(x)
    \/ AfterStartDone(x)
    \/ RestartDone(x)
    \/ StartFails(x)

StopStep(s) ==
    \/ BeforeShutdownDone(s)
    \/ BeforeShutdownFails(s)
    \/ ChildrenDone(s)
    \/ AfterShutdownDone(s)

Next ==
    \/ Request
    \/ \E x \in Inst : StartStep(x)
    \/ \E s \in stops : StopStep(s)

Spec == Init /\ [][Next]_vars

(* The hooks settle (an assumption on the actors), and the event loop runs *)
(* every continuation that is due.                                         *)
Fairness ==
    /\ \A x \in Inst : WF_vars(StartStep(x))
    /\ WF_vars(\E s \in stops : StopStep(s))

FairSpec == Spec /\ Fairness

-----------------------------------------------------------------------------
ParentActor(i) == refActor[parent[i]]
Quiet(i) == QuietBranch(name[i])

\* The kinds of values the variables hold.
TypeOK ==
    /\ actors \in [Names -> Inst \cup {None}]
    /\ name \in [All -> Names \cup {TopName}]
    /\ parent \in [Inst -> All]
    /\ children \in [All -> SUBSET Inst]
    /\ actorRef \in [All -> All]
    /\ refActor \in [All -> All]
    /\ isShutdown \in [All -> BOOLEAN]
    /\ phase \in [Inst -> Phases]
    /\ replaces \in [Inst -> Inst \cup {None}]
    /\ stops \subseteq StopCalls
    /\ calls \in 0..MaxCalls
    /\ running \in BOOLEAN

(* However creates, restarts and shutdowns overlap, the map of the system  *)
(* never names an actor that is shut down: remove() goes by name, through  *)
(* a ref that restarts redirect, and still takes the dying instance out.   *)
(* So handleInboxMessage meets a dead target only in the system actor.     *)
RegisteredIsLive == \A n \in Names : actors[n] # None => ~isShutdown[actors[n]]

(* However restarts overlap, updateChildren and appendChild put a ref only *)
(* under an actor whose URI is the parent part of the ref's URI.           *)
ChildrenNested ==
    \A i \in All : \A r \in children[i] : ParentName[name[refActor[r]]] = name[i]

(* A registered actor's parent is not shut down: shutdown() takes the      *)
(* whole subtree with it.                                                  *)
NoOrphans == \A i \in Inst : Registered(i) => ~isShutdown[ParentActor(i)]

(* Once its branch is quiet, the ways to an actor agree: a registered actor *)
(* hangs under a parent that is in the tree itself and lists it exactly    *)
(* once, and the ref that it answers to, which the application may hold,   *)
(* points to it, however often they were restarted.                        *)
RegisteredIsListed ==
    \A i \in Inst : Registered(i) /\ Quiet(i) =>
        /\ InTree(ParentActor(i))
        /\ Cardinality({r \in children[ParentActor(i)] : refActor[r] = i}) = 1
        /\ refActor[actorRef[i]] = i

(* Once its branch is quiet, a child that is not shut down is an actor     *)
(* that messages can reach.                                                *)
LiveChildIsRegistered ==
    \A i \in All : InTree(i) /\ Quiet(i) =>
        \A j \in Kids(i) : ~isShutdown[j] => Registered(j)

(* Every call of shutdown() settles, though it waits for its descendants'  *)
(* calls and some of those reject.                                         *)
ShutdownSettles ==
    \A k \in 1..MaxCalls : (\E s \in stops : s.path = <<k>>) ~> ~(\E s \in stops : s.path = <<k>>)

(* A shutdown of the system that started ends with the system stopped.     *)
SystemStops == (\E s \in stops : s.inst = Root) ~> ~running

(* The map of registered actors is a tree of names that grows under live   *)
(* parents and shrinks at its leaves.                                      *)
Tree == INSTANCE SupervisionTree
            WITH up <- {n \in Names : actors[n] # None}, open <- ~isShutdown[Root]
TreeSpec == Tree!Spec

-----------------------------------------------------------------------------
(* What the code does not keep.                                            *)

(* Once its branch is quiet, no list of children names a shut down actor:  *)
(* shutdown() took it out.                                                 *)
ChildrenAreLive ==
    \A i \in All : InTree(i) /\ Quiet(i) => \A j \in Kids(i) : ~isShutdown[j]

(* An actor that is shut down stays so, unless its own restart() is        *)
(* called: a restart of its parent makes no new instance of it.  But a     *)
(* restarted actor that shuts down stays in its parent's list, where the   *)
(* next restart of the parent finds it.                                    *)
ShutdownIsFinal ==
    [][\A x, y \in Unborn \ Unborn' :
          replaces'[y] # None /\ replaces'[x] \in Kids(replaces'[y])
             => ~isShutdown[replaces'[x]]]_vars

(* createActor without overwriteExisting never takes the name of a         *)
(* registered actor: only a restart replaces a registration.               *)
CreateNeverDisplaces ==
    [][\A n \in Names : actors[n] # None /\ actors'[n] \notin {actors[n], None} =>
           replaces[actors'[n]] # None]_vars
=============================================================================
