------------------------ MODULE ActorLifecycleProofs ------------------------
(***************************************************************************)
(* Proofs about ActorLifecycle for any names, instances and bounds, with   *)
(* operations that overlap and hooks that fail (no assumption on Serial or *)
(* FailingHooks).                                                          *)
(***************************************************************************)
EXTENDS ActorLifecycle, TLAPS

Fresh == {x \in Inst : phase[x] \in {"unborn", "starting"}}
Settled == Inst \ Fresh

\* Refs and instances are redirected only within one name.
Lineage ==
    /\ name[Root] = TopName /\ refActor[Root] = Root /\ actorRef[Root] = Root
    /\ \A i \in All : name[refActor[i]] = name[i] /\ name[actorRef[i]] = name[i]
    /\ \A x \in Inst : phase[x] # "unborn" => name[x] \in Names

\* An instance before the end of its beforeStart is known to nobody else.
FreshAlone ==
    /\ \A x \in Fresh : ~isShutdown[x]
    /\ \A x \in Fresh, i \in All : (actorRef[i] = x <=> i = x) /\ (refActor[i] = x <=> i = x)

Registry ==
    \A n \in Names : actors[n] # None =>
        /\ actors[n] \in Settled
        /\ name[actors[n]] = n
        /\ ~isShutdown[actors[n]]

ChildrenOK ==
    /\ \A i \in All : \A r \in children[i] : r \in Settled /\ ParentName[name[r]] = name[i]
    /\ \A x \in Inst : phase[x] = "unborn" => children[x] = {}

ParentsOK ==
    \A x \in Inst : phase[x] # "unborn" =>
        /\ parent[x] = Root \/ (parent[x] \in Inst /\ phase[parent[x]] # "unborn")
        /\ name[parent[x]] = ParentName[name[x]]

ReplacesOK ==
    \A x \in Inst : replaces[x] # None =>
        phase[x] # "unborn" /\ replaces[x] \in Settled /\ name[replaces[x]] = name[x]

StopsOK == \A s \in stops : s.inst = Root \/ s.inst \in Settled

IInv ==
    /\ TypeOK /\ Lineage /\ FreshAlone /\ Registry
    /\ ChildrenOK /\ ParentsOK /\ ReplacesOK /\ StopsOK

-----------------------------------------------------------------------------
\* The system actor and the missing instance are no instances.
LEMMA Constants == Root \in All /\ Root \notin Inst /\ None \notin Inst /\ Inst \subseteq All
BY ConstantsAssumption DEF All

\* The initial states satisfy the invariant.
LEMMA InitIInv == Init => IInv
<1> SUFFICES ASSUME Init PROVE IInv
  OBVIOUS
<1>1. /\ \A x \in Inst : phase[x] = "unborn" /\ parent[x] = Root /\ replaces[x] = None
      /\ \A i \in All : /\ name[i] = TopName /\ children[i] = {}
                        /\ actorRef[i] = i /\ refActor[i] = i /\ ~isShutdown[i]
      /\ \A n \in Names : actors[n] = None
      /\ stops = {}
  BY Constants DEF Init
<1>2. TypeOK
  BY ConstantsAssumption DEF Init, TypeOK, Phases, All
<1>3. Lineage /\ FreshAlone
  BY <1>1, Constants DEF Lineage, FreshAlone, Fresh
<1>4. Registry /\ ChildrenOK /\ ParentsOK /\ ReplacesOK /\ StopsOK
  BY <1>1, Constants DEF Registry, ChildrenOK, ParentsOK, ReplacesOK, StopsOK
<1> QED
  BY <1>2, <1>3, <1>4 DEF IInv

\* What a known instance and its ref are redirected to is known too.
LEMMA SettledRefs ==
    ASSUME IInv, NEW r \in Settled
    PROVE  /\ r \in Inst /\ phase[r] # "unborn" /\ name[r] \in Names
           /\ refActor[r] \in Settled /\ actorRef[r] \in Settled
<1> USE Constants
<1>1. r \in Inst /\ r \notin Fresh /\ phase[r] # "unborn"
  BY DEF Settled, Fresh
<1>2. name[r] \in Names /\ name[Root] \notin Names
  BY <1>1, ConstantsAssumption DEF IInv, Lineage
<1>3. refActor[r] \in All /\ actorRef[r] \in All
  BY <1>1 DEF IInv, TypeOK
<1>4. refActor[r] # Root /\ actorRef[r] # Root
  BY <1>1, <1>2 DEF IInv, Lineage
<1>5. refActor[r] \notin Fresh /\ actorRef[r] \notin Fresh
  BY <1>1 DEF IInv, FreshAlone
<1> QED
  BY <1>1, <1>2, <1>3, <1>4, <1>5 DEF Settled, All

(* Constructing instances under names that fit their parents and, in a     *)
(* restart, the instances they replace keeps the invariant.                *)
LEMMA ConstructStep ==
    ASSUME IInv, NEW made \in SUBSET Unborn, NEW newName, NEW newParent, NEW old,
           Construct(made, newName, newParent, old),
           UNCHANGED <<treeVars, stops, calls>>, running' \in BOOLEAN,
           \A x \in made :
               /\ newName[x] \in Names
               /\ newParent[x] \in Born \cup {Root}
               /\ name[newParent[x]] = ParentName[newName[x]]
               /\ old[x] # None => old[x] \in Settled /\ name[old[x]] = newName[x]
    PROVE  IInv'
<1> USE Constants
<1>1. /\ \A x \in Inst : phase'[x] = IF x \in made THEN "starting" ELSE phase[x]
      /\ \A x \in All : name'[x] = IF x \in made THEN newName[x] ELSE name[x]
      /\ \A x \in Inst : parent'[x] = IF x \in made THEN newParent[x] ELSE parent[x]
      /\ \A x \in Inst : replaces'[x] = IF x \in made THEN old[x] ELSE replaces[x]
  BY DEF Construct
<1>2. /\ UNCHANGED actors /\ UNCHANGED children /\ UNCHANGED actorRef
      /\ UNCHANGED refActor /\ UNCHANGED isShutdown /\ UNCHANGED stops
  BY DEF treeVars
<1>3. \A x \in made : x \in Inst /\ phase[x] = "unborn"
  BY DEF Unborn, Born
<1>4. Settled' = Settled /\ Fresh' = Fresh /\ made \subseteq Fresh /\ Settled \subseteq Inst
  BY <1>1, <1>3 DEF Settled, Fresh
<1>5. \A i \in All : i \notin made => name'[i] = name[i] /\ refActor[i] \notin made /\ actorRef[i] \notin made
  BY <1>1, <1>4 DEF IInv, FreshAlone
<1>6. \A i \in made : refActor[i] = i /\ actorRef[i] = i
  BY <1>3, <1>4 DEF IInv, FreshAlone
<1>t. TypeOK'
  <2>1. name' \in [All -> Names \cup {TopName}]
    BY DEF Construct, IInv, TypeOK
  <2>2. phase' \in [Inst -> Phases]
    BY DEF Construct, IInv, TypeOK, Phases
  <2>3. parent' \in [Inst -> All]
    BY DEF Construct, IInv, TypeOK, Born
  <2>4. replaces' \in [Inst -> Inst \cup {None}]
    BY <1>4 DEF Construct, IInv, TypeOK
  <2> QED
    BY <1>2, <2>1, <2>2, <2>3, <2>4 DEF TypeOK, IInv
<1>f. refActor \in [All -> All] /\ actorRef \in [All -> All] /\ children \in [All -> SUBSET Inst]
  BY DEF IInv, TypeOK
<1>l. Lineage'
  <2>1. Root \notin made
    BY <1>3
  <2>2. name'[Root] = TopName /\ refActor'[Root] = Root /\ actorRef'[Root] = Root
    BY <1>2, <1>5, <2>1 DEF IInv, Lineage
  <2>3. \A i \in All : name'[refActor'[i]] = name'[i] /\ name'[actorRef'[i]] = name'[i]
    BY <1>2, <1>5, <1>6, <1>f DEF IInv, Lineage
  <2>4. \A x \in Inst : phase'[x] # "unborn" => name'[x] \in Names
    BY <1>1 DEF IInv, Lineage
  <2> QED
    BY <2>2, <2>3, <2>4 DEF Lineage
<1>a. FreshAlone'
  BY <1>2, <1>4 DEF IInv, FreshAlone
<1>r. Registry'
  <2>1. \A x \in Settled : name'[x] = name[x]
    BY <1>4, <1>5 DEF Settled
  <2> QED
    BY <1>2, <1>4, <2>1 DEF IInv, Registry
<1>c. ChildrenOK'
  <2>1. \A i \in All : \A r \in children[i] : i \notin made /\ name'[r] = name[r]
    BY <1>3, <1>4, <1>5, <1>f DEF IInv, ChildrenOK, Settled
  <2> QED
    BY <1>1, <1>2, <1>4, <1>5, <2>1 DEF IInv, ChildrenOK
<1>p. ParentsOK'
  <2> SUFFICES ASSUME NEW x \in Inst, phase'[x] # "unborn"
      PROVE  /\ parent'[x] = Root \/ (parent'[x] \in Inst /\ phase'[parent'[x]] # "unborn")
             /\ name'[parent'[x]] = ParentName[name'[x]]
    BY DEF ParentsOK
  <2>1. CASE x \in made
    <3>1. newParent[x] \in All /\ newParent[x] \notin made
      BY <1>3, <2>1 DEF Born
    <3> QED
      BY <1>1, <2>1, <3>1 DEF Born
  <2>2. CASE x \notin made
    <3>1. parent'[x] = parent[x] /\ name'[x] = name[x] /\ phase[x] # "unborn"
      BY <1>1, <2>2
    <3>2. parent[x] = Root \/ (parent[x] \in Inst /\ phase[parent[x]] # "unborn")
      BY <3>1 DEF IInv, ParentsOK
    <3>3. parent[x] \in All /\ parent[x] \notin made
      BY <1>3, <3>2
    <3> QED
      BY <1>1, <3>1, <3>2, <3>3 DEF IInv, ParentsOK
  <2> QED
    BY <2>1, <2>2
<1>o. ReplacesOK'
  <2>1. \A x \in Settled : x \in All /\ name'[x] = name[x]
    BY <1>4, <1>5 DEF Settled
  <2> QED
    BY <1>1, <1>4, <2>1 DEF IInv, ReplacesOK
<1>s. StopsOK'
  BY <1>2, <1>4 DEF IInv, StopsOK
<1> QED
  BY <1>t, <1>l, <1>a, <1>r, <1>c, <1>p, <1>o, <1>s DEF IInv

(* createActor.                                                            *)
LEMMA CreateActorStep ==
    ASSUME IInv, NEW n \in Names, NEW p \in Born \cup {Root}, CreateActor(n, p)
    PROVE  IInv'
<1> USE Constants
<1> DEFINE x == CHOOSE y \in Unborn : TRUE
<1>1. x \in Unborn
  BY DEF CreateActor
<1>2. /\ Construct({x}, [y \in {x} |-> n], [y \in {x} |-> p], [y \in {x} |-> None])
      /\ UNCHANGED <<treeVars, stops, calls>> /\ UNCHANGED running
      /\ name[refActor[p]] = ParentName[n]
  BY DEF CreateActor
<1>3. name[p] = ParentName[n]
  BY <1>2 DEF IInv, Lineage, Born
<1>4. running' \in BOOLEAN
  BY <1>2 DEF IInv, TypeOK
<1> HIDE DEF x
<1> QED
  BY <1>1, <1>2, <1>3, <1>4, ConstructStep

(* restart() of an instance that is known to others.                       *)
LEMMA RestartStep ==
    ASSUME IInv, NEW i \in Settled, Restart(i)
    PROVE  IInv'
<1> USE Constants
<1> DEFINE group == Subtree(i)
           actor(path) == IF path = <<>> THEN i ELSE refActor[Last(path)]
           places == Injection(group, Unborn)
           new == CHOOSE f \in places : TRUE
           made == Range(new)
           old == [x \in made |-> actor(CHOOSE path \in group : new[path] = x)]
<1>1. /\ places # {}
      /\ Construct(made, [x \in made |-> name[old[x]]], [x \in made |-> parent[old[x]]], old)
      /\ UNCHANGED <<treeVars, stops, calls>> /\ UNCHANGED running
  BY DEF Restart
<1>2. new \in [group -> Unborn]
  BY <1>1 DEF Injection
<1>3. made \in SUBSET Unborn
  BY <1>2 DEF Range
<1>4. \A path \in group : actor(path) \in Settled
  <2> SUFFICES ASSUME NEW path \in group, path # <<>> PROVE refActor[Last(path)] \in Settled
    OBVIOUS
  <2>1. path \in BoundedSeq(UNION Range(children), Cardinality(Names))
    BY DEF Subtree
  <2>2. path \in Seq(UNION Range(children))
    BY <2>1 DEF BoundedSeq, SeqOf
  <2>3. Last(path) \in UNION Range(children)
    BY <2>2 DEF Last
  <2>4. PICK j \in All : Last(path) \in children[j]
    BY <2>3 DEF Range, IInv, TypeOK
  <2>5. Last(path) \in Settled /\ Last(path) \in Inst
    BY <2>4 DEF IInv, ChildrenOK, Settled
  <2> QED
    BY <2>5, SettledRefs
<1>5. \A x \in made : old[x] \in Settled
  <2> SUFFICES ASSUME NEW x \in made PROVE actor(CHOOSE path \in group : new[path] = x) \in Settled
    OBVIOUS
  <2>1. \E path \in group : new[path] = x
    BY <1>2 DEF Range
  <2>2. (CHOOSE path \in group : new[path] = x) \in group
    BY <2>1
  <2> HIDE DEF group, actor, new
  <2> QED
    BY <2>2, <1>4
<1> HIDE DEF group, actor, places, new, made, old
<1>6. \A x \in made :
        /\ name[old[x]] \in Names
        /\ parent[old[x]] \in Born \cup {Root}
        /\ name[parent[old[x]]] = ParentName[name[old[x]]]
  <2> SUFFICES ASSUME NEW x \in made
      PROVE  /\ name[old[x]] \in Names
             /\ parent[old[x]] \in Born \cup {Root}
             /\ name[parent[old[x]]] = ParentName[name[old[x]]]
    OBVIOUS
  <2>1. old[x] \in Inst /\ phase[old[x]] # "unborn" /\ name[old[x]] \in Names
    BY <1>5, SettledRefs
  <2> QED
    BY <2>1 DEF IInv, ParentsOK, Born
<1>7. running' \in BOOLEAN
  BY <1>1 DEF IInv, TypeOK
<1> DEFINE newName == [x \in made |-> name[old[x]]]
           newParent == [x \in made |-> parent[old[x]]]
<1>8. \A x \in made : newName[x] = name[old[x]] /\ newParent[x] = parent[old[x]]
  OBVIOUS
<1>9. Construct(made, newName, newParent, old)
  BY <1>1
<1> HIDE DEF newName, newParent
<1> QED
  BY <1>1, <1>3, <1>5, <1>6, <1>7, <1>8, <1>9, ConstructStep

(* A step that changes no more than the shutdown() calls in progress keeps *)
(* the invariant if the calls are on known instances.                      *)
LEMMA StopsStep ==
    ASSUME IInv, UNCHANGED <<treeVars, newVars>>,
           \A s \in stops' : s \in stops \/ (s \in StopCalls /\ s.inst \in Settled \cup {Root}),
           calls' \in 0..MaxCalls, running' \in BOOLEAN
    PROVE  IInv'
<1> USE Constants
<1>1. /\ UNCHANGED actors /\ UNCHANGED children /\ UNCHANGED actorRef
      /\ UNCHANGED refActor /\ UNCHANGED isShutdown
      /\ UNCHANGED name /\ UNCHANGED parent /\ UNCHANGED phase /\ UNCHANGED replaces
  BY DEF treeVars, newVars
<1>2. Settled' = Settled /\ Fresh' = Fresh /\ Settled \subseteq All
  BY <1>1 DEF Settled, Fresh
<1>3. TypeOK'
  BY <1>1, <1>2 DEF IInv, TypeOK
<1>4. Lineage' /\ FreshAlone' /\ Registry' /\ ChildrenOK' /\ ParentsOK' /\ ReplacesOK'
  BY <1>1, <1>2 DEF IInv, Lineage, FreshAlone, Registry, ChildrenOK, ParentsOK, ReplacesOK
<1>5. StopsOK'
  BY <1>2 DEF IInv, StopsOK
<1> QED
  BY <1>3, <1>4, <1>5 DEF IInv

\* What calling shutdown() does to the calls in progress.
LEMMA CallShutdownEffect ==
    ASSUME IInv, NEW i \in Settled \cup {Root}, CallShutdown(i)
    PROVE  /\ \A s \in stops' : s \in stops \/ (s \in StopCalls /\ s.inst \in Settled \cup {Root})
           /\ calls' \in 0..MaxCalls
<1>1. calls \in 0..MaxCalls /\ MaxCalls \in Nat
  BY ConstantsAssumption DEF IInv, TypeOK
<1>2. CASE isShutdown[i]
  BY <1>1, <1>2 DEF CallShutdown
<1>3. CASE ~isShutdown[i]
  <2>1. /\ calls < MaxCalls /\ calls' = calls + 1
        /\ stops' = stops \cup {[path |-> <<calls'>>, inst |-> i, at |-> "beforeShutdown"]}
    BY <1>3 DEF CallShutdown
  <2>2. calls' \in Nat /\ i \in All
    BY <1>1, <2>1 DEF Settled, All
  <2>3. <<calls'>> \in Seq(Nat \cup Inst)
    BY <2>2
  <2>4. [path |-> <<calls'>>, inst |-> i, at |-> "beforeShutdown"] \in StopCalls
    BY <2>2, <2>3 DEF StopCalls, StopPhases
  <2> QED
    BY <1>1, <2>1, <2>4
<1> QED
  BY <1>2, <1>3

\* A supervision strategy applied to the actor registered under a name.
LEMMA SuperviseStep == ASSUME IInv, NEW n \in Names, Supervise(n) PROVE IInv'
<1>1. actors[n] \in Settled
  BY DEF Supervise, IInv, Registry
<1>2. CASE Restart(actors[n])
  BY <1>1, <1>2, RestartStep
<1>3. CASE CallShutdown(actors[n]) /\ UNCHANGED <<treeVars, newVars, running>>
  <2>1. running' \in BOOLEAN
    BY <1>3 DEF IInv, TypeOK
  <2> QED
    BY <1>1, <1>3, <2>1, StopsStep, CallShutdownEffect
<1> QED
  BY <1>2, <1>3 DEF Supervise

\* restart() and shutdown() are called on instances that others know.
LEMMA CallableSettled == ASSUME IInv, NEW i \in Inst, Callable(i) PROVE i \in Settled
<1>1. CASE phase[i] \in {"started", "up"}
  BY <1>1 DEF Settled, Fresh
<1>2. CASE Registered(i)
  <2>1. name[i] \in Names /\ actors[name[i]] = i
    BY <1>2 DEF Registered, Born, IInv, Lineage
  <2> QED
    BY <2>1, Constants DEF IInv, Registry
<1> QED
  BY <1>1, <1>2 DEF Callable

\* restart() and shutdown() of an actor, and shutdown() of the system.
LEMMA RestartCallStep == ASSUME IInv, NEW i \in Inst, RestartCall(i) PROVE IInv'
BY CallableSettled, RestartStep DEF RestartCall

LEMMA ShutdownStep == ASSUME IInv, NEW i \in Inst, Shutdown(i) PROVE IInv'
<1>1. i \in Settled
  BY CallableSettled DEF Shutdown
<1>2. CallShutdown(i) /\ UNCHANGED <<treeVars, newVars>> /\ running' \in BOOLEAN
  BY DEF Shutdown, IInv, TypeOK
<1> QED
  BY <1>1, <1>2, StopsStep, CallShutdownEffect

LEMMA SystemShutdownStep == ASSUME IInv, SystemShutdown PROVE IInv'
<1>1. CallShutdown(Root) /\ UNCHANGED <<treeVars, newVars>>
  BY DEF SystemShutdown
<1>2. running' \in BOOLEAN
  BY Constants DEF SystemShutdown, IInv, TypeOK
<1> QED
  BY <1>1, <1>2, StopsStep, CallShutdownEffect

\* The steps of a shutdown() that do not change the tree.
LEMMA WaitingStopStep ==
    ASSUME IInv, NEW s \in stops,
           BeforeShutdownDone(s) \/ BeforeShutdownFails(s) \/ AfterShutdownDone(s)
    PROVE  IInv'
<1> USE Constants
<1>1. UNCHANGED <<treeVars, newVars>> /\ UNCHANGED calls
  BY DEF BeforeShutdownDone, BeforeShutdownFails, AfterShutdownDone
<1>2. calls' \in 0..MaxCalls /\ running' \in BOOLEAN
  BY <1>1 DEF BeforeShutdownDone, BeforeShutdownFails, AfterShutdownDone, IInv, TypeOK
<1>3. s.inst \in Settled \cup {Root} /\ s.inst \in All
  BY DEF IInv, StopsOK, Settled, All
<1>4. \A t \in stops' : t \in stops \/ (t \in StopCalls /\ t.inst \in Settled \cup {Root})
  <2>1. CASE BeforeShutdownDone(s)
    <3>1. PICK live \in SUBSET children[s.inst] :
            stops' = (stops \ {s}) \cup {[s EXCEPT !.at = "children"]}
                       \cup {[path |-> Append(s.path, r), inst |-> refActor[r],
                              at |-> "beforeShutdown"] : r \in live}
      BY <2>1 DEF BeforeShutdownDone
    <3>2. \A r \in live : refActor[r] \in Settled
      BY <1>3, SettledRefs DEF IInv, ChildrenOK
    <3>3. s \in StopCalls
      BY DEF IInv, TypeOK
    <3>4. [s EXCEPT !.at = "children"] \in StopCalls /\ [s EXCEPT !.at = "children"].inst = s.inst
      BY <3>3 DEF StopCalls, StopPhases
    <3> SUFFICES ASSUME NEW t \in stops', t \notin stops
                 PROVE  t \in StopCalls /\ t.inst \in Settled \cup {Root}
      OBVIOUS
    <3>5. CASE t = [s EXCEPT !.at = "children"]
      BY <1>3, <3>4, <3>5
    <3>6. ASSUME NEW r \in live,
                 t = [path |-> Append(s.path, r), inst |-> refActor[r], at |-> "beforeShutdown"]
          PROVE  t \in StopCalls /\ t.inst \in Settled
      <4>1. r \in Inst /\ refActor[r] \in Settled /\ refActor[r] \in All
        BY <1>3, <3>2 DEF IInv, TypeOK, Settled, All
      <4>2. s.path \in Seq(Nat \cup Inst)
        BY <3>3 DEF StopCalls
      <4>3. Append(s.path, r) \in Seq(Nat \cup Inst)
        BY <4>1, <4>2
      <4> QED
        BY <3>6, <4>1, <4>3 DEF StopCalls, StopPhases
    <3> QED
      BY <3>1, <3>5, <3>6
  <2>2. CASE BeforeShutdownFails(s) \/ AfterShutdownDone(s)
    BY <2>2 DEF BeforeShutdownFails, AfterShutdownDone
  <2> QED
    BY <2>1, <2>2
<1> QED
  BY <1>1, <1>2, <1>4, StopsStep

(* A step of createActor that changes only how far an instance has got:    *)
(* afterStart settled, or a start hook rejected.                           *)
LEMMA PhaseStep ==
    ASSUME IInv, NEW x \in Inst, phase[x] # "unborn",
           NEW v \in {"up", "failed"}, phase' = [phase EXCEPT ![x] = v],
           UNCHANGED <<treeVars, name, parent, replaces, running>>,
           \A s \in stops' : s \in stops \/ (s \in StopCalls /\ s.inst \in Settled \cup {Root}),
           calls' \in 0..MaxCalls
    PROVE  IInv'
<1> USE Constants
<1>1. /\ UNCHANGED actors /\ UNCHANGED children /\ UNCHANGED actorRef
      /\ UNCHANGED refActor /\ UNCHANGED isShutdown
      /\ UNCHANGED name /\ UNCHANGED parent /\ UNCHANGED replaces /\ UNCHANGED running
  BY DEF treeVars
<1>2. \A y \in Inst : phase'[y] = IF y = x THEN v ELSE phase[y]
  BY DEF IInv, TypeOK
<1>3. Settled' = Settled \cup {x} /\ Fresh' = Fresh \ {x} /\ Settled \subseteq All
  BY <1>2 DEF Settled, Fresh
<1>4. TypeOK'
  <2>1. phase' \in [Inst -> Phases]
    BY DEF IInv, TypeOK, Phases
  <2> QED
    BY <1>1, <1>3, <2>1 DEF IInv, TypeOK
<1>5. Lineage' /\ FreshAlone' /\ Registry'
  BY <1>1, <1>2, <1>3 DEF IInv, Lineage, FreshAlone, Registry
<1>6. ChildrenOK' /\ ParentsOK' /\ ReplacesOK'
  BY <1>1, <1>2, <1>3 DEF IInv, ChildrenOK, ParentsOK, ReplacesOK
<1>7. StopsOK'
  BY <1>3 DEF IInv, StopsOK
<1> QED
  BY <1>4, <1>5, <1>6, <1>7 DEF IInv

LEMMA AfterStartDoneStep == ASSUME IInv, NEW x \in Inst, AfterStartDone(x) PROVE IInv'
<1>1. /\ phase[x] # "unborn" /\ phase' = [phase EXCEPT ![x] = "up"]
      /\ UNCHANGED <<treeVars, name, parent, replaces, running>>
      /\ UNCHANGED stops /\ UNCHANGED calls
  BY DEF AfterStartDone
<1>2. calls' \in 0..MaxCalls
  BY <1>1 DEF IInv, TypeOK
<1> QED
  BY <1>1, <1>2, PhaseStep

LEMMA StartFailsStep == ASSUME IInv, NEW x \in Inst, StartFails(x) PROVE IInv'
<1>1. /\ phase[x] # "unborn" /\ phase' = [phase EXCEPT ![x] = "failed"]
      /\ UNCHANGED <<treeVars, name, parent, replaces, running>>
  BY DEF StartFails
<1>2. /\ \A s \in stops' : s \in stops \/ (s \in StopCalls /\ s.inst \in Settled \cup {Root})
      /\ calls' \in 0..MaxCalls
  <2>1. CASE replaces[x] = None
    BY <2>1 DEF StartFails, IInv, TypeOK
  <2>2. CASE replaces[x] # None
    <3>1. replaces[x] \in Settled /\ CallShutdown(replaces[x])
      BY <2>2 DEF StartFails, IInv, ReplacesOK
    <3> QED
      BY <3>1, CallShutdownEffect
  <2> QED
    BY <2>1, <2>2
<1> QED
  BY <1>1, <1>2, PhaseStep

(* The end of beforeStart makes the instance known: it is registered and   *)
(* appended to its parent, alive and under the right name.                 *)
LEMMA BeforeStartDoneStep == ASSUME IInv, NEW x \in Inst, BeforeStartDone(x) PROVE IInv'
<1> USE Constants
<1> DEFINE p == refActor[parent[x]]
<1>1. /\ phase[x] = "starting" /\ phase' = [phase EXCEPT ![x] = "started"]
      /\ actors' = [actors EXCEPT ![name[x]] = x]
      /\ children' = [children EXCEPT ![p] = @ \cup {actorRef[x]}]
      /\ UNCHANGED name /\ UNCHANGED parent /\ UNCHANGED replaces /\ UNCHANGED actorRef
      /\ UNCHANGED refActor /\ UNCHANGED isShutdown /\ UNCHANGED stops
      /\ UNCHANGED calls /\ UNCHANGED running
  BY DEF BeforeStartDone
<1>2. \A y \in Inst : phase'[y] = IF y = x THEN "started" ELSE phase[y]
  BY <1>1 DEF IInv, TypeOK
<1>3. Settled' = Settled \cup {x} /\ Fresh' = Fresh \ {x} /\ Settled \subseteq All /\ x \in Fresh
  BY <1>1, <1>2 DEF Settled, Fresh
<1>4. actorRef[x] = x /\ ~isShutdown[x] /\ name[x] \in Names
  BY <1>1, <1>3 DEF IInv, FreshAlone, Lineage
<1>5. parent[x] \in All /\ name[parent[x]] = ParentName[name[x]]
  BY <1>1 DEF IInv, ParentsOK, TypeOK
<1>6. p \in All /\ name[p] = ParentName[name[x]]
  BY <1>5 DEF IInv, Lineage, TypeOK
<1>7. ~(p \in Inst /\ phase[p] = "unborn")
  <2> SUFFICES ASSUME p \in Inst, phase[p] = "unborn" PROVE FALSE
    OBVIOUS
  <2>1. p \in Fresh
    BY DEF Fresh
  <2>2. parent[x] = p
    BY <1>5, <2>1 DEF IInv, FreshAlone
  <2> QED
    BY <1>1, <2>2 DEF IInv, ParentsOK
<1>8. \A i \in All : children'[i] = IF i = p THEN children[i] \cup {x} ELSE children[i]
  BY <1>1, <1>4 DEF IInv, TypeOK
<1>9. \A n \in Names : actors'[n] = IF n = name[x] THEN x ELSE actors[n]
  BY <1>1 DEF IInv, TypeOK
<1> HIDE DEF p
<1>t. TypeOK'
  <2>1. actors' \in [Names -> Inst \cup {None}] /\ phase' \in [Inst -> Phases]
    BY <1>1 DEF IInv, TypeOK, Phases
  <2>2. children' \in [All -> SUBSET Inst]
    BY <1>1, <1>4 DEF IInv, TypeOK
  <2> QED
    BY <1>1, <2>1, <2>2 DEF IInv, TypeOK
<1>l. Lineage' /\ FreshAlone' /\ ParentsOK' /\ ReplacesOK'
  BY <1>1, <1>2, <1>3 DEF IInv, Lineage, FreshAlone, ParentsOK, ReplacesOK
<1>r. Registry'
  BY <1>1, <1>3, <1>4, <1>9 DEF IInv, Registry
<1>c. ChildrenOK'
  <2>1. \A i \in All : \A r \in children'[i] : r \in Settled' /\ ParentName[name'[r]] = name'[i]
    <3> SUFFICES ASSUME NEW i \in All, NEW r \in children'[i]
                 PROVE  r \in Settled' /\ ParentName[name[r]] = name[i]
      BY <1>1
    <3>1. CASE r \in children[i]
      BY <1>3, <3>1 DEF IInv, ChildrenOK
    <3>2. CASE i = p /\ r = x
      BY <1>3, <1>6, <3>2
    <3> QED
      BY <1>8, <3>1, <3>2
  <2>2. \A y \in Inst : phase'[y] = "unborn" => children'[y] = {}
    BY <1>2, <1>7, <1>8 DEF IInv, ChildrenOK
  <2> QED
    BY <2>1, <2>2 DEF ChildrenOK
<1>s. StopsOK'
  BY <1>1, <1>3 DEF IInv, StopsOK
<1> QED
  BY <1>t, <1>l, <1>r, <1>c, <1>s DEF IInv

(* The end of a restart exchanges an entry of a list of children only for  *)
(* an instance of the same name.                                           *)
LEMMA RestartDoneStep == ASSUME IInv, NEW x \in Inst, RestartDone(x) PROVE IInv'
<1> USE Constants
<1> DEFINE old == replaces[x]
           ref == actorRef[old]
           n == name[refActor[ref]]
           got == actorRef[x]
           new == refActor[got]
           copied == [children EXCEPT ![new] = children[old]]
           updated == UpdateChildren(n, got, copied)
<1>1. /\ phase[x] = "started" /\ old # None
      /\ phase' = [phase EXCEPT ![x] = "up"]
      /\ actorRef' = [actorRef EXCEPT ![new] = ref]
      /\ refActor' = [refActor EXCEPT ![ref] = new]
      /\ children' = [updated EXCEPT ![old] = {}]
      /\ UNCHANGED actors /\ UNCHANGED isShutdown /\ UNCHANGED name /\ UNCHANGED parent
      /\ UNCHANGED replaces /\ UNCHANGED stops /\ UNCHANGED calls /\ UNCHANGED running
  BY DEF RestartDone, RedirectRef
<1>2. old \in Settled /\ x \in Settled /\ name[old] = name[x]
  BY <1>1 DEF IInv, ReplacesOK, Settled, Fresh
<1>3. ref \in Settled /\ ref \in Inst /\ name[ref] = name[x]
  BY <1>2, SettledRefs DEF IInv, Lineage, Settled
<1>4. n = name[x]
  BY <1>3 DEF IInv, Lineage
<1>n. /\ got \in Settled /\ got \in Inst /\ name[got] = name[x]
      /\ new \in Settled /\ new \in All /\ name[new] = name[x]
  <2>1. got \in Settled /\ got \in All /\ name[got] = name[x]
    BY <1>2, SettledRefs DEF IInv, Lineage, Settled
  <2>2. new \in Settled /\ name[new] = name[got]
    BY <2>1, SettledRefs DEF IInv, Lineage
  <2> QED
    BY <2>1, <2>2 DEF Settled
<1>5. \A i \in All : copied[i] = IF i = new THEN children[old] ELSE children[i]
  BY <1>n DEF IInv, TypeOK
<1>6. \A i \in All : \A r \in copied[i] : r \in Settled /\ r \in All /\ ParentName[name[r]] = name[i]
  BY <1>2, <1>n, <1>5 DEF IInv, ChildrenOK, Settled
<1>7. \A i \in All : \A r \in updated[i] :
         r \in copied[i] \/ (r = got /\ \E q \in copied[i] : name[refActor[q]] = n)
  BY DEF UpdateChildren
<1>8. updated \in [All -> SUBSET Inst]
  <2> SUFFICES ASSUME NEW i \in All PROVE updated[i] \in SUBSET Inst
    BY DEF UpdateChildren
  <2> HIDE DEF updated, copied
  <2> QED
    BY <1>6, <1>7, <1>n DEF Settled
<1>9. \A i \in All : \A r \in updated[i] : r \in Settled /\ ParentName[name[r]] = name[i]
  <2> SUFFICES ASSUME NEW i \in All, NEW r \in updated[i]
               PROVE  r \in Settled /\ ParentName[name[r]] = name[i]
    OBVIOUS
  <2>1. CASE r \in copied[i]
    BY <1>6, <2>1
  <2>2. CASE r = got /\ \E q \in copied[i] : name[refActor[q]] = n
    <3>1. PICK q \in copied[i] : name[refActor[q]] = n
      BY <2>2
    <3>2. q \in All /\ ParentName[name[q]] = name[i]
      BY <1>6
    <3>3. name[q] = name[x]
      BY <1>4, <3>1, <3>2 DEF IInv, Lineage
    <3> QED
      BY <1>n, <2>2, <3>2, <3>3
  <2> HIDE DEF updated, copied
  <2> QED
    BY <1>7, <2>1, <2>2
<1>10. \A y \in Inst : phase[y] = "unborn" => updated[y] = {}
  <2> SUFFICES ASSUME NEW y \in Inst, phase[y] = "unborn" PROVE updated[y] = {}
    OBVIOUS
  <2>1. copied[y] = {}
    BY <1>1, <1>n, <1>5 DEF IInv, ChildrenOK, Settled, Fresh
  <2> HIDE DEF updated, copied
  <2> QED
    BY <1>7, <2>1
<1> HIDE DEF old, ref, n, got, new, copied, updated
<1>11. \A i \in All : children'[i] = updated[i] \/ children'[i] = {}
  BY <1>1, <1>8
<1>12. \A y \in Inst : phase'[y] = IF y = x THEN "up" ELSE phase[y]
  BY <1>1 DEF IInv, TypeOK
<1>13. Settled' = Settled /\ Fresh' = Fresh /\ Settled \subseteq All
  BY <1>1, <1>12 DEF Settled, Fresh
<1>14. /\ \A i \in All : actorRef'[i] = IF i = new THEN ref ELSE actorRef[i]
       /\ \A i \in All : refActor'[i] = IF i = ref THEN new ELSE refActor[i]
  BY <1>1 DEF IInv, TypeOK
<1>t. TypeOK'
  <2>1. phase' \in [Inst -> Phases]
    BY <1>1 DEF IInv, TypeOK, Phases
  <2>2. children' \in [All -> SUBSET Inst]
    BY <1>1, <1>8
  <2>3. actorRef' \in [All -> All] /\ refActor' \in [All -> All]
    BY <1>1, <1>3, <1>n DEF IInv, TypeOK
  <2> QED
    BY <1>1, <2>1, <2>2, <2>3 DEF IInv, TypeOK
<1>l. Lineage'
  <2>1. /\ name'[Root] = TopName /\ refActor'[Root] = Root /\ actorRef'[Root] = Root
        /\ \A y \in Inst : phase'[y] # "unborn" => name'[y] \in Names
    <3>1. ref # Root /\ new # Root
      BY <1>3, <1>n DEF Settled
    <3> QED
      BY <1>1, <1>12, <1>14, <3>1 DEF IInv, Lineage
  <2>2. \A i \in All : name[refActor'[i]] = name[i] /\ name[actorRef'[i]] = name[i]
    BY <1>3, <1>n, <1>14 DEF IInv, Lineage
  <2> QED
    BY <1>1, <2>1, <2>2 DEF Lineage
<1>a. FreshAlone'
  <2>1. new \notin Fresh /\ ref \notin Fresh
    BY <1>3, <1>n DEF Settled
  <2> QED
    BY <1>1, <1>3, <1>n, <1>13, <1>14, <2>1 DEF IInv, FreshAlone
<1>r. Registry' /\ StopsOK'
  BY <1>1, <1>13 DEF IInv, Registry, StopsOK
<1>c. ChildrenOK'
  BY <1>1, <1>9, <1>10, <1>11, <1>12, <1>13 DEF ChildrenOK
<1>p. ParentsOK' /\ ReplacesOK'
  BY <1>1, <1>12, <1>13 DEF IInv, ParentsOK, ReplacesOK
<1> QED
  BY <1>t, <1>l, <1>a, <1>r, <1>c, <1>p DEF IInv

(* The step that marks an instance as shut down takes its name out of the  *)
(* map: the ref that is removed points to an instance of the same name.    *)
LEMMA ChildrenDoneStep == ASSUME IInv, NEW s \in stops, ChildrenDone(s) PROVE IInv'
<1> USE Constants
<1> DEFINE i == s.inst
           ref == actorRef[i]
<1>1. /\ isShutdown' = [isShutdown EXCEPT ![i] = TRUE]
      /\ children' = IF i = Root THEN children
                     ELSE [children EXCEPT ![refActor[parent[i]]] = @ \ {ref}]
      /\ actors' = [n \in Names |-> IF n = name[refActor[ref]] THEN None ELSE actors[n]]
      /\ stops' = (stops \ {s}) \cup {[s EXCEPT !.at = "afterShutdown"]}
      /\ UNCHANGED name /\ UNCHANGED parent /\ UNCHANGED phase /\ UNCHANGED replaces
      /\ UNCHANGED actorRef /\ UNCHANGED refActor /\ UNCHANGED calls
  BY DEF ChildrenDone, RemoveActor, newVars
<1>2. i \in All /\ (i = Root \/ i \in Settled)
  BY DEF IInv, StopsOK, Settled, All
<1>3. Settled' = Settled /\ Fresh' = Fresh /\ i \notin Fresh
  BY <1>1, <1>2 DEF Settled, Fresh
<1>4. name[refActor[ref]] = name[i]
  BY <1>2 DEF IInv, Lineage, TypeOK
<1>5. \A t \in stops' : t \in stops \/ (t \in StopCalls /\ t.inst = i)
  <2>1. s \in StopCalls
    BY DEF IInv, TypeOK
  <2>2. [s EXCEPT !.at = "afterShutdown"] \in StopCalls /\ [s EXCEPT !.at = "afterShutdown"].inst = i
    BY <2>1 DEF StopCalls, StopPhases
  <2> QED
    BY <1>1, <2>2
<1> HIDE DEF i, ref
<1>6. \A j \in All : children'[j] \subseteq children[j]
  BY <1>1 DEF IInv, TypeOK
<1>7. \A j \in All : isShutdown'[j] = (j = i \/ isShutdown[j])
  BY <1>1 DEF IInv, TypeOK
<1>t. TypeOK'
  <2>1. children' \in [All -> SUBSET Inst]
    BY <1>1 DEF IInv, TypeOK
  <2>2. actors' \in [Names -> Inst \cup {None}]
    BY <1>1 DEF IInv, TypeOK
  <2>3. isShutdown' \in [All -> BOOLEAN]
    BY <1>1 DEF IInv, TypeOK
  <2>4. stops' \subseteq StopCalls
    BY <1>5 DEF IInv, TypeOK
  <2>5. running' \in BOOLEAN
    BY DEF ChildrenDone, IInv, TypeOK
  <2> QED
    BY <1>1, <2>1, <2>2, <2>3, <2>4, <2>5 DEF IInv, TypeOK
<1>l. Lineage' /\ ParentsOK' /\ ReplacesOK'
  BY <1>1, <1>3 DEF IInv, Lineage, ParentsOK, ReplacesOK
<1>a. FreshAlone'
  BY <1>1, <1>3, <1>7 DEF IInv, FreshAlone, Fresh
<1>r. Registry'
  <2> SUFFICES ASSUME NEW n \in Names, actors'[n] # None
      PROVE  actors'[n] \in Settled /\ name[actors'[n]] = n /\ ~isShutdown'[actors'[n]]
    BY <1>1, <1>3 DEF Registry
  <2>1. actors'[n] = actors[n] /\ n # name[i]
    BY <1>1, <1>4
  <2>2. actors[n] \in Settled /\ name[actors[n]] = n /\ ~isShutdown[actors[n]]
    BY <2>1 DEF IInv, Registry
  <2> QED
    BY <1>7, <2>1, <2>2 DEF Settled
<1>c. ChildrenOK'
  BY <1>1, <1>3, <1>6 DEF IInv, ChildrenOK
<1>s. StopsOK'
  BY <1>2, <1>3, <1>5 DEF IInv, StopsOK
<1> QED
  BY <1>t, <1>l, <1>a, <1>r, <1>c, <1>s DEF IInv

-----------------------------------------------------------------------------
\* The invariant holds in every reachable state.
THEOREM Invariance == Spec => []IInv
<1>1. IInv /\ [Next]_vars => IInv'
  <2> SUFFICES ASSUME IInv, [Next]_vars PROVE IInv'
    OBVIOUS
  <2>1. CASE \E n \in Names, p \in Born \cup {Root} : CreateActor(n, p)
    BY <2>1, CreateActorStep
  <2>2. CASE \E n \in Names : Supervise(n)
    BY <2>2, SuperviseStep
  <2>3. CASE \E i \in Inst : RestartCall(i) \/ Shutdown(i)
    BY <2>3, RestartCallStep, ShutdownStep
  <2>4. CASE SystemShutdown
    BY <2>4, SystemShutdownStep
  <2>5. ASSUME NEW x \in Inst, StartStep(x) PROVE IInv'
    BY <2>5, BeforeStartDoneStep, AfterStartDoneStep, RestartDoneStep, StartFailsStep DEF StartStep
  <2>6. ASSUME NEW s \in stops, StopStep(s) PROVE IInv'
    BY <2>6, WaitingStopStep, ChildrenDoneStep DEF StopStep
  <2>7. CASE UNCHANGED vars
    <3>1. UNCHANGED <<treeVars, newVars>> /\ UNCHANGED stops /\ UNCHANGED calls /\ UNCHANGED running
      BY <2>7 DEF vars, treeVars, newVars
    <3>2. calls' \in 0..MaxCalls /\ running' \in BOOLEAN
      BY <3>1 DEF IInv, TypeOK
    <3> QED
      BY <3>1, <3>2, StopsStep
  <2> QED
    BY <2>1, <2>2, <2>3, <2>4, <2>5, <2>6, <2>7 DEF Next, Request
<1> QED
  BY <1>1, InitIInv, PTL DEF Spec

\* Every variable keeps the kind of value that the code gives it.
THEOREM TypeCorrect == Spec => []TypeOK
<1>1. IInv => TypeOK
  BY DEF IInv
<1> QED
  BY <1>1, Invariance, PTL

(* However creates, restarts and shutdowns overlap and hooks fail, the map *)
(* of the system never names an actor that is shut down.                   *)
THEOREM RegisteredStaysLive == Spec => []RegisteredIsLive
<1>1. IInv => RegisteredIsLive
  BY DEF IInv, Registry, RegisteredIsLive
<1> QED
  BY <1>1, Invariance, PTL

(* However restarts overlap, a list of children holds only refs to actors  *)
(* one level below the list's owner.                                       *)
THEOREM ChildrenStayNested == Spec => []ChildrenNested
<1>1. IInv => ChildrenNested
  BY DEF IInv, ChildrenOK, Lineage, ChildrenNested, Settled, All
<1> QED
  BY <1>1, Invariance, PTL
=============================================================================
