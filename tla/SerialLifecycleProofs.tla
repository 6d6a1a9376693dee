----------------------- MODULE SerialLifecycleProofs -----------------------
(***************************************************************************)
(* Proofs about ActorLifecycle when clients keep the operations on one     *)
(* branch apart and no hook rejects, for any names, instances and bounds.  *)
(***************************************************************************)
EXTENDS ActorLifecycleProofs, FiniteSetTheorems, SequenceTheorems

Disciplined == Serial /\ ~Overwrite /\ FailingHooks = {}

-----------------------------------------------------------------------------
(* Lemmas about names: the ancestors of a name form a chain that ends at   *)
(* the system actor.                                                       *)

URIs == Names \cup {TopName}

LEMMA AboveLeast ==
    ASSUME NEW n \in URIs, NEW S \in SUBSET URIs, n \in S,
           \A k \in S \cap Names : ParentName[k] \in S
    PROVE  Above[n] \subseteq S
BY DEF Above, URIs

LEMMA AboveClosed ==
    ASSUME NEW n \in URIs
    PROVE  /\ Above[n] \in SUBSET URIs /\ n \in Above[n]
           /\ \A k \in Above[n] \cap Names : ParentName[k] \in Above[n]
<1>1. Above[n] = {m \in URIs : \A S \in SUBSET URIs :
                     n \in S /\ (\A k \in S \cap Names : ParentName[k] \in S) => m \in S}
  BY DEF Above, URIs
<1>2. \A k \in Names : ParentName[k] \in URIs
  BY ConstantsAssumption DEF URIs
<1> QED
  BY <1>1, <1>2

LEMMA AboveTop == TopName \in URIs /\ Above[TopName] = {TopName}
<1>1. TopName \in URIs /\ {TopName} \cap Names = {}
  BY ConstantsAssumption DEF URIs
<1>2. Above[TopName] \subseteq {TopName}
  BY <1>1, AboveLeast
<1> QED
  BY <1>1, <1>2, AboveClosed

LEMMA AboveTransitive ==
    ASSUME NEW n \in URIs, NEW k \in Above[n]
    PROVE  k \in URIs /\ Above[k] \subseteq Above[n]
<1>1. k \in URIs /\ Above[n] \in SUBSET URIs
  BY AboveClosed
<1> QED
  BY <1>1, AboveClosed, AboveLeast

LEMMA AboveParent ==
    ASSUME NEW n \in Names
    PROVE  /\ n \in URIs /\ ParentName[n] \in URIs
           /\ Above[n] = {n} \cup Above[ParentName[n]]
<1>1. n \in URIs /\ ParentName[n] \in URIs
  BY ConstantsAssumption DEF URIs
<1> DEFINE S == {n} \cup Above[ParentName[n]]
<1>2. S \in SUBSET URIs /\ \A k \in S \cap Names : ParentName[k] \in S
  BY <1>1, AboveClosed
<1>3. Above[n] \subseteq S
  BY <1>1, <1>2, AboveLeast
<1>4. ParentName[n] \in Above[n] /\ n \in Above[n]
  BY <1>1, AboveClosed
<1> QED
  BY <1>1, <1>3, <1>4, AboveTransitive

\* Two ancestors of one name are related.
LEMMA AboveChain ==
    ASSUME NEW b \in URIs, NEW m \in Above[b], NEW n \in Above[b]
    PROVE  m \in Above[n] \/ n \in Above[m]
<1> DEFINE S == {k \in Above[b] : n \in Above[k] \/ k \in Above[n]}
<1>1. b \in Above[b] /\ Above[b] \in SUBSET URIs
  BY AboveClosed
<1>2. b \in S /\ S \in SUBSET URIs
  BY <1>1
<1>3. ASSUME NEW k \in S \cap Names PROVE ParentName[k] \in S
  <2>1. ParentName[k] \in Above[b]
    BY AboveClosed
  <2>2. Above[k] = {k} \cup Above[ParentName[k]] /\ ParentName[k] \in Above[k]
    BY AboveParent, AboveClosed
  <2>3. CASE n \in Above[k] /\ n # k
    BY <2>1, <2>2, <2>3
  <2>4. CASE k \in Above[n] \/ n = k
    <3>1. n \in URIs
      BY <1>1
    <3>2. k \in Above[n]
      BY <2>4, <3>1, AboveClosed
    <3>3. ParentName[k] \in Above[n]
      BY <3>1, <3>2, AboveClosed
    <3> QED
      BY <2>1, <3>3
  <2> QED
    BY <2>3, <2>4
<1>4. Above[b] \subseteq S
  <2> HIDE DEF S
  <2> QED
    BY <1>2, <1>3, AboveLeast
<1> QED
  BY <1>4

\* No name is an ancestor of its parent.
LEMMA AboveAcyclic ==
    ASSUME NEW n \in Names
    PROVE  n \notin Above[ParentName[n]] /\ ParentName[n] # n
<1> SUFFICES ASSUME n \in Above[ParentName[n]] PROVE FALSE
  <2>1. n \in Above[n]
    BY AboveParent
  <2> QED
    BY <2>1
<1> DEFINE S == {k \in Above[n] : n \in Above[k]}
<1>1. n \in URIs /\ Above[n] \in SUBSET URIs
  BY AboveParent, AboveClosed
<1>2. n \in S /\ S \in SUBSET URIs
  BY <1>1, AboveClosed
<1>3. ASSUME NEW k \in S \cap Names PROVE ParentName[k] \in S
  <2>1. Above[k] = {k} \cup Above[ParentName[k]] /\ ParentName[k] \in Above[n]
    BY <1>1, AboveParent, AboveClosed
  <2> QED
    BY <2>1
<1>4. TopName \in S
  <2> HIDE DEF S
  <2>1. Above[n] \subseteq S
    BY <1>1, <1>2, <1>3, AboveLeast
  <2> QED
    BY <2>1, NamesAssumption
<1> QED
  BY <1>4, AboveTop, ConstantsAssumption

\* What is related to a name is related to the ancestors of the name.
LEMMA RelatedAbove ==
    ASSUME NEW c \in URIs, NEW n \in Above[c], NEW x \in URIs, Related(c, x)
    PROVE  Related(n, x) /\ Related(x, n)
<1>1. CASE c \in Above[x]
  BY <1>1, AboveTransitive DEF Related
<1>2. CASE x \in Above[c]
  BY <1>2, AboveChain DEF Related
<1> QED
  BY <1>1, <1>2 DEF Related

-----------------------------------------------------------------------------
(* The inductive invariant.  While an actor restarts, its name leads to    *)
(* the old instance by refs and, from the end of beforeStart on, to the    *)
(* new one by the map.  The instances that refs lead to are a tree at any  *)
(* time; they are called held.                                             *)

Taking(y) == Starting(y) /\ replaces[y] # None
Replaced(i) == \E y \in Inst : Taking(y) /\ replaces[y] = i
Held(i) == i \in Inst /\ (Replaced(i) \/ (Registered(i) /\ ~Taking(i)))
OnTree(i) == i = Root \/ Held(i)

\* One instance of a name starts at a time, and only createActor knows it.
Starts ==
    /\ \A x, y \in Inst : Starting(x) /\ Starting(y) /\ name[x] = name[y] => x = y
    /\ \A x \in Inst : Starting(x) =>
        /\ actorRef[x] = x
        /\ \A i \in All : (actorRef[i] = x => i = x) /\ (refActor[i] = x <=> i = x)
        /\ phase[x] = "starting" => children[x] = {}

\* What the map says of a name while an instance of it starts.
Map == \A x \in Inst : Starting(x) =>
    /\ replaces[x] = None => actors[name[x]] = IF phase[x] = "starting" THEN None ELSE x
    /\ replaces[x] # None =>
        /\ actors[name[x]] = IF phase[x] = "starting" THEN replaces[x] ELSE x
        /\ ~Starting(replaces[x])
        /\ parent[x] = parent[replaces[x]]

\* The held instances are a tree: refs, parents and lists of children agree.
Refs == \A i \in Inst : Held(i) => refActor[actorRef[i]] = i /\ ~isShutdown[i]

Ups == \A i \in Inst : Held(i) \/ Starting(i) =>
    OnTree(ParentActor(i)) /\ parent[i] = actorRef[ParentActor(i)]

Listed == \A i \in Inst : Held(i) =>
    \E r \in children[ParentActor(i)] : \A q \in children[ParentActor(i)] : refActor[q] = i <=> q = r

Lists == \A i \in All : OnTree(i) => \A r \in children[i] :
    ~isShutdown[refActor[r]] =>
        /\ ParentActor(refActor[r]) = i
        /\ Held(refActor[r]) \/ Taking(refActor[r])

Shape == Starts /\ Map /\ Refs /\ Ups /\ Listed /\ Lists

\* Nothing starts on a branch where a shutdown() is in progress.
Apart == \A x \in Inst, s \in stops : Starting(x) => ~Related(name[x], name[s.inst])

\* The calls of shutdown() follow the tree and wait for each other.
StopsHeld == \A s \in stops : s.at \in {"beforeShutdown", "children"} =>
    OnTree(s.inst) /\ ~isShutdown[s.inst]

StopsWait == \A s \in stops : s.at = "children" =>
    \A j \in Inst : Held(j) /\ ParentActor(j) = s.inst =>
        \E t \in ChildStops(s) : t.inst = j /\ t.at # "afterShutdown"

StopsOnce == \A s, t \in stops : name[s.inst] = name[t.inst] => s = t

StopsNest == \A s, t \in stops :
    t.inst # Root /\ name[s.inst] \in Above[ParentName[name[t.inst]]] =>
        s.at = "children" /\ \E u \in ChildStops(s) : name[u.inst] \in Above[name[t.inst]]

RootLast == isShutdown[Root] => \A i \in Inst : ~Held(i) /\ ~Starting(i)

Calls == Apart /\ StopsHeld /\ StopsWait /\ StopsOnce /\ StopsNest /\ RootLast

SInv == IInv /\ Shape /\ Calls

-----------------------------------------------------------------------------
\* An instance has a name, and an actor's parent has the parent's name.
LEMMA InstNames ==
    ASSUME IInv
    PROVE  /\ \A i \in All : i \in Inst \/ i = Root
           /\ \A i \in All : name[i] \in URIs
           /\ \A i \in Inst : phase[i] # "unborn" =>
                /\ i \in All /\ i # Root /\ name[i] \in Names
                /\ parent[i] \in All /\ ParentActor(i) \in All
                /\ name[ParentActor(i)] = ParentName[name[i]]
           /\ \A i \in Inst : Starting(i) => phase[i] # "unborn"
           /\ name[Root] = TopName
<1> USE Constants
<1>1. \A i \in All : (i \in Inst \/ i = Root) /\ name[i] \in URIs
  BY DEF All, URIs, IInv, TypeOK
<1>2. \A i \in Inst : parent[i] \in All /\ refActor[parent[i]] \in All
  BY DEF IInv, TypeOK
<1>3. \A i \in Inst : phase[i] # "unborn" => name[i] \in Names /\ name[parent[i]] = ParentName[name[i]]
  BY DEF IInv, Lineage, ParentsOK
<1>4. \A i \in All : name[refActor[i]] = name[i]
  BY DEF IInv, Lineage
<1> QED
  BY <1>1, <1>2, <1>3, <1>4 DEF ParentActor, Starting, IInv, Lineage

LEMMA HeldFacts ==
    ASSUME IInv, Map, NEW i, Held(i)
    PROVE  /\ i \in Inst /\ i \in Settled /\ phase[i] # "unborn" /\ i # Root
           /\ name[i] \in Names /\ i \in All /\ name[i] \in URIs
           /\ actors[name[i]] # None
           /\ actors[name[i]] # i => \E y \in Inst : Taking(y) /\ replaces[y] = i /\ name[y] = name[i]
<1> USE Constants
<1>1. i \in Inst
  BY DEF Held
<1>2. CASE Replaced(i)
  <2>1. PICK y \in Inst : Taking(y) /\ replaces[y] = i
    BY <1>2 DEF Replaced
  <2>2. i \in Settled /\ name[i] = name[y] /\ i # None
    BY <1>1, <2>1 DEF IInv, ReplacesOK, Taking
  <2>3. actors[name[y]] \in {i, y} /\ y # None
    BY <2>1 DEF Map, Taking
  <2> QED
    BY <2>1, <2>2, <2>3, <1>1, InstNames, SettledRefs
<1>3. CASE Registered(i)
  <2>1. actors[name[i]] = i /\ phase[i] # "unborn"
    BY <1>3 DEF Registered, Born
  <2>2. name[i] \in Names
    BY <1>1, <2>1, InstNames
  <2>3. i \in Settled
    BY <1>1, <2>1, <2>2 DEF IInv, Registry
  <2> QED
    BY <1>1, <2>1, <2>2, <2>3, InstNames
<1> QED
  BY <1>2, <1>3 DEF Held

LEMMA OnTreeFacts ==
    ASSUME IInv, Map, NEW i, OnTree(i)
    PROVE  i \in All /\ name[i] \in URIs /\ (name[i] = TopName <=> i = Root)
BY HeldFacts, InstNames, Constants, ConstantsAssumption DEF OnTree

\* A name leads to one instance only.
LEMMA HeldUnique ==
    ASSUME IInv, Starts, Map, NEW i, NEW j, OnTree(i), OnTree(j), name[i] = name[j]
    PROVE  i = j
<1>1. CASE i = Root \/ j = Root
  BY <1>1, OnTreeFacts
<1>2. CASE Held(i) /\ Held(j)
  <2>1. CASE Replaced(i) /\ Replaced(j)
    <3>1. PICK y \in Inst : Taking(y) /\ replaces[y] = i
      BY <2>1 DEF Replaced
    <3>2. PICK z \in Inst : Taking(z) /\ replaces[z] = j
      BY <2>1 DEF Replaced
    <3>3. name[y] = name[z]
      BY <3>1, <3>2 DEF Taking, IInv, ReplacesOK
    <3> QED
      BY <3>1, <3>2, <3>3 DEF Taking, Starts
  <2>2. ASSUME NEW k \in {i, j}, NEW l \in {i, j}, Replaced(k), Registered(l), ~Taking(l) PROVE k = l
    <3>1. PICK y \in Inst : Taking(y) /\ replaces[y] = k
      BY <2>2 DEF Replaced
    <3>2. name[y] = name[k] /\ actors[name[y]] \in {k, y}
      BY <3>1 DEF Taking, IInv, ReplacesOK, Map
    <3>3. actors[name[l]] = l
      BY <2>2 DEF Registered
    <3> QED
      BY <2>2, <3>1, <3>2, <3>3
  <2>3. CASE Registered(i) /\ Registered(j)
    BY <2>3 DEF Registered
  <2> QED
    BY <1>2, <2>1, <2>2, <2>3 DEF Held
<1> QED
  BY <1>1, <1>2 DEF OnTree

\* The parent of a held instance is another one.
LEMMA ParentHeld ==
    ASSUME IInv, Starts, Map, Ups, NEW i \in Inst, Held(i) \/ Starting(i)
    PROVE  /\ OnTree(ParentActor(i)) /\ ParentActor(i) \in All /\ ParentActor(i) # i
           /\ name[i] \in Names /\ name[ParentActor(i)] = ParentName[name[i]]
           /\ name[ParentActor(i)] # name[i]
           /\ name[ParentActor(i)] \in Above[name[i]]
<1>1. phase[i] # "unborn" /\ name[i] \in Names
  BY HeldFacts, InstNames
<1>2. name[ParentActor(i)] = ParentName[name[i]] /\ ParentActor(i) \in All
  BY <1>1, InstNames
<1>3. ParentName[name[i]] # name[i] /\ ParentName[name[i]] \in Above[name[i]]
  BY <1>1, AboveAcyclic, AboveParent, AboveClosed
<1> QED
  BY <1>1, <1>2, <1>3 DEF Ups

\* On a quiet branch nothing starts and no shutdown() is in progress.
LEMMA QuietMeans ==
    ASSUME IInv, NEW n, QuietBranch(n)
    PROVE  /\ \A x \in Inst : Starting(x) => ~Related(name[x], n)
           /\ \A s \in stops : ~Related(name[s.inst], n)
BY DEF QuietBranch, Busy, Born, Starting

\* On a quiet branch a registered instance is held and is not starting.
LEMMA QuietInTree ==
    ASSUME IInv, Starts, Map, RootLast, NEW n \in URIs, QuietBranch(n),
           NEW i \in All, name[i] \in Above[n] \/ n \in Above[name[i]]
    PROVE  /\ InTree(i) <=> OnTree(i) /\ (i = Root => ~isShutdown[Root])
           /\ i \in Inst => ~Starting(i) /\ ~Replaced(i)
<1>1. name[i] \in URIs /\ (i \in Inst \/ i = Root)
  BY InstNames
<1>2. \A x \in Inst : Starting(x) => name[x] # name[i]
  BY <1>1, QuietMeans DEF Related
<1>3. ~Replaced(i)
  BY <1>2 DEF Replaced, Taking, IInv, ReplacesOK
<1>4. ASSUME i \in Inst PROVE ~Taking(i) /\ ~Starting(i) /\ i # Root
  BY <1>2, <1>4, Constants DEF Taking
<1> QED
  BY <1>1, <1>3, <1>4, Constants DEF InTree, OnTree, Held

\* What starts or is held has a parent that is live.
LEMMA ParentLive ==
    ASSUME SInv, NEW i \in Inst, Held(i) \/ Starting(i)
    PROVE  ~isShutdown[ParentActor(i)] /\ ~isShutdown[Root]
<1>1. IInv /\ Map /\ Refs /\ Ups /\ RootLast
  BY DEF SInv, Shape, Calls
<1>2. ParentActor(i) = Root \/ (Held(ParentActor(i)) /\ ParentActor(i) \in Inst)
  BY <1>1, HeldFacts DEF Ups, OnTree
<1>3. ~isShutdown[Root]
  BY <1>1 DEF RootLast
<1> QED
  BY <1>1, <1>2, <1>3 DEF Refs

LEMMA InitSInv == Init => SInv
<1> SUFFICES ASSUME Init PROVE SInv
  OBVIOUS
<1>1. /\ \A x \in Inst : phase[x] = "unborn"
      /\ \A i \in All : children[i] = {} /\ ~isShutdown[i]
      /\ stops = {}
  BY Constants DEF Init
<1>2. \A i : ~Taking(i) \/ i \notin Inst
  BY <1>1 DEF Taking, Starting
<1>3. \A i \in Inst : ~Held(i) /\ ~Starting(i)
  BY <1>1, <1>2 DEF Held, Replaced, Registered, Born, Starting
<1>4. Shape
  BY <1>1, <1>3, Constants DEF Shape, Starts, Map, Refs, Ups, Listed, Lists
<1>5. Calls
  BY <1>1, <1>3, Constants DEF Calls, Apart, StopsHeld, StopsWait, StopsOnce, StopsNest, RootLast
<1> QED
  BY <1>4, <1>5, InitIInv DEF SInv

-----------------------------------------------------------------------------
(* What the invariant means for the tree.                                  *)

LEMMA SInvNoOrphans == SInv => NoOrphans
<1> SUFFICES ASSUME SInv, NEW i \in Inst, Registered(i) PROVE ~isShutdown[ParentActor(i)]
  BY DEF NoOrphans
<1>1. Held(i) \/ Starting(i)
  BY DEF Held, Taking
<1> QED
  BY <1>1, ParentLive

LEMMA SInvRegisteredIsListed == SInv => RegisteredIsListed
<1> SUFFICES ASSUME SInv, NEW i \in Inst, Registered(i), Quiet(i)
    PROVE  /\ InTree(ParentActor(i))
           /\ Cardinality({r \in children[ParentActor(i)] : refActor[r] = i}) = 1
           /\ refActor[actorRef[i]] = i
  BY DEF RegisteredIsListed
<1>1. IInv /\ Starts /\ Map /\ Ups /\ Listed /\ Refs /\ RootLast
  BY DEF SInv, Shape, Calls
<1>2. Held(i)
  <2>1. i \in All /\ i # Root /\ name[i] \in URIs /\ name[i] \in Above[name[i]] /\ InTree(i)
    BY <1>1, Constants, InstNames, AboveClosed DEF InTree
  <2> QED
    BY <1>1, <2>1, QuietInTree DEF Quiet, OnTree
<1>3. InTree(ParentActor(i))
  <2>1. /\ OnTree(ParentActor(i)) /\ ParentActor(i) \in All
        /\ name[ParentActor(i)] \in Above[name[i]] /\ ~isShutdown[Root]
    BY <1>1, <1>2, ParentHeld, ParentLive
  <2>2. name[i] \in URIs /\ QuietBranch(name[i])
    BY <1>1, <1>2, HeldFacts DEF Quiet
  <2> QED
    BY <1>1, <2>1, <2>2, QuietInTree
<1>4. PICK r \in children[ParentActor(i)] :
        \A q \in children[ParentActor(i)] : refActor[q] = i <=> q = r
  BY <1>1, <1>2 DEF Listed
<1>5. {q \in children[ParentActor(i)] : refActor[q] = i} = {r}
  BY <1>4
<1> QED
  BY <1>1, <1>2, <1>3, <1>5, FS_Singleton DEF Refs

LEMMA SInvLiveChildIsRegistered == SInv => LiveChildIsRegistered
<1> SUFFICES ASSUME SInv, NEW i \in All, InTree(i), Quiet(i),
                    NEW r \in children[i], ~isShutdown[refActor[r]]
    PROVE  Registered(refActor[r])
  BY DEF LiveChildIsRegistered, Kids
<1> DEFINE j == refActor[r]
<1>1. IInv /\ Starts /\ Map /\ Ups /\ Lists /\ RootLast
  BY DEF SInv, Shape, Calls
<1>2. name[i] \in URIs /\ name[i] \in Above[name[i]]
  BY <1>1, InstNames, AboveClosed
<1>3. OnTree(i)
  BY <1>1, <1>2, QuietInTree DEF Quiet
<1>4. ParentActor(j) = i /\ (Held(j) \/ Taking(j))
  BY <1>1, <1>3 DEF Lists
<1>5. j \in Inst
  <2>1. r \in Settled
    BY <1>1 DEF IInv, ChildrenOK
  <2> QED
    BY <1>1, <2>1, SettledRefs DEF Settled
<1>6. name[i] \in Above[name[j]] /\ j \in All
  BY <1>1, <1>4, <1>5, ParentHeld, Constants DEF Taking
<1>7. ~Starting(j) /\ ~Replaced(j)
  BY <1>1, <1>2, <1>5, <1>6, QuietInTree DEF Quiet
<1> QED
  BY <1>4, <1>7 DEF Held, Taking

-----------------------------------------------------------------------------
(* Steps of shutdown() that change nothing but the calls.                  *)

LEMMA SameShape ==
    ASSUME SInv, UNCHANGED <<treeVars, newVars>>
    PROVE  /\ Shape' /\ RootLast'
           /\ \A i : (Held(i)' <=> Held(i)) /\ (OnTree(i)' <=> OnTree(i))
           /\ \A i : ParentActor(i)' = ParentActor(i) /\ (Starting(i)' <=> Starting(i))
           /\ UNCHANGED name /\ UNCHANGED isShutdown
<1>1. /\ UNCHANGED actors /\ UNCHANGED children /\ UNCHANGED actorRef /\ UNCHANGED refActor
      /\ UNCHANGED isShutdown /\ UNCHANGED name /\ UNCHANGED parent /\ UNCHANGED phase
      /\ UNCHANGED replaces
  BY DEF treeVars, newVars
<1>2. \A i : Starting(i)' <=> Starting(i)
  BY <1>1 DEF Starting
<1>3. \A i : Taking(i)' <=> Taking(i)
  BY <1>1, <1>2 DEF Taking
<1>4. \A i : Replaced(i)' <=> Replaced(i)
  BY <1>1, <1>3 DEF Replaced
<1>5. \A i : Registered(i)' <=> Registered(i)
  BY <1>1 DEF Registered, Born
<1>6. \A i : Held(i)' <=> Held(i)
  BY <1>3, <1>4, <1>5 DEF Held
<1>7. \A i : OnTree(i)' <=> OnTree(i)
  BY <1>6 DEF OnTree
<1>8. \A i : ParentActor(i)' = ParentActor(i)
  BY <1>1 DEF ParentActor
<1>9. Starts' /\ Map'
  BY <1>1, <1>2 DEF SInv, Shape, Starts, Map
<1>10. Refs' /\ Ups'
  BY <1>1, <1>2, <1>6, <1>7, <1>8 DEF SInv, Shape, Refs, Ups
<1>11. Listed' /\ Lists'
  BY <1>1, <1>3, <1>6, <1>7, <1>8 DEF SInv, Shape, Listed, Lists
<1>12. RootLast'
  BY <1>1, <1>2, <1>6 DEF SInv, Calls, RootLast
<1> QED
  BY <1>1, <1>2, <1>6, <1>7, <1>8, <1>9, <1>10, <1>11, <1>12 DEF Shape

\* Two calls on one branch are on the names of an ancestor and a descendant.
LEMMA StopNames ==
    ASSUME IInv, NEW s \in stops
    PROVE  s.inst \in All /\ name[s.inst] \in URIs /\ (s.inst # Root => name[s.inst] \in Names)
BY InstNames, SettledRefs, Constants DEF IInv, StopsOK, Settled

LEMMA ShutdownCall ==
    ASSUME SInv, UNCHANGED <<treeVars, newVars>>, NEW i, OnTree(i),
           QuietBranch(name[i]), CallShutdown(i)
    PROVE  Shape' /\ Calls'
<1>1. /\ IInv /\ Map /\ Calls /\ Shape
  BY DEF SInv, Shape
<1>2. CASE isShutdown[i]
  <2>1. UNCHANGED stops
    BY <1>2 DEF CallShutdown
  <2>2. \A s : ChildStops(s)' = ChildStops(s)
    BY <2>1 DEF ChildStops
  <2>3. Apart' /\ StopsHeld' /\ StopsOnce'
    BY <1>1, <2>1, SameShape DEF Calls, Apart, StopsHeld, StopsOnce
  <2>4. StopsWait' /\ StopsNest'
    BY <1>1, <2>1, <2>2, SameShape DEF Calls, StopsWait, StopsNest
  <2> QED
    BY <2>3, <2>4, SameShape DEF Calls
<1>3. CASE ~isShutdown[i]
  <2> DEFINE new == [path |-> <<calls'>>, inst |-> i, at |-> "beforeShutdown"]
  <2>1. stops' = stops \cup {new}
    BY <1>3 DEF CallShutdown
  <2>2. new.inst = i /\ new.at = "beforeShutdown"
    OBVIOUS
  <2> HIDE DEF new
  <2>3. \A s : ChildStops(s) \subseteq ChildStops(s)'
    BY <2>1 DEF ChildStops
  <2>4. name[i] \in URIs /\ \A s \in stops : name[s.inst] \in URIs
    BY <1>1, OnTreeFacts, StopNames
  <2>5. \A s \in stops : name[s.inst] \notin Above[name[i]] /\ name[i] \notin Above[name[s.inst]]
    BY <1>1, QuietMeans DEF Related
  <2>6. \A s \in stops : name[s.inst] # name[i]
    BY <2>4, <2>5, AboveClosed
  <2>7. Apart'
    BY <1>1, <2>1, <2>2, QuietMeans, SameShape DEF Calls, Apart
  <2>8. StopsHeld'
    BY <1>1, <1>3, <2>1, <2>2, SameShape DEF Calls, StopsHeld
  <2>9. StopsWait'
    BY <1>1, <2>1, <2>2, <2>3, SameShape DEF Calls, StopsWait
  <2>10. StopsOnce'
    BY <1>1, <2>1, <2>2, <2>6, SameShape DEF Calls, StopsOnce
  <2>11. StopsNest'
    <3> SUFFICES ASSUME NEW s \in stops', NEW t \in stops', t.inst # Root,
                        name[s.inst] \in Above[ParentName[name[t.inst]]]
        PROVE  s.at = "children" /\ \E u \in ChildStops(s)' : name[u.inst] \in Above[name[t.inst]]
      BY SameShape DEF StopsNest
    <3>1. name[t.inst] \in Names
      <4>1. CASE t \in stops
        BY <1>1, <4>1, StopNames
      <4>2. CASE t = new
        BY <1>1, <2>2, <4>2, HeldFacts DEF OnTree
      <4> QED
        BY <2>1, <4>1, <4>2
    <3>2. name[s.inst] \in Above[name[t.inst]] /\ name[s.inst] # name[t.inst]
      BY <3>1, AboveParent, AboveAcyclic
    <3>3. s \in stops /\ t \in stops
      BY <2>1, <2>2, <2>5, <3>2
    <3> QED
      BY <1>1, <2>3, <3>3 DEF Calls, StopsNest
  <2> QED
    BY <2>7, <2>8, <2>9, <2>10, <2>11, SameShape DEF Calls
<1> QED
  BY <1>2, <1>3

\* The call of a shutdown whose last hook settles is gone.
LEMMA AfterShutdownCalls ==
    ASSUME SInv, NEW s \in stops, AfterShutdownDone(s)
    PROVE  Shape' /\ Calls'
<1>1. /\ UNCHANGED <<treeVars, newVars>> /\ stops' = stops \ {s} /\ s.at = "afterShutdown"
      /\ IInv /\ Calls
  BY DEF AfterShutdownDone, SInv
<1>2. Apart' /\ StopsHeld' /\ StopsOnce'
  BY <1>1, SameShape DEF Calls, Apart, StopsHeld, StopsOnce
<1>3. \A a : ChildStops(a)' = ChildStops(a) \ {s}
  BY <1>1 DEF ChildStops
<1>4. StopsWait'
  BY <1>1, <1>3, SameShape DEF Calls, StopsWait
<1>5. StopsNest'
  <2> SUFFICES ASSUME NEW a \in stops', NEW b \in stops', b.inst # Root,
                      name[a.inst] \in Above[ParentName[name[b.inst]]]
      PROVE  a.at = "children" /\ \E u \in ChildStops(a)' : name[u.inst] \in Above[name[b.inst]]
    BY <1>1, SameShape DEF StopsNest
  <2>1. name[b.inst] \in Names /\ a \in stops /\ b \in stops /\ b # s
    BY <1>1, StopNames
  <2>2. PICK u \in ChildStops(a) : name[u.inst] \in Above[name[b.inst]]
    BY <1>1, <2>1 DEF Calls, StopsNest
  <2>3. ASSUME u = s PROVE FALSE
    <3>1. CASE name[s.inst] = name[b.inst]
      BY <1>1, <2>1, <3>1 DEF Calls, StopsOnce
    <3>2. CASE name[s.inst] \in Above[ParentName[name[b.inst]]]
      BY <1>1, <2>1, <3>2 DEF Calls, StopsNest
    <3> QED
      BY <2>1, <2>2, <2>3, <3>1, <3>2, AboveParent
  <2> QED
    BY <1>1, <1>3, <2>1, <2>2, <2>3 DEF Calls, StopsNest
<1> QED
  BY <1>1, <1>2, <1>4, <1>5, SameShape DEF Calls

\* The calls on the children wait below the call that makes them.
LEMMA FrontAppend ==
    ASSUME NEW S, NEW q \in Seq(S), NEW r \in S
    PROVE  Len(Append(q, r)) = Len(q) + 1 /\ Front(Append(q, r)) = q
<1>1. /\ Append(q, r) \in Seq(S) /\ Len(Append(q, r)) = Len(q) + 1 /\ Len(q) \in Nat
      /\ \A k \in 1 .. Len(q) : Append(q, r)[k] = q[k] /\ q[k] \in S
  BY AppendProperties, LenProperties
<1>2. Front(Append(q, r)) = SubSeq(Append(q, r), 1, Len(q))
  BY <1>1 DEF Front
<1>3. /\ Front(Append(q, r)) \in Seq(S) /\ Len(Front(Append(q, r))) = Len(q)
      /\ \A k \in 1 .. Len(q) : Front(Append(q, r))[k] = q[k]
  BY <1>1, <1>2, SubSeqProperties
<1> QED
  BY <1>1, <1>3, SeqEqual

LEMMA BeforeShutdownCalls ==
    ASSUME SInv, NEW s \in stops, BeforeShutdownDone(s)
    PROVE  Shape' /\ Calls'
<1> DEFINE live == {r \in children[s.inst] : ~isShutdown[refActor[r]]}
           here == [s EXCEPT !.at = "children"]
           call(r) == [path |-> Append(s.path, r), inst |-> refActor[r], at |-> "beforeShutdown"]
           below == {call(r) : r \in live}
<1>1. /\ UNCHANGED <<treeVars, newVars>> /\ s.at = "beforeShutdown"
      /\ stops' = (stops \ {s}) \cup {here} \cup below
      /\ IInv /\ Starts /\ Map /\ Refs /\ Ups /\ Listed /\ Lists /\ Calls
  BY DEF BeforeShutdownDone, SInv, Shape
<1>2. /\ here.inst = s.inst /\ here.at = "children" /\ here.path = s.path
      /\ s.path \in Seq(Nat \cup Inst)
  BY <1>1 DEF IInv, TypeOK, StopCalls
<1>3. OnTree(s.inst) /\ ~isShutdown[s.inst] /\ s.inst \in All /\ name[s.inst] \in URIs
  BY <1>1, StopNames DEF Calls, StopsHeld
<1>4. ASSUME NEW r \in live
      PROVE  /\ Held(refActor[r]) /\ refActor[r] \in Inst /\ name[refActor[r]] \in Names
             /\ ParentActor(refActor[r]) = s.inst /\ ParentName[name[refActor[r]]] = name[s.inst]
             /\ name[s.inst] \in Above[name[refActor[r]]] /\ name[s.inst] # name[refActor[r]]
             /\ r \in Inst /\ ~isShutdown[refActor[r]] /\ refActor[r] # Root
  <2> DEFINE j == refActor[r]
  <2>1. ParentActor(j) = s.inst /\ (Held(j) \/ Taking(j)) /\ ~isShutdown[j]
    BY <1>1, <1>3 DEF Lists
  <2>2. r \in Inst /\ j \in Inst
    <3>1. r \in Settled
      BY <1>1, <1>3 DEF IInv, ChildrenOK
    <3> QED
      BY <1>1, <3>1, SettledRefs DEF Settled
  <2>3. /\ name[j] \in Names /\ ParentName[name[j]] = name[s.inst]
        /\ name[s.inst] \in Above[name[j]] /\ name[s.inst] # name[j]
    BY <1>1, <2>1, <2>2, ParentHeld DEF Taking
  <2>4. ~Taking(j)
    BY <1>1, <2>2, <2>3 DEF Calls, Apart, Related, Taking
  <2> QED
    BY <2>1, <2>2, <2>3, <2>4, Constants
<1>5. \A r \in live : call(r).inst = refActor[r] /\ call(r).at = "beforeShutdown"
                      /\ Len(call(r).path) = Len(s.path) + 1 /\ Front(call(r).path) = s.path
  BY <1>2, <1>4, FrontAppend
<1> HIDE DEF live, here, call
<1>6. \A a \in stops \ {s} : \A u \in ChildStops(a) :
        \E v \in ChildStops(a)' : v.inst = u.inst /\ (u.at # "afterShutdown" => v.at # "afterShutdown")
  <2> SUFFICES ASSUME NEW a \in stops \ {s}, NEW u \in ChildStops(a)
      PROVE \E v \in ChildStops(a)' : v.inst = u.inst /\ (u.at # "afterShutdown" => v.at # "afterShutdown")
    OBVIOUS
  <2>1. CASE u = s
    BY <1>1, <1>2, <2>1 DEF ChildStops
  <2>2. CASE u # s
    BY <1>1, <2>2 DEF ChildStops
  <2> QED
    BY <2>1, <2>2
<1>7. \A r \in live : call(r) \in ChildStops(here)'
  BY <1>1, <1>2, <1>5 DEF ChildStops
\* No other call is on the actor, on its children or below them.
<1>8. \A t \in stops \ {s} : name[t.inst] # name[s.inst]
  BY <1>1 DEF Calls, StopsOnce
<1>9. \A t \in stops : t.inst # Root => name[s.inst] \notin Above[ParentName[name[t.inst]]]
  BY <1>1 DEF Calls, StopsNest
<1>10. \A t \in stops, r \in live : name[t.inst] # name[refActor[r]]
  <2> SUFFICES ASSUME NEW t \in stops, NEW r \in live, name[t.inst] = name[refActor[r]] PROVE FALSE
    OBVIOUS
  <2>1. t.inst # Root
    BY <1>1, <1>4, ConstantsAssumption DEF IInv, Lineage
  <2> QED
    BY <1>3, <1>4, <1>9, <2>1, AboveClosed
<1>11. Apart'
  <2> SUFFICES ASSUME NEW x \in Inst, NEW t \in stops', Starting(x) PROVE ~Related(name[x], name[t.inst])
    BY <1>1, SameShape DEF Apart
  <2>1. CASE t \in stops
    BY <1>1, <2>1 DEF Calls, Apart
  <2>2. CASE t = here
    BY <1>1, <1>2, <2>2 DEF Calls, Apart
  <2>3. CASE t \in below
    <3>1. PICK r \in live : t.inst = refActor[r]
      BY <1>5, <2>3
    <3>2. ~Related(name[x], name[s.inst])
      BY <1>1 DEF Calls, Apart
    <3>3. name[x] \in URIs /\ name[t.inst] \in URIs
      BY <1>1, <1>4, <3>1, InstNames, Constants DEF URIs
    <3>4. Related(name[x], name[t.inst]) => Related(name[t.inst], name[x])
      BY DEF Related
    <3> QED
      BY <1>4, <3>1, <3>2, <3>3, <3>4, RelatedAbove
  <2> QED
    BY <1>1, <2>1, <2>2, <2>3
<1>12. StopsHeld'
  <2>1. \A t \in below : OnTree(t.inst) /\ ~isShutdown[t.inst]
    BY <1>4, <1>5 DEF OnTree
  <2> QED
    BY <1>1, <1>2, <1>3, <2>1, SameShape DEF Calls, StopsHeld
<1>13. StopsWait'
  <2> SUFFICES ASSUME NEW a \in stops', a.at = "children", NEW j \in Inst, Held(j), ParentActor(j) = a.inst
      PROVE \E t \in ChildStops(a)' : t.inst = j /\ t.at # "afterShutdown"
    BY <1>1, SameShape DEF StopsWait
  <2>1. CASE a = here
    <3>1. PICK r \in children[s.inst] : refActor[r] = j
      BY <1>1, <1>2, <2>1 DEF Listed
    <3>2. r \in live
      BY <1>1, <3>1 DEF Refs, live
    <3> QED
      BY <1>5, <1>7, <2>1, <3>1, <3>2
  <2>2. CASE a \in stops \ {s}
    <3>1. PICK t \in ChildStops(a) : t.inst = j /\ t.at # "afterShutdown"
      BY <1>1, <2>2 DEF Calls, StopsWait
    <3> QED
      BY <1>6, <2>2, <3>1
  <2>3. a \notin below
    BY <1>5
  <2> QED
    BY <1>1, <2>1, <2>2, <2>3
<1>14. StopsOnce'
  <2> SUFFICES ASSUME NEW a \in stops', NEW b \in stops', name[a.inst] = name[b.inst] PROVE a = b
    BY <1>1, SameShape DEF StopsOnce
  <2>1. CASE a \in below /\ b \in below
    <3>1. PICK r \in live : a = call(r) /\ a.inst = refActor[r]
      BY <1>5, <2>1
    <3>2. PICK q \in live : b = call(q) /\ b.inst = refActor[q]
      BY <1>5, <2>1
    <3>3. refActor[r] = refActor[q]
      BY <1>1, <1>4, <3>1, <3>2, HeldUnique DEF OnTree
    <3>4. r = q
      BY <1>1, <1>4, <3>3 DEF Listed, live
    <3> QED
      BY <3>1, <3>2, <3>4
  <2>2. ASSUME NEW t \in below, NEW v \in (stops \ {s}) \cup {here} PROVE name[t.inst] # name[v.inst]
    <3>1. PICK r \in live : t.inst = refActor[r]
      BY <1>5, <2>2
    <3> QED
      BY <1>2, <1>4, <1>10, <2>2, <3>1
  <2>3. CASE a \in (stops \ {s}) \cup {here} /\ b \in (stops \ {s}) \cup {here}
    BY <1>1, <1>2, <1>8, <2>3 DEF Calls, StopsOnce
  <2> QED
    BY <1>1, <2>1, <2>2, <2>3
<1>15. StopsNest'
  <2> SUFFICES ASSUME NEW a \in stops', NEW b \in stops', b.inst # Root,
                      name[a.inst] \in Above[ParentName[name[b.inst]]]
      PROVE  a.at = "children" /\ \E u \in ChildStops(a)' : name[u.inst] \in Above[name[b.inst]]
    BY <1>1, SameShape DEF StopsNest
  <2>1. ASSUME NEW t \in below
        PROVE  /\ t.inst # Root /\ name[t.inst] \in Names /\ ParentName[name[t.inst]] = name[s.inst]
               /\ name[t.inst] \notin Above[name[s.inst]] /\ name[s.inst] \in Above[name[t.inst]]
    <3>1. PICK r \in live : t.inst = refActor[r]
      BY <1>5, <2>1
    <3> QED
      BY <1>4, <3>1, AboveAcyclic
  <2>2. name[b.inst] \in Names /\ ParentName[name[b.inst]] \in URIs
    BY <1>1, <1>2, <2>1, StopNames, AboveParent
  <2>3. ASSUME NEW t \in stops \ {s}, t.at = "children", NEW u \in ChildStops(t),
               name[u.inst] \in Above[name[b.inst]]
        PROVE  \E v \in ChildStops(t)' : name[v.inst] \in Above[name[b.inst]]
    BY <1>6, <2>3
  <2>4. CASE b \in stops \ {s}
    <3>1. a \notin below
      BY <1>9, <2>1, <2>2, <2>4, AboveTransitive
    <3>2. a # here
      BY <1>2, <1>9, <2>4
    <3> QED
      BY <1>1, <2>3, <2>4, <3>1, <3>2 DEF Calls, StopsNest
  <2>5. CASE b = here
    <3>1. name[a.inst] \in Above[name[s.inst]] /\ name[a.inst] # name[s.inst]
      BY <1>2, <2>2, <2>5, AboveParent, AboveAcyclic
    <3>2. a \notin below /\ a # here
      BY <1>2, <2>1, <3>1
    <3> QED
      BY <1>1, <1>2, <2>3, <2>5, <3>2 DEF Calls, StopsNest
  <2>6. CASE b \in below
    <3>1. PICK r \in live : b = call(r) /\ b.inst = refActor[r]
      BY <1>5, <2>6
    <3>2. name[a.inst] \in Above[name[s.inst]] /\ a \notin below
      BY <2>1, <2>6
    <3>3. CASE a = here
      BY <1>2, <1>7, <2>2, <3>1, <3>3, AboveParent
    <3>4. CASE a \in stops \ {s}
      <4>1. s.inst # Root
        BY <1>1, <1>8, <3>2, <3>4, AboveTop DEF IInv, Lineage
      <4>2. name[s.inst] \in Names /\ name[a.inst] \in Above[ParentName[name[s.inst]]]
        BY <1>1, <1>8, <3>2, <3>4, <4>1, StopNames, AboveParent
      <4>3. PICK u \in ChildStops(a) : name[u.inst] \in Above[name[s.inst]]
        BY <1>1, <3>4, <4>1, <4>2 DEF Calls, StopsNest
      <4>4. name[u.inst] \in Above[name[b.inst]]
        BY <2>1, <2>2, <2>6, <4>3, AboveTransitive, AboveParent
      <4> QED
        BY <1>1, <2>3, <3>4, <4>1, <4>2, <4>3, <4>4 DEF Calls, StopsNest
    <3> QED
      BY <1>1, <3>2, <3>3, <3>4
  <2> QED
    BY <1>1, <2>4, <2>5, <2>6
<1> QED
  BY <1>1, <1>11, <1>12, <1>13, <1>14, <1>15, SameShape DEF Calls

-----------------------------------------------------------------------------
(* The instance that a shutdown() takes out is a leaf of the tree.         *)

LEMMA LeafFacts ==
    ASSUME SInv, NEW s \in stops, s.at = "children", ChildStops(s) = {}
    PROVE  /\ \A k \in Inst : Held(k) \/ Starting(k) => ParentActor(k) # s.inst
           /\ \A x \in Inst : Starting(x) => name[x] # name[s.inst]
           /\ \A t \in stops \ {s} : name[t.inst] # name[s.inst]
           /\ \A t \in stops : t.inst # Root => name[s.inst] \notin Above[ParentName[name[t.inst]]]
<1>1. IInv /\ Starts /\ Map /\ Ups /\ Calls /\ name[s.inst] \in URIs
  BY StopNames DEF SInv, Shape
<1>2. \A k \in Inst : Held(k) => ParentActor(k) # s.inst
  BY <1>1 DEF Calls, StopsWait
<1>3. \A x \in Inst : Starting(x) => ~Related(name[x], name[s.inst])
  BY <1>1 DEF Calls, Apart
<1>4. \A x \in Inst : Starting(x) => ParentActor(x) # s.inst
  BY <1>1, <1>3, ParentHeld DEF Related
<1>5. \A x \in Inst : Starting(x) => name[x] # name[s.inst]
  BY <1>1, <1>3, AboveClosed DEF Related
<1>6. \A t \in stops \ {s} : name[t.inst] # name[s.inst]
  BY <1>1 DEF Calls, StopsOnce
<1>7. \A t \in stops : t.inst # Root => name[s.inst] \notin Above[ParentName[name[t.inst]]]
  BY <1>1 DEF Calls, StopsNest
<1> QED
  BY <1>2, <1>4, <1>5, <1>6, <1>7

\* When the system actor has no children and starts none, nothing is held.
LEMMA RootLeaf ==
    ASSUME SInv, \A k \in Inst : Held(k) => ParentActor(k) # Root
    PROVE  \A k \in Inst : ~Held(k)
<1> SUFFICES ASSUME NEW j \in Inst, Held(j) PROVE FALSE
  OBVIOUS
<1> DEFINE S == {m \in Above[name[j]] : \E k \in Inst : Held(k) /\ name[k] = m}
<1>1. IInv /\ Starts /\ Map /\ Ups
  BY DEF SInv, Shape
<1>2. name[j] \in Names /\ name[j] \in URIs
  BY <1>1, HeldFacts
<1>3. name[j] \in S /\ S \in SUBSET URIs
  BY <1>2, AboveClosed
<1>4. ASSUME NEW m \in S \cap Names PROVE ParentName[m] \in S
  <2>1. PICK k \in Inst : Held(k) /\ name[k] = m
    BY <1>4
  <2>2. Held(ParentActor(k)) /\ ParentActor(k) \in Inst /\ name[ParentActor(k)] = ParentName[m]
    BY <1>1, <2>1, ParentHeld DEF OnTree, Held
  <2>3. ParentName[m] \in Above[name[j]]
    BY <1>2, <1>4, AboveClosed
  <2> QED
    BY <2>2, <2>3
<1>5. TopName \in S
  <2> HIDE DEF S
  <2>1. Above[name[j]] \subseteq S
    BY <1>2, <1>3, <1>4, AboveLeast
  <2> QED
    BY <1>2, <2>1, NamesAssumption
<1> QED
  BY <1>1, <1>5, HeldFacts, ConstantsAssumption

\* The calls of shutdown() when one of them goes on to its last hook.
LEMMA ChildrenDoneCalls ==
    ASSUME SInv, NEW s \in stops, s.at = "children", ChildStops(s) = {},
           stops' = (stops \ {s}) \cup {[s EXCEPT !.at = "afterShutdown"]},
           UNCHANGED <<name, phase, parent, refActor>>,
           \A k \in Inst : Held(k)' => Held(k) /\ k # s.inst,
           \A t \in stops \ {s} : OnTree(t.inst) => OnTree(t.inst)',
           \A t \in stops \ {s} : isShutdown'[t.inst] = isShutdown[t.inst]
    PROVE  Apart' /\ StopsHeld' /\ StopsWait' /\ StopsOnce' /\ StopsNest'
<1> DEFINE last == [s EXCEPT !.at = "afterShutdown"]
<1>1. IInv /\ Calls /\ stops' = (stops \ {s}) \cup {last} /\ UNCHANGED name /\ UNCHANGED phase
  BY DEF SInv
<1>2. last.inst = s.inst /\ last.at = "afterShutdown" /\ last.path = s.path
  BY <1>1 DEF IInv, TypeOK, StopCalls
<1> HIDE DEF last
<1>3. \A k : ParentActor(k)' = ParentActor(k) /\ (Starting(k)' <=> Starting(k))
  BY DEF ParentActor, Starting
<1>4. \A t \in stops \ {s} : \A u \in ChildStops(t) : u # s => u \in ChildStops(t)'
  BY <1>1 DEF ChildStops
<1>5. \A t \in stops \ {s} : s \in ChildStops(t) => last \in ChildStops(t)'
  BY <1>1, <1>2 DEF ChildStops
<1>6. Apart'
  BY <1>1, <1>2, <1>3 DEF Calls, Apart
<1>7. StopsHeld'
  BY <1>1, <1>2 DEF Calls, StopsHeld
<1>8. StopsWait'
  <2> SUFFICES ASSUME NEW t \in stops', t.at = "children", NEW j \in Inst, Held(j)', ParentActor(j) = t.inst
      PROVE \E u \in ChildStops(t)' : u.inst = j /\ u.at # "afterShutdown"
    BY <1>3 DEF StopsWait
  <2>1. t \in stops \ {s} /\ Held(j) /\ j # s.inst
    BY <1>1, <1>2
  <2>2. PICK u \in ChildStops(t) : u.inst = j /\ u.at # "afterShutdown"
    BY <1>1, <2>1 DEF Calls, StopsWait
  <2> QED
    BY <1>4, <2>1, <2>2
<1>9. StopsOnce'
  BY <1>1, <1>2, LeafFacts DEF Calls, StopsOnce
<1>10. StopsNest'
  <2> SUFFICES ASSUME NEW a \in stops', NEW b \in stops', b.inst # Root,
                      name[a.inst] \in Above[ParentName[name[b.inst]]]
      PROVE  a.at = "children" /\ \E u \in ChildStops(a)' : name[u.inst] \in Above[name[b.inst]]
    BY <1>1 DEF StopsNest
  <2>1. PICK c \in stops : c.inst = b.inst
    BY <1>1, <1>2
  <2>2. a \in stops \ {s}
    BY <1>1, <1>2, <2>1, LeafFacts
  <2>3. PICK u \in ChildStops(a) : name[u.inst] \in Above[name[b.inst]]
    BY <1>1, <2>1, <2>2 DEF Calls, StopsNest
  <2>4. \E v \in ChildStops(a)' : v.inst = u.inst
    BY <1>2, <1>4, <1>5, <2>2, <2>3
  <2> QED
    BY <1>1, <2>1, <2>2, <2>3, <2>4 DEF Calls, StopsNest
<1> QED
  BY <1>6, <1>7, <1>8, <1>9, <1>10

\* The system actor is the last to go.
LEMMA RootDoneStep ==
    ASSUME SInv, NEW s \in stops, ChildrenDone(s), s.inst = Root
    PROVE  /\ Shape' /\ Calls' /\ UNCHANGED actors /\ \A i \in Inst : ~Held(i) /\ ~Starting(i)
<1>1. /\ s.at = "children" /\ ChildStops(s) = {} /\ IInv /\ Shape /\ Calls
      /\ stops' = (stops \ {s}) \cup {[s EXCEPT !.at = "afterShutdown"]}
      /\ isShutdown' = [isShutdown EXCEPT ![Root] = TRUE]
      /\ UNCHANGED children /\ UNCHANGED actorRef /\ UNCHANGED refActor
      /\ UNCHANGED name /\ UNCHANGED parent /\ UNCHANGED phase /\ UNCHANGED replaces
      /\ actors' = RemoveActor(Root)
  BY DEF ChildrenDone, newVars, SInv, IInv, Lineage
<1>2. name[refActor[Root]] = TopName /\ name[Root] = TopName
  BY <1>1 DEF IInv, Lineage
<1>3. UNCHANGED actors
  <2>1. actors' = [n \in Names |-> actors[n]]
    BY <1>1, <1>2, ConstantsAssumption DEF RemoveActor
  <2> QED
    BY <1>1, <2>1 DEF IInv, TypeOK
<1>4. \A x \in Inst : ~Starting(x)
  <2> SUFFICES ASSUME NEW x \in Inst, Starting(x) PROVE FALSE
    OBVIOUS
  <2>1. name[x] \in Names
    BY <1>1, InstNames
  <2> QED
    BY <1>1, <1>2, <2>1, NamesAssumption DEF Calls, Apart, Related
<1>5. \A i \in Inst : ~Held(i)
  BY <1>1, LeafFacts, RootLeaf
<1>6. \A i : Starting(i)' <=> Starting(i)
  BY <1>1 DEF Starting
<1>7. \A i : Taking(i)' <=> Taking(i)
  BY <1>1, <1>6 DEF Taking
<1>8. \A i : Replaced(i)' <=> Replaced(i)
  BY <1>1, <1>7 DEF Replaced
<1>9. \A i : Held(i)' <=> Held(i)
  BY <1>1, <1>3, <1>7, <1>8 DEF Held, Registered, Born
<1>10. \A i \in Inst : ~Held(i)' /\ ~Starting(i)'
  BY <1>4, <1>5, <1>6, <1>9
<1>11. Starts' /\ Map' /\ Refs' /\ Ups' /\ Listed' /\ RootLast'
  BY <1>10 DEF Starts, Map, Refs, Ups, Listed, RootLast
<1>12. Lists'
  <2> SUFFICES ASSUME NEW r \in children[Root], ~isShutdown'[refActor[r]] PROVE FALSE
    BY <1>1, <1>10 DEF Lists, OnTree, Held
  <2>1. r \in Settled
    BY <1>1, Constants DEF IInv, ChildrenOK
  <2>2. refActor[r] \in Inst /\ refActor[r] # Root /\ refActor[r] \in All
    BY <1>1, <2>1, SettledRefs, Constants DEF Settled
  <2>3. ~isShutdown[refActor[r]]
    BY <1>1, <2>2 DEF IInv, TypeOK
  <2> QED
    BY <1>1, <1>4, <1>5, <2>2, <2>3, Constants DEF Shape, Lists, OnTree, Taking
<1>13. Apart' /\ StopsHeld' /\ StopsWait' /\ StopsOnce' /\ StopsNest'
  <2>1. \A t \in stops \ {s} : t.inst # Root
    BY <1>1, <1>2, LeafFacts
  <2>2. \A t \in stops \ {s} : isShutdown'[t.inst] = isShutdown[t.inst]
    BY <1>1, <2>1, StopNames DEF IInv, TypeOK
  <2>3. \A t \in stops \ {s} : OnTree(t.inst) => OnTree(t.inst)'
    BY <1>9 DEF OnTree
  <2> QED
    BY <1>1, <1>10, <2>2, <2>3, ChildrenDoneCalls
<1> QED
  BY <1>3, <1>4, <1>5, <1>11, <1>12, <1>13 DEF Shape, Calls

\* Any other actor leaves the map and its parent's list at once.
LEMMA ActorDoneStep ==
    ASSUME SInv, NEW s \in stops, ChildrenDone(s), s.inst # Root
    PROVE  /\ Shape' /\ Calls' /\ UNCHANGED isShutdown[Root] /\ Held(s.inst)
           /\ actors' = [actors EXCEPT ![name[s.inst]] = None]
           /\ \A k \in Inst : Held(k) => ParentActor(k) # s.inst
<1> DEFINE i == s.inst
           ref == actorRef[i]
           above == ParentActor(i)
<1>1. /\ s.at = "children" /\ ChildStops(s) = {} /\ IInv /\ Shape /\ Calls
      /\ stops' = (stops \ {s}) \cup {[s EXCEPT !.at = "afterShutdown"]}
      /\ isShutdown' = [isShutdown EXCEPT ![i] = TRUE]
      /\ children' = [children EXCEPT ![above] = @ \ {ref}]
      /\ UNCHANGED actorRef /\ UNCHANGED refActor
      /\ UNCHANGED name /\ UNCHANGED parent /\ UNCHANGED phase /\ UNCHANGED replaces
      /\ actors' = RemoveActor(ref)
  BY DEF ChildrenDone, newVars, SInv, ParentActor
<1>2. Starts /\ Map /\ Refs /\ Ups /\ Listed /\ Lists
  BY <1>1 DEF Shape
<1>3. Held(i) /\ i \in Inst
  BY <1>1 DEF Calls, StopsHeld, OnTree, Held
<1>4. refActor[ref] = i /\ name[i] \in Names /\ above \in All
  BY <1>1, <1>2, <1>3, HeldFacts, ParentHeld DEF Refs
<1> HIDE DEF i, ref, above
<1>5. /\ \A k \in Inst : Held(k) \/ Starting(k) => ParentActor(k) # i
      /\ \A x \in Inst : Starting(x) => name[x] # name[i]
      /\ \A t \in stops \ {s} : name[t.inst] # name[i]
  BY <1>1, LeafFacts DEF i
<1>6. /\ actors' = [actors EXCEPT ![name[i]] = None]
      /\ \A n \in Names : actors'[n] = IF n = name[i] THEN None ELSE actors[n]
  <2>1. actors' = [n \in Names |-> IF n = name[i] THEN None ELSE actors[n]]
    BY <1>1, <1>4 DEF RemoveActor
  <2> QED
    BY <1>1, <1>4, <2>1 DEF IInv, TypeOK
<1>7. \A k : (Starting(k)' <=> Starting(k)) /\ ParentActor(k)' = ParentActor(k)
  BY <1>1 DEF Starting, ParentActor
<1>8. \A k : Taking(k)' <=> Taking(k)
  BY <1>1, <1>7 DEF Taking
<1>9. \A k : Replaced(k)' <=> Replaced(k)
  BY <1>1, <1>8 DEF Replaced
<1>10. ~Replaced(i)
  BY <1>1, <1>5 DEF Replaced, Taking, IInv, ReplacesOK
<1>11. actors[name[i]] = i
  BY <1>3, <1>10 DEF Held, Registered
<1>12. \A k \in Inst : Held(k)' <=> Held(k) /\ k # i
  <2> SUFFICES ASSUME NEW k \in Inst PROVE Held(k)' <=> Held(k) /\ k # i
    OBVIOUS
  <2>1. Registered(k)' <=> Registered(k) /\ k # i
    <3>1. k \in Born => name[k] \in Names /\ k # None
      BY <1>1, InstNames, Constants DEF Born
    <3> QED
      BY <1>1, <1>3, <1>6, <1>11, <3>1, Constants DEF Registered, Born
  <2> QED
    BY <1>8, <1>9, <1>10, <2>1 DEF Held
<1>13. \A k : OnTree(k)' <=> OnTree(k) /\ k # i
  BY <1>12, <1>3, Constants DEF OnTree, Held
<1>14. /\ \A k \in All : children'[k] = IF k = above THEN children[k] \ {ref} ELSE children[k]
       /\ \A k \in All : isShutdown'[k] = IF k = i THEN TRUE ELSE isShutdown[k]
  BY <1>1, <1>3, <1>4, Constants DEF IInv, TypeOK
<1>15. Starts'
  <2>1. \A x \in Inst : x \in All /\ children'[x] \subseteq children[x]
    BY <1>14, Constants
  <2> QED
    BY <1>1, <1>2, <1>7, <2>1 DEF Starts
<1>16. Map'
  <2>1. \A x \in Inst : Starting(x) => name[x] \in Names
    BY <1>1, InstNames
  <2> QED
    BY <1>1, <1>2, <1>5, <1>6, <1>7, <2>1 DEF Map
<1>17. Refs'
  BY <1>1, <1>2, <1>12, <1>14, Constants DEF Refs
<1>18. Ups'
  BY <1>1, <1>2, <1>5, <1>7, <1>12, <1>13 DEF Ups
<1>19. Listed'
  <2> SUFFICES ASSUME NEW k \in Inst, Held(k), k # i
      PROVE  \E r \in children'[ParentActor(k)] : \A q \in children'[ParentActor(k)] : refActor[q] = k <=> q = r
    BY <1>1, <1>7, <1>12 DEF Listed
  <2>1. PICK r \in children[ParentActor(k)] : \A q \in children[ParentActor(k)] : refActor[q] = k <=> q = r
    BY <1>2 DEF Listed
  <2>2. r # ref /\ ParentActor(k) \in All
    BY <1>1, <1>2, <1>4, <2>1, ParentHeld
  <2>3. r \in children'[ParentActor(k)] /\ children'[ParentActor(k)] \subseteq children[ParentActor(k)]
    BY <1>14, <2>1, <2>2
  <2> QED
    BY <2>1, <2>3
<1>20. Lists'
  <2> SUFFICES ASSUME NEW k \in All, OnTree(k), NEW r \in children'[k], ~isShutdown'[refActor[r]]
      PROVE  ParentActor(refActor[r]) = k /\ (Held(refActor[r])' \/ Taking(refActor[r])')
    BY <1>1, <1>7, <1>13 DEF Lists
  <2>1. r \in children[k]
    BY <1>14
  <2>2. refActor[r] \in Inst /\ refActor[r] \in All
    <3>1. r \in Settled
      BY <1>1, <2>1 DEF IInv, ChildrenOK
    <3> QED
      BY <1>1, <3>1, SettledRefs, Constants DEF Settled
  <2>3. ~isShutdown[refActor[r]] /\ refActor[r] # i
    BY <1>14, <2>2
  <2> QED
    BY <1>1, <1>2, <1>8, <1>12, <2>1, <2>2, <2>3 DEF Lists
<1>21. Apart' /\ StopsHeld' /\ StopsWait' /\ StopsOnce' /\ StopsNest'
  <2>1. \A t \in stops \ {s} : t.inst # i /\ t.inst \in All
    BY <1>1, <1>5, StopNames
  <2>2. \A t \in stops \ {s} : isShutdown'[t.inst] = isShutdown[t.inst] /\ (OnTree(t.inst) => OnTree(t.inst)')
    BY <1>13, <1>14, <2>1
  <2> QED
    BY <1>1, <1>12, <2>2, ChildrenDoneCalls DEF i
<1>22. RootLast' /\ isShutdown'[Root] = isShutdown[Root]
  BY <1>1, <1>3, <1>7, <1>12, <1>14, Constants DEF Calls, RootLast
<1> QED
  BY <1>3, <1>5, <1>6, <1>15, <1>16, <1>17, <1>18, <1>19, <1>20, <1>21, <1>22 DEF Shape, Calls, i

-----------------------------------------------------------------------------
(* createActor goes on.                                                    *)

LEMMA AfterStartDoneShape ==
    ASSUME SInv, NEW x \in Inst, AfterStartDone(x)
    PROVE  Shape' /\ Calls'
<1>1. /\ phase[x] = "started" /\ replaces[x] = None
      /\ phase' = [phase EXCEPT ![x] = "up"]
      /\ UNCHANGED actors /\ UNCHANGED children /\ UNCHANGED actorRef /\ UNCHANGED refActor
      /\ UNCHANGED isShutdown /\ UNCHANGED name /\ UNCHANGED parent /\ UNCHANGED replaces
      /\ UNCHANGED stops /\ IInv /\ Shape /\ Calls
  BY DEF AfterStartDone, treeVars, SInv
<1>2. \A y \in Inst : phase'[y] = IF y = x THEN "up" ELSE phase[y]
  BY <1>1 DEF IInv, TypeOK
<1>3. \A y \in Inst : Starting(y)' <=> Starting(y) /\ y # x
  BY <1>2 DEF Starting
<1>4. \A y \in Inst : Taking(y)' <=> Taking(y)
  BY <1>1, <1>3 DEF Taking
<1>5. \A y : Replaced(y)' <=> Replaced(y)
  BY <1>1, <1>4 DEF Replaced
<1>6. \A y \in Inst : Registered(y)' <=> Registered(y)
  BY <1>1, <1>2 DEF Registered, Born
<1>7. \A y : Held(y)' <=> Held(y)
  BY <1>4, <1>5, <1>6 DEF Held
<1>8. \A y : (OnTree(y)' <=> OnTree(y)) /\ ParentActor(y)' = ParentActor(y)
  BY <1>1, <1>7 DEF OnTree, ParentActor
<1>9. Starts' /\ Map'
  <2>1. \A y \in Inst : Starting(y)' => phase'[y] = phase[y]
    BY <1>2, <1>3
  <2>2. \A y \in Inst : Starting(y)' /\ replaces[y] # None => replaces[y] \in Inst
    BY <1>1 DEF IInv, TypeOK
  <2> QED
    BY <1>1, <1>3, <2>1, <2>2 DEF Shape, Starts, Map
<1>10. Refs' /\ Ups' /\ Listed'
  BY <1>1, <1>3, <1>7, <1>8 DEF Shape, Refs, Ups, Listed
<1>11. Lists'
  <2> SUFFICES ASSUME NEW k \in All, OnTree(k), NEW r \in children[k], ~isShutdown[refActor[r]]
      PROVE  ParentActor(refActor[r]) = k /\ (Held(refActor[r])' \/ Taking(refActor[r])')
    BY <1>1, <1>8 DEF Lists
  <2>1. refActor[r] \in Inst
    <3>1. r \in Settled
      BY <1>1 DEF IInv, ChildrenOK
    <3> QED
      BY <1>1, <3>1, SettledRefs DEF Settled
  <2> QED
    BY <1>1, <1>4, <1>7, <2>1 DEF Shape, Lists
<1>12. \A t : ChildStops(t)' = ChildStops(t)
  BY <1>1 DEF ChildStops
<1>13. Apart' /\ StopsHeld' /\ StopsOnce' /\ RootLast'
  BY <1>1, <1>3, <1>7, <1>8 DEF Calls, Apart, StopsHeld, StopsOnce, RootLast
<1>14. StopsWait' /\ StopsNest'
  BY <1>1, <1>7, <1>8, <1>12 DEF Calls, StopsWait, StopsNest
<1> QED
  BY <1>9, <1>10, <1>11, <1>13, <1>14 DEF Shape, Calls

\* The actor comes up under its parent; an instance that replaces one is not held yet.
LEMMA BeforeStartDoneShape ==
    ASSUME SInv, NEW x \in Inst, BeforeStartDone(x)
    PROVE  /\ Shape' /\ Calls' /\ OnTree(ParentActor(x)) /\ name[x] \in Names
           /\ name[ParentActor(x)] = ParentName[name[x]] /\ ~isShutdown[Root]
           /\ replaces[x] = None => actors[name[x]] = None
           /\ replaces[x] # None => actors[name[x]] # None
           /\ actors' = [actors EXCEPT ![name[x]] = x]
<1> DEFINE above == ParentActor(x)
           n == name[x]
<1>1. /\ phase[x] = "starting" /\ phase' = [phase EXCEPT ![x] = "started"]
      /\ actors' = [actors EXCEPT ![n] = x]
      /\ children' = [children EXCEPT ![above] = @ \cup {actorRef[x]}]
      /\ UNCHANGED actorRef /\ UNCHANGED refActor
      /\ UNCHANGED isShutdown /\ UNCHANGED name /\ UNCHANGED parent /\ UNCHANGED replaces
      /\ UNCHANGED stops /\ IInv /\ Shape /\ Calls
  BY DEF BeforeStartDone, ParentActor, SInv
<1>2. Starts /\ Map /\ Refs /\ Ups /\ Listed /\ Lists
  BY <1>1 DEF Shape
<1>3. /\ Starting(x) /\ x \in Fresh /\ x \in All /\ x # Root /\ x # None
  BY <1>1, Constants DEF Starting, Fresh
<1>4. /\ OnTree(above) /\ above \in All /\ above # x /\ n \in Names
      /\ name[above] = ParentName[n] /\ name[above] \in Above[n]
  BY <1>1, <1>2, <1>3, ParentHeld
<1>5. ~isShutdown[Root]
  BY <1>3, ParentLive
<1>6. /\ replaces[x] = None => actors[n] = None
      /\ replaces[x] # None => actors[n] = replaces[x]
  BY <1>1, <1>2, <1>3 DEF Map
<1>7. actorRef[x] = x /\ \A i \in All : refActor[i] = x <=> i = x
  BY <1>2, <1>3 DEF Starts
<1> HIDE DEF above, n
<1>8. /\ \A y \in Inst : phase'[y] = IF y = x THEN "started" ELSE phase[y]
      /\ \A m \in Names : actors'[m] = IF m = n THEN x ELSE actors[m]
      /\ \A k \in All : children'[k] = IF k = above THEN children[k] \cup {x} ELSE children[k]
  BY <1>1, <1>4, <1>7 DEF IInv, TypeOK
<1>9. \A y \in Inst : Starting(y)' <=> Starting(y)
  BY <1>3, <1>8 DEF Starting
<1>10. \A y \in Inst : Taking(y)' <=> Taking(y)
  BY <1>1, <1>9 DEF Taking
<1>11. \A y : Replaced(y)' <=> Replaced(y)
  BY <1>1, <1>10 DEF Replaced
<1>12. \A y \in Inst : Held(y)' <=> Held(y) \/ (y = x /\ replaces[x] = None)
  <2> SUFFICES ASSUME NEW y \in Inst PROVE Held(y)' <=> Held(y) \/ (y = x /\ replaces[x] = None)
    OBVIOUS
  <2>1. /\ Born' = Born
        /\ y \in Born => name[y] \in Names
    BY <1>1, <1>3, <1>8, InstNames DEF Born
  <2>2. CASE y = x
    <3>1. x \in Born /\ Registered(x)' /\ (Taking(x) <=> replaces[x] # None)
      BY <1>1, <1>3, <1>4, <1>8, <2>1 DEF Registered, Born, Taking, n
    <3>2. ~Held(x)
      BY <1>1, <1>2, <1>3, HeldFacts DEF Settled
    <3> QED
      BY <1>10, <1>11, <2>2, <3>1, <3>2 DEF Held
  <2>3. CASE y # x /\ name[y] # n
    <3>1. Registered(y)' <=> Registered(y)
      BY <1>1, <1>8, <2>1, <2>3 DEF Registered
    <3> QED
      BY <1>10, <1>11, <2>3, <3>1 DEF Held
  <2>4. CASE y # x /\ name[y] = n
    <3>1. ~Registered(y)'
      BY <1>1, <1>4, <1>8, <2>4 DEF Registered
    <3>2. Registered(y) => Replaced(y)
      BY <1>3, <1>6, <2>4, Constants DEF Registered, Replaced, Taking
    <3> QED
      BY <1>11, <2>4, <3>1, <3>2 DEF Held
  <2> QED
    BY <2>2, <2>3, <2>4
<1>13. \A k : (OnTree(k) => OnTree(k)') /\ ParentActor(k)' = ParentActor(k)
  BY <1>1, <1>12 DEF OnTree, ParentActor, Held
<1>14. \A k : OnTree(k)' <=> OnTree(k) \/ (k = x /\ replaces[x] = None)
  BY <1>3, <1>12 DEF OnTree, Held
<1>15. Starts'
  <2>1. \A y \in Inst : phase'[y] = "starting" => phase[y] = "starting" /\ y # x
    BY <1>8
  <2>2. ASSUME NEW y \in Inst, phase[y] = "starting" PROVE y # above
    <3>1. y \in Fresh /\ y # Root
      BY <2>2, Constants DEF Fresh
    <3> QED
      BY <1>1, <1>2, <1>4, <3>1, HeldFacts DEF OnTree, Settled
  <2>3. \A y \in Inst : phase'[y] = "starting" => children'[y] = children[y]
    BY <1>8, <2>1, <2>2, Constants
  <2> QED
    BY <1>1, <1>2, <1>9, <2>1, <2>3 DEF Starts
<1>16. Map'
  <2>1. ASSUME NEW y \in Inst, Starting(y), y # x
        PROVE  phase'[y] = phase[y] /\ actors'[name[y]] = actors[name[y]]
    <3>1. name[y] # n /\ name[y] \in Names
      BY <1>1, <1>2, <1>3, <2>1, InstNames DEF Starts, n
    <3> QED
      BY <1>8, <2>1, <3>1
  <2>2. phase'[x] = "started" /\ actors'[name[x]] = x
    BY <1>4, <1>8 DEF n
  <2>3. \A y \in Inst : replaces[y] # None => (Starting(replaces[y])' <=> Starting(replaces[y]))
    BY <1>1, <1>9 DEF IInv, TypeOK
  <2> QED
    BY <1>1, <1>2, <1>3, <1>9, <2>1, <2>2, <2>3 DEF Map
<1>17. Refs'
  <2>1. ~isShutdown[x]
    BY <1>1, <1>3 DEF IInv, FreshAlone
  <2> QED
    BY <1>1, <1>2, <1>3, <1>7, <1>12, <2>1 DEF Refs
<1>18. Ups'
  BY <1>1, <1>2, <1>3, <1>9, <1>12, <1>13 DEF Ups
<1>19. Listed'
  <2> SUFFICES ASSUME NEW k \in Inst, Held(k)'
      PROVE  \E r \in children'[ParentActor(k)] : \A q \in children'[ParentActor(k)] : refActor[q] = k <=> q = r
    BY <1>1, <1>13 DEF Listed
  <2>1. CASE k = x
    <3>1. children'[above] = children[above] \cup {x} /\ children[above] \subseteq All
      BY <1>1, <1>4, <1>8, Constants DEF IInv, TypeOK
    <3> QED
      BY <1>3, <1>7, <2>1, <3>1 DEF above
  <2>2. CASE k # x
    <3>1. Held(k)
      BY <1>12, <2>2
    <3>2. PICK r \in children[ParentActor(k)] : \A q \in children[ParentActor(k)] : refActor[q] = k <=> q = r
      BY <1>2, <3>1 DEF Listed
    <3>3. ParentActor(k) \in All /\ r # x /\ refActor[x] # k
      BY <1>1, <1>2, <1>3, <1>7, <2>2, <3>1, <3>2, ParentHeld
    <3>4. /\ children[ParentActor(k)] \subseteq children'[ParentActor(k)]
          /\ children'[ParentActor(k)] \subseteq children[ParentActor(k)] \cup {x}
      BY <1>8, <3>3
    <3> QED
      BY <3>2, <3>3, <3>4
  <2> QED
    BY <2>1, <2>2
<1>20. Lists'
  <2> SUFFICES ASSUME NEW k \in All, OnTree(k)', NEW r \in children'[k], ~isShutdown[refActor[r]]
      PROVE  ParentActor(refActor[r]) = k /\ (Held(refActor[r])' \/ Taking(refActor[r])')
    BY <1>1, <1>13 DEF Lists
  <2>1. CASE r = x /\ k = above
    <3>1. refActor[r] = x
      BY <1>3, <1>7, <2>1
    <3>2. Held(x)' \/ Taking(x)
      BY <1>3, <1>12 DEF Taking
    <3> QED
      BY <1>1, <1>3, <1>10, <2>1, <3>1, <3>2 DEF above
  <2>2. CASE ~(r = x /\ k = above)
    <3>1. r \in children[k]
      BY <1>8, <2>2
    <3>2. OnTree(k)
      BY <1>1, <1>2, <1>3, <1>14, <3>1 DEF Starts
    <3>3. refActor[r] \in Inst
      <4>1. r \in Settled
        BY <1>1, <3>1 DEF IInv, ChildrenOK
      <4> QED
        BY <1>1, <4>1, SettledRefs DEF Settled
    <3> QED
      BY <1>1, <1>2, <1>10, <1>12, <3>1, <3>2, <3>3 DEF Lists
  <2> QED
    BY <2>1, <2>2
<1>21. \A t : ChildStops(t)' = ChildStops(t)
  BY <1>1 DEF ChildStops
<1>22. Apart' /\ StopsHeld' /\ StopsOnce' /\ RootLast'
  BY <1>1, <1>5, <1>9, <1>13 DEF Calls, Apart, StopsHeld, StopsOnce, RootLast
<1>23. StopsNest'
  BY <1>1, <1>21 DEF Calls, StopsNest
<1>24. StopsWait'
  <2>1. \A t \in stops : t.inst # above
    BY <1>1, <1>3, <1>4 DEF Calls, Apart, Related, n
  <2> QED
    BY <1>1, <1>12, <1>13, <1>21, <2>1 DEF Calls, StopsWait, above
<1> QED
  BY <1>1, <1>3, <1>4, <1>5, <1>6, <1>15, <1>16, <1>17, <1>18, <1>19, <1>20, <1>22, <1>23, <1>24, Constants
  DEF Shape, Calls, above, n, IInv, TypeOK

-----------------------------------------------------------------------------
(* The end of a restart: x takes the place of the instance it replaces.    *)

LEMMA RestartFacts ==
    ASSUME SInv, NEW x \in Inst, phase[x] = "started", replaces[x] # None
    PROVE  /\ Taking(x) /\ x \in All /\ x # Root /\ ~isShutdown[x] /\ actors[name[x]] = x /\ ~Held(x)
           /\ Held(replaces[x]) /\ replaces[x] \in Inst /\ replaces[x] \in Settled
           /\ ~Starting(replaces[x]) /\ replaces[x] # x /\ name[replaces[x]] = name[x]
           /\ name[x] \in Names /\ actorRef[replaces[x]] \in Settled /\ actorRef[replaces[x]] # x
           /\ refActor[actorRef[replaces[x]]] = replaces[x] /\ ~isShutdown[Root]
           /\ ParentActor(x) = ParentActor(replaces[x]) /\ refActor[x] = x /\ actorRef[x] = x
           /\ OnTree(ParentActor(x)) /\ ParentActor(x) \in All
           /\ ParentActor(x) # x /\ ParentActor(x) # replaces[x]
           /\ name[ParentActor(x)] = ParentName[name[x]] /\ name[ParentActor(x)] # name[x]
           /\ name[x] \notin Above[name[ParentActor(x)]]
<1> DEFINE old == replaces[x]
<1>1. IInv /\ Starts /\ Map /\ Refs /\ Ups
  BY DEF SInv, Shape
<1>2. Starting(x) /\ Taking(x) /\ x \in All /\ x # Root
  BY Constants DEF Starting, Taking
<1>3. /\ actors[name[x]] = x /\ parent[x] = parent[old] /\ ~Starting(old) /\ name[x] \in Names
  BY <1>1, <1>2, InstNames DEF Map
<1>4. old \in Inst /\ old \in Settled /\ name[old] = name[x] /\ actorRef[old] \in Settled
  BY <1>1, SettledRefs DEF IInv, ReplacesOK
<1>5. old # x
  BY <1>2, <1>3
<1>6. Held(old)
  BY <1>2, <1>4 DEF Held, Replaced
<1>7. refActor[actorRef[old]] = old
  BY <1>1, <1>4, <1>6 DEF Refs
<1>8. actorRef[old] # x /\ refActor[x] = x /\ actorRef[x] = x
  BY <1>1, <1>2, <1>4, <1>5, Constants DEF Starts
<1>9. ~Held(x)
  <2>1. ~Replaced(x)
    BY <1>1, <1>2 DEF Replaced, Taking, Map
  <2> QED
    BY <1>2, <2>1 DEF Held
<1>10. ~isShutdown[x] /\ ~isShutdown[Root]
  BY <1>1, <1>2, <1>3, ParentLive, Constants DEF IInv, Registry
<1>11. /\ OnTree(ParentActor(x)) /\ ParentActor(x) \in All /\ ParentActor(x) # x
       /\ name[ParentActor(x)] = ParentName[name[x]] /\ name[ParentActor(x)] # name[x]
       /\ name[x] \notin Above[name[ParentActor(x)]]
  BY <1>1, <1>2, ParentHeld, AboveAcyclic
<1>12. ParentActor(x) = ParentActor(old)
  BY <1>3 DEF ParentActor
<1> QED
  BY <1>2, <1>3, <1>4, <1>5, <1>6, <1>7, <1>8, <1>9, <1>10, <1>11, <1>12

\* The walk of updateChildren gets to the list that names the old instance.
LEMMA WalkMeetsParent ==
    ASSUME SInv, NEW x \in Inst, phase[x] = "started", replaces[x] # None
    PROVE  ParentActor(x) \in Visited(name[x], [children EXCEPT ![x] = children[replaces[x]]])
<1> DEFINE old == replaces[x]
           above == ParentActor(x)
           n == name[x]
           kids == [children EXCEPT ![x] = children[old]]
           lists == {i \in All : kids[i] # {}}
           entered(i) == {refActor[r] : r \in {q \in kids[i] : name[refActor[q]] # n}}
<1>1. IInv /\ Starts /\ Map /\ Ups /\ Listed
  BY DEF SInv, Shape
<1>2. /\ n \in Names /\ n \notin Above[name[above]] /\ above \in All /\ OnTree(above)
      /\ Held(old) /\ above = ParentActor(old) /\ above # x /\ ~Held(x) /\ x # Root
      /\ name[old] = n
  BY RestartFacts
<1>3. \A i \in All : i # x => kids[i] = children[i]
  BY <1>1 DEF IInv, TypeOK
<1> HIDE DEF kids, old, above, n
<1>4. ASSUME NEW k \in Inst, Held(k)
      PROVE  /\ ParentActor(k) \in All /\ OnTree(ParentActor(k))
             /\ \E r \in kids[ParentActor(k)] : refActor[r] = k
  <2>1. PICK r \in children[ParentActor(k)] : refActor[r] = k
    BY <1>1, <1>4 DEF Listed
  <2>2. ParentActor(k) \in All /\ OnTree(ParentActor(k))
    BY <1>1, <1>4, ParentHeld
  <2>3. ParentActor(k) # x
    BY <1>2, <2>2 DEF OnTree
  <2> QED
    BY <1>3, <2>1, <2>2, <2>3
<1>5. above \in lists
  BY <1>2, <1>4 DEF Held
<1>6. ASSUME NEW S \in SUBSET lists, \A j \in S \cup {Root} : entered(j) \cap lists \subseteq S
      PROVE  above \in S \cup {Root}
  <2> SUFFICES ASSUME above \notin S \cup {Root} PROVE FALSE
    OBVIOUS
  <2> DEFINE Missed(k) == k \in Inst /\ Held(k) /\ k \notin S \cup {Root} /\ k \in lists
             T == {m \in Above[name[above]] : \E k \in Inst : Missed(k) /\ name[k] = m}
  <2>1. name[above] \in URIs /\ Missed(above)
    BY <1>1, <1>2, <1>5, OnTreeFacts DEF OnTree, Held
  <2>2. name[above] \in T /\ T \in SUBSET URIs
    BY <2>1, AboveClosed
  <2>3. ASSUME NEW m \in T \cap Names PROVE ParentName[m] \in T
    <3>1. PICK k \in Inst : Missed(k) /\ name[k] = m
      BY <2>3
    <3> DEFINE up == ParentActor(k)
    <3>2. up \in All /\ OnTree(up) /\ name[up] = ParentName[m] /\ ParentName[m] \in Above[name[above]]
      BY <1>1, <2>1, <2>3, <3>1, ParentHeld, AboveClosed
    <3>3. PICK r \in kids[up] : refActor[r] = k
      BY <1>4, <3>1
    <3>4. name[k] # n
      BY <1>2, <3>1
    <3>5. k \in entered(up) /\ up \in lists
      BY <3>2, <3>3, <3>4
    <3> HIDE DEF entered, lists, up
    <3>6. up \notin S \cup {Root}
      BY <1>6, <3>1, <3>5
    <3>7. Missed(up)
      BY <3>2, <3>5, <3>6 DEF OnTree, Held
    <3> QED
      BY <3>2, <3>7
  <2>4. TopName \in T
    <3> HIDE DEF T
    <3>1. Above[name[above]] \subseteq T
      BY <2>1, <2>2, <2>3, AboveLeast
    <3>2. name[above] \in Names
      BY <1>1, <2>1, HeldFacts
    <3> QED
      BY <3>1, <3>2, NamesAssumption
  <2> QED
    BY <1>1, <2>4, HeldFacts, ConstantsAssumption
<1>7. Visited(n, kids) = {i \in lists : \A S \in SUBSET lists :
            (\A j \in S \cup {Root} : entered(j) \cap lists \subseteq S) => i \in S \cup {Root}}
  BY DEF Visited
<1> HIDE DEF lists, entered
<1>8. above \in Visited(n, kids)
  BY <1>5, <1>6, <1>7
<1> QED
  BY <1>8 DEF kids, old, above, n

\* What updateChildren does to the lists of the instances that are held after it.
LEMMA RestartLists ==
    ASSUME SInv, NEW x \in Inst, RestartDone(x)
    PROVE  LET old == replaces[x]
               above == ParentActor(x)
           IN /\ \A i \in All : OnTree(i) /\ i # old /\ i # above => children'[i] = children[i]
              /\ children'[above] = {r \in children[above] : name[refActor[r]] # name[x]} \cup {x}
              /\ children'[x] = children[old]
              /\ \A i \in Inst : i # x /\ children[i] = {} => children'[i] = {}
              /\ \A i \in All : OnTree(i) /\ i # above =>
                    \A r \in children[i] : name[refActor[r]] # name[x]
<1> DEFINE old == replaces[x]
           above == ParentActor(x)
           n == name[x]
           kids == [children EXCEPT ![x] = children[old]]
           same(i) == {r \in kids[i] : name[refActor[r]] = n}
<1>1. /\ phase[x] = "started" /\ old # None
      /\ children' = [UpdateChildren(name[refActor[actorRef[old]]], x, kids) EXCEPT ![old] = {}]
      /\ IInv /\ Starts /\ Map /\ Listed
  <2>1. phase[x] = "started" /\ old # None
    BY DEF RestartDone
  <2>2. actorRef[x] = x /\ refActor[x] = x
    BY <2>1, RestartFacts
  <2> QED
    BY <2>1, <2>2 DEF RestartDone, SInv, Shape
<1>2. /\ n \in Names /\ above \in All /\ OnTree(above) /\ above # x /\ above # old /\ old # x
      /\ Held(old) /\ old \in Inst /\ above = ParentActor(old) /\ ~Held(x) /\ x # Root
      /\ name[old] = n /\ name[refActor[actorRef[old]]] = n
      /\ name[above] = ParentName[n] /\ name[above] # n /\ x \in All /\ old \in All
  BY <1>1, RestartFacts, Constants
<1>3. above \in Visited(n, kids)
  BY <1>1, WalkMeetsParent
<1>4. /\ \A i \in All : i # x => kids[i] = children[i]
      /\ kids[x] = children[old]
  BY <1>1, <1>2 DEF IInv, TypeOK
<1> HIDE DEF kids, old, above, n
<1>5. \A i \in All : i # old => children'[i] =
        IF i \in Visited(n, kids) /\ same(i) # {} THEN (kids[i] \ same(i)) \cup {x} ELSE kids[i]
  BY <1>1, <1>2 DEF UpdateChildren
<1>6. children'[old] = {}
  BY <1>1, <1>2 DEF UpdateChildren
<1>7. ASSUME NEW i \in All, OnTree(i), i # above
      PROVE  \A r \in children[i] : name[refActor[r]] # n
  <2> SUFFICES ASSUME NEW r \in children[i], name[refActor[r]] = n PROVE FALSE
    OBVIOUS
  <2>1. r \in Settled /\ ParentName[name[r]] = name[i]
    BY <1>1 DEF IInv, ChildrenOK
  <2>2. name[refActor[r]] = name[r]
    BY <1>1, <2>1, Constants DEF IInv, Lineage, Settled
  <2> QED
    BY <1>1, <1>2, <1>7, <2>1, <2>2, HeldUnique
<1>8. ASSUME NEW i \in All, OnTree(i), i # old, i # above
      PROVE  children'[i] = children[i]
  <2>1. i # x
    BY <1>2, <1>8 DEF OnTree
  <2>2. same(i) = {}
    BY <1>4, <1>7, <1>8, <2>1
  <2> QED
    BY <1>4, <1>5, <1>8, <2>1, <2>2
<1>9. children'[above] = {r \in children[above] : name[refActor[r]] # n} \cup {x}
  <2>1. PICK r \in children[above] : refActor[r] = old
    BY <1>1, <1>2 DEF Listed
  <2>2. kids[above] = children[above]
    BY <1>2, <1>4
  <2>3. r \in same(above)
    BY <1>2, <2>1, <2>2
  <2>4. children'[above] = (kids[above] \ same(above)) \cup {x}
    BY <1>2, <1>3, <1>5, <2>3
  <2> QED
    BY <2>2, <2>4
<1>10. children'[x] = children[old]
  <2>1. same(x) = {}
    BY <1>2, <1>4, <1>7 DEF OnTree
  <2> QED
    BY <1>2, <1>4, <1>5, <2>1
<1>11. ASSUME NEW i \in Inst, i # x, children[i] = {} PROVE children'[i] = {}
  <2>1. i \in All /\ kids[i] = {}
    BY <1>4, <1>11, Constants
  <2>2. same(i) = {}
    BY <2>1
  <2> QED
    BY <1>5, <1>6, <2>1, <2>2
<1> QED
  BY <1>7, <1>8, <1>9, <1>10, <1>11 DEF old, above, n

LEMMA RestartDoneShape ==
    ASSUME SInv, NEW x \in Inst, RestartDone(x)
    PROVE  Shape' /\ Calls'
<1> DEFINE old == replaces[x]
           ref == actorRef[old]
           above == ParentActor(x)
           n == name[x]
<1>1. /\ phase[x] = "started" /\ old # None
      /\ phase' = [phase EXCEPT ![x] = "up"]
      /\ actorRef' = [actorRef EXCEPT ![x] = ref]
      /\ refActor' = [refActor EXCEPT ![ref] = x]
      /\ UNCHANGED actors /\ UNCHANGED isShutdown /\ UNCHANGED name /\ UNCHANGED parent
      /\ UNCHANGED replaces /\ UNCHANGED stops
      /\ IInv /\ Shape /\ Calls
  <2>1. phase[x] = "started" /\ old # None
    BY DEF RestartDone
  <2>2. actorRef[x] = x /\ refActor[x] = x
    BY <2>1, RestartFacts
  <2> QED
    BY <2>1, <2>2 DEF RestartDone, RedirectRef, SInv
<1>2. Starts /\ Map /\ Refs /\ Ups /\ Listed /\ Lists
  BY <1>1 DEF Shape
<1>3. /\ Taking(x) /\ x \in All /\ x # Root /\ ~isShutdown[x] /\ actors[n] = x /\ ~Held(x)
      /\ Held(old) /\ old \in Inst /\ ~Starting(old) /\ old # x /\ name[old] = n
      /\ n \in Names /\ ref \in Settled /\ ref # x /\ refActor[ref] = old /\ ~isShutdown[Root]
      /\ above = ParentActor(old) /\ refActor[x] = x /\ Starting(x)
  BY <1>1, RestartFacts DEF Taking
<1>4. /\ OnTree(above) /\ above \in All /\ above # x /\ above # old
      /\ name[above] = ParentName[n] /\ name[above] # n
  BY <1>1, RestartFacts
<1>5. /\ \A i \in All : OnTree(i) /\ i # old /\ i # above => children'[i] = children[i]
      /\ children'[above] = {r \in children[above] : name[refActor[r]] # n} \cup {x}
      /\ children'[x] = children[old]
      /\ \A i \in Inst : i # x /\ children[i] = {} => children'[i] = {}
      /\ \A i \in All : OnTree(i) /\ i # above => \A r \in children[i] : name[refActor[r]] # n
  BY RestartLists
<1>6. /\ parent[x] = parent[old] /\ ref \in All /\ ref \in Inst
  BY <1>1, <1>2, <1>3, Constants DEF Map, Taking, Settled
<1> HIDE DEF old, ref, above, n
<1>7. /\ \A y \in Inst : phase'[y] = IF y = x THEN "up" ELSE phase[y]
      /\ \A i \in All : actorRef'[i] = IF i = x THEN ref ELSE actorRef[i]
      /\ \A i \in All : refActor'[i] = IF i = ref THEN x ELSE refActor[i]
  BY <1>1 DEF IInv, TypeOK
<1>8. \A y \in Inst : Starting(y)' <=> Starting(y) /\ y # x
  BY <1>7 DEF Starting
<1>9. \A y \in Inst : Taking(y)' <=> Taking(y) /\ y # x
  BY <1>1, <1>8 DEF Taking
<1>10. \A k : Replaced(k)' <=> Replaced(k) /\ k # old
  <2> SUFFICES ASSUME NEW k PROVE Replaced(k)' <=> Replaced(k) /\ k # old
    OBVIOUS
  <2>1. ASSUME Replaced(k), k # old PROVE Replaced(k)'
    BY <1>1, <1>9, <2>1 DEF Replaced, old
  <2>2. ASSUME Replaced(k)' PROVE Replaced(k) /\ k # old
    <3>1. PICK y \in Inst : Taking(y) /\ y # x /\ replaces[y] = k
      BY <1>1, <1>9, <2>2 DEF Replaced
    <3>2. name[y] = name[k]
      BY <1>1, <3>1 DEF IInv, ReplacesOK, Taking
    <3> QED
      BY <1>2, <1>3, <3>1, <3>2 DEF Replaced, Taking, Starts, n
  <2> QED
    BY <2>1, <2>2
<1>11. \A k \in Inst : Registered(k)' <=> Registered(k)
  BY <1>1, <1>7 DEF Registered, Born
<1>12. \A k \in Inst : Held(k)' <=> (Held(k) /\ k # old) \/ k = x
  <2> SUFFICES ASSUME NEW k \in Inst PROVE Held(k)' <=> (Held(k) /\ k # old) \/ k = x
    OBVIOUS
  <2>1. Registered(x)
    BY <1>1, <1>3 DEF Registered, Born, n
  <2>2. ~Registered(old)
    BY <1>3 DEF Registered
  <2> QED
    BY <1>3, <1>9, <1>10, <1>11, <2>1, <2>2 DEF Held
<1>13. \A k : OnTree(k)' <=> (OnTree(k) /\ k # old) \/ k = x
  BY <1>3, <1>12, Constants DEF OnTree, Held
\* The refs that lead to the tree, and the parents they are.
<1>14. ASSUME NEW k \in Inst, Held(k) \/ Starting(k)
       PROVE  /\ ParentActor(k) \in All /\ OnTree(ParentActor(k)) /\ ParentActor(k) # x
              /\ ParentActor(k) # old => ParentActor(k)' = ParentActor(k) /\ parent[k] # ref
              /\ ParentActor(k) = old => ParentActor(k)' = x /\ parent[k] = ref
              /\ name[k] = n => ParentActor(k) = above
  <2> DEFINE up == ParentActor(k)
  <2>1. up \in All /\ OnTree(up) /\ parent[k] = actorRef[up] /\ parent[k] \in All /\ name[up] = ParentName[name[k]]
    BY <1>1, <1>2, <1>14, ParentHeld DEF Ups, IInv, TypeOK
  <2>2. refActor[actorRef[up]] = up
    BY <1>1, <1>2, <2>1 DEF OnTree, Refs, IInv, Lineage, Held
  <2>3. up # x
    BY <1>3, <2>1 DEF OnTree
  <2>4. up # old => parent[k] # ref
    BY <1>3, <2>1, <2>2
  <2>5. up # old => ParentActor(k)' = up
    BY <1>1, <1>7, <2>1, <2>2, <2>4 DEF ParentActor
  <2>6. up = old => ParentActor(k)' = x /\ parent[k] = ref
    BY <1>1, <1>7, <2>1 DEF ParentActor, ref
  <2>7. name[k] = n => up = above
    BY <1>1, <1>2, <1>4, <2>1, HeldUnique
  <2> QED
    BY <2>1, <2>3, <2>4, <2>5, <2>6, <2>7
<1>15. \A r \in All : name[refActor[r]] # n => r # ref /\ refActor'[r] = refActor[r]
  BY <1>3, <1>7
<1>16. refActor'[x] = x
  BY <1>3, <1>7
<1>17. ASSUME NEW i \in All, NEW r \in children[i]
       PROVE  r \in All /\ refActor[r] \in Inst /\ refActor[r] \in All
  <2>1. r \in Settled
    BY <1>1, <1>17 DEF IInv, ChildrenOK
  <2> QED
    BY <1>1, <2>1, SettledRefs, Constants DEF Settled
<1>18. Starts'
  <2>1. \A y \in Inst : Starting(y) /\ y # x => y # ref /\ y # old /\ y \in All
    BY <1>2, <1>3, <1>6, Constants DEF Starts, ref
  <2>2. ASSUME NEW y \in Inst, Starting(y), y # x
        PROVE  /\ actorRef'[y] = y
               /\ \A i \in All : (actorRef'[i] = y => i = y) /\ (refActor'[i] = y <=> i = y)
               /\ phase'[y] = "starting" => children'[y] = {}
    <3>1. actorRef'[y] = y /\ \A i \in All : actorRef'[i] = y => i = y
      BY <1>2, <1>7, <2>1, <2>2 DEF Starts
    <3>2. \A i \in All : refActor'[i] = y <=> i = y
      BY <1>2, <1>7, <2>1, <2>2 DEF Starts
    <3>3. phase'[y] = "starting" => children'[y] = {}
      BY <1>2, <1>5, <1>7, <2>2 DEF Starts
    <3> QED
      BY <3>1, <3>2, <3>3
  <2> QED
    BY <1>1, <1>2, <1>8, <2>2 DEF Starts
<1>19. Map'
  <2>1. \A y \in Inst : Starting(y)' => Starting(y) /\ phase'[y] = phase[y]
    BY <1>7, <1>8
  <2>2. \A y \in Inst : replaces[y] # None => (Starting(replaces[y])' => Starting(replaces[y]))
    BY <1>1, <1>8 DEF IInv, TypeOK
  <2> QED
    BY <1>1, <1>2, <2>1, <2>2 DEF Map
<1>20. Refs'
  <2> SUFFICES ASSUME NEW k \in Inst, Held(k)' PROVE refActor'[actorRef'[k]] = k /\ ~isShutdown[k]
    BY <1>1 DEF Refs
  <2>1. CASE k = x
    BY <1>3, <1>6, <1>7, <2>1
  <2>2. CASE k # x
    <3>1. Held(k) /\ k # old /\ k \in All
      BY <1>12, <2>2, Constants
    <3>2. refActor[actorRef[k]] = k /\ ~isShutdown[k] /\ actorRef[k] \in All
      BY <1>1, <1>2, <3>1 DEF Refs, IInv, TypeOK
    <3> QED
      BY <1>3, <1>7, <2>2, <3>1, <3>2
  <2> QED
    BY <2>1, <2>2
<1>21. Ups'
  <2> SUFFICES ASSUME NEW k \in Inst, Held(k)' \/ Starting(k)'
      PROVE  OnTree(ParentActor(k))' /\ parent[k] = actorRef'[ParentActor(k)']
    BY <1>1 DEF Ups
  <2>1. Held(k) \/ Starting(k)
    BY <1>3, <1>8, <1>12
  <2>2. CASE ParentActor(k) = old
    <3>1. ParentActor(k)' = x /\ parent[k] = ref
      BY <1>14, <2>1, <2>2
    <3>2. OnTree(ParentActor(k))'
      BY <1>12, <3>1 DEF OnTree
    <3> QED
      BY <1>3, <1>7, <3>1, <3>2
  <2>3. CASE ParentActor(k) # old
    <3>1. ParentActor(k)' = ParentActor(k) /\ ParentActor(k) # x /\ OnTree(ParentActor(k)) /\ ParentActor(k) \in All
      BY <1>14, <2>1, <2>3
    <3>2. OnTree(ParentActor(k))'
      BY <1>12, <2>3, <3>1 DEF OnTree, Held
    <3> QED
      BY <1>2, <1>7, <2>1, <3>1, <3>2 DEF Ups
  <2> QED
    BY <2>2, <2>3
<1>22. Listed'
  <2> SUFFICES ASSUME NEW k \in Inst, Held(k)'
      PROVE  \E r \in children'[ParentActor(k)'] : \A q \in children'[ParentActor(k)'] : refActor'[q] = k <=> q = r
    BY <1>1 DEF Listed
  <2>1. CASE k = x
    <3>1. ParentActor(x)' = above
      BY <1>3, <1>4, <1>14 DEF above
    <3>2. x \in children'[above] /\ \A q \in children'[above] : refActor'[q] = x <=> q = x
      <4>1. \A q \in children[above] : q \in All /\ (name[refActor[q]] # n => refActor'[q] # x)
        BY <1>4, <1>15, <1>17 DEF n
      <4> QED
        BY <1>5, <1>16, <4>1
    <3> QED
      BY <2>1, <3>1, <3>2
  <2>2. CASE k # x
    <3>1. Held(k) /\ k # old
      BY <1>12, <2>2
    <3>2. PICK r \in children[ParentActor(k)] : \A q \in children[ParentActor(k)] : refActor[q] = k <=> q = r
      BY <1>2, <3>1 DEF Listed
    <3>3. name[k] # n /\ name[refActor[r]] # n
      BY <1>1, <1>2, <1>3, <3>1, <3>2, HeldUnique DEF OnTree
    <3>4. ParentActor(k) \in All /\ OnTree(ParentActor(k))
      BY <1>14, <3>1
    <3>5. CASE ParentActor(k) = above
      <4>1. ParentActor(k)' = above
        BY <1>4, <1>14, <3>1, <3>5
      <4>2. r \in children'[above]
        BY <1>5, <3>2, <3>3, <3>5
      <4>3. ASSUME NEW q \in children'[above] PROVE refActor'[q] = k <=> q = r
        <5>1. CASE q = x
          BY <1>3, <1>16, <2>2, <3>2, <5>1
        <5>2. CASE q \in children[above] /\ name[refActor[q]] # n
          BY <1>4, <1>15, <1>17, <3>2, <3>5, <5>2
        <5> QED
          BY <1>5, <4>3, <5>1, <5>2
      <4> QED
        BY <4>1, <4>2, <4>3
    <3>6. CASE ParentActor(k) # above
      <4>1. \A q \in children[ParentActor(k)] : refActor'[q] = refActor[q]
        BY <1>5, <1>15, <1>17, <3>4, <3>6
      <4>2. children'[ParentActor(k)'] = children[ParentActor(k)]
        BY <1>5, <1>14, <3>1, <3>4, <3>6 DEF old
      <4> QED
        BY <3>2, <4>1, <4>2
    <3> QED
      BY <3>5, <3>6
  <2> QED
    BY <2>1, <2>2
<1>23. Lists'
  <2> SUFFICES ASSUME NEW i \in All, OnTree(i)', NEW r \in children'[i], ~isShutdown[refActor'[r]]
      PROVE  \E j \in Inst : refActor'[r] = j /\ ParentActor(j)' = i /\ (Held(j)' \/ Taking(j)')
    BY <1>1 DEF Lists
  <2>1. CASE i = above /\ r = x
    BY <1>4, <1>3, <1>12, <1>14, <1>16, <2>1 DEF above
  <2>2. CASE ~(i = above /\ r = x)
    <3> DEFINE was == IF i = x THEN old ELSE i
               j == refActor[r]
    <3>1. OnTree(was) /\ was \in All /\ r \in children[was] /\ name[j] # n
      BY <1>3, <1>4, <1>5, <1>13, <2>2, Constants DEF OnTree
    <3>2. j \in Inst /\ refActor'[r] = j
      BY <1>15, <1>17, <3>1
    <3>3. ParentActor(j) = was /\ (Held(j) \/ Taking(j))
      BY <1>2, <3>1, <3>2 DEF Lists
    <3>4. Held(j)' \/ Taking(j)'
      BY <1>3, <1>9, <1>12, <3>1, <3>2, <3>3 DEF n
    <3>5. ParentActor(j)' = i
      BY <1>14, <3>2, <3>3, <1>13 DEF Taking
    <3> QED
      BY <3>2, <3>4, <3>5
  <2> QED
    BY <2>1, <2>2
<1>24. \A t : ChildStops(t)' = ChildStops(t)
  BY <1>1 DEF ChildStops
<1>25. \A t \in stops : t.inst # old /\ t.inst # x /\ t.inst # above
  <2>1. name[above] \in Above[n] /\ n \in Above[n]
    BY <1>3, <1>4, AboveParent, AboveClosed
  <2> QED
    BY <1>1, <1>3, <2>1 DEF Calls, Apart, Related, n
<1>26. Apart' /\ StopsHeld' /\ StopsOnce' /\ RootLast'
  BY <1>1, <1>3, <1>8, <1>13, <1>25 DEF Calls, Apart, StopsHeld, StopsOnce, RootLast
<1>27. StopsNest'
  BY <1>1, <1>24 DEF Calls, StopsNest
<1>28. StopsWait'
  <2> SUFFICES ASSUME NEW t \in stops, t.at = "children", NEW j \in Inst, Held(j)', ParentActor(j)' = t.inst
      PROVE \E u \in ChildStops(t) : u.inst = j /\ u.at # "afterShutdown"
    BY <1>1, <1>24 DEF StopsWait
  <2>1. j # x
    BY <1>3, <1>4, <1>14, <1>25 DEF above
  <2>2. Held(j) /\ ParentActor(j) = t.inst
    BY <1>12, <1>14, <1>25, <2>1
  <2> QED
    BY <1>1, <2>2 DEF Calls, StopsWait
<1> QED
  BY <1>18, <1>19, <1>20, <1>21, <1>22, <1>23, <1>26, <1>27, <1>28 DEF Shape, Calls

-----------------------------------------------------------------------------
(* createActor and restart() begin.                                        *)

\* Instances are made of names that are quiet and differ from each other.
LEMMA ConstructShape ==
    ASSUME SInv, NEW made \in SUBSET Unborn, NEW newName, NEW newParent, NEW old,
           Construct(made, newName, newParent, old), UNCHANGED <<treeVars, stops>>,
           ~isShutdown[Root],
           \A x \in made :
               /\ newName[x] \in Names /\ QuietBranch(newName[x])
               /\ OnTree(refActor[newParent[x]]) /\ newParent[x] = actorRef[refActor[newParent[x]]]
               /\ old[x] = None => actors[newName[x]] = None
               /\ old[x] # None => /\ Held(old[x]) /\ name[old[x]] = newName[x]
                                   /\ newParent[x] = parent[old[x]],
           \A x, y \in made : newName[x] = newName[y] => x = y
    PROVE  Shape' /\ Calls'
<1>1. /\ UNCHANGED actors /\ UNCHANGED children /\ UNCHANGED actorRef /\ UNCHANGED refActor
      /\ UNCHANGED isShutdown /\ UNCHANGED stops /\ IInv /\ Shape /\ Calls
  BY DEF treeVars, SInv
<1>2. Starts /\ Map /\ Refs /\ Ups /\ Listed /\ Lists
  BY <1>1 DEF Shape
<1>3. /\ \A x \in Inst : phase'[x] = IF x \in made THEN "starting" ELSE phase[x]
      /\ \A x \in All : name'[x] = IF x \in made THEN newName[x] ELSE name[x]
      /\ \A x \in Inst : parent'[x] = IF x \in made THEN newParent[x] ELSE parent[x]
      /\ \A x \in Inst : replaces'[x] = IF x \in made THEN old[x] ELSE replaces[x]
  BY DEF Construct
<1>4. /\ \A x \in made : x \in Inst /\ phase[x] = "unborn" /\ x \in Fresh /\ x \in All
      /\ \A x \in made : ~Starting(x) /\ ~Held(x) /\ x # Root
      /\ \A x \in made : children[x] = {} /\ actorRef[x] = x
      /\ \A x \in made : \A i \in All : (actorRef[i] = x => i = x) /\ (refActor[i] = x <=> i = x)
      /\ \A n \in Names : actors[n] \notin made
  <2>1. \A x \in made : x \in Inst /\ phase[x] = "unborn" /\ x \in Fresh /\ x \in All /\ x # Root
    BY Constants DEF Unborn, Born, Fresh
  <2>2. \A x \in made : ~Starting(x) /\ ~Held(x)
    BY <1>1, <1>2, <2>1, HeldFacts DEF Starting
  <2>3. /\ \A x \in made : children[x] = {} /\ actorRef[x] = x
        /\ \A x \in made : \A i \in All : (actorRef[i] = x => i = x) /\ (refActor[i] = x <=> i = x)
    BY <1>1, <2>1 DEF IInv, ChildrenOK, FreshAlone
  <2>4. \A n \in Names : actors[n] \notin made
    BY <1>1, <2>1, Constants DEF IInv, Registry, Settled
  <2> QED
    BY <2>1, <2>2, <2>3, <2>4
<1>5. \A n \in Names : QuietBranch(n) =>
        /\ \A y \in Inst : Starting(y) => name[y] # n /\ ~Related(name[y], n)
        /\ \A s \in stops : ~Related(name[s.inst], n) /\ ~Related(n, name[s.inst])
        /\ \A i \in Inst : Held(i) /\ name[i] = n => actors[n] = i /\ ~Starting(i)
  <2> SUFFICES ASSUME NEW n \in Names, QuietBranch(n)
      PROVE  /\ \A y \in Inst : Starting(y) => name[y] # n /\ ~Related(name[y], n)
             /\ \A s \in stops : ~Related(name[s.inst], n) /\ ~Related(n, name[s.inst])
             /\ \A i \in Inst : Held(i) /\ name[i] = n => actors[n] = i /\ ~Starting(i)
    OBVIOUS
  <2>1. n \in Above[n]
    BY AboveParent, AboveClosed
  <2>2. /\ \A y \in Inst : Starting(y) => ~Related(name[y], n)
        /\ \A s \in stops : ~Related(name[s.inst], n)
    BY <1>1, QuietMeans
  <2>3. \A y \in Inst : Starting(y) => name[y] # n
    BY <2>1, <2>2 DEF Related
  <2>4. \A s \in stops : ~Related(n, name[s.inst])
    BY <2>2 DEF Related
  <2> QED
    BY <1>1, <1>2, <2>2, <2>3, <2>4, HeldFacts DEF Taking
<1>6. \A y \in Inst : Starting(y)' <=> Starting(y) \/ y \in made
  BY <1>3 DEF Starting
<1>7. \A y \in Inst : Taking(y)' <=> Taking(y) \/ (y \in made /\ old[y] # None)
  BY <1>3, <1>4, <1>6 DEF Taking
<1>8. \A k \in Inst : Registered(k)' <=> Registered(k)
  <2> SUFFICES ASSUME NEW k \in Inst PROVE Registered(k)' <=> Registered(k)
    OBVIOUS
  <2>1. CASE k \in made
    <3>1. name'[k] \in Names /\ ~Registered(k)
      BY <1>3, <1>4, <2>1 DEF Registered, Born
    <3> QED
      BY <1>1, <1>4, <2>1, <3>1 DEF Registered
  <2>2. CASE k \notin made
    BY <1>1, <1>3, <2>2, Constants DEF Registered, Born
  <2> QED
    BY <2>1, <2>2
<1>9. \A k \in Inst : Held(k)' <=> Held(k)
  <2> SUFFICES ASSUME NEW k \in Inst PROVE Held(k)' <=> Held(k)
    OBVIOUS
  <2>1. Replaced(k) => Replaced(k)'
    BY <1>3, <1>4, <1>7 DEF Replaced, Taking
  <2>2. Replaced(k)' => Held(k)
    <3> SUFFICES ASSUME NEW y \in Inst, Taking(y)', replaces'[y] = k PROVE Held(k)
      BY DEF Replaced
    <3> QED
      BY <1>3, <1>7 DEF Held, Replaced, Taking
  <2>3. Registered(k) /\ ~Taking(k) => ~Taking(k)'
    BY <1>4, <1>7 DEF Registered, Born
  <2> QED
    BY <1>7, <1>8, <2>1, <2>2, <2>3 DEF Held
<1>10. \A k : (OnTree(k)' <=> OnTree(k)) /\ (OnTree(k) => k \notin made /\ k \in All)
  <2>1. \A k : OnTree(k) => k \in All /\ k \notin made
    BY <1>1, <1>2, <1>4, OnTreeFacts DEF OnTree
  <2> QED
    BY <1>9, <2>1 DEF OnTree, Held
<1>11. \A k \in Inst : k \notin made => ParentActor(k)' = ParentActor(k)
  BY <1>1, <1>3 DEF ParentActor
<1>12. \A k \in made : ParentActor(k)' = refActor[newParent[k]]
  BY <1>1, <1>3, <1>4 DEF ParentActor
<1>13. Starts'
  <2>1. \A x, y \in Inst : Starting(x)' /\ Starting(y)' /\ name'[x] = name'[y] => x = y
    <3> SUFFICES ASSUME NEW x \in Inst, NEW y \in Inst, Starting(x)', Starting(y)', name'[x] = name'[y], x # y
        PROVE FALSE
      OBVIOUS
    <3>1. CASE x \in made \/ y \in made
      <4>1. ~(x \in made /\ y \in made)
        BY <1>3, <1>4
      <4> QED
        BY <1>3, <1>5, <1>6, <3>1, <4>1, Constants
    <3>2. CASE x \notin made /\ y \notin made
      BY <1>2, <1>3, <1>6, <3>2, Constants DEF Starts
    <3> QED
      BY <3>1, <3>2
  <2>2. \A x \in Inst : phase'[x] = "starting" => phase[x] = "starting" \/ x \in made
    BY <1>3
  <2>3. \A x \in Inst : Starting(x)' =>
          /\ actorRef[x] = x
          /\ \A i \in All : (actorRef[i] = x => i = x) /\ (refActor[i] = x <=> i = x)
          /\ phase'[x] = "starting" => children[x] = {}
    BY <1>2, <1>4, <1>6, <2>2 DEF Starts
  <2> QED
    BY <1>1, <2>1, <2>3 DEF Starts
<1>14. Map'
  <2> SUFFICES ASSUME NEW x \in Inst, Starting(x)'
      PROVE  /\ replaces'[x] = None => actors[name'[x]] = IF phase'[x] = "starting" THEN None ELSE x
             /\ \A o : o = replaces'[x] /\ o # None =>
                 /\ actors[name'[x]] = IF phase'[x] = "starting" THEN o ELSE x
                 /\ ~Starting(o)'
                 /\ parent'[x] = parent'[o]
    BY <1>1 DEF Map
  <2>1. CASE x \in made
    <3>1. phase'[x] = "starting" /\ name'[x] = newName[x] /\ replaces'[x] = old[x] /\ parent'[x] = newParent[x]
      BY <1>3, <1>4, <2>1
    <3>2. ASSUME old[x] # None
          PROVE  /\ actors[newName[x]] = old[x] /\ ~Starting(old[x])
                 /\ old[x] \in Inst /\ old[x] \notin made /\ parent'[old[x]] = newParent[x]
      BY <1>3, <1>4, <1>5, <2>1, <3>2 DEF Held
    <3> QED
      BY <1>6, <2>1, <3>1, <3>2
  <2>2. CASE x \notin made
    <3>1. /\ phase'[x] = phase[x] /\ name'[x] = name[x] /\ replaces'[x] = replaces[x]
          /\ parent'[x] = parent[x] /\ Starting(x)
      BY <1>3, <1>6, <2>2, Constants
    <3>2. ASSUME replaces[x] # None
          PROVE  replaces[x] \in Inst /\ replaces[x] \notin made /\ parent'[replaces[x]] = parent[replaces[x]]
      <4>1. replaces[x] \in Settled
        BY <1>1, <3>2 DEF IInv, ReplacesOK
      <4> QED
        BY <1>3, <1>4, <4>1 DEF Settled
    <3> QED
      BY <1>2, <1>6, <3>1, <3>2 DEF Map
  <2> QED
    BY <2>1, <2>2
<1>15. Refs'
  BY <1>1, <1>2, <1>9 DEF Refs
<1>16. Ups'
  <2> SUFFICES ASSUME NEW k \in Inst, Held(k)' \/ Starting(k)'
      PROVE  OnTree(ParentActor(k)') /\ parent'[k] = actorRef[ParentActor(k)']
    BY <1>1, <1>10 DEF Ups
  <2>1. CASE k \in made
    BY <1>3, <1>12, <2>1
  <2>2. CASE k \notin made
    BY <1>2, <1>3, <1>6, <1>9, <1>11, <2>2 DEF Ups
  <2> QED
    BY <2>1, <2>2
<1>17. Listed'
  BY <1>1, <1>2, <1>4, <1>9, <1>11 DEF Listed
<1>18. Lists'
  <2> SUFFICES ASSUME NEW i \in All, OnTree(i), NEW r \in children[i], ~isShutdown[refActor[r]]
      PROVE  \E j \in Inst : refActor[r] = j /\ ParentActor(j)' = i /\ (Held(j)' \/ Taking(j)')
    BY <1>1, <1>10 DEF Lists
  <2>1. refActor[r] \in Settled /\ refActor[r] \in Inst
    <3>1. r \in Settled
      BY <1>1 DEF IInv, ChildrenOK
    <3> QED
      BY <1>1, <3>1, SettledRefs DEF Settled
  <2>2. refActor[r] \notin made
    BY <1>4, <2>1 DEF Settled
  <2> QED
    BY <1>2, <1>7, <1>9, <1>11, <2>1, <2>2 DEF Lists
<1>19. \A s \in stops : s.inst \in All /\ s.inst \notin made /\ name'[s.inst] = name[s.inst]
  <2>1. \A s \in stops : s.inst \in All /\ s.inst \notin made
    BY <1>1, <1>4, StopNames DEF IInv, StopsOK, Settled
  <2> QED
    BY <1>3, <2>1
<1>20. \A t : ChildStops(t)' = ChildStops(t)
  BY <1>1 DEF ChildStops
<1>21. Apart'
  <2> SUFFICES ASSUME NEW x \in Inst, NEW s \in stops, Starting(x)' PROVE ~Related(name'[x], name[s.inst])
    BY <1>1, <1>19 DEF Apart, Related
  <2>1. CASE x \in made
    BY <1>3, <1>4, <1>5, <2>1
  <2>2. CASE x \notin made
    BY <1>1, <1>3, <1>6, <2>2, Constants DEF Calls, Apart
  <2> QED
    BY <2>1, <2>2
<1>22. StopsHeld' /\ StopsOnce' /\ RootLast'
  BY <1>1, <1>10, <1>19 DEF Calls, StopsHeld, StopsOnce, RootLast
<1>23. StopsWait'
  BY <1>1, <1>4, <1>9, <1>11, <1>20 DEF Calls, StopsWait
<1>24. StopsNest'
  <2>1. \A s : \A u \in ChildStops(s) : u \in stops
    BY DEF ChildStops
  <2> SUFFICES ASSUME NEW s \in stops, NEW t \in stops, t.inst # Root,
                      name'[s.inst] \in Above[ParentName[name'[t.inst]]]
      PROVE  s.at = "children" /\ \E u \in ChildStops(s) : name'[u.inst] \in Above[name'[t.inst]]
    BY <1>1, <1>20 DEF StopsNest
  <2>2. s.at = "children" /\ \E u \in ChildStops(s) : name[u.inst] \in Above[name[t.inst]]
    BY <1>1, <1>19 DEF Calls, StopsNest
  <2> QED
    BY <1>19, <2>1, <2>2
<1> QED
  BY <1>13, <1>14, <1>15, <1>16, <1>17, <1>18, <1>21, <1>22, <1>23, <1>24 DEF Shape, Calls

LEMMA CreateActorShape ==
    ASSUME SInv, Disciplined, NEW n \in Names, NEW p \in Born \cup {Root}, CreateActor(n, p)
    PROVE  Shape' /\ Calls' /\ UNCHANGED actors /\ UNCHANGED isShutdown /\ actors[n] = None
<1> DEFINE x == CHOOSE y \in Unborn : TRUE
           i == refActor[p]
<1>1. /\ x \in Unborn /\ actors[n] = None
      /\ Construct({x}, [y \in {x} |-> n], [y \in {x} |-> p], [y \in {x} |-> None])
      /\ UNCHANGED <<treeVars, stops>> /\ QuietBranch(n)
      /\ name[i] = ParentName[n] /\ InTree(i) /\ p = actorRef[i]
  BY DEF CreateActor, Disciplined, MayStart
<1>2. IInv /\ Starts /\ Map /\ RootLast
  BY DEF SInv, Shape, Calls
<1>3. i \in All
  BY <1>2, Constants DEF Born, IInv, TypeOK
<1> HIDE DEF x, i
<1>4. OnTree(i) /\ (i = Root => ~isShutdown[Root])
  <2>1. n \in URIs /\ name[i] \in Above[n]
    BY <1>1, AboveParent, AboveClosed
  <2> QED
    BY <1>1, <1>2, <1>3, <2>1, QuietInTree
<1>5. ~isShutdown[Root]
  BY <1>4, ParentLive DEF OnTree, Held
<1>6. Shape' /\ Calls'
  BY <1>1, <1>4, <1>5, ConstructShape DEF i
<1> QED
  BY <1>1, <1>6 DEF treeVars

-----------------------------------------------------------------------------
(* The subtree that restarts together.                                     *)

Member(i, path) == IF path = <<>> THEN i ELSE refActor[Last(path)]

\* A path is the path of a parent and one entry of its list.
LEMMA SubtreePath ==
    ASSUME IInv, NEW i \in All, NEW path \in Subtree(i), path # <<>>
    PROVE  /\ Front(path) \in Subtree(i) /\ Last(path) \in children[Member(i, Front(path))]
           /\ path \in Seq(Inst) /\ Front(path) \in Seq(Inst)
           /\ path = Append(Front(path), Last(path))
<1> DEFINE S == UNION Range(children)
           N == Cardinality(Names)
<1>1. N \in Nat
  BY NamesAssumption, FS_CardinalityType
<1>2. PICK m \in 0 .. N : path \in [1 .. m -> S]
  BY DEF Subtree, BoundedSeq, SeqOf
<1>3. \A k \in 1 .. m : path[k] \in children[IF k = 1 THEN i ELSE refActor[path[k - 1]]]
  BY <1>2 DEF Subtree
<1>4. S \subseteq Inst
  BY DEF Range, IInv, TypeOK
<1> HIDE DEF S, N
<1>5. path \in Seq(S) /\ Len(path) = m /\ m \in Nat /\ m # 0
  BY <1>1, <1>2
<1> DEFINE front == Front(path)
<1>6. front \in Seq(S) /\ Len(front) = m - 1 /\ \A k \in 1 .. m - 1 : front[k] = path[k]
  <2>1. front = SubSeq(path, 1, m - 1)
    BY <1>5 DEF Front
  <2>2. \A k \in 1 .. m - 1 : path[k] \in S
    BY <1>2, <1>5
  <2> HIDE DEF front
  <2> QED
    BY <1>5, <2>1, <2>2, SubSeqProperties
<1> HIDE DEF front
<1>7. front \in [1 .. m - 1 -> S] /\ m - 1 \in 0 .. N
  BY <1>1, <1>2, <1>5, <1>6
<1>8. front \in Subtree(i)
  <2>1. front \in BoundedSeq(S, N)
    BY <1>7 DEF BoundedSeq, SeqOf
  <2>2. \A k \in DOMAIN front : front[k] \in children[IF k = 1 THEN i ELSE refActor[front[k - 1]]]
    <3> SUFFICES ASSUME NEW k \in 1 .. m - 1
        PROVE  front[k] \in children[IF k = 1 THEN i ELSE refActor[front[k - 1]]]
      BY <1>7
    <3>1. front[k] = path[k] /\ (k # 1 => front[k - 1] = path[k - 1]) /\ k \in 1 .. m
      BY <1>5, <1>6
    <3> QED
      BY <1>3, <3>1
  <2> QED
    BY <2>1, <2>2 DEF Subtree, S, N
<1>9. Last(path) = path[m] /\ m \in 1 .. m /\ Last(path) \in S
  BY <1>2, <1>5 DEF Last
<1>10. Last(path) \in children[Member(i, front)]
  <2>1. CASE m = 1
    <3>1. front = <<>>
      BY <1>5, <1>6, <2>1
    <3> QED
      BY <1>3, <1>9, <2>1, <3>1 DEF Member
  <2>2. CASE m # 1
    <3>1. front # <<>> /\ Last(front) = path[m - 1]
      BY <1>5, <1>6, <2>2 DEF Last
    <3> QED
      BY <1>3, <1>9, <2>2, <3>1 DEF Member
  <2> QED
    BY <2>1, <2>2
<1>11. path = Append(front, Last(path))
  <2>1. /\ Append(front, Last(path)) \in Seq(S) /\ Len(Append(front, Last(path))) = m
        /\ \A k \in 1 .. m - 1 : Append(front, Last(path))[k] = front[k]
        /\ Append(front, Last(path))[m] = Last(path)
    BY <1>5, <1>6, <1>9, AppendProperties
  <2>2. \A k \in 1 .. m : Append(front, Last(path))[k] = path[k]
    BY <1>5, <1>6, <1>9, <2>1
  <2> QED
    BY <1>5, <2>1, <2>2, SeqEqual
<1>12. path \in Seq(Inst) /\ front \in Seq(Inst)
  BY <1>4, <1>5, <1>6, SeqMonotonic
<1> QED
  BY <1>8, <1>10, <1>11, <1>12 DEF front

LEMMA SubtreeStep ==
    ASSUME IInv, NEW i \in Inst, i \in Settled, NEW path \in Subtree(i)
    PROVE  /\ Member(i, path) \in Inst /\ Member(i, path) \in All /\ name[Member(i, path)] \in Names
           /\ path # <<>> =>
                /\ Front(path) \in Subtree(i) /\ Member(i, Front(path)) \in All
                /\ Last(path) \in children[Member(i, Front(path))]
                /\ refActor[Last(path)] = Member(i, path)
                /\ name[Member(i, Front(path))] = ParentName[name[Member(i, path)]]
                /\ path = Append(Front(path), Last(path))
<1> USE Constants
<1>1. \A q \in Subtree(i) : Member(i, q) \in All
  <2> SUFFICES ASSUME NEW q \in Subtree(i), q # <<>> PROVE refActor[Last(q)] \in All
    BY DEF Member
  <2>1. Last(q) \in UNION Range(children)
    <3>1. PICK m \in 0 .. Cardinality(Names) : q \in [1 .. m -> UNION Range(children)]
      BY DEF Subtree, BoundedSeq, SeqOf
    <3>2. q \in Seq(Inst)
      BY SubtreePath
    <3> QED
      BY <3>1, <3>2 DEF Last
  <2>2. Last(q) \in Inst
    BY <2>1 DEF Range, IInv, TypeOK
  <2> QED
    BY <2>2 DEF IInv, TypeOK
<1>2. CASE path = <<>>
  BY <1>2, SettledRefs DEF Member
<1>3. CASE path # <<>>
  <2> DEFINE r == Last(path)
             up == Member(i, Front(path))
  <2>1. Front(path) \in Subtree(i) /\ r \in children[up] /\ path = Append(Front(path), r)
    BY <1>3, SubtreePath
  <2>2. up \in All /\ Member(i, path) = refActor[r]
    BY <1>1, <1>3, <2>1 DEF Member
  <2>3. r \in Settled /\ ParentName[name[r]] = name[up]
    BY <2>1, <2>2 DEF IInv, ChildrenOK
  <2>4. name[refActor[r]] = name[r] /\ name[r] \in Names /\ refActor[r] \in Inst
    BY <2>3, SettledRefs DEF IInv, Lineage, Settled
  <2> QED
    BY <1>3, <2>1, <2>2, <2>3, <2>4
<1> QED
  BY <1>2, <1>3

\* All members are held: a live child of a held instance on a quiet branch is.
LEMMA SubtreeMembers ==
    ASSUME SInv, NEW i \in Inst, Held(i), QuietBranch(name[i]),
           \A path \in Subtree(i) : ~isShutdown[Member(i, path)]
    PROVE  \A path \in Subtree(i) :
               Held(Member(i, path)) /\ name[i] \in Above[name[Member(i, path)]]
<1> DEFINE Good(path) == Held(Member(i, path)) /\ name[i] \in Above[name[Member(i, path)]]
<1>1. IInv /\ Starts /\ Map /\ Ups /\ Lists
  BY DEF SInv, Shape
<1>2. i \in Settled /\ i \in All /\ name[i] \in URIs /\ name[i] \in Above[name[i]]
  BY <1>1, HeldFacts, AboveClosed
<1>3. ASSUME NEW path \in Subtree(i), ~Good(path)
      PROVE  /\ path # <<>> /\ Front(path) \in Subtree(i) /\ ~Good(Front(path))
             /\ name[Member(i, Front(path))] = ParentName[name[Member(i, path)]]
  <2> DEFINE a == Member(i, path)
             up == Member(i, Front(path))
  <2>1. path # <<>>
    BY <1>2, <1>3 DEF Member
  <2>2. /\ Front(path) \in Subtree(i) /\ up \in All /\ Last(path) \in children[up]
        /\ refActor[Last(path)] = a /\ name[up] = ParentName[name[a]]
        /\ a \in Inst /\ name[a] \in Names
    BY <1>1, <1>2, <2>1, SubtreeStep
  <2>3. ASSUME Good(Front(path)) PROVE FALSE
    <3>1. Held(a) \/ Taking(a)
      BY <1>1, <2>2, <2>3 DEF Lists, OnTree
    <3>2. name[i] \in Above[name[a]]
      BY <2>2, <2>3, AboveParent
    <3>3. ~Taking(a)
      BY <1>1, <2>2, <3>2, QuietMeans DEF Taking, Related
    <3> QED
      BY <1>3, <3>1, <3>2, <3>3
  <2> QED
    BY <2>1, <2>2, <2>3
<1> SUFFICES ASSUME NEW p \in Subtree(i), ~Good(p) PROVE FALSE
  OBVIOUS
<1> HIDE DEF Good
<1> DEFINE T == {m \in Above[name[Member(i, p)]] :
                    \E path \in Subtree(i) : ~Good(path) /\ name[Member(i, path)] = m}
<1>4. name[Member(i, p)] \in Names /\ name[Member(i, p)] \in URIs
  BY <1>1, <1>2, SubtreeStep DEF URIs
<1>5. name[Member(i, p)] \in T /\ T \in SUBSET URIs
  BY <1>4, AboveClosed
<1>6. ASSUME NEW m \in T \cap Names PROVE ParentName[m] \in T
  <2>1. PICK path \in Subtree(i) : ~Good(path) /\ name[Member(i, path)] = m
    BY <1>6
  <2>2. Front(path) \in Subtree(i) /\ ~Good(Front(path)) /\ name[Member(i, Front(path))] = ParentName[m]
    BY <1>3, <2>1
  <2>3. ParentName[m] \in Above[name[Member(i, p)]]
    BY <1>4, <1>6, AboveClosed
  <2> QED
    BY <2>2, <2>3
<1>7. TopName \in T
  <2> HIDE DEF T
  <2>1. Above[name[Member(i, p)]] \subseteq T
    BY <1>4, <1>5, <1>6, AboveLeast
  <2> QED
    BY <1>4, <2>1, NamesAssumption
<1> QED
  BY <1>1, <1>2, <1>7, SubtreeStep, ConstantsAssumption

\* No two members have one name: each is listed once, by its parent.
LEMMA SubtreeNames ==
    ASSUME SInv, NEW i \in Inst, Held(i), QuietBranch(name[i]),
           \A path \in Subtree(i) : ~isShutdown[Member(i, path)],
           NEW p \in Subtree(i), NEW q \in Subtree(i),
           name[Member(i, p)] = name[Member(i, q)]
    PROVE  p = q
<1>1. IInv /\ Starts /\ Map /\ Ups /\ Listed /\ Lists
  BY DEF SInv, Shape
<1>2. i \in Settled /\ i \in All /\ name[i] \in Names
  BY <1>1, HeldFacts
<1> DEFINE Twins(a, b) == a # b /\ name[Member(i, a)] = name[Member(i, b)]
<1>3. ASSUME NEW a \in Subtree(i), NEW b \in Subtree(i), a = <<>>, b # <<>>,
             name[Member(i, a)] = name[Member(i, b)]
      PROVE  FALSE
  <2>1. /\ Front(b) \in Subtree(i)
        /\ name[Member(i, Front(b))] = ParentName[name[Member(i, b)]]
    BY <1>1, <1>2, <1>3, SubtreeStep
  <2>2. name[i] \in Above[name[Member(i, Front(b))]]
    BY <2>1, SubtreeMembers
  <2> QED
    BY <1>2, <1>3, <2>1, <2>2, AboveAcyclic DEF Member
<1>4. ASSUME NEW a \in Subtree(i), NEW b \in Subtree(i), Twins(a, b)
      PROVE  /\ Front(a) \in Subtree(i) /\ Front(b) \in Subtree(i) /\ Twins(Front(a), Front(b))
             /\ name[Member(i, Front(a))] = ParentName[name[Member(i, a)]]
  <2>1. a # <<>> /\ b # <<>>
    BY <1>3, <1>4
  <2>2. /\ Front(a) \in Subtree(i) /\ Member(i, Front(a)) \in All
        /\ Last(a) \in children[Member(i, Front(a))]
        /\ refActor[Last(a)] = Member(i, a)
        /\ name[Member(i, Front(a))] = ParentName[name[Member(i, a)]]
        /\ a = Append(Front(a), Last(a))
    BY <1>1, <1>2, <2>1, SubtreeStep
  <2>3. /\ Front(b) \in Subtree(i) /\ Member(i, Front(b)) \in All
        /\ Last(b) \in children[Member(i, Front(b))]
        /\ refActor[Last(b)] = Member(i, b)
        /\ b = Append(Front(b), Last(b))
    BY <1>1, <1>2, <2>1, SubtreeStep
  <2>4. /\ Held(Member(i, a)) /\ Held(Member(i, b))
        /\ Held(Member(i, Front(a))) /\ Held(Member(i, Front(b)))
    BY <2>2, <2>3, SubtreeMembers
  <2>5. Member(i, a) = Member(i, b)
    BY <1>1, <1>4, <2>4, HeldUnique DEF OnTree
  <2>6. ParentActor(Member(i, a)) = Member(i, Front(a)) /\ ParentActor(Member(i, a)) = Member(i, Front(b))
    BY <1>1, <2>2, <2>3, <2>4, <2>5 DEF Lists, OnTree
  <2>7. Last(a) = Last(b)
    BY <1>1, <2>2, <2>3, <2>4, <2>5, <2>6 DEF Listed, Held
  <2> QED
    BY <1>4, <2>2, <2>3, <2>6, <2>7
<1> SUFFICES ASSUME Twins(p, q) PROVE FALSE
  OBVIOUS
<1> HIDE DEF Twins
<1> DEFINE T == {m \in Above[name[Member(i, p)]] :
                    \E a, b \in Subtree(i) : Twins(a, b) /\ name[Member(i, a)] = m}
<1>5. name[Member(i, p)] \in Names /\ name[Member(i, p)] \in URIs
  BY <1>1, <1>2, SubtreeStep DEF URIs
<1>6. name[Member(i, p)] \in T /\ T \in SUBSET URIs
  BY <1>5, AboveClosed
<1>7. ASSUME NEW m \in T \cap Names PROVE ParentName[m] \in T
  <2>1. PICK a \in Subtree(i), b \in Subtree(i) : Twins(a, b) /\ name[Member(i, a)] = m
    BY <1>7
  <2>2. /\ Front(a) \in Subtree(i) /\ Front(b) \in Subtree(i) /\ Twins(Front(a), Front(b))
        /\ name[Member(i, Front(a))] = ParentName[m]
    BY <1>4, <2>1
  <2>3. ParentName[m] \in Above[name[Member(i, p)]]
    BY <1>5, <1>7, AboveClosed
  <2> QED
    BY <2>2, <2>3
<1>8. TopName \in T
  <2> HIDE DEF T
  <2>1. Above[name[Member(i, p)]] \subseteq T
    BY <1>5, <1>6, <1>7, AboveLeast
  <2> QED
    BY <1>5, <2>1, NamesAssumption
<1> QED
  BY <1>1, <1>2, <1>8, SubtreeStep, ConstantsAssumption

LEMMA RestartShape ==
    ASSUME SInv, Disciplined, NEW i \in Inst, Held(i), QuietBranch(name[i]), Restart(i)
    PROVE  Shape' /\ Calls' /\ UNCHANGED actors /\ UNCHANGED isShutdown
<1> DEFINE group == Subtree(i)
           places == Injection(group, Unborn)
           new == CHOOSE f \in places : TRUE
           made == Range(new)
           path(x) == CHOOSE q \in group : new[q] = x
           old == [x \in made |-> Member(i, path(x))]
<1>1. /\ places # {} /\ \A q \in group : ~isShutdown[Member(i, q)]
      /\ Construct(made, [x \in made |-> name[old[x]]], [x \in made |-> parent[old[x]]], old)
      /\ UNCHANGED <<treeVars, stops>>
  BY DEF Restart, Member, Disciplined
<1>2. new \in places
  BY <1>1
<1>3. new \in [group -> Unborn]
  BY <1>2 DEF Injection
<1>4. made \in SUBSET Unborn /\ \A x \in made : \E q \in group : new[q] = x
  BY <1>3 DEF Range
<1> HIDE DEF group, places, new, made
<1>5. \A x \in made : path(x) \in group /\ new[path(x)] = x
  BY <1>4
<1>6. \A x \in made : old[x] = Member(i, path(x))
  OBVIOUS
<1> HIDE DEF path, old
<1>7. IInv /\ Starts /\ Map /\ Ups /\ name[i] \in URIs
  BY HeldFacts DEF SInv, Shape
<1>8. \A x \in made : /\ Held(old[x]) /\ old[x] \in Inst /\ name[old[x]] \in Names
                      /\ name[i] \in Above[name[old[x]]] /\ name[old[x]] \in URIs
  <2>1. \A x \in made : Held(old[x]) /\ name[i] \in Above[name[old[x]]]
    BY <1>1, <1>5, <1>6, SubtreeMembers DEF group
  <2> QED
    BY <1>7, <2>1, HeldFacts
<1>9. \A x \in made : QuietBranch(name[old[x]])
  <2> SUFFICES ASSUME NEW x \in made, NEW m \in Busy, Related(m, name[old[x]]) PROVE FALSE
    BY DEF QuietBranch
  <2>1. m \in URIs
    BY <1>7, InstNames, StopNames DEF Busy, Born, URIs
  <2>2. Related(m, name[i])
    BY <1>8, <2>1, RelatedAbove DEF Related
  <2> QED
    BY <2>2 DEF QuietBranch
<1>10. \A x \in made : /\ OnTree(refActor[parent[old[x]]])
                       /\ parent[old[x]] = actorRef[refActor[parent[old[x]]]]
  BY <1>7, <1>8 DEF Ups, ParentActor
<1>11. \A x, y \in made : name[old[x]] = name[old[y]] => x = y
  BY <1>1, <1>5, <1>6, SubtreeNames DEF group
<1>12. ~isShutdown[Root]
  BY ParentLive
<1>13. \A x \in made : old[x] # None
  BY <1>8, Constants
<1>14. Shape' /\ Calls'
  <2> DEFINE newName == [x \in made |-> name[old[x]]]
             newParent == [x \in made |-> parent[old[x]]]
  <2>1. \A x \in made : newName[x] = name[old[x]] /\ newParent[x] = parent[old[x]]
    OBVIOUS
  <2>2. Construct(made, newName, newParent, old)
    BY <1>1
  <2> HIDE DEF newName, newParent
  <2> QED
    BY <1>1, <1>4, <1>8, <1>9, <1>10, <1>11, <1>12, <1>13, <2>1, <2>2, ConstructShape
<1> QED
  BY <1>1, <1>14 DEF treeVars

-----------------------------------------------------------------------------
(* Every step keeps the invariant.                                         *)

LEMMA ShutdownCallShape ==
    ASSUME SInv, Disciplined, NEW i \in All, InTree(i), MayStart(name[i]),
           CallShutdown(i), UNCHANGED <<treeVars, newVars>>
    PROVE  Shape' /\ Calls'
<1>1. IInv /\ Starts /\ Map /\ RootLast /\ QuietBranch(name[i])
  BY DEF SInv, Shape, Calls, Disciplined, MayStart
<1>2. name[i] \in URIs /\ name[i] \in Above[name[i]]
  BY <1>1, InstNames, AboveClosed
<1>3. OnTree(i)
  BY <1>1, <1>2, QuietInTree
<1> QED
  BY <1>1, <1>3, ShutdownCall

LEMMA RequestShape ==
    ASSUME SInv, Disciplined, Request
    PROVE  Shape' /\ Calls' /\ UNCHANGED actors /\ UNCHANGED isShutdown
<1> USE Constants
<1>1. IInv /\ Starts /\ Map /\ RootLast
  BY DEF SInv, Shape, Calls
<1>2. ASSUME NEW n \in Names, NEW p \in Born \cup {Root}, CreateActor(n, p)
      PROVE  Shape' /\ Calls' /\ UNCHANGED actors /\ UNCHANGED isShutdown
  BY <1>2, CreateActorShape
<1>3. ASSUME NEW n \in Names, Supervise(n)
      PROVE  Shape' /\ Calls' /\ UNCHANGED actors /\ UNCHANGED isShutdown
  <2> DEFINE i == actors[n]
  <2>1. /\ i \in Inst /\ i \in All /\ i # Root /\ name[i] = n /\ Registered(i) /\ MayStart(n)
        /\ n \in URIs /\ n \in Above[n]
    <3>1. i \in Settled /\ name[i] = n /\ MayStart(n)
      BY <1>1, <1>3 DEF Supervise, IInv, Registry
    <3> QED
      BY <1>1, <3>1, SettledRefs, AboveParent, AboveClosed DEF Registered, Born
  <2>2. CASE Restart(i)
    <3>1. QuietBranch(name[i])
      BY <2>1 DEF Disciplined, MayStart
    <3>2. Held(i)
      BY <1>1, <2>1, <3>1, QuietInTree DEF InTree, OnTree
    <3> HIDE DEF i
    <3> QED
      BY <2>1, <2>2, <3>1, <3>2, RestartShape
  <2>3. CASE CallShutdown(i) /\ UNCHANGED <<treeVars, newVars, running>>
    <3>1. UNCHANGED <<treeVars, newVars>> /\ InTree(i) /\ MayStart(name[i])
      BY <2>1, <2>3 DEF InTree
    <3>2. UNCHANGED actors /\ UNCHANGED isShutdown
      BY <3>1 DEF treeVars
    <3> HIDE DEF i
    <3> QED
      BY <2>1, <2>3, <3>1, <3>2, ShutdownCallShape
  <2> QED
    BY <1>3, <2>2, <2>3 DEF Supervise
<1>c. ASSUME NEW i \in Inst, Callable(i)
      PROVE  i \in All /\ InTree(i) /\ Held(i) /\ QuietBranch(name[i])
  <2>1. i \in All /\ i # Root /\ InTree(i) /\ QuietBranch(name[i])
    BY <1>c DEF Callable, Disciplined, MayStart, InTree, Registered, Born
  <2>2. name[i] \in URIs /\ name[i] \in Above[name[i]]
    BY <1>1, <2>1, InstNames, AboveClosed
  <2>3. Held(i)
    BY <1>1, <2>1, <2>2, QuietInTree DEF OnTree
  <2> QED
    BY <2>1, <2>3
<1>4. ASSUME NEW i \in Inst, RestartCall(i) \/ Shutdown(i)
      PROVE  Shape' /\ Calls' /\ UNCHANGED actors /\ UNCHANGED isShutdown
  <2>1. i \in All /\ InTree(i) /\ Held(i) /\ QuietBranch(name[i]) /\ MayStart(name[i])
    BY <1>4, <1>c DEF RestartCall, Shutdown, MayStart
  <2>2. CASE Restart(i)
    BY <2>1, <2>2, RestartShape
  <2>3. CASE UNCHANGED <<treeVars, newVars>> /\ CallShutdown(i)
    BY <2>1, <2>3, ShutdownCallShape DEF treeVars
  <2> QED
    BY <1>4, <2>2, <2>3 DEF RestartCall, Shutdown
<1>5. CASE SystemShutdown
  <2>1. UNCHANGED <<treeVars, newVars>> /\ CallShutdown(Root) /\ MayStart(name[Root])
    BY <1>1, <1>5 DEF SystemShutdown, IInv, Lineage
  <2>2. CASE isShutdown[Root]
    <3>1. UNCHANGED stops
      BY <2>1, <2>2 DEF CallShutdown
    <3>2. OnTree(Root) /\ QuietBranch(name[Root])
      BY <2>1 DEF OnTree, MayStart, Disciplined
    <3> QED
      BY <2>1, <3>2, ShutdownCall DEF treeVars
  <2>3. CASE ~isShutdown[Root]
    BY <2>1, <2>3, ShutdownCallShape DEF InTree, treeVars
  <2> QED
    BY <2>2, <2>3
<1> QED
  BY <1>2, <1>3, <1>4, <1>5 DEF Request

LEMMA StartShape ==
    ASSUME SInv, Disciplined, NEW x \in Inst, StartStep(x)
    PROVE  Shape' /\ Calls' /\ ((UNCHANGED actors /\ UNCHANGED isShutdown) \/ BeforeStartDone(x))
<1>1. CASE BeforeStartDone(x)
  BY <1>1, BeforeStartDoneShape
<1>2. CASE AfterStartDone(x)
  BY <1>2, AfterStartDoneShape DEF AfterStartDone, treeVars
<1>3. CASE RestartDone(x)
  BY <1>3, RestartDoneShape DEF RestartDone
<1>4. ~StartFails(x)
  BY DEF StartFails, Disciplined
<1> QED
  BY <1>1, <1>2, <1>3, <1>4 DEF StartStep

LEMMA StopShape ==
    ASSUME SInv, Disciplined, NEW s \in stops, StopStep(s)
    PROVE  Shape' /\ Calls' /\ ((UNCHANGED actors /\ UNCHANGED isShutdown) \/ ChildrenDone(s))
<1>1. CASE BeforeShutdownDone(s)
  BY <1>1, BeforeShutdownCalls DEF BeforeShutdownDone, treeVars
<1>2. ~BeforeShutdownFails(s)
  BY DEF BeforeShutdownFails, Disciplined
<1>3. CASE ChildrenDone(s)
  BY <1>3, RootDoneStep, ActorDoneStep
<1>4. CASE AfterShutdownDone(s)
  BY <1>4, AfterShutdownCalls DEF AfterShutdownDone, treeVars
<1> QED
  BY <1>1, <1>2, <1>3, <1>4 DEF StopStep

LEMMA IdleShape ==
    ASSUME SInv, UNCHANGED vars
    PROVE  Shape' /\ Calls'
<1>1. UNCHANGED <<treeVars, newVars>> /\ UNCHANGED stops
  BY DEF vars, treeVars, newVars
<1>2. \A t : ChildStops(t)' = ChildStops(t)
  BY <1>1 DEF ChildStops
<1>3. Calls'
  BY <1>1, <1>2, SameShape DEF SInv, Calls, Apart, StopsHeld, StopsOnce, StopsWait, StopsNest
<1> QED
  BY <1>1, <1>3, SameShape

-----------------------------------------------------------------------------
(* When clients keep operations on one branch apart and no hook rejects,   *)
(* the invariant holds in every reachable state.                           *)
THEOREM SerialInvariance == Disciplined => (Spec => []SInv)
<1> SUFFICES ASSUME Disciplined PROVE Spec => []SInv
  OBVIOUS
<1>1. SInv /\ [Next]_vars => Shape' /\ Calls'
  BY RequestShape, StartShape, StopShape, IdleShape DEF Next
<1>2. IInv /\ Shape /\ Calls <=> SInv
  BY DEF SInv
<1> QED
  BY <1>1, <1>2, InitSInv, Invariance, PTL DEF Spec

(* A registered actor's parent is not shut down, whatever was created,     *)
(* restarted and shut down before: shutdown() in Actor.ts takes the whole  *)
(* subtree with it.                                                        *)
THEOREM OrphansNever == Disciplined => (Spec => []NoOrphans)
<1> SUFFICES ASSUME Disciplined PROVE Spec => []NoOrphans
  OBVIOUS
<1> QED
  BY SerialInvariance, SInvNoOrphans, PTL

(* However often actors restarted, the map of the system, the parent, its  *)
(* list of children and the refs agree on every registered actor whose     *)
(* branch is quiet (updateChildren and restart in Actor.ts).               *)
THEOREM RegisteredStaysListed == Disciplined => (Spec => []RegisteredIsListed)
<1> SUFFICES ASSUME Disciplined PROVE Spec => []RegisteredIsListed
  OBVIOUS
<1> QED
  BY SerialInvariance, SInvRegisteredIsListed, PTL

(* A live child of an actor in the tree can be reached by messages once    *)
(* the branch is quiet.                                                    *)
THEOREM LiveChildStaysRegistered == Disciplined => (Spec => []LiveChildIsRegistered)
<1> SUFFICES ASSUME Disciplined PROVE Spec => []LiveChildIsRegistered
  OBVIOUS
<1> QED
  BY SerialInvariance, SInvLiveChildIsRegistered, PTL

\* A name that is registered has a held or a starting instance.
LEMMA RegisteredName ==
    ASSUME IInv, NEW n \in Names, actors[n] # None
    PROVE  /\ actors[n] \in Inst /\ name[actors[n]] = n
           /\ Held(actors[n]) \/ Starting(actors[n])
<1>1. actors[n] \in Settled /\ name[actors[n]] = n
  BY DEF IInv, Registry
<1>2. actors[n] \in Inst /\ phase[actors[n]] # "unborn"
  BY <1>1, SettledRefs
<1> QED
  BY <1>1, <1>2 DEF Held, Registered, Born, Taking

\* An actor that leaves the map is a leaf of the tree of names.
LEMMA ActorGoesDown ==
    ASSUME SInv, NEW s \in stops, ChildrenDone(s), s.inst # Root,
           NEW n \in Names, n = name[s.inst]
    PROVE  Tree!GoDown(n)
<1> DEFINE up == {m \in Names : actors[m] # None}
<1>1. IInv /\ Starts /\ Map /\ Ups
  BY DEF SInv, Shape
<1>2. /\ Held(s.inst) /\ actors' = [actors EXCEPT ![n] = None] /\ isShutdown'[Root] = isShutdown[Root]
  BY ActorDoneStep
<1>3. actors[n] # None
  BY <1>1, <1>2, HeldFacts
<1>4. \A m \in up : ParentName[m] # n
  <2> SUFFICES ASSUME NEW m \in up, ParentName[m] = n PROVE FALSE
    OBVIOUS
  <2> DEFINE k == actors[m]
  <2>1. k \in Inst /\ name[k] = m /\ (Held(k) \/ Starting(k))
    BY <1>1, RegisteredName
  <2>2. ParentActor(k) = s.inst
    BY <1>1, <1>2, <2>1, ParentHeld, HeldUnique DEF OnTree
  <2>3. s.at = "children" /\ ChildStops(s) = {}
    BY DEF ChildrenDone
  <2> QED
    BY <2>1, <2>2, <2>3, LeafFacts
<1>5. {m \in Names : actors'[m] # None} = up \ {n}
  <2>1. \A m \in Names : actors'[m] = IF m = n THEN None ELSE actors[m]
    BY <1>1, <1>2 DEF IInv, TypeOK
  <2> QED
    BY <2>1
<1> QED
  BY <1>2, <1>3, <1>4, <1>5 DEF Tree!GoDown

\* The system closes when no name is registered.
LEMMA SystemCloses ==
    ASSUME SInv, NEW s \in stops, ChildrenDone(s), s.inst = Root
    PROVE  Tree!Close
<1>1. IInv /\ isShutdown' = [isShutdown EXCEPT ![Root] = TRUE] /\ ~isShutdown[Root]
  BY DEF SInv, ChildrenDone, Calls, StopsHeld
<1>2. UNCHANGED actors /\ \A i \in Inst : ~Held(i) /\ ~Starting(i)
  BY RootDoneStep
<1>3. \A n \in Names : actors[n] = None
  BY <1>1, <1>2, RegisteredName
<1>4. isShutdown'[Root]
  BY <1>1, Constants DEF IInv, TypeOK
<1> QED
  BY <1>1, <1>2, <1>3, <1>4 DEF Tree!Close

\* A new actor comes up under a name that is up; a restart changes no name.
LEMMA ActorComesUp ==
    ASSUME SInv, NEW x \in Inst, BeforeStartDone(x)
    PROVE  [Tree!TreeNext]_(Tree!treeVars)
<1>1. IInv /\ Map
  BY DEF SInv, Shape
<1> PICK n \in Names : n = name[x]
  BY BeforeStartDoneShape
<1> DEFINE up == {m \in Names : actors[m] # None}
<1>2. /\ OnTree(ParentActor(x)) /\ name[ParentActor(x)] = ParentName[n]
      /\ replaces[x] = None => actors[n] = None
      /\ replaces[x] # None => actors[n] # None
      /\ actors' = [actors EXCEPT ![n] = x] /\ ~isShutdown[Root] /\ UNCHANGED isShutdown
  BY BeforeStartDoneShape DEF BeforeStartDone
<1>3. {m \in Names : actors'[m] # None} = up \cup {n}
  <2>1. \A m \in Names : actors'[m] = IF m = n THEN x ELSE actors[m]
    BY <1>1, <1>2 DEF IInv, TypeOK
  <2> QED
    BY <1>2, <2>1, Constants
<1>4. ParentName[n] \in up \cup {TopName}
  BY <1>1, <1>2, HeldFacts DEF OnTree, IInv, Lineage
<1>5. CASE replaces[x] = None
  <2>1. Tree!ComeUp(n)
    BY <1>2, <1>3, <1>4, <1>5 DEF Tree!ComeUp
  <2> QED
    BY <2>1 DEF Tree!TreeNext
<1>6. CASE replaces[x] # None
  <2>1. n \in up
    BY <1>2, <1>6
  <2>2. {m \in Names : actors'[m] # None} = up
    BY <1>3, <2>1
  <2> QED
    BY <1>2, <2>2 DEF Tree!treeVars
<1> QED
  BY <1>5, <1>6

(* createActor, restart() and shutdown() implement SupervisionTree: names  *)
(* come up under names that are up, go down at the leaves, and after the   *)
(* system is closed nothing comes up.                                      *)
THEOREM ImplementsTree == Disciplined => (Spec => TreeSpec)
<1> SUFFICES ASSUME Disciplined PROVE Spec => TreeSpec
  OBVIOUS
<1>1. Init => Tree!TreeInit
  BY Constants DEF Init, Tree!TreeInit
<1>2. SInv /\ [Next]_vars => [Tree!TreeNext]_(Tree!treeVars)
  <2> SUFFICES ASSUME SInv, [Next]_vars PROVE [Tree!TreeNext]_(Tree!treeVars)
    OBVIOUS
  <2>1. CASE UNCHANGED actors /\ UNCHANGED isShutdown
    BY <2>1 DEF Tree!treeVars
  <2>2. ASSUME NEW x \in Inst, BeforeStartDone(x) PROVE [Tree!TreeNext]_(Tree!treeVars)
    BY <2>2, ActorComesUp
  <2>3. ASSUME NEW s \in stops, ChildrenDone(s) PROVE Tree!TreeNext
    <3>1. CASE s.inst = Root
      BY <2>3, <3>1, SystemCloses DEF Tree!TreeNext
    <3>2. CASE s.inst # Root
      <4>1. PICK n \in Names : n = name[s.inst]
        BY <3>2, StopNames DEF SInv
      <4>2. Tree!GoDown(n)
        BY <2>3, <3>2, <4>1, ActorGoesDown
      <4> QED
        BY <4>2 DEF Tree!TreeNext
    <3> QED
      BY <3>1, <3>2
  <2>4. CASE Next
    BY <2>1, <2>2, <2>3, <2>4, RequestShape, StartShape, StopShape DEF Next
  <2>5. CASE UNCHANGED vars
    BY <2>1, <2>5 DEF vars
  <2> QED
    BY <2>4, <2>5
<1> QED
  BY <1>1, <1>2, SerialInvariance, PTL DEF Spec, TreeSpec, Tree!Spec
=============================================================================
