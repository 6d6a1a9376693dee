----------------------- MODULE SupervisionTreeProofs -----------------------
(* What SupervisionTree means, for any tree of names.                      *)
EXTENDS SupervisionTree, TLAPS

(* Names come up below names that are up and go down at the leaves, so     *)
(* whatever is up has its parent up, and a closed system has nothing up:   *)
(* the promise of create and shutdown in Actor.ts and ActorSystem.ts.      *)
THEOREM TreeParentsUp == Spec => []ParentsUp
<1>1. TreeInit => ParentsUp
  BY DEF TreeInit, ParentsUp
<1>2. ParentsUp /\ [TreeNext]_treeVars => ParentsUp'
  <2> SUFFICES ASSUME ParentsUp, [TreeNext]_treeVars PROVE ParentsUp'
    OBVIOUS
  <2>1. ASSUME NEW n \in Names, ComeUp(n) PROVE ParentsUp'
    BY <2>1 DEF ComeUp, ParentsUp
  <2>2. ASSUME NEW n \in Names, GoDown(n) PROVE ParentsUp'
    BY <2>2 DEF GoDown, ParentsUp
  <2>3. CASE Close
    BY <2>3 DEF Close, ParentsUp
  <2>4. CASE UNCHANGED treeVars
    BY <2>4 DEF treeVars, ParentsUp
  <2> QED
    BY <2>1, <2>2, <2>3, <2>4 DEF TreeNext
<1> QED
  BY <1>1, <1>2, PTL DEF Spec
=============================================================================
