-------------------------- MODULE SupervisionTree --------------------------
(***************************************************************************)
(* What the actor system promises about names: the names that are up form  *)
(* a tree under the system actor.  A name comes up under a parent that is  *)
(* up, goes down when no child of it is up, and once the system is closed  *)
(* nothing is up and nothing comes up again.                               *)
(***************************************************************************)
CONSTANTS Names, TopName, ParentName

VARIABLES up, open

treeVars == <<up, open>>

TreeInit == up = {} /\ open = TRUE

ComeUp(n) ==
    /\ open
    /\ n \notin up
    /\ ParentName[n] \in up \cup {TopName}
    /\ up' = up \cup {n}
    /\ UNCHANGED open

GoDown(n) ==
    /\ n \in up
    /\ \A m \in up : ParentName[m] # n
    /\ up' = up \ {n}
    /\ UNCHANGED open

Close ==
    /\ open /\ up = {}
    /\ open' = FALSE
    /\ UNCHANGED up

TreeNext == Close \/ \E n \in Names : ComeUp(n) \/ GoDown(n)

Spec == TreeInit /\ [][TreeNext]_treeVars

-----------------------------------------------------------------------------
\* Whatever is up has its parent up, and nothing is up in a closed system.
ParentsUp ==
    /\ up \subseteq Names
    /\ \A n \in up : ParentName[n] \in up \cup {TopName}
    /\ ~open => up = {}
=============================================================================
