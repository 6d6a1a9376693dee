-------------------------- MODULE MCActorLifecycle --------------------------
(* Small trees for ActorLifecycle: a parent with one child and a sibling   *)
(* of the parent, or the parent and the child alone.                       *)
EXTENDS ActorLifecycle

CONSTANTS pa, ch, sib, top

Three == {pa, ch, sib}
Two == {pa, ch}
ThreeParent == [n \in Three |-> IF n = ch THEN pa ELSE top]
TwoParent == [n \in Two |-> IF n = ch THEN pa ELSE top]
ThreeStrategy == [n \in Three |-> IF n = sib THEN "Shutdown" ELSE "Restart"]
TwoStrategy == [n \in Two |-> "Restart"]
=============================================================================
