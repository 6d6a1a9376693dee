----------------------------- MODULE AskPromise -----------------------------
(***************************************************************************)
(* What ask() promises to whoever awaits it: the promise is refused at     *)
(* once or becomes pending, and a pending one gets one answer, a result or *)
(* an error, that stays.                                                   *)
(***************************************************************************)
CONSTANT Asks

VARIABLE outcome

Settlements == {"result", "error"}

AskInit == outcome = [m \in Asks |-> "unasked"]

Ask(m) ==
    /\ outcome[m] = "unasked"
    /\ \E r \in {"pending", "refused"} : outcome' = [outcome EXCEPT ![m] = r]

\* Some promises settle in one step.
Answer(answered) ==
    /\ \A m \in answered : outcome[m] = "pending"
    /\ \E r \in Settlements :
        outcome' = [m \in Asks |-> IF m \in answered THEN r ELSE outcome[m]]

AskNext ==
    \/ \E m \in Asks : Ask(m)
    \/ \E answered \in SUBSET Asks : Answer(answered)

Spec == AskInit /\ [][AskNext]_outcome
=============================================================================
