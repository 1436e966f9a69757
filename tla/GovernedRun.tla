----------------------------- MODULE GovernedRun -----------------------------
(***************************************************************************)
(* What a caller may rely on from a governed run, whatever the effects     *)
(* are: at most `budget' of the plan's `goal' effects are attempted, one   *)
(* after the other; a refusal closes the run for effects before anybody    *)
(* reads its verdict; "completed" is said only of a whole plan; a verdict  *)
(* is final, and some verdict, or an abort, is reached.                    *)
(***************************************************************************)
EXTENDS Naturals

VARIABLES goal, budget, attempted, verdict

vars == <<goal, budget, attempted, verdict>>

Init ==
    /\ goal \in Nat
    /\ budget \in Nat
    /\ attempted = 0
    /\ verdict = "open"

Attempt ==
    /\ verdict = "open"
    /\ attempted < goal
    /\ attempted < budget
    /\ attempted' = attempted + 1

Perform == Attempt /\ UNCHANGED <<goal, budget, verdict>>

(* Refused by a gate, or by the effect that is attempted last.             *)
Refuse ==
    /\ verdict = "open"
    /\ verdict' = "refused"
    /\ Attempt \/ UNCHANGED attempted
    /\ UNCHANGED <<goal, budget>>

Report ==
    /\ verdict = "refused"
    /\ verdict' = "denied"
    /\ UNCHANGED <<goal, budget, attempted>>

Complete ==
    /\ verdict = "open"
    /\ attempted = goal
    /\ verdict' = "completed"
    /\ UNCHANGED <<goal, budget, attempted>>

Abort ==
    /\ verdict = "open"
    /\ verdict' = "aborted"
    /\ UNCHANGED <<goal, budget, attempted>>

Next == Perform \/ Refuse \/ Report \/ Complete \/ Abort

Spec == Init /\ [][Next]_vars
FairSpec == Spec /\ WF_vars(Next)
=============================================================================
