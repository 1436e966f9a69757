----------------------------- MODULE BudgetLease -----------------------------
(***************************************************************************)
(* What delegating a budget means: leases are granted within the grantor's *)
(* own means, a holder may use its lease while that is open and not        *)
(* overdrawn, the use that overdraws it closes it, and a closed lease is   *)
(* never used or opened again.  The grantor may close a lease early.       *)
(***************************************************************************)
EXTENDS Naturals, Sequences

CONSTANT Means

VARIABLES limit, spent, open    \* sequences, one entry per lease

vars == <<limit, spent, open>>

Init == limit = <<>> /\ spent = <<>> /\ open = <<>>

Grant ==
    /\ \E budget \in 0 .. Means : limit' = Append(limit, budget)
    /\ spent' = Append(spent, 0)
    /\ open' = Append(open, TRUE)

Use(i) ==
    /\ open[i]
    /\ spent[i] <= limit[i]
    /\ spent'[i] \in Nat /\ spent'[i] > spent[i]
    /\ spent' = [spent EXCEPT ![i] = spent'[i]]
    /\ \E still \in BOOLEAN :
           /\ still => spent'[i] <= limit[i]
           /\ open' = [open EXCEPT ![i] = still]
    /\ UNCHANGED limit

Next == Grant \/ \E i \in DOMAIN limit : Use(i)

Spec == Init /\ [][Next]_vars
=============================================================================
