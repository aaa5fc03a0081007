------------------------------ MODULE MCWaiting ------------------------------
(***************************************************************************)
(* Model checking of synchronize_rcu() as something that returns: the      *)
(* batching of its callers (UrcuWait), and a single caller of liburcu-qsbr *)
(* and of liburcu-bp.  A behavior is about one of them; the others stay as *)
(* they are initially.                                                     *)
(***************************************************************************)
EXTENDS UrcuWait, Qsbr, UrcuBp, TLC

VARIABLE waited     \* the one that this behavior is about

waitingvars == <<waited, vars, qvars, bvars>>

MCInit ==
    /\ waited \in {"batch", "qsbr", "bp"}
    /\ Init /\ QsbrInit /\ BpInit
    /\ waited # "qsbr" => qbits = CHOOSE n \in QBits : TRUE

MCNext ==
    \/ waited = "batch" /\ Next     /\ UNCHANGED <<waited, qvars, bvars>>
    \/ waited = "qsbr"  /\ QsbrNext /\ UNCHANGED <<waited, vars, bvars>>
    \/ waited = "bp"    /\ BpNext   /\ UNCHANGED <<waited, vars, qvars>>

MCFairSpec ==
    /\ MCInit /\ [][MCNext]_waitingvars
    /\ \/ waited = "batch" /\ Fairness
       \/ waited = "qsbr"  /\ QsbrFairness
       \/ waited = "bp"    /\ BpFairness

=============================================================================
