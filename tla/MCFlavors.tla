------------------------------ MODULE MCFlavors ------------------------------
(***************************************************************************)
(* Model checking of the flavors: Urcu (liburcu, liburcu-mb and            *)
(* liburcu-signal), liburcu-qsbr and liburcu-bp.  A process is linked with *)
(* one of them; the state of the others stays what it is initially.        *)
(***************************************************************************)
EXTENDS Urcu, Qsbr, UrcuBp, TLC

VARIABLE linked     \* the library that the process is linked with

flavorsvars == <<linked, vars, qvars, bvars>>

MCInit ==
    /\ linked \in {"urcu", "qsbr", "bp"}
    /\ Init /\ QsbrInit /\ BpInit
    /\ linked # "urcu" => flavor = CHOOSE f \in Flavors : TRUE
    /\ linked # "qsbr" => qbits = CHOOSE n \in QBits : TRUE

MCNext ==
    \/ linked = "urcu" /\ Next     /\ UNCHANGED <<linked, qvars, bvars>>
    \/ linked = "qsbr" /\ QsbrNext /\ UNCHANGED <<linked, vars, bvars>>
    \/ linked = "bp"   /\ BpNext   /\ UNCHANGED <<linked, vars, qvars>>

MCSpec == MCInit /\ [][MCNext]_flavorsvars

(* The threads are the same set in all of them.                            *)
MCSymmetry == Permutations(QThreads)

=============================================================================
