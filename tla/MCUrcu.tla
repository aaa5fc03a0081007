------------------------------- MODULE MCUrcu --------------------------------
(* Model checking of Urcu.                                                 *)
EXTENDS Urcu

(* Readers nest their sections in the flavor with real barriers; those of  *)
(* the others do not, to keep the instance small.                          *)
NestsInMb == flavor # "mb" => \A r \in Readers : View(r).nest <= 1

MCFairSpec == Init /\ [][Next /\ NestsInMb']_vars /\ Fairness

=============================================================================
