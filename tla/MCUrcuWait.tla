----------------------------- MODULE MCUrcuWait ------------------------------
(* Model checking of UrcuWait.                                             *)
EXTENDS UrcuWait, TLC

=============================================================================
