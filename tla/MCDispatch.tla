------------------------------ MODULE MCDispatch ------------------------------
(***************************************************************************)
(* Instances of Dispatch for TLC.  Riders are alike, and so are workers.   *)
(***************************************************************************)
EXTENDS Dispatch, TLC

Symmetry == Permutations(Riders) \cup Permutations(Slots)

=============================================================================
