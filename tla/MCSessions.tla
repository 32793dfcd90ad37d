------------------------------ MODULE MCSessions ------------------------------
(***************************************************************************)
(* Instances of Sessions for TLC.                                          *)
(***************************************************************************)
EXTENDS Sessions, TLC

\* A session that was overwritten promises nothing: it is not followed further.
AllIntact == overwritten = {}

Symmetry == Permutations(Calls)

=============================================================================
