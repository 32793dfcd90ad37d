----------------------------- MODULE MCPayments -----------------------------
(* Payments on the instances that TLC checks. *)
EXTENDS Payments, TLC

\* Rows, keys, events and slots are interchangeable.
Symmetry ==
    Permutations(Payments) \cup Permutations(Keys) \cup Permutations(Events)
        \cup Permutations(Calls)

=============================================================================
