------------------------------ MODULE MCCommission ------------------------------
(* Model-checking instance of Commission. *)
EXTENDS Commission, TLC

\* Requests are interchangeable; used with invariants and [][A]_vars only.
Symmetry == Permutations(Requests)
=============================================================================
