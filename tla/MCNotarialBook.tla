----------------------------- MODULE MCNotarialBook -----------------------------
(* Model-checking instance of NotarialBook. *)
EXTENDS NotarialBook, TLC

\* Requests and principals are interchangeable; used with invariants and [][A]_vars.
Symmetry == Permutations(Requests) \cup Permutations(Principals) \cup Permutations(Docs)
=============================================================================
