--------------------------- MODULE MCDocumentSigning ---------------------------
(* Model-checking instance of DocumentSigning. *)
EXTENDS DocumentSigning, TLC

\* Requests are interchangeable; used with invariants and [][A]_vars only.
Symmetry == Permutations(Requests)
=============================================================================
