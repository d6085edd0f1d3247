------------------------------- MODULE MCCertExam -------------------------------
(* Model-checking instance of CertExam. *)
EXTENDS CertExam, TLC

\* Calls are interchangeable; used with invariants and [][A]_vars only.
Symmetry == Permutations(Requests)
=============================================================================
