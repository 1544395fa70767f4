----------------------------- MODULE MCReturns -----------------------------
(* Returns on a small instance. *)
EXTENDS Returns, TLC

Symmetry == Permutations(Workers)
=============================================================================
