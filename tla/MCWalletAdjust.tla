--------------------------- MODULE MCWalletAdjust ---------------------------
(* WalletAdjust on a small instance. *)
EXTENDS WalletAdjust, TLC

Symmetry == Permutations(Workers) \cup Permutations(Refs)
=============================================================================
