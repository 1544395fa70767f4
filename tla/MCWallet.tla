------------------------------ MODULE MCWallet ------------------------------
(* WalletService on a small instance. *)
EXTENDS WalletService, TLC

\* Workers, references and requests are interchangeable for safety.
Symmetry == Permutations(Workers) \cup Permutations(Refs) \cup Permutations(Withdrawals)
=============================================================================
