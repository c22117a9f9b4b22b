---------------------------- MODULE MCNonceStore ----------------------------
(* Instance of NonceStore for TLC. *)
EXTENDS NonceStore, TLC

Symmetry == Permutations(Workers) \cup Permutations(Messages)

=============================================================================
