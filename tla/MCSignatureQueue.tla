-------------------------- MODULE MCSignatureQueue --------------------------
(* Instances of SignatureQueue for TLC. *)
EXTENDS SignatureQueue, TLC

CONSTANTS u1, u2, d1, d2

\* Each document has its own user, so a card of the wrong user can be shown.
MCOwner == (d1 :> u1) @@ (d2 :> u2)

MCSharedOwner == (d1 :> u1) @@ (d2 :> u1)

\* The two users change places with their documents.
Swap == (u1 :> u2) @@ (u2 :> u1) @@ (d1 :> d2) @@ (d2 :> d1)

Symmetry == Permutations(Sessions) \cup Permutations(Signatures)
              \cup Permutations(Workers) \cup {Swap}

=============================================================================
