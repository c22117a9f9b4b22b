---------------------------- MODULE MCLockOrder ----------------------------
\* One request is in flight; another one may be created for its document,
\* and the third is waiting.
EXTENDS LockOrder, TLC

CONSTANTS r1, r2, r3, d1, d2

MCDocumentOf == r1 :> d1 @@ r2 :> d1 @@ r3 :> d2

MCStarts ==
  {r1 :> s @@ r2 :> "absent" @@ r3 :> "PENDING" :
     s \in {"CLAIMED", "AUTHENTICATED"}}

Symmetry == Permutations(Handlers)

==============================================================================
