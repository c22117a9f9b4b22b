----------------------------- MODULE MCWebSessions -----------------------------
(* Instances of WebSessions for TLC. *)
EXTENDS WebSessions, TLC

CONSTANTS ada, bob, admin, d1

MCOwner == d1 :> ada

Symmetry == Permutations(Sessions) \cup Permutations(Workers)
===============================================================================
