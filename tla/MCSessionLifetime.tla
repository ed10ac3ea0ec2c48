-------------------------- MODULE MCSessionLifetime --------------------------
(* Instances of SessionLifetime small enough for TLC. *)
EXTENDS LifetimeInvariant, TLC

(* Sessions are interchangeable, and so are the instances no person started. *)
SessionSymmetry == Permutations(Sessions) \cup Permutations(Instances \ Human)
=============================================================================
