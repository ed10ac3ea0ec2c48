----------------------------- MODULE MCDispatcher -----------------------------
(* Instances of Dispatcher small enough for TLC. *)
EXTENDS Dispatcher, TLC

ThreadSymmetry == Permutations(Threads)
=============================================================================
