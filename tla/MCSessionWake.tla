---------------------------- MODULE MCSessionWake ----------------------------
(* Instances of SessionWake small enough for TLC. *)
EXTENDS SessionWake
=============================================================================
