----------------------------- MODULE MCConnection -----------------------------
(* Instances of Connection small enough for TLC: one session outside the   *)
(* registry, one inside.                                                   *)
EXTENDS Connection
=============================================================================
