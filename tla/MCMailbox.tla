------------------------------ MODULE MCMailbox ------------------------------
(* Instances of Mailbox small enough for TLC. *)
EXTENDS Mailbox
=============================================================================
