----------------------------- MODULE MCMultilock -----------------------------
(* The instance of Multilock for TLC. *)
EXTENDS Multilock
===============================================================================
