------------------------------- MODULE MCBot -------------------------------
(* Instances of Bot for TLC. *)
EXTENDS Bot, TLC
=============================================================================
