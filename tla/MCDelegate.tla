------------------------------ MODULE MCDelegate ------------------------------
(* Instances of Delegate for TLC. *)
EXTENDS Delegate
================================================================================
