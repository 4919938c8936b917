----------------------------- MODULE MCSimulator -----------------------------
(* Small instances of Simulator for TLC. *)
EXTENDS Simulator
==============================================================================
