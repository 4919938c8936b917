------------------------------- MODULE MCSystem -------------------------------
(* A small instance of System for TLC: two requests with one key. *)
EXTENDS System
==============================================================================
