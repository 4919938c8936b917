---------------------------- MODULE MCCreateImport ----------------------------
(* Small instances of CreateImport for TLC: concurrent requests that collide  *)
(* on a key, and the two that are enough for the race of a repeated request. *)
EXTENDS CreateImport, TLC
==============================================================================
