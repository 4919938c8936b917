------------------------------- MODULE MCOutbox -------------------------------
(* Small instances of the outbox for TLC. The rows are numbers in created_at  *)
(* order and the runs check liveness, so no symmetry is declared.            *)
EXTENDS Outbox, TLC
==============================================================================
