----------------------------- MODULE MCWorkerLoop -----------------------------
(* A small instance of WorkerLoop for TLC. *)
EXTENDS WorkerLoop
==============================================================================
