---------------------------- MODULE MCImportWorker ----------------------------
(* Small instances of ImportWorker for TLC. *)
EXTENDS ImportWorker
==============================================================================
