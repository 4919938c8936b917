----------------------------- MODULE MCApiService -----------------------------
(* Small instances of ApiService for TLC. *)
EXTENDS ApiService
==============================================================================
