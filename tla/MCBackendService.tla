-------------------------- MODULE MCBackendService --------------------------
(* Small instances of the backend for TLC. *)
EXTENDS BackendService

CONSTANTS d1, d2, s1, s2, r1
=============================================================================
