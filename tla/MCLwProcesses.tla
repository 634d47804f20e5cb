---------------------------- MODULE MCLwProcesses ----------------------------
(* LwProcesses on a small instance. *)
EXTENDS LwProcesses
=============================================================================
