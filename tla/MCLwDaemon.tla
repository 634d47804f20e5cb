----------------------------- MODULE MCLwDaemon -----------------------------
(* LwDaemon on a small instance. *)
EXTENDS LwDaemon
=============================================================================
