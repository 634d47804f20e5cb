----------------------------- MODULE MCLwFiles -----------------------------
(* LwFiles on a small instance. *)
EXTENDS LwFiles
=============================================================================
