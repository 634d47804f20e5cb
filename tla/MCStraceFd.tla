----------------------------- MODULE MCStraceFd -----------------------------
(* StraceFd on a small instance. *)
EXTENDS StraceFd
=============================================================================
