----------------------------- MODULE MCStraceView -----------------------------
(* A small instance of StraceView for TLC.                                 *)
EXTENDS StraceView
================================================================================
