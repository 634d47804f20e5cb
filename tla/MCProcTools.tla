----------------------------- MODULE MCProcTools ------------------------------
(* A small instance of ProcTools for TLC.                                  *)
EXTENDS ProcTools
================================================================================
