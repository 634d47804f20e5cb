------------------------------ MODULE MCAtRun -------------------------------
(* AtRun on a small instance. *)
EXTENDS AtRun

Plain == <<"check">>
Twice == <<"check", "rebootif", "mention", "check">>
Once == <<"cmd", "reboot", "cmd">>

MCProjects == {<<Plain, Plain>>, <<Plain, Twice, Plain>>, <<Twice, Once>>}
MCLossAt == Steps \ {"mark", "await", "advance"}
=============================================================================
