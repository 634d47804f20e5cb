------------------------------- MODULE ProcTools -------------------------------
(***************************************************************************)
(* The three tools over one table of processes: testforge starts and waits *)
(* for its children while a user looks at them, and signals them, with pps *)
(* or with procview.                                                       *)
(***************************************************************************)
EXTENDS TestForge, PpsPicker, ProcView

CONSTANT MaxSteps      \* bounds the keys of both tools together
ASSUME StepsAssumption == MaxSteps \in Nat

vars == <<procTable, testForge, pps, view>>

Init == /\ TableInit /\ ForgeInit
        /\ \/ PpsInit /\ view = [stage |-> "unused"]
           \/ ViewInit /\ pps = [stage |-> "unused"]
Kernel == (Fork \/ Exit \/ Reap) /\ UNCHANGED <<testForge, pps, view>>
Steps == forge.keys + (IF pps.stage # "unused" THEN pps.keys ELSE view.count)
Next ==
    /\ \/ Kernel
       \/ ForgeNext /\ UNCHANGED <<pps, view>>
       \/ pps.stage # "unused" /\ PpsNext /\ UNCHANGED <<testForge, view>>
       \/ view.stage # "unused" /\ ViewNext /\ UNCHANGED <<testForge, pps>>
    /\ Steps' <= MaxSteps
Spec == Init /\ [][Next]_vars

(* A signal reaches the process that was drawn as the selected one when    *)
(* its key was pressed.  Only where the kernel has no pidfds, for a pps    *)
(* that is given its target by command, or for procview, whose question    *)
(* takes as long as the user thinks, may it be another one; and then one   *)
(* that has the number of that process                                     *)
(* (pps.c 384-409, 844-884 and 1116-1121, procview.c 575-629, 1205-1231).  *)
Shown == IF pps.stage # "unused" THEN pps.shown ELSE view.shown
Sure == pps.stage = "send" /\ pps.pidfds
HitsShown(p) == IF Sure THEN Who(p) = Shown ELSE p = Shown.pid
SignalHitsShown ==
    [][<<pps, view>>' # <<pps, view>> => \A p \in Pids : table[p].up /\ ~table'[p].up => HitsShown(p)]_vars
================================================================================
