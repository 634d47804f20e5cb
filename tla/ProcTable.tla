------------------------------- MODULE ProcTable -------------------------------
(***************************************************************************)
(* The kernel's table of processes as pps, procview and testforge meet it: *)
(* a process that has ended keeps its number until its parent has waited,  *)
(* and then the number may be given to another process.  The time of its   *)
(* start tells a process from earlier ones of its number.                  *)
(* External: how src/ uses it is all that is modelled.                     *)
(***************************************************************************)
EXTENDS Integers, Sequences, SequencesExt, FiniteSets, FiniteSetsExt

CONSTANTS
    Pids,       \* process numbers
    MaxBirths,  \* processes started, the first one included
    Forge       \* testforge, as a parent

ASSUME ProcTableAssumption ==
    Pids \subseteq Nat \ {0} /\ IsFiniteSet(Pids) /\ MaxBirths \in Nat \ {0} /\ Forge \notin Pids \cup {0}

VARIABLES
    table,   \* the process with each number
    births   \* processes started so far: the clock of start times

procTable == <<table, births>>

Nobody == [start |-> 0, up |-> FALSE, parent |-> 0]
There(p) == table[p].start # 0
Present == {p \in Pids : There(p)}
Who(p) == [pid |-> p, start |-> table[p].start]
NoOne == [pid |-> 0, start |-> 0]

Started(p, parent) == [table EXCEPT ![p] = [start |-> births + 1, up |-> TRUE, parent |-> parent]]
Orphaned(t, parent) == [p \in Pids |-> IF t[p].parent = parent THEN [t[p] EXCEPT !.parent = 0] ELSE t[p]]
Ended(p) == Orphaned([table EXCEPT ![p].up = FALSE], p)

Fork ==
    /\ births < MaxBirths
    /\ \E p \in Pids \ Present, parent \in {0} \cup {q \in Present : table[q].up} : table' = Started(p, parent)
    /\ births' = births + 1

Exit == \E p \in Present : table[p].up /\ table' = Ended(p) /\ UNCHANGED births

Reap ==
    \E p \in Present :
       /\ ~table[p].up /\ table[p].parent # Forge
       /\ table' = [table EXCEPT ![p] = Nobody] /\ UNCHANGED births

(* A signal to the process that started then, or to whoever has the number *)
(* (start 0).  Some signals end a process, others do not.                  *)
Hit(p, start) == p \in Present /\ (start = 0 \/ table[p].start = start)
Signal(p, start) ==
    /\ table' \in {table} \cup (IF Hit(p, start) THEN {Ended(p)} ELSE {})
    /\ UNCHANGED births

TableInit ==
    /\ table = [p \in Pids |-> IF p = Min(Pids) THEN [start |-> 1, up |-> TRUE, parent |-> 0] ELSE Nobody]
    /\ births = 1
================================================================================
