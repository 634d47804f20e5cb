------------------------------- MODULE ProcView -------------------------------
(***************************************************************************)
(* procview's screen: a snapshot of the processes taken anew every second, *)
(* shown as a list and, for the selected one, as its ancestors and         *)
(* descendants.  Both selections are positions, and the tree's rows are    *)
(* positions in the snapshot; so a refresh may move either selection to    *)
(* another process, and when the tree is built again its old row is looked *)
(* up in the new snapshot, perhaps past its end.  A signal is sent after a *)
(* question during which nothing is refreshed.                             *)
(* Positions count from 1.  MaxViewKeys bounds keys and refreshes.         *)
(***************************************************************************)
EXTENDS ProcTable, Functions

CONSTANT MaxViewKeys
ASSUME ViewAssumption == MaxViewKeys \in Nat

VARIABLE
    view     \* the App record

Position(procs, pid) ==
    LET at == {i \in DOMAIN procs : procs[i].pid = pid} IN IF at = {} THEN 0 ELSE Min(at)

(* append_tree_descendants: a process, its children and theirs.            *)
Subtree(procs) ==
    LET Children(i) == SelectSeq([j \in DOMAIN procs |-> j], LAMBDA j : procs[j].parent = procs[i].pid)
        Of[n \in 0..Len(procs)] ==
            [i \in DOMAIN procs |->
                IF n = 0 THEN <<i>>
                ELSE <<i>> \o FoldLeft(LAMBDA rows, j : rows \o Of[n - 1][j], <<>>, Children(i))]
    IN  Of[Len(procs)]
Chain(procs) ==
    LET Of[n \in 0..Len(procs)] ==
            [i \in DOMAIN procs |->
                LET up == Position(procs, procs[i].parent)
                IN  IF n = 0 \/ up = 0 THEN <<i>> ELSE Append(Of[n - 1][up], i)]
    IN  Of[Len(procs)]

(* active_process_index.                                                   *)
Base(v) == IF v.rows = <<>> THEN 0 ELSE v.rows[v.selected]
Active(v) == IF v.inTree /\ v.tree # <<>> THEN v.tree[v.treeSelected] ELSE Base(v)

(* build_tree_rows.  A row past the end of the snapshot reads anything.    *)
Desired(v) ==
    IF v.inTree /\ v.tree # <<>>
    THEN LET i == v.tree[v.treeSelected] IN IF i \in DOMAIN v.procs THEN {v.procs[i].pid} ELSE Pids \cup {0}
    ELSE {IF Base(v) = 0 THEN 0 ELSE v.procs[Base(v)].pid}
TreeBuilt(v, desired) ==
    LET base == Base(v)
        tree == IF base = 0 THEN <<>> ELSE Chain(v.procs)[base] \o Tail(Subtree(v.procs)[base])
        at == {r \in DOMAIN tree : v.procs[tree[r]].pid = desired}
    IN  [v EXCEPT !.tree = tree,
                  !.treeSelected = IF at # {} THEN Min(at) ELSE IF tree = <<>> THEN 1 ELSE Len(Chain(v.procs)[base])]
Built(v) == {TreeBuilt(v, desired) : desired \in Desired(v)}

(* build_rows: what the filter lets through, by number or by name.         *)
RowsOf(v) ==
    UNION {{l \in SetToSeqs(some) : v.byPid => \A i, j \in DOMAIN l : i < j => l[i] < l[j]} :
             some \in IF v.filtered THEN SUBSET DOMAIN v.procs ELSE {DOMAIN v.procs}}

(* snapshot_processes.                                                     *)
Snapshot ==
    LET pids == SetToSortSeq(Present, LAMBDA p, q : p < q)
    IN  [i \in DOMAIN pids |-> [pid |-> pids[i], start |-> table[pids[i]].start, parent |-> table[pids[i]].parent]]
Clamped(v) == [v EXCEPT !.selected = Max({1, Min({@, Len(v.rows)})})]
Refreshed ==
    UNION {Built(Clamped([view EXCEPT !.procs = Snapshot, !.rows = rows])) : rows \in RowsOf([view EXCEPT !.procs = Snapshot])}

Counted == view.count < MaxViewKeys
Step(v) == view' = [v EXCEPT !.count = @ + 1, !.stage = "draw", !.shown = NoOne] /\ UNCHANGED procTable

(* The turn of the main loop: a refresh if it is time, draw_app, a key.    *)
AutoRefresh == view.stage = "draw" /\ Counted /\ \E v \in Refreshed : Step(v)
DrawApp ==
    /\ view.stage = "draw"
    /\ view' = [view EXCEPT !.stage = "key", !.shown = IF Active(view) \in DOMAIN view.procs
                                                      THEN [pid |-> view.procs[Active(view)].pid, start |-> view.procs[Active(view)].start]
                                                      ELSE NoOne]
    /\ UNCHANGED procTable
NoKey == view.stage = "key" /\ view' = [view EXCEPT !.stage = "draw", !.shown = NoOne] /\ UNCHANGED procTable

Keyed == view.stage = "key" /\ Counted
RefreshNow == Keyed /\ \E v \in Refreshed : Step(v)
MoveProcess == Keyed /\ ~view.inTree /\ \E i \in DOMAIN view.rows : \E v \in Built([view EXCEPT !.selected = i]) : Step(v)
MoveTree == Keyed /\ view.inTree /\ \E i \in DOMAIN view.tree : Step([view EXCEPT !.treeSelected = i])
ChangePanel == Keyed /\ Step([view EXCEPT !.inTree = ~@])
EditFilter ==
    /\ Keyed
    /\ \E filtered \in BOOLEAN :
          LET u == [view EXCEPT !.filtered = filtered, !.selected = 1]
          IN  \E rows \in RowsOf(u) : \E v \in Built([u EXCEPT !.rows = rows]) : Step(v)
TreeMode ==
    /\ Keyed
    /\ LET u == [view EXCEPT !.byPid = ~@, !.selected = 1]
       IN  \E rows \in RowsOf(u) : \E v \in Built([u EXCEPT !.rows = rows]) : Step(v)

(* kill_selected: the question, and the answer.                            *)
AskKill ==
    /\ Keyed /\ Active(view) \in DOMAIN view.procs
    /\ view' = [view EXCEPT !.count = @ + 1, !.stage = "question"] /\ UNCHANGED procTable

(* A fault: the list is refreshed while the question is open.              *)
KillOfNew ==
    /\ view.stage = "question"
    /\ \E v \in Refreshed : /\ Active(v) \in DOMAIN v.procs
                            /\ Signal(v.procs[Active(v)].pid, 0)
                            /\ view' = [v EXCEPT !.stage = "draw"]

Kill ==
    /\ view.stage = "question"
    /\ Signal(view.procs[Active(view)].pid, 0)
    /\ view' = [view EXCEPT !.stage = IF Hit(view.procs[Active(view)].pid, 0) THEN "refresh" ELSE "draw", !.shown = NoOne]
Killed == view.stage = "refresh" /\ view' \in {[v EXCEPT !.stage = "draw"] : v \in Refreshed} /\ UNCHANGED procTable
Cancel == view.stage = "question" /\ view' = [view EXCEPT !.stage = "draw", !.shown = NoOne] /\ UNCHANGED procTable

ViewInit ==
    view = [stage |-> "refresh", procs |-> <<>>, rows |-> <<>>, selected |-> 1, tree |-> <<>>, treeSelected |-> 1,
            inTree |-> FALSE, filtered |-> FALSE, byPid |-> TRUE, shown |-> NoOne, count |-> 0]
ViewNext == \/ AutoRefresh \/ DrawApp \/ NoKey \/ RefreshNow \/ MoveProcess \/ MoveTree \/ ChangePanel \/ EditFilter
            \/ TreeMode \/ AskKill \/ Kill \/ Killed \/ Cancel
================================================================================
