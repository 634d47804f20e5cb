------------------------------- MODULE PpsPicker -------------------------------
(***************************************************************************)
(* pps's screen: a snapshot of processes, loaded row by row as they come   *)
(* into view, of which the user picks one or signals one while processes   *)
(* end and their numbers are given again.  A started individual is told by *)
(* its start_ticks.  A key that moves leads to any row; the columns, the   *)
(* help and scrolling sideways are left out.  MaxKeys bounds the keys.     *)
(***************************************************************************)
EXTENDS ProcTable

CONSTANTS PageSize, MaxKeys
ASSUME PpsAssumption == PageSize \in Nat \ {0} /\ MaxKeys \in Nat

VARIABLE
    pps     \* the UI record, and where send_ui_signal has come to

(* process_cmp, sort_list: by number, or by something that changes.        *)
Orders(rows, sort) ==
    {l \in SetToSeqs(rows) : sort = "pid" => \A i, j \in DOMAIN l : i < j => l[i].pid < l[j].pid}
(* find_pid: a list has each number once. *)
FindPid(list, pid) ==
    IF \E i \in DOMAIN list : list[i].pid = pid THEN CHOOSE i \in DOMAIN list : list[i].pid = pid ELSE 0
SelectedPid(u) == IF u.list = <<>> THEN 0 ELSE u.list[u.at].pid

(* A list that took the place of another, or lost some of its rows.        *)
Reselect(u, list) ==
    LET at == FindPid(list, SelectedPid(u))
    IN  [u EXCEPT !.list = list, !.at = IF at # 0 THEN at ELSE Min({Max({u.at, 1}), Len(list)})]

(* keep_visible.                                                           *)
KeepVisible(u) ==
    [u EXCEPT !.top = IF u.at = 0 THEN 1 ELSE IF u.at < @ THEN u.at
                      ELSE IF u.at >= @ + u.page THEN u.at - u.page + 1 ELSE @]
Page(u) == {i \in DOMAIN u.list : i >= u.top /\ i < u.top + u.page}
Forget(u) == [u EXCEPT !.shown = NoOne, !.want = NoOne, !.pidfd = 0]     \* what is no longer on the screen or in use
To(stage, u) == pps' = [KeepVisible(IF stage \in {"draw", "refresh", "chosen"} THEN Forget(u) ELSE u) EXCEPT !.stage = stage]

(* materialize_process and materialize_metadata: what was started after    *)
(* the snapshot, or is not the one already known, is not loaded.  LoadAll  *)
(* has one member, the rows that are left in their order.                  *)
Loadable(u, row) ==
    /\ There(row.pid) /\ table[row.pid].start <= u.snapshot
    /\ row.start # 0 => table[row.pid].start = row.start
Loaded(row, drawn) == [row EXCEPT !.start = table[row.pid].start, !.row = @ \/ drawn]
LoadAll(u, list, drawn) ==
    LET Has(row) == row.row \/ (row.start # 0 /\ ~drawn)
        kept == {i \in DOMAIN list : Has(list[i]) \/ Loadable(u, list[i])}
        sorted == {s \in SetToSeqs(kept) : \A i, j \in DOMAIN s : i < j => s[i] < s[j]}
    IN  {[i \in DOMAIN s |-> IF Has(list[s[i]]) THEN list[s[i]] ELSE Loaded(list[s[i]], drawn)] : s \in sorted}

(***************************************************************************)
(* The list.                                                               *)
(***************************************************************************)
(* scan_pids, or scan_processes with a filter that some processes match.   *)
Scanned(u) ==
    IF u.lazy THEN {[pid |-> p, start |-> IF u.sort = "pid" THEN 0 ELSE table[p].start, row |-> FALSE] : p \in Present}
    ELSE {[pid |-> p, start |-> table[p].start, row |-> TRUE] : p \in Present}
Lists(u) == UNION {Orders(rows, u.sort) : rows \in IF u.lazy THEN {Scanned(u)} ELSE SUBSET Scanned(u)}

RefreshUi ==
    /\ pps.stage = "refresh"
    /\ \E l \in Lists(pps) : To("draw", [Reselect(pps, l) EXCEPT !.snapshot = births])
    /\ UNCHANGED procTable

(* ui_draw: the rows on the page are loaded one after the other, and those *)
(* that cannot be are removed.                                             *)
Removed(u, i) ==
    LET list == RemoveAt(u.list, i)
        at == IF u.at > i THEN u.at - 1 ELSE u.at
    IN  [u EXCEPT !.list = list, !.at = Min({at, Len(list)}), !.top = IF @ > i THEN @ - 1 ELSE @]
LoadRow ==
    /\ pps.stage \in {"draw", "draw_question"}
    /\ \E i \in Page(pps) :
          /\ ~pps.list[i].row /\ \A j \in Page(pps) : j < i => pps.list[j].row
          /\ To(pps.stage, IF Loadable(pps, pps.list[i]) THEN [pps EXCEPT !.list[i] = Loaded(@, TRUE)] ELSE Removed(pps, i))
    /\ UNCHANGED procTable
Drawn ==
    /\ pps.stage \in {"draw", "draw_question"} /\ \A i \in Page(pps) : pps.list[i].row
    /\ IF pps.stage = "draw_question" THEN To("question", pps)
       ELSE To("key", [pps EXCEPT !.shown = IF pps.list = <<>> THEN NoOne ELSE [pid |-> pps.list[pps.at].pid, start |-> pps.list[pps.at].start]])
    /\ UNCHANGED procTable

(***************************************************************************)
(* Keys.                                                                   *)
(***************************************************************************)
Pressed(stage, u) == pps.stage = "key" /\ pps.keys < MaxKeys /\ To(stage, [u EXCEPT !.keys = @ + 1]) /\ UNCHANGED procTable
Move == \E i \in DOMAIN pps.list : Pressed("draw", [pps EXCEPT !.at = i])
Refresh == Pressed("refresh", pps)
Resize == \E page \in 1..PageSize : Pressed("draw", [pps EXCEPT !.page = page])

(* search_move: every row is loaded, and one of them is found.             *)
SearchMove ==
    /\ pps.list # <<>>
    /\ \E list \in IF pps.lazy THEN LoadAll(pps, pps.list, TRUE) ELSE {pps.list} :
          LET u == Reselect(pps, list)
          IN  IF list = <<>> THEN Pressed("draw", u) ELSE \E i \in DOMAIN list : Pressed("draw", [u EXCEPT !.at = i])

SortMenu ==
    \E sort \in {"pid", "other"} :
       \E list \in IF pps.lazy /\ sort # "pid" THEN LoadAll(pps, pps.list, FALSE) ELSE {pps.list} :
          \E l \in Orders(Range(list), sort) \cup {Reverse(o) : o \in Orders(Range(list), sort)} :
             Pressed("draw", Reselect([pps EXCEPT !.sort = sort], l))

(* Enter and P.                                                            *)
SameProcess(row) == row.row /\ There(row.pid) /\ table[row.pid].start = row.start
Choose ==
    /\ pps.list # <<>>
    /\ Pressed(IF SameProcess(pps.list[pps.at]) THEN "chosen" ELSE "refresh", pps)

(***************************************************************************)
(* send_ui_signal and signal_selected_process.                             *)
(***************************************************************************)
AskSignal ==
    /\ pps.list # <<>>
    /\ \E page \in 1..PageSize :
          Pressed("draw_question", [pps EXCEPT !.want = [pid |-> pps.list[pps.at].pid, start |-> pps.list[pps.at].start],
                                               !.page = page])

AnswerSignal ==
    /\ pps.stage = "question"
    /\ LET at == FindPid(pps.list, pps.want.pid)
       IN  \/ To("draw", pps)
           \/ To(IF at = 0 \/ pps.list[at].start # pps.want.start THEN "refresh" ELSE IF pps.pidfds THEN "open" ELSE "check", pps)
    /\ UNCHANGED procTable

OpenPidfd ==
    /\ pps.stage = "open"
    /\ IF There(pps.want.pid) THEN To("check", [pps EXCEPT !.pidfd = table[pps.want.pid].start]) ELSE To("refresh", pps)
    /\ UNCHANGED procTable

CheckSame ==
    /\ pps.stage = "check"
    /\ LET at == FindPid(pps.list, pps.want.pid)
       IN  To(IF SameProcess(pps.list[at]) THEN "send" ELSE "refresh", pps)
    /\ UNCHANGED procTable

(* A fault: the number is used although there is a pidfd.                  *)
SendByPid ==
    /\ pps.stage = "send"
    /\ Signal(pps.want.pid, 0)
    /\ To("refresh", pps)

(* pidfd_send_signal reaches one individual, kill whoever has the number.  *)
Send ==
    /\ pps.stage = "send"
    /\ Signal(pps.want.pid, IF pps.pidfds THEN pps.pidfd ELSE 0)
    /\ To("refresh", pps)

(***************************************************************************)
(* pps TARGET --kill: the process with a number, or the only one that a    *)
(* text matches.  Nobody is asked, and only the number is kept.            *)
(***************************************************************************)
Target ==
    /\ pps.stage = "target"
    /\ \E p \in Pids : To("perform", [pps EXCEPT !.shown = Who(p), !.want = Who(p)])
    /\ UNCHANGED procTable
FindTarget ==
    /\ pps.stage = "perform"
    /\ To(IF There(pps.want.pid) THEN "kill" ELSE "chosen", pps)
    /\ UNCHANGED procTable
KillTarget ==
    /\ pps.stage = "kill"
    /\ Signal(pps.want.pid, 0)
    /\ To("chosen", pps)
CommandLine == Target \/ FindTarget \/ KillTarget

(***************************************************************************)
(* A session begins with a snapshot, a signal by command with its target.  *)
(***************************************************************************)
PpsInit ==
    /\ \E lazy, pidfds \in BOOLEAN, stage \in {"refresh", "target"} :
          pps = [stage |-> stage, lazy |-> lazy, pidfds |-> pidfds, list |-> <<>>, at |-> 0, top |-> 1, page |-> PageSize,
                 snapshot |-> 0, sort |-> "pid", shown |-> NoOne, want |-> NoOne, pidfd |-> 0, keys |-> 0]
PpsNext == \/ RefreshUi \/ LoadRow \/ Drawn \/ Move \/ Refresh \/ Resize \/ SearchMove \/ SortMenu \/ Choose
           \/ AskSignal \/ AnswerSignal \/ OpenPidfd \/ CheckSame \/ Send \/ CommandLine
================================================================================
