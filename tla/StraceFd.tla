------------------------------ MODULE StraceFd ------------------------------
(***************************************************************************)
(* How strace-src follows file descriptors (src/strace-src/fd_tracker.c).  *)
(* Traced processes, each of one thread, open, duplicate and close         *)
(* descriptors, fork and exec; strace writes a line per system call, or    *)
(* two when another process cuts in before the call has returned; and      *)
(* fd_analysis_build replays the lines to tell which object each number    *)
(* stands for.                                                             *)
(***************************************************************************)
EXTENDS Naturals, Sequences, FiniteSets, SequencesExt

CONSTANTS Procs,      \* processes, by PID
          Root,       \* the process that is traced from its start
          None,       \* no process, no object, no table
          MaxFd,      \* bound: descriptors are 0..MaxFd, 0 is open from the start
          MaxCalls    \* bound: system calls

ASSUME TraceAssumption ==
  /\ Root \in Procs /\ None \notin Procs \cup Nat
  /\ MaxFd \in Nat /\ MaxCalls \in Nat

Fds == 0..MaxFd
Inherited == 0           \* the object behind a descriptor opened before the trace
Lines == 1..(2 * MaxCalls)

VARIABLES
  (* the kernel *)
  alive,     \* processes that have been created
  fds,       \* fds[p][n]: the object that descriptor n of p stands for
  cloexec,   \* cloexec[p]: the descriptors marked close-on-exec
  call,      \* call[p]: the system call p is in
  objects,   \* objects opened so far
  calls,     \* calls so far
  (* strace *)
  line,      \* the process whose line has been begun and not ended
  log,       \* the lines written
  (* what an observer knows *)
  doubt      \* doubt[p]: descriptors whose last change the lines do not tell

vars == <<alive, fds, cloexec, call, objects, calls, line, log, doubt>>

-----------------------------------------------------------------------------
(* The tracker *)

(* What a line tells.  A line cut short has the arguments, the one that     *)
(* resumes it the result; pipe prints its descriptors when it returns.      *)
Whole(p)   == call[p] @@ [pid |-> p, phase |-> "whole"]
Begun(p)   == [call[p] EXCEPT !.ok = FALSE] @@ [pid |-> p, phase |-> "begun"]
Resumed(p) ==
  LET c == call[p]
  IN  (IF c.name = "pipe" THEN c ELSE [c EXCEPT !.fd = None, !.flag = FALSE])
        @@ [pid |-> p, phase |-> "resumed"]

HasArguments(l) == l.phase # "resumed"     \* argument_fd
HasResult(l)    == l.phase # "begun"       \* result_value

Empty == [n \in Fds |-> None]

(* collect_parents, and get_table: a table is made when a process is first  *)
(* met, as a copy of what its parent's is then.                             *)
ParentOf(lines, p) ==
  LET forks == {i \in DOMAIN lines : /\ lines[i].name = "fork" /\ HasResult(lines[i])
                                     /\ lines[i].child = p}
  IN  IF forks = {} THEN None
      ELSE lines[CHOOSE i \in forks : \A j \in forks : i <= j].pid

GetTable(lines, tables, p) ==
  LET parent == ParentOf(lines, p)
  IN  IF tables[p] # None THEN tables
      ELSE [tables EXCEPT ![p] = IF parent = None \/ tables[parent] = None
                                 THEN Empty ELSE tables[parent]]

(* mutant: the child's table is left to be made when the child is met *)
CopyToChildLater(lines, tables, child) == tables
CopyToChild(lines, tables, child) == GetTable(lines, tables, child)

(* mutant: the entry stays, without an object *)
RemoveBindingHalf(table, n) ==
  IF table[n] = None THEN table ELSE [table EXCEPT ![n] = [@ EXCEPT !.object = None]]
RemoveBinding(table, n) == [table EXCEPT ![n] = None]

SetBinding(table, n, object, creator, marked) ==
  [table EXCEPT ![n] = [object |-> object, creator |-> creator, cloexec |-> marked]]

NoInfo == [object |-> None, jump |-> None, openAfter |-> FALSE]
SourceInfo(b) == [object |-> b.object, jump |-> b.creator, openAfter |-> TRUE]

(* mutant: primary_ref is left unset *)
DupInfoUnnamed(table, l) == [SourceInfo(table[l.fd]) EXCEPT !.object = None]
DupInfo(table, l) == SourceInfo(table[l.fd])

(* One line of fd_analysis_build: the process's table after it, and what is *)
(* known of the event.  open stands for open, socket and accept; dup for    *)
(* dup, dup2, dup3 and F_DUPFD; read for every call on a descriptor.        *)
OpenLine(table, l, i) ==
  [table |-> SetBinding(RemoveBinding(table, l.to), l.to, i, i, l.flag),
   info  |-> [object |-> i, jump |-> None, openAfter |-> TRUE]]

PipeLine(table, l, i) ==
  LET cleared == RemoveBinding(RemoveBinding(table, l.fd), l.to)
  IN  [table |-> SetBinding(SetBinding(cleared, l.fd, i, i, l.flag), l.to, i, i, l.flag),
       info  |-> [object |-> i, jump |-> None, openAfter |-> TRUE]]

DupLine(table, l, i) ==
  LET source == table[l.fd]
  IN  [table |-> SetBinding(RemoveBinding(table, l.to), l.to, source.object, i, l.flag),
       info  |-> DupInfo(table, l)]

SetFdLine(table, l) ==
  [table |-> [table EXCEPT ![l.fd] = [@ EXCEPT !.cloexec = l.flag]],
   info  |-> SourceInfo(table[l.fd])]

ExecLine(table) ==
  [table |-> [n \in Fds |-> IF table[n] # None /\ table[n].cloexec
                            THEN None ELSE table[n]],
   info  |-> NoInfo]

UseLine(table, l) ==
  LET closed == l.name = "close" /\ HasResult(l) /\ l.ok
  IN  [table |-> IF closed THEN RemoveBinding(table, l.fd) ELSE table,
       info  |-> [SourceInfo(table[l.fd]) EXCEPT !.openAfter = ~closed]]

Line(table, l, i) ==
  LET known == HasArguments(l) /\ l.fd # None /\ table[l.fd] # None
  IN  CASE l.name = "open" /\ HasResult(l)                 -> OpenLine(table, l, i)
        [] l.name = "pipe" /\ HasResult(l)                 -> PipeLine(table, l, i)
        [] l.name = "exec" /\ HasResult(l)                 -> ExecLine(table)
        [] l.name = "dup" /\ known /\ HasResult(l)         -> DupLine(table, l, i)
        [] l.name = "setfd" /\ known /\ HasResult(l)       -> SetFdLine(table, l)
        [] l.name = "setfd" /\ known /\ ~HasResult(l)      ->
             [table |-> table,
              info  |-> [NoInfo EXCEPT !.object = table[l.fd].object]]
        [] l.name \in {"read", "close"} /\ known           -> UseLine(table, l)
        [] OTHER                                           -> [table |-> table, info |-> NoInfo]

(* fd_analysis_build, anew for all the lines there are. *)
Analysis(lines) ==
  LET Step(a, i) ==
        LET l       == lines[i]
            tables  == GetTable(lines, a.tables, l.pid)
            outcome == Line(tables[l.pid], l, i)
            after   == [tables EXCEPT ![l.pid] = outcome.table]
        IN  [tables |-> IF l.name = "fork" /\ HasResult(l)
                        THEN CopyToChild(lines, after, l.child) ELSE after,
             info   |-> Append(a.info, outcome.info)]
  IN  FoldLeftDomain(Step, [tables |-> [p \in Procs |-> None], info |-> <<>>], lines)

-----------------------------------------------------------------------------
(* The traced processes and strace *)

Init ==
  /\ alive = {Root}
  /\ fds = [p \in Procs |-> [n \in Fds |-> IF p = Root /\ n = 0 THEN Inherited ELSE None]]
  /\ cloexec = [p \in Procs |-> {}]
  /\ call = [p \in Procs |-> None]
  /\ objects = 0 /\ calls = 0
  /\ line = None /\ log = <<>>
  /\ doubt = [p \in Procs |-> {}]

Free(p) == {n \in Fds : fds[p][n] = None}
Lowest(S) == CHOOSE n \in S : \A m \in S : n <= m

(* strace ends the line it has begun for another process. *)
CutShort(p) == IF line \in {None, p} THEN <<>> ELSE <<Begun(line)>>

(* A system call is entered and takes effect.  With tables of their own,    *)
(* what processes do between entry and effect cannot be told apart.         *)
Enter(p, c) ==
  /\ p \in alive /\ call[p] = None /\ calls < MaxCalls
  /\ calls' = calls + 1
  /\ call' = [call EXCEPT ![p] = c]
  /\ log' = log \o CutShort(p)
  /\ line' = p

Syscall(name, fd, to, flag, truth) ==
  [name |-> name, fd |-> fd, to |-> to, flag |-> flag, ok |-> TRUE, child |-> None,
   truth |-> truth]

Marked(S, n, flag) == IF flag THEN S \cup {n} ELSE S \ {n}

Open(p, flag) ==
  /\ Free(p) # {}
  /\ LET n == Lowest(Free(p))
     IN  /\ Enter(p, Syscall("open", None, n, flag, objects + 1))
         /\ fds' = [fds EXCEPT ![p][n] = objects + 1]
         /\ cloexec' = [cloexec EXCEPT ![p] = Marked(@, n, flag)]
  /\ objects' = objects + 1
  /\ UNCHANGED <<alive, doubt>>

Pipe(p, flag) ==
  /\ Cardinality(Free(p)) >= 2
  /\ LET n == Lowest(Free(p))
         m == Lowest(Free(p) \ {n})
     IN  /\ Enter(p, Syscall("pipe", n, m, flag, objects + 1))
         /\ fds' = [fds EXCEPT ![p][n] = objects + 1, ![p][m] = objects + 1]
         /\ cloexec' = [cloexec EXCEPT ![p] = Marked(Marked(@, n, flag), m, flag)]
  /\ objects' = objects + 1
  /\ UNCHANGED <<alive, doubt>>

(* dup2(n, n) does nothing, and dup3(n, n) is refused. *)
Dup(p, n, m, flag) ==
  /\ fds[p][n] # None /\ (n = m => ~flag)
  /\ Enter(p, Syscall("dup", n, m, flag, fds[p][n]))
  /\ fds' = [fds EXCEPT ![p][m] = fds[p][n]]
  /\ cloexec' = IF n = m THEN cloexec ELSE [cloexec EXCEPT ![p] = Marked(@, m, flag)]
  /\ UNCHANGED <<alive, objects, doubt>>

Close(p, n) ==
  /\ fds[p][n] # None
  /\ Enter(p, Syscall("close", n, None, FALSE, fds[p][n]))
  /\ fds' = [fds EXCEPT ![p][n] = None]
  /\ cloexec' = [cloexec EXCEPT ![p] = @ \ {n}]
  /\ UNCHANGED <<alive, objects, doubt>>

SetFd(p, n, flag) ==
  /\ fds[p][n] # None
  /\ Enter(p, Syscall("setfd", n, None, flag, fds[p][n]))
  /\ cloexec' = [cloexec EXCEPT ![p] = Marked(@, n, flag)]
  /\ UNCHANGED <<alive, fds, objects, doubt>>

(* A read of a descriptor that is not open fails. *)
Read(p, n) ==
  /\ Enter(p, [Syscall("read", n, None, FALSE, fds[p][n]) EXCEPT !.ok = fds[p][n] # None])
  /\ UNCHANGED <<alive, fds, cloexec, objects, doubt>>

Fork(p, child) ==
  /\ child \notin alive
  /\ Enter(p, [Syscall("fork", None, None, FALSE, None) EXCEPT !.child = child])
  /\ alive' = alive \cup {child}
  /\ fds' = [fds EXCEPT ![child] = fds[p]]
  /\ cloexec' = [cloexec EXCEPT ![child] = cloexec[p]]
  /\ doubt' = [doubt EXCEPT ![child] = doubt[p]]
  /\ UNCHANGED objects

Exec(p) ==
  /\ Enter(p, Syscall("exec", None, None, FALSE, None))
  /\ fds' = [fds EXCEPT ![p] = [n \in Fds |-> IF n \in cloexec[p] THEN None ELSE @[n]]]
  /\ cloexec' = [cloexec EXCEPT ![p] = {}]
  /\ UNCHANGED <<alive, objects, doubt>>

(* What the lines of a call leave untold: the flag of an open that was cut  *)
(* short; what a close, a dup or a change of flags did if it was; a         *)
(* duplicate of a descriptor that is itself unknown; that dup2(n, n) keeps  *)
(* the flag.                                                                *)
Doubt(p, c, cut) ==
  CASE c.name = "open"  -> IF cut /\ c.flag THEN doubt[p] \cup {c.to} ELSE doubt[p] \ {c.to}
    [] c.name = "pipe"  -> doubt[p] \ {c.fd, c.to}
    [] c.name = "close" -> IF cut THEN doubt[p] \cup {c.fd} ELSE doubt[p] \ {c.fd}
    [] c.name = "setfd" -> IF cut THEN doubt[p] \cup {c.fd} ELSE doubt[p]
    [] c.name = "dup"   -> IF \/ cut \/ c.fd \in doubt[p] \/ c.truth = Inherited
                              \/ c.fd = c.to /\ c.fd \in cloexec[p]
                           THEN doubt[p] \cup {c.to} ELSE doubt[p] \ {c.to}
    [] OTHER            -> doubt[p]

(* The call returns: its line is ended, or resumed. *)
Return(p) ==
  /\ call[p] # None
  /\ call' = [call EXCEPT ![p] = None]
  /\ log' = log \o CutShort(p) \o <<IF line = p THEN Whole(p) ELSE Resumed(p)>>
  /\ line' = None
  /\ doubt' = [doubt EXCEPT ![p] = Doubt(p, call[p], line # p)]
  /\ UNCHANGED <<alive, fds, cloexec, objects, calls>>

Step(p) ==
  \/ \E flag \in BOOLEAN : Open(p, flag) \/ Pipe(p, flag)
  \/ \E n \in Fds : Close(p, n) \/ Read(p, n)
  \/ \E n \in Fds, flag \in BOOLEAN :
       SetFd(p, n, flag) \/ \E m \in Fds : Dup(p, n, m, flag)
  \/ \E child \in Procs : Fork(p, child)
  \/ Exec(p)
  \/ Return(p)

Next == \E p \in Procs : Step(p)

Spec == Init /\ [][Next]_vars

-----------------------------------------------------------------------------
(* Properties *)

Bindings == {None} \cup [object : Lines, creator : Lines, cloexec : BOOLEAN]

(* The types of the variables and of the tracker's tables. *)
TypeOK ==
  /\ alive \in SUBSET Procs
  /\ fds \in [Procs -> [Fds -> 0..objects \cup {None}]]
  /\ cloexec \in [Procs -> SUBSET Fds] /\ doubt \in [Procs -> SUBSET Fds]
  /\ objects \in 0..MaxCalls /\ calls \in 0..MaxCalls
  /\ line \in Procs \cup {None} /\ (line # None => call[line] # None)
  /\ Len(log) <= 2 * MaxCalls
  /\ \A p \in Procs : LET table == Analysis(log).tables[p]
                      IN  table = None \/ table \in [Fds -> Bindings]

(* The fork that made p is in the log with its result. *)
Known(p) == p = Root \/ ParentOf(log, p) # None

(* Between its system calls, and except for the descriptors whose last      *)
(* change the lines leave untold, the tracker has for a process the         *)
(* descriptors the kernel has, each with the object it stands for and its   *)
(* close-on-exec flag, through every fork, exec, duplication and re-use of  *)
(* a number (fd_analysis_build; README: re-used numbers are new objects,    *)
(* forks inherit, exec discards).                                           *)
Agreement ==
  LET a == Analysis(log)
  IN  \A p \in alive :
        (Known(p) /\ call[p] = None /\ a.tables[p] # None) =>
          \A n \in Fds \ doubt[p] :
            LET b == a.tables[p][n]
            IN  IF fds[p][n] \in {None, Inherited} THEN b = None
                ELSE /\ b # None /\ log[b.object].truth = fds[p][n]
                     /\ b.cloexec = (n \in cloexec[p])

(* A jump to the creator leads to an earlier event of the same object, and  *)
(* jumps end at the event that opened it, even where lines are cut short    *)
(* (README: o follows one creator at a time and reaches the original open). *)
JumpReachesOrigin ==
  LET info == Analysis(log).info
  IN  \A i \in DOMAIN log :
        /\ info[i].jump # None =>
             info[i].jump < i /\ info[info[i].jump].object = info[i].object
        /\ (info[i].jump = None /\ info[i].object # None) =>
             \/ info[i].object = i
             \/ log[i].name = "setfd" /\ log[i].phase = "begun"

(* A successful call on a descriptor is attributed to the object the        *)
(* descriptor stands for (README: FD numbers from the same open are         *)
(* highlighted).                                                            *)
AttributedTruly ==
  LET info == Analysis(log).info
  IN  \A i \in DOMAIN log :
        (log[i].name = "read" /\ log[i].phase = "whole" /\ log[i].ok
           /\ info[i].object # None) => log[info[i].object].truth = log[i].truth
=============================================================================
