---------------------------- MODULE LwProcesses ----------------------------
(***************************************************************************)
(* The process monitor of lifewatch (src/lifewatch/lifewatch.c): a daemon   *)
(* watches process individuals, each named by a PID and the start time of  *)
(* the process that had that PID when it was chosen, while processes exit, *)
(* are reaped, leave their PID to others and are sent signals whose audit  *)
(* records reach the daemon later, over a netlink socket.                   *)
(***************************************************************************)
EXTENDS Naturals, Sequences

CONSTANTS Targets,         \* the configured monitors; a target stands for its PID too
          Senders,         \* the processes that send signals
          Elsewhere,       \* the PID of a record that names no target
          Nobody,          \* no process
          SIGNAL_HISTORY,  \* the length of the daemon's ring of audit records
          MaxTicks,        \* bound: start times a PID can have in a behaviour
          MaxSignals,      \* bound: signals sent in a behaviour
          MaxFailures      \* bound: reads of /proc that fail for want of resources

ASSUME ProcessAssumption ==
  /\ Elsewhere \notin Targets
  /\ Nobody \notin Senders \cup Targets \cup {Elsewhere}
  /\ SIGNAL_HISTORY \in Nat \ {0}
  /\ MaxTicks \in Nat \ {0}
  /\ MaxSignals \in Nat
  /\ MaxFailures \in Nat

TargetTicks == 1           \* target_start_ticks of every monitor
Pids == Targets \cup {Elsewhere}
Records == [pid : Pids, sender : Senders]
Events == {"none", "missing", "exited", "restarted", "recovered"}

VARIABLES
  (* the kernel *)
  ticks,        \* ticks[t]: start time of the process that has t's PID, 0 if none has
  zombie,       \* zombie[t]: that process has exited and waits for its parent
  born,         \* born[t]: the last start time given to t's PID
  flight,       \* flight[s]: the PID s is sending a signal to, Nobody between system calls
  auditQ,       \* records in the daemon's audit socket
  sent,         \* signals sent so far
  (* the daemon *)
  pc,           \* where the daemon's loop is
  todo,         \* targets the running scan has not come to
  cur,          \* the target being scanned
  found,        \* find_process of the target being scanned: its start time, 0 if absent
  initialized,  \* ProcessState.initialized
  startTicks,   \* ProcessState.start_ticks; 0 stands for present = false
  pidfd,        \* ProcessState.pidfd: start time of the process it refers to, 0 if -1
  received,     \* the records audit_receive has taken, oldest first
  horizon,      \* records up to this one are more than five seconds old
  failures,     \* reads of /proc that have failed
  (* what an observer knows *)
  killer,       \* killer[t]: who sent the signal that ended the watched process
  report,       \* the last notification: its target, event and named sender
  told          \* told[t]: what the notifications about t say of it

kernelVars == <<ticks, zombie, born, flight, auditQ, sent>>
stateVars  == <<initialized, startTicks, pidfd>>
loopVars   == <<pc, todo, cur, found>>
observed   == <<killer, report, told>>
vars == <<kernelVars, stateVars, loopVars, received, horizon, failures, observed>>

-----------------------------------------------------------------------------
(* The processes of the machine *)

Running(t) == ticks[t] # 0 /\ ~zombie[t]
Gone(t)    == ticks[t] # TargetTicks

Init ==
  /\ ticks \in [Targets -> 0..MaxTicks]
  /\ zombie = [t \in Targets |-> FALSE]
  /\ born = [t \in Targets |-> IF ticks[t] = 0 THEN TargetTicks ELSE ticks[t]]
  /\ flight = [s \in Senders |-> Nobody]
  /\ auditQ = <<>> /\ sent = 0
  /\ pc = "poll" /\ todo = {} /\ cur = Nobody /\ found = 0
  /\ initialized = [t \in Targets |-> FALSE]
  /\ startTicks = [t \in Targets |-> 0]
  /\ pidfd = [t \in Targets |-> 0]
  /\ received = <<>> /\ horizon = 0 /\ failures = 0
  /\ killer = [t \in Targets |-> Nobody]
  /\ report = [target |-> Nobody, event |-> "none", sender |-> Nobody]
  /\ told = [t \in Targets |-> "unknown"]

Exit(t) ==
  /\ Running(t)
  /\ zombie' = [zombie EXCEPT ![t] = TRUE]
  /\ UNCHANGED <<ticks, born, flight, auditQ, sent, stateVars, loopVars,
                 received, horizon, failures, observed>>

Reap(t) ==
  /\ zombie[t]
  /\ zombie' = [zombie EXCEPT ![t] = FALSE]
  /\ ticks' = [ticks EXCEPT ![t] = 0]
  /\ UNCHANGED <<born, flight, auditQ, sent, stateVars, loopVars,
                 received, horizon, failures, observed>>

(* The PID goes to a new process. *)
Reuse(t) ==
  /\ ticks[t] = 0 /\ born[t] < MaxTicks
  /\ born' = [born EXCEPT ![t] = @ + 1]
  /\ ticks' = [ticks EXCEPT ![t] = born[t] + 1]
  /\ UNCHANGED <<zombie, flight, auditQ, sent, stateVars, loopVars,
                 received, horizon, failures, observed>>

(* kill() takes effect before it returns; the record is written on return.  *)
(* A signal sent to a process group or to a thread other than the first     *)
(* ends the process too, and its record names another PID.                  *)
Kill(s, t, fatal, named) ==
  /\ Running(t) /\ flight[s] = Nobody /\ sent < MaxSignals
  /\ sent' = sent + 1
  /\ flight' = [flight EXCEPT ![s] = named]
  /\ zombie' = [zombie EXCEPT ![t] = fatal]
  /\ killer' = IF fatal /\ ~Gone(t) THEN [killer EXCEPT ![t] = s] ELSE killer
  /\ UNCHANGED <<ticks, born, auditQ, stateVars, loopVars,
                 received, horizon, failures, report, told>>

KillReturns(s) ==
  /\ flight[s] # Nobody
  /\ auditQ' = Append(auditQ, [pid |-> flight[s], sender |-> s])
  /\ flight' = [flight EXCEPT ![s] = Nobody]
  /\ UNCHANGED <<ticks, zombie, born, sent, stateVars, loopVars,
                 received, horizon, failures, observed>>

(* Five seconds pass for the oldest records. *)
Expire ==
  /\ horizon < Len(received)
  /\ horizon' = horizon + 1
  /\ UNCHANGED <<kernelVars, stateVars, loopVars, received, failures, observed>>

-----------------------------------------------------------------------------
(* The audit records the daemon holds *)

(* The ring keeps the last SIGNAL_HISTORY records; find_recent_signal takes *)
(* the newest of those about the PID that is not too old.                   *)
RecentSignals(log, t) ==
  {i \in 1..Len(log) : /\ i + SIGNAL_HISTORY > Len(log)
                       /\ i > horizon
                       /\ log[i].pid = t}

FindRecentSignal(log, t) ==
  LET recent == RecentSignals(log, t)
      newest == CHOOSE i \in recent : \A j \in recent : j <= i
  IN  IF recent = {} THEN Nobody ELSE log[newest].sender

AuditReceive ==
  /\ received' = received \o auditQ
  /\ auditQ' = <<>>

-----------------------------------------------------------------------------
(* The daemon's loop *)

(* POLLIN on the audit socket. *)
Receive ==
  /\ pc = "poll" /\ auditQ # <<>>
  /\ AuditReceive
  /\ UNCHANGED <<ticks, zombie, born, flight, sent, stateVars, loopVars,
                 horizon, failures, observed>>

(* A pidfd is readable once the process it refers to is dead.  That and the *)
(* scan interval start a scan, after the audit socket has been emptied.     *)
PidfdReady == \E t \in Targets : pidfd[t] # 0 /\ ~(Running(t) /\ ticks[t] = pidfd[t])

StartScan ==
  /\ AuditReceive
  /\ pc' = "scan" /\ todo' = Targets
  /\ UNCHANGED <<ticks, zombie, born, flight, sent, stateVars, cur, found,
                 horizon, failures, observed>>

(* mutant: the pidfds' revents are looked at only when an audit record came *)
WakeOnAudit == pc = "poll" /\ PidfdReady /\ auditQ # <<>> /\ StartScan
WakeOnExit == pc = "poll" /\ PidfdReady /\ StartScan
IntervalElapsed == pc = "poll" /\ StartScan

(* find_process: the start time if the PID still has the configured one.    *)
FindProcessByPid(t) == ticks[t]     \* mutant: the start time is not compared
FindProcess(t) == IF ticks[t] = TargetTicks THEN TargetTicks ELSE 0

ScanRead(t) ==
  /\ pc = "scan" /\ t \in todo
  /\ cur' = t /\ todo' = todo \ {t} /\ pc' = "decide"
  /\ \/ found' = FindProcess(t) /\ UNCHANGED failures
     \/ /\ failures < MaxFailures
        /\ failures' = failures + 1
        /\ found' = 0
  /\ UNCHANGED <<kernelVars, stateVars, received, horizon, observed>>

ScanDone ==
  /\ pc = "scan" /\ todo = {}
  /\ pc' = "poll"
  /\ UNCHANGED <<kernelVars, stateVars, todo, cur, found, received, horizon,
                 failures, observed>>

(* pidfd_open(pid) opens whatever has the PID at that moment. *)
OpenPidfd == IF found = 0 THEN 0 ELSE ticks[cur]

(* mutant: close_process_state is forgotten *)
SettleUnclosed(fd) ==
  /\ initialized' = [initialized EXCEPT ![cur] = TRUE]
  /\ startTicks' = [startTicks EXCEPT ![cur] = found]
  /\ pidfd' = IF fd = 0 THEN pidfd ELSE [pidfd EXCEPT ![cur] = fd]
  /\ pc' = "scan" /\ cur' = Nobody /\ found' = 0
  /\ UNCHANGED todo

Settle(fd) ==
  /\ initialized' = [initialized EXCEPT ![cur] = TRUE]
  /\ startTicks' = [startTicks EXCEPT ![cur] = found]
  /\ pidfd' = [pidfd EXCEPT ![cur] = fd]
  /\ pc' = "scan" /\ cur' = Nobody /\ found' = 0
  /\ UNCHANGED todo

Notify(event, sender) ==
  /\ report' = [target |-> cur, event |-> event, sender |-> sender]
  /\ told' = [told EXCEPT ![cur] = IF event \in {"missing", "exited"}
                                   THEN "missing" ELSE "present"]
  /\ UNCHANGED killer

FirstScan ==
  /\ pc = "decide" /\ ~initialized[cur]
  /\ Settle(OpenPidfd)
  /\ IF found = 0
     THEN Notify("missing", Nobody)
     ELSE told' = [told EXCEPT ![cur] = "present"] /\ UNCHANGED <<killer, report>>
  /\ UNCHANGED <<kernelVars, received, horizon, failures>>

(* present and unchanged, or still missing *)
SameAsBefore ==
  /\ pc = "decide" /\ initialized[cur] /\ startTicks[cur] = found
  /\ Settle(pidfd[cur])
  /\ UNCHANGED <<kernelVars, received, horizon, failures, observed>>

(* mutant: a recovery is noticed and not notified *)
RecoveredSilently ==
  /\ pc = "decide" /\ initialized[cur] /\ startTicks[cur] = 0 /\ found # 0
  /\ Settle(OpenPidfd)
  /\ UNCHANGED <<kernelVars, received, horizon, failures, observed>>

Recovered ==
  /\ pc = "decide" /\ initialized[cur] /\ startTicks[cur] = 0 /\ found # 0
  /\ Settle(OpenPidfd)
  /\ Notify("recovered", Nobody)
  /\ UNCHANGED <<kernelVars, received, horizon, failures>>

(* The watched process is not there any more: describe_exit. *)
ReportLoss(log) ==
  /\ Settle(OpenPidfd)
  /\ Notify(IF found = 0 THEN "exited" ELSE "restarted", FindRecentSignal(log, cur))

Lost == initialized[cur] /\ startTicks[cur] # 0 /\ startTicks[cur] # found

LostKnown ==
  /\ pc = "decide" /\ Lost
  /\ FindRecentSignal(received, cur) # Nobody
  /\ ReportLoss(received)
  /\ UNCHANGED <<kernelVars, received, horizon, failures>>

(* mutant: no wait for a late record *)
LostNoWait ==
  /\ pc = "decide" /\ Lost
  /\ FindRecentSignal(received, cur) = Nobody
  /\ ReportLoss(received)
  /\ UNCHANGED <<kernelVars, received, horizon, failures>>

(* wait_for_audit_signal: poll the socket for 100 ms when no record is held. *)
LostWait ==
  /\ pc = "decide" /\ Lost
  /\ FindRecentSignal(received, cur) = Nobody
  /\ pc' = "wait"
  /\ UNCHANGED <<kernelVars, stateVars, todo, cur, found, received, horizon,
                 failures, observed>>

WaitHeard ==
  /\ pc = "wait" /\ auditQ # <<>>
  /\ AuditReceive
  /\ ReportLoss(received \o auditQ)
  /\ UNCHANGED <<ticks, zombie, born, flight, sent, horizon, failures>>

WaitTimeout ==
  /\ pc = "wait" /\ auditQ = <<>>
  /\ ReportLoss(received)
  /\ UNCHANGED <<kernelVars, received, horizon, failures>>

-----------------------------------------------------------------------------
Kernel ==
  \/ \E t \in Targets : Exit(t) \/ Reap(t) \/ Reuse(t)
  \/ \E s \in Senders, t \in Targets, fatal \in BOOLEAN :
       \E named \in {t, Elsewhere} : Kill(s, t, fatal, named)
  \/ \E s \in Senders : KillReturns(s)
  \/ Expire

Scan ==
  \/ \E t \in Targets : ScanRead(t)
  \/ ScanDone \/ FirstScan \/ SameAsBefore \/ Recovered
  \/ LostKnown \/ LostWait \/ WaitHeard \/ WaitTimeout

Next == Kernel \/ Receive \/ WakeOnExit \/ IntervalElapsed \/ Scan

(* A loop that is inside a scan goes on, and poll returns when a pidfd is   *)
(* readable.  That the interval elapses is left to the properties that need *)
(* it: interval_ms may be a minute.                                         *)
Spec == Init /\ [][Next]_vars /\ WF_vars(WakeOnExit) /\ WF_vars(Scan)

-----------------------------------------------------------------------------
(* Properties *)

(* The types of the variables; find_process finds the chosen individual or   *)
(* nothing.                                                                 *)
TypeOK ==
  /\ ticks \in [Targets -> 0..MaxTicks]
  /\ zombie \in [Targets -> BOOLEAN]
  /\ born \in [Targets -> 1..MaxTicks]
  /\ flight \in [Senders -> Pids \cup {Nobody}]
  /\ auditQ \in Seq(Records) /\ sent \in 0..MaxSignals
  /\ pc \in {"poll", "scan", "decide", "wait"}
  /\ todo \in SUBSET Targets /\ cur \in Targets \cup {Nobody}
  /\ found \in {0, TargetTicks}
  /\ initialized \in [Targets -> BOOLEAN]
  /\ startTicks \in [Targets -> 0..MaxTicks]
  /\ pidfd \in [Targets -> 0..MaxTicks]
  /\ received \in Seq(Records) /\ horizon \in Nat
  /\ failures \in 0..MaxFailures
  /\ killer \in [Targets -> Senders \cup {Nobody}]
  /\ report \in [target : Targets \cup {Nobody}, event : Events,
                 sender : Senders \cup {Nobody}]
  /\ told \in [Targets -> {"unknown", "present", "missing"}]

(* The monitor follows the chosen individual and no other: whatever process *)
(* takes the PID, it is never adopted, and no restart is ever reported      *)
(* (find_process compares the start time; README: "PID reuse").             *)
FollowsOnlyTarget ==
  /\ \A t \in Targets : startTicks[t] \in {0, TargetTicks}
  /\ report.event # "restarted"

(* What the notifications say of a target is what scan_processes believes:  *)
(* every loss and every recovery is notified exactly when it is noticed.    *)
ToldIsBelief ==
  \A t \in Targets :
    IF initialized[t]
    THEN told[t] = (IF startTicks[t] = 0 THEN "missing" ELSE "present")
    ELSE told[t] = "unknown"

(* A target believed missing holds no pidfd: nothing leaks when it is lost, *)
(* found again and lost again, and poll is not woken for it.                *)
PidfdReleased ==
  \A t \in Targets : startTicks[t] = 0 => pidfd[t] = 0

(* A loss is notified with an unknown cause only if no usable record about  *)
(* the PID is held or waits in the socket: scan_processes waits for a late  *)
(* record before it gives up (wait_for_audit_signal).                       *)
UnknownOnlyUnheard ==
  [][\A t \in Targets :
       (told[t] = "present" /\ told'[t] = "missing" /\ report'.sender = Nobody)
         => RecentSignals(received \o auditQ, t) = {}]_vars

(* Once the watched individual is gone, and as long as scans come around,   *)
(* the monitor says so and never changes its mind again, even if other      *)
(* processes take the PID.                                                  *)
LossSettles ==
  WF_vars(IntervalElapsed) =>
    \A t \in Targets :
      Gone(t) ~> [](startTicks[t] = 0 /\ told[t] = "missing")

(* A pidfd of the watched individual makes its loss known without the scan  *)
(* interval: poll wakes up and the scan reports (README: immediate          *)
(* detection of process exit by pidfd).                                     *)
PidfdWakes ==
  \A t \in Targets :
    (pidfd[t] = TargetTicks /\ Gone(t)) ~> told[t] = "missing"

(* A notification that names a sender as the confirmed cause of an exit     *)
(* names the process whose signal ended the target (describe_exit:          *)
(* "confidence=confirmed", against "cause=unknown").                        *)
ConfirmedSenderKilled ==
  report.sender # Nobody => killer[report.target] = report.sender
=============================================================================
