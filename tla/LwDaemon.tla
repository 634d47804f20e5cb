------------------------------ MODULE LwDaemon ------------------------------
(***************************************************************************)
(* The life of the lifewatch daemon and of its configuration file          *)
(* (src/lifewatch/lifewatch.c): setup sessions save the file and ask       *)
(* systemd to start or reload the service, signals arrive at any moment,   *)
(* the daemon starts, scans, reloads and stops, and the daemon or the      *)
(* whole machine may crash between any two steps.  The file is told apart  *)
(* only by the number of its last change.                                  *)
(***************************************************************************)
EXTENDS Naturals

CONSTANTS Sessions,     \* runs of `lifewatch` with its setup screen
          StdinReady,   \* whether fd 0 is readable: /dev/null under systemd is
          MaxChanges,   \* bound: changes of the configuration file
          MaxSignals,   \* bound: signals to the daemon
          MaxFailures   \* bound: crashes and failing system calls

ASSUME DaemonAssumption ==
  /\ StdinReady \in BOOLEAN
  /\ MaxChanges \in Nat /\ MaxSignals \in Nat /\ MaxFailures \in Nat

Starting == {"load", "watch", "audit", "handlers"}
Looping  == {"poll", "scan", "check"}
Reloading == {"reload", "close", "rewatch", "reaudit"}

VARIABLES
  (* the configuration file *)
  change,      \* number of its last change
  valid,       \* load_config accepts what was written
  content,     \* "whole" and durable, "volatile" until written back, or "torn"
  saving,      \* saving[s]: how far session s is
  (* the daemon *)
  pc,          \* where the daemon is, "off" if there is none
  stop, reload,     \* stop_requested, reload_requested
  config,      \* the change the running configuration was loaded from
  pidfds,      \* "zero" as memset left them, "set" once a scan has opened them
  scanned,     \* FALSE if last_scan is zero
  listening,   \* the audit socket is open and its rule was installed
  early,       \* the machine has been up for less than interval_ms
  (* the kernel *)
  rule,        \* the audit rule is installed
  (* bounds, and what an observer knows *)
  signals, failures,
  asked,       \* the change the last SIGHUP was meant to apply
  seen,        \* the change load_config last looked at
  auditFailed, \* a request of the last audit_start failed
  strayClose   \* a running daemon has closed fd 0

fileVars   == <<change, valid, content, saving>>
daemonVars == <<pc, stop, reload, config, pidfds, scanned, listening>>
ghostVars  == <<asked, seen, auditFailed, strayClose>>
vars == <<fileVars, daemonVars, early, rule, signals, failures, ghostVars>>

Up == pc # "off"
(* The handlers are installed after the first audit_start. *)
Handled == pc \in Looping \cup Reloading

Init ==
  /\ change = 0 /\ valid = TRUE /\ content = "whole"
  /\ saving = [s \in Sessions |-> "idle"]
  /\ pc = "off" /\ stop = FALSE /\ reload = FALSE /\ config = 0
  /\ pidfds = "zero" /\ scanned = FALSE /\ listening = FALSE
  /\ early \in BOOLEAN /\ rule \in BOOLEAN
  /\ signals = 0 /\ failures = 0
  /\ asked = 0 /\ seen = 0
  /\ auditFailed = FALSE /\ strayClose = FALSE

-----------------------------------------------------------------------------
(* Saving the configuration *)

Fails == failures < MaxFailures /\ failures' = failures + 1

(* A session of the setup screen goes on. *)
Session(s, from, to) ==
  /\ saving[s] = from
  /\ saving' = [saving EXCEPT ![s] = to]
  /\ UNCHANGED <<early, rule>>

(* save_config writes a temporary file of its own, makes it durable ...     *)
WriteTemporary(s) ==
  /\ Session(s, "idle", "written")
  /\ UNCHANGED <<change, valid, content, daemonVars, signals, failures, ghostVars>>

Fsync(s) ==
  /\ Session(s, "written", "durable")
  /\ UNCHANGED <<change, valid, content, daemonVars, signals, failures, ghostVars>>

(* ... and renames it to the configuration's path.                          *)
Install(s) ==
  /\ change < MaxChanges
  /\ change' = change + 1 /\ valid' = TRUE
  /\ content' = IF saving[s] = "durable" THEN "whole" ELSE "volatile"

(* mutant: no fsync *)
RenameUnsynced(s) ==
  /\ Session(s, "written", "saved")
  /\ Install(s)
  /\ UNCHANGED <<daemonVars, signals, failures, ghostVars>>

Rename(s) ==
  /\ Session(s, "durable", "saved")
  /\ Install(s)
  /\ UNCHANGED <<daemonVars, signals, failures, ghostVars>>

(* A step of the save fails, or the session is killed: the temporary file   *)
(* is removed, or stays where nobody reads it.                              *)
Abandon(s) ==
  /\ saving[s] \in {"written", "durable"} /\ Fails
  /\ Session(s, saving[s], "idle")
  /\ UNCHANGED <<change, valid, content, daemonVars, signals, ghostVars>>

(* An administrator edits the file by hand, perhaps badly.                  *)
HandEdit(ok) ==
  /\ change < MaxChanges
  /\ change' = change + 1 /\ valid' = ok /\ content' = "whole"
  /\ UNCHANGED <<saving, daemonVars, early, rule, signals, failures, ghostVars>>

(* SIGHUP.  Without a handler it ends the process, which systemd takes for  *)
(* a clean exit and does not restart.                                       *)
Hangup ==
  /\ Up /\ signals < MaxSignals
  /\ signals' = signals + 1
  /\ IF Handled
     THEN /\ reload' = TRUE /\ asked' = change
          /\ UNCHANGED <<pc, stop, listening>>
     ELSE /\ pc' = "off" /\ listening' = FALSE
          /\ UNCHANGED <<stop, reload, asked>>
  /\ UNCHANGED <<config, pidfds, scanned, seen, auditFailed, strayClose>>

Start ==
  /\ ~Up
  /\ pc' = "load" /\ stop' = FALSE /\ reload' = FALSE
  /\ pidfds' = "zero" /\ scanned' = FALSE
  /\ UNCHANGED <<config, listening>>

(* run_default_workflow, after the setup screen: validate the file, ask     *)
(* whether the service is active ...                                        *)
Acceptable == valid /\ content # "torn"

AskActive(s) ==
  /\ Session(s, "saved", IF ~Acceptable THEN "idle" ELSE IF Up THEN "reload" ELSE "start")
  /\ UNCHANGED <<change, valid, content, daemonVars, signals, failures, ghostVars>>

(* ... and reload it, which fails if it has stopped since, or start it,     *)
(* which does nothing if somebody else has started it since.                *)
Activate(s) ==
  /\ \/ Session(s, "reload", "idle")
        /\ Up /\ Hangup
     \/ Session(s, "start", "idle")
        /\ Start /\ UNCHANGED <<signals, ghostVars>>
     \/ Session(s, IF Up THEN "start" ELSE "reload", "idle")
        /\ UNCHANGED <<daemonVars, signals, ghostVars>>
  /\ UNCHANGED <<change, valid, content, failures>>

-----------------------------------------------------------------------------
(* Signals and crashes *)

(* `systemctl reload`, or a signal sent by hand. *)
Reload == Hangup /\ UNCHANGED <<fileVars, early, rule, failures>>

(* Without a handler, SIGTERM ends the process.                             *)
Terminate ==
  /\ Up /\ signals < MaxSignals
  /\ signals' = signals + 1
  /\ IF Handled THEN stop' = TRUE /\ UNCHANGED <<pc, listening>>
     ELSE pc' = "off" /\ listening' = FALSE /\ UNCHANGED stop
  /\ UNCHANGED <<fileVars, reload, config, pidfds, scanned, early, rule, failures,
                 ghostVars>>

(* `systemctl start`, or a restart by systemd. *)
StartService ==
  Start /\ UNCHANGED <<fileVars, early, rule, signals, failures, ghostVars>>

(* The daemon is killed.  Its sockets are closed, its rule stays.           *)
Crash ==
  /\ Up /\ Fails
  /\ pc' = "off" /\ listening' = FALSE
  /\ UNCHANGED <<fileVars, stop, reload, config, pidfds, scanned, early, rule, signals,
                 ghostVars>>

(* The machine goes down.  A file that was renamed before it was durable    *)
(* comes back torn; temporary files are of no use to anyone.                *)
PowerLoss ==
  /\ Fails
  /\ pc' = "off" /\ listening' = FALSE
  /\ rule' = FALSE /\ early' = TRUE
  /\ saving' = [s \in Sessions |-> "idle"]
  /\ content' = IF content = "volatile" THEN "torn" ELSE content
  /\ UNCHANGED <<change, valid, stop, reload, config, pidfds, scanned, signals, ghostVars>>

BootGoesOn ==
  /\ early /\ early' = FALSE
  /\ UNCHANGED <<fileVars, daemonVars, rule, signals, failures, ghostVars>>

-----------------------------------------------------------------------------
(* The daemon *)

Quit == pc' = "off" /\ listening' = FALSE

Load ==
  /\ pc = "load"
  /\ seen' = change
  /\ IF Acceptable
     THEN pc' = "watch" /\ config' = change /\ UNCHANGED listening
     ELSE Quit /\ UNCHANGED config
  /\ UNCHANGED <<fileVars, stop, reload, pidfds, scanned, early, rule, signals, failures,
                 asked, auditFailed, strayClose>>

Watch ==
  /\ pc = "watch"
  /\ \/ pc' = "audit" /\ UNCHANGED <<listening, failures>>
     \/ Fails /\ Quit
  /\ UNCHANGED <<fileVars, stop, reload, config, pidfds, scanned, early, rule, signals,
                 ghostVars>>

(* audit_start removes an identical rule that a crash left behind, and      *)
(* installs its own: adding a rule that is there already would fail.  A     *)
(* request whose acknowledgement does not come in time counts as failed.    *)
RuleBeforeAddKept == rule      \* mutant: the stale rule is not removed
RuleBeforeAdd     == FALSE

AuditStart ==
  \/ /\ rule' = TRUE /\ listening' = ~RuleBeforeAdd /\ auditFailed' = FALSE
     /\ UNCHANGED failures
  \/ /\ Fails
     /\ rule' \in BOOLEAN /\ listening' = FALSE /\ auditFailed' = TRUE

Audit ==
  /\ pc = "audit"
  /\ AuditStart
  /\ pc' = "handlers"
  /\ UNCHANGED <<fileVars, stop, reload, config, pidfds, scanned, early, signals,
                 asked, seen, strayClose>>

InstallHandlers ==
  /\ pc = "handlers"
  /\ pc' = "poll"
  /\ UNCHANGED <<fileVars, stop, reload, config, pidfds, scanned, listening, early, rule,
                 signals, failures, ghostVars>>

(* The body of the loop up to the scan.  A scan is due when the interval    *)
(* has elapsed, at once if last_scan is zero and the machine is up long     *)
(* enough, and when a descriptor taken for a pidfd is readable.             *)
ScanForced == ~scanned /\ (~early \/ (pidfds = "zero" /\ StdinReady))

Poll ==
  /\ pc = "poll" /\ ~stop
  /\ \/ pc' = "scan"
     \/ pc' = "check" /\ ~ScanForced
  /\ UNCHANGED <<fileVars, stop, reload, config, pidfds, scanned, listening, early, rule,
                 signals, failures, ghostVars>>

Scan ==
  /\ pc = "scan"
  /\ pc' = "check" /\ pidfds' = "set" /\ scanned' = TRUE
  /\ UNCHANGED <<fileVars, stop, reload, config, listening, early, rule, signals,
                 failures, ghostVars>>

(* The flag is cleared before the work is done. *)
CheckReload ==
  /\ pc = "check"
  /\ reload' = FALSE
  /\ pc' = IF reload THEN "reload" ELSE "poll"
  /\ UNCHANGED <<fileVars, stop, config, pidfds, scanned, listening, early, rule, signals,
                 failures, ghostVars>>

(* reload_runtime.  A configuration that cannot be loaded changes nothing.  *)
ReloadConfig ==
  /\ pc = "reload"
  /\ seen' = change
  /\ IF Acceptable
     THEN pc' = "close" /\ config' = change /\ UNCHANGED scanned
     ELSE pc' = "poll" /\ scanned' = FALSE /\ UNCHANGED config
  /\ UNCHANGED <<fileVars, stop, reload, pidfds, listening, early, rule, signals, failures,
                 asked, auditFailed, strayClose>>

(* runtime_close: every pidfd that is not -1 is closed, and the rule goes.  *)
(* mutants: the listener is left open; the rule is left installed *)
CloseRuntimeListening == rule' = (rule /\ ~listening) /\ UNCHANGED listening
CloseRuntimeKeepsRule == UNCHANGED rule /\ listening' = FALSE

CloseRuntime ==
  /\ rule' = (rule /\ ~listening)
  /\ listening' = FALSE

ReloadClose ==
  /\ pc = "close"
  /\ CloseRuntime
  /\ strayClose' = (strayClose \/ pidfds = "zero")
  /\ pidfds' = "zero"
  /\ pc' = "rewatch"
  /\ UNCHANGED <<fileVars, stop, reload, config, scanned, early, signals, failures,
                 asked, seen, auditFailed>>

ReloadWatch ==
  /\ pc = "rewatch"
  /\ \/ pc' = "reaudit" /\ UNCHANGED <<stop, scanned, failures>>
     \/ Fails /\ stop' = TRUE /\ pc' = "poll" /\ scanned' = FALSE
  /\ UNCHANGED <<fileVars, reload, config, pidfds, listening, early, rule, signals,
                 ghostVars>>

(* mutants: last_scan is not reset; the request is cleared when the work is done *)
ReloadAuditNoReset ==
  /\ pc = "reaudit"
  /\ AuditStart
  /\ pc' = "poll"
  /\ UNCHANGED <<fileVars, stop, reload, config, pidfds, scanned, early, signals,
                 asked, seen, strayClose>>

ReloadAuditClears ==
  /\ pc = "reaudit"
  /\ AuditStart
  /\ pc' = "poll" /\ scanned' = FALSE /\ reload' = FALSE
  /\ UNCHANGED <<fileVars, stop, config, pidfds, early, signals,
                 asked, seen, strayClose>>

ReloadAudit ==
  /\ pc = "reaudit"
  /\ AuditStart
  /\ pc' = "poll" /\ scanned' = FALSE
  /\ UNCHANGED <<fileVars, stop, reload, config, pidfds, early, signals,
                 asked, seen, strayClose>>

Stop ==
  /\ pc = "poll" /\ stop
  /\ pc' = "off"
  /\ CloseRuntime
  /\ UNCHANGED <<fileVars, stop, reload, config, pidfds, scanned, early, signals, failures,
                 ghostVars>>

Daemon ==
  \/ Load \/ Watch \/ Audit \/ InstallHandlers
  \/ Poll \/ Scan \/ CheckReload \/ Stop
  \/ ReloadConfig \/ ReloadClose \/ ReloadWatch \/ ReloadAudit

Outside ==
  \/ \E s \in Sessions : \/ WriteTemporary(s) \/ Fsync(s) \/ Rename(s)
                         \/ Abandon(s) \/ AskActive(s) \/ Activate(s)
  \/ \E ok \in BOOLEAN : HandEdit(ok)
  \/ Reload \/ Terminate \/ StartService \/ Crash \/ PowerLoss \/ BootGoesOn

Next == Daemon \/ Outside

(* A running daemon keeps running; nobody has to save, signal or restart.   *)
Spec == Init /\ [][Next]_vars /\ WF_vars(Daemon)
-----------------------------------------------------------------------------
(* Properties *)

(* The types of the variables, and that only a running daemon listens. *)
TypeOK ==
  /\ change \in 0..MaxChanges /\ valid \in BOOLEAN
  /\ content \in {"whole", "volatile", "torn"}
  /\ saving \in [Sessions -> {"idle", "written", "durable", "saved", "reload", "start"}]
  /\ pc \in {"off"} \cup Starting \cup Looping \cup Reloading
  /\ stop \in BOOLEAN /\ reload \in BOOLEAN
  /\ pidfds \in {"zero", "set"} /\ scanned \in BOOLEAN
  /\ listening \in BOOLEAN /\ (listening => Up)
  /\ config \in 0..change /\ seen \in 0..change /\ asked \in 0..change
  /\ early \in BOOLEAN /\ rule \in BOOLEAN
  /\ signals \in 0..MaxSignals /\ failures \in 0..MaxFailures
  /\ auditFailed \in BOOLEAN /\ strayClose \in BOOLEAN

(* Whatever crashes and whenever, the configuration file is one that was    *)
(* written from beginning to end: save_config syncs before it renames.      *)
ConfigWhole == content # "torn"

(* Until it is to stop, the daemon in its loop has its audit rule and       *)
(* listens, unless a request of the last audit_start really failed: a rule  *)
(* that an earlier daemon left behind never switches attribution off.       *)
AuditOn ==
  pc \in Looping \cup {"reload", "close"} /\ ~stop => (listening /\ rule) \/ auditFailed

(* A daemon that stops as it should leaves no rule behind, also when it     *)
(* found one from a crash when it started.                                  *)
StopCleans == [][Stop => (rule' => auditFailed)]_vars

(* The process states that a reload zeroes hold descriptor 0 until a scan   *)
(* has filled them in; where fd 0 is readable, runtime_close never runs     *)
(* before that scan, so that the daemon does not close its standard input   *)
(* as if it were a pidfd.                                                   *)
NoStrayClose == ~strayClose

(* A reload that is asked for while another is under way is not lost: the   *)
(* daemon stops, or looks at a configuration at least as new as the one     *)
(* that was there when the signal came.                                     *)
ReloadNotLost ==
  \A c \in 1..MaxChanges :
    (Handled /\ asked = c /\ seen < c) ~> (seen >= c \/ ~Handled)

(* Setup over a running service makes it read the new configuration and     *)
(* never ends it (README: running already, it reloads the configuration):   *)
(* a session that found the daemon active leaves it running by its reload.  *)
ReloadNeverKills ==
  [][\A s \in Sessions : Activate(s) /\ saving[s] = "reload" /\ Up => Up']_vars
=============================================================================
