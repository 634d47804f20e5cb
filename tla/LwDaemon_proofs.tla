-------------------------- MODULE LwDaemon_proofs --------------------------
(* Theorems about the daemon's life cycle, for any number of setup          *)
(* sessions, changes, signals and failures.                                 *)
EXTENDS LwDaemon, TLAPS

-----------------------------------------------------------------------------
(* Types *)

(* The parts of TypeOK: counters, places and flags. *)
Counters ==
  /\ change \in 0..MaxChanges
  /\ config \in 0..change /\ seen \in 0..change /\ asked \in 0..change
  /\ signals \in 0..MaxSignals /\ failures \in 0..MaxFailures

Places ==
  /\ content \in {"whole", "volatile", "torn"}
  /\ saving \in [Sessions -> {"idle", "written", "durable", "saved", "reload", "start"}]
  /\ pc \in {"off"} \cup Starting \cup Looping \cup Reloading
  /\ pidfds \in {"zero", "set"}

Flags ==
  /\ valid \in BOOLEAN /\ stop \in BOOLEAN /\ reload \in BOOLEAN /\ scanned \in BOOLEAN
  /\ listening \in BOOLEAN /\ early \in BOOLEAN /\ rule \in BOOLEAN
  /\ auditFailed \in BOOLEAN /\ strayClose \in BOOLEAN

ListensUp == listening => Up

LEMMA TypeParts == TypeOK <=> Counters /\ Places /\ Flags /\ ListensUp
  BY DEF TypeOK, Counters, Places, Flags, ListensUp

LEMMA InitType == Init => TypeOK
<1> SUFFICES ASSUME Init PROVE Counters /\ Places /\ Flags /\ ListensUp
  BY TypeParts
<1>1. Counters
  BY DaemonAssumption DEF Init, Counters
<1>2. Places
  BY DEF Init, Places
<1>3. Flags
  BY Zenon DEF Init, Flags
<1>4. ListensUp
  BY DEF Init, ListensUp
<1> QED
  BY <1>1, <1>2, <1>3, <1>4

LEMMA CountersStep ==
  ASSUME Counters, Next
  PROVE  Counters'
<1> USE DaemonAssumption DEF Counters, fileVars, daemonVars, ghostVars
<1>1. CASE Daemon
  BY <1>1 DEF Daemon, Load, Watch, Audit, AuditStart, InstallHandlers, Poll, Scan, CheckReload,
              Stop, ReloadConfig, ReloadClose, ReloadWatch, ReloadAudit, Fails
<1>2. ASSUME NEW s \in Sessions, Rename(s)
      PROVE  Counters'
  BY <1>2 DEF Rename, Install
<1>3. ASSUME NEW s \in Sessions, Activate(s)
      PROVE  Counters'
  BY <1>3 DEF Activate, Hangup, Start
<1>4. ASSUME NEW s \in Sessions, WriteTemporary(s) \/ Fsync(s) \/ Abandon(s) \/ AskActive(s)
      PROVE  Counters'
  BY <1>4 DEF WriteTemporary, Fsync, Abandon, AskActive, Fails
<1>5. CASE \E ok \in BOOLEAN : HandEdit(ok)
  BY <1>5 DEF HandEdit
<1>6. CASE Reload \/ Terminate
  BY <1>6 DEF Reload, Terminate, Hangup
<1>7. CASE StartService \/ Crash \/ PowerLoss \/ BootGoesOn
  BY <1>7 DEF StartService, Start, Crash, PowerLoss, BootGoesOn, Fails
<1> QED
  BY <1>1, <1>2, <1>3, <1>4, <1>5, <1>6, <1>7 DEF Next, Outside

LEMMA PlacesStep ==
  ASSUME Places, Next
  PROVE  Places'
<1> USE DEF Places, Starting, Looping, Reloading, fileVars, daemonVars, ghostVars
<1>1. CASE Daemon
  BY <1>1 DEF Daemon, Load, Watch, Audit, InstallHandlers, Poll, Scan, CheckReload,
              Stop, ReloadConfig, ReloadClose, ReloadWatch, ReloadAudit, Quit
<1>2. ASSUME NEW s \in Sessions, Rename(s) \/ WriteTemporary(s) \/ Fsync(s)
      PROVE  Places'
  BY <1>2 DEF Rename, Install, WriteTemporary, Fsync, Session
<1>3. ASSUME NEW s \in Sessions, Abandon(s) \/ AskActive(s)
      PROVE  Places'
  BY <1>3 DEF Abandon, AskActive, Session
<1>4. ASSUME NEW s \in Sessions, Activate(s)
      PROVE  Places'
  <2>1. /\ saving' \in [Sessions -> {"idle", "written", "durable", "saved", "reload", "start"}]
        /\ UNCHANGED content
    BY <1>4 DEF Activate, Session
  <2>2. /\ pc' \in {"off"} \cup Starting \cup Looping \cup Reloading
        /\ pidfds' \in {"zero", "set"}
    BY <1>4 DEF Activate, Hangup, Start
  <2> QED
    BY <2>1, <2>2
<1>5. CASE \E ok \in BOOLEAN : HandEdit(ok)
  BY <1>5 DEF HandEdit
<1>6. CASE Reload \/ Terminate
  BY <1>6 DEF Reload, Terminate, Hangup
<1>7. CASE StartService \/ Crash \/ PowerLoss \/ BootGoesOn
  BY <1>7 DEF StartService, Start, Crash, PowerLoss, BootGoesOn
<1> QED
  BY <1>1, <1>2, <1>3, <1>4, <1>5, <1>6, <1>7 DEF Next, Outside

LEMMA FlagsStep ==
  ASSUME Flags, Next
  PROVE  Flags'
<1> USE DEF Flags, fileVars, daemonVars, ghostVars
<1>1. CASE Load \/ Watch \/ InstallHandlers \/ Poll \/ Scan \/ CheckReload
  <2>1. CASE Load
    BY <2>1, ZenonT(30) DEF Load, Quit
  <2>2. CASE Watch
    BY <2>2, ZenonT(30) DEF Watch, Quit
  <2>3. CASE InstallHandlers \/ Poll
    BY <2>3 DEF InstallHandlers, Poll
  <2>4. CASE Scan
    BY <2>4, ZenonT(30) DEF Scan
  <2>5. CASE CheckReload
    BY <2>5, ZenonT(30) DEF CheckReload
  <2> QED
    BY <1>1, <2>1, <2>2, <2>3, <2>4, <2>5
<1>2. CASE Stop \/ ReloadConfig \/ ReloadClose \/ ReloadWatch
  BY <1>2, ZenonT(30) DEF Stop, ReloadConfig, ReloadClose, ReloadWatch, CloseRuntime
<1>3. CASE Audit \/ ReloadAudit
  <2>1. rule' \in BOOLEAN /\ listening' \in BOOLEAN /\ auditFailed' \in BOOLEAN
    <3>1. (TRUE \in BOOLEAN) /\ (FALSE \in BOOLEAN) /\ ((~FALSE) \in BOOLEAN)
      OBVIOUS
    <3>2. AuditStart
      BY <1>3 DEF Audit, ReloadAudit
    <3> QED
      BY <3>1, <3>2, ZenonT(30) DEF AuditStart, RuleBeforeAdd
  <2>2. scanned' \in BOOLEAN
    BY <1>3, ZenonT(30) DEF Audit, ReloadAudit
  <2>3. UNCHANGED <<valid, stop, reload, early, strayClose>>
    BY <1>3 DEF Audit, ReloadAudit
  <2> QED
    BY <2>1, <2>2, <2>3, ZenonT(30)
<1>4. ASSUME NEW s \in Sessions, Rename(s) \/ WriteTemporary(s) \/ Fsync(s) \/ Abandon(s)
                                 \/ AskActive(s)
      PROVE  Flags'
  BY <1>4, ZenonT(30) DEF Rename, Install, WriteTemporary, Fsync, Abandon, AskActive, Session
<1>5. ASSUME NEW s \in Sessions, Activate(s)
      PROVE  Flags'
  BY <1>5, ZenonT(30) DEF Activate, Hangup, Start, Session
<1>6. CASE (\E ok \in BOOLEAN : HandEdit(ok)) \/ Reload \/ Terminate
  BY <1>6, ZenonT(30) DEF HandEdit, Reload, Terminate, Hangup
<1>7. CASE StartService \/ Crash \/ PowerLoss \/ BootGoesOn
  BY <1>7, ZenonT(30) DEF StartService, Start, Crash, PowerLoss, BootGoesOn
<1> QED
  BY <1>1, <1>2, <1>3, <1>4, <1>5, <1>6, <1>7 DEF Next, Daemon, Outside

(* Whoever ends the daemon closes its listener. *)
LEMMA ListensUpStep ==
  ASSUME ListensUp, Next
  PROVE  ListensUp'
<1> USE DEF ListensUp, Up, fileVars, daemonVars, ghostVars
<1>1. CASE Daemon
  BY <1>1 DEF Daemon, Load, Watch, Audit, InstallHandlers, Poll, Scan, CheckReload,
              Stop, ReloadConfig, ReloadClose, ReloadWatch, ReloadAudit, Quit, CloseRuntime
<1>2. CASE Outside
  BY <1>2 DEF Outside, WriteTemporary, Fsync, Rename, Abandon, AskActive, Activate, HandEdit,
              Reload, Hangup, Terminate, StartService, Start, Crash, PowerLoss, BootGoesOn
<1> QED
  BY <1>1, <1>2 DEF Next

(* The variables keep their types, and only a running daemon listens. *)
THEOREM TypeCorrect == Spec => []TypeOK
<1>1. TypeOK /\ UNCHANGED vars => TypeOK'
  BY DEF TypeOK, Up, vars, fileVars, daemonVars, ghostVars
<1>2. ASSUME TypeOK, Next
      PROVE  TypeOK'
  <2>1. Counters /\ Places /\ Flags /\ ListensUp
    BY <1>2, TypeParts
  <2>2. Counters' /\ Places' /\ Flags' /\ ListensUp'
    BY <1>2, <2>1, CountersStep, PlacesStep, FlagsStep, ListensUpStep
  <2>3. TypeOK' <=> Counters' /\ Places' /\ Flags' /\ ListensUp'
    BY TypeParts, PTL
  <2> QED
    BY <2>2, <2>3
<1> QED
  BY InitType, <1>1, <1>2, PTL DEF Spec

-----------------------------------------------------------------------------
(* The configuration file *)

(* What save_config renames is durable, so that nothing is ever volatile.   *)
Durable == content = "whole"

LEMMA DurableStep == Durable /\ [Next]_vars => Durable'
<1> SUFFICES ASSUME Durable, [Next]_vars PROVE Durable'
  OBVIOUS
<1> USE DEF Durable, fileVars
<1>1. CASE UNCHANGED vars
  BY <1>1 DEF vars
<1>2. CASE Daemon
  BY <1>2 DEF Daemon, Load, Watch, Audit, InstallHandlers, Poll, Scan, CheckReload,
              Stop, ReloadConfig, ReloadClose, ReloadWatch, ReloadAudit
<1>3. CASE Outside
  <2>1. ASSUME NEW s \in Sessions, Rename(s)
        PROVE  Durable'
    BY <2>1 DEF Rename, Session, Install
  <2>2. ASSUME NEW s \in Sessions,
               WriteTemporary(s) \/ Fsync(s) \/ Abandon(s) \/ AskActive(s) \/ Activate(s)
        PROVE  Durable'
    BY <2>2 DEF WriteTemporary, Fsync, Abandon, AskActive, Activate
  <2>3. CASE (\E ok \in BOOLEAN : HandEdit(ok)) \/ PowerLoss
    BY <2>3 DEF HandEdit, PowerLoss
  <2>4. CASE Reload \/ Terminate \/ StartService \/ Crash \/ BootGoesOn
    BY <2>4 DEF Reload, Terminate, StartService, Crash, BootGoesOn
  <2> QED
    BY <1>3, <2>1, <2>2, <2>3, <2>4 DEF Outside
<1> QED
  BY <1>1, <1>2, <1>3 DEF Next

(* A crash or a loss of power, whenever it comes, leaves a whole            *)
(* configuration (save_config).                                             *)
THEOREM ConfigurationWhole == Spec => []ConfigWhole
<1>1. Init => Durable
  BY DEF Init, Durable
<1>2. Durable => ConfigWhole
  BY DEF Durable, ConfigWhole
<1> QED
  BY <1>1, <1>2, DurableStep, PTL DEF Spec
-----------------------------------------------------------------------------
(* The audit rule *)

(* In the loop, and from audit_start on: a rule nobody listens to is the    *)
(* work of a failed request, and so is a missing rule or listener, unless a *)
(* reload has closed them or the daemon is to stop.                         *)
Installed == pc \in {"handlers"} \cup Looping \cup Reloading
Listening == pc \in {"handlers", "reload", "close"} \cup Looping /\ ~stop

RuleInv ==
  /\ Installed /\ rule /\ ~listening => auditFailed
  /\ Listening => (listening /\ rule) \/ auditFailed

LEMMA RuleStep == RuleInv /\ [Next]_vars => RuleInv'
<1> SUFFICES ASSUME RuleInv, [Next]_vars PROVE RuleInv'
  OBVIOUS
<1> USE DEF RuleInv, Installed, Listening, Looping, Reloading, fileVars, daemonVars, ghostVars
<1>1. CASE UNCHANGED vars
  BY <1>1 DEF vars
<1>2. CASE Load \/ Watch
  BY <1>2 DEF Load, Watch, Quit
<1>3. CASE Audit \/ ReloadAudit
  BY <1>3 DEF Audit, ReloadAudit, AuditStart, RuleBeforeAdd
<1>4. CASE InstallHandlers \/ Poll \/ Scan \/ CheckReload \/ ReloadConfig
  BY <1>4 DEF InstallHandlers, Poll, Scan, CheckReload, ReloadConfig
<1>5. CASE Stop \/ ReloadClose
  BY <1>5 DEF Stop, ReloadClose, CloseRuntime
<1>6. CASE ReloadWatch
  BY <1>6 DEF ReloadWatch
<1>7. CASE Outside
  <2>1. ASSUME NEW s \in Sessions, WriteTemporary(s) \/ Fsync(s) \/ Rename(s) \/ Abandon(s)
                                   \/ AskActive(s)
        PROVE  RuleInv'
    BY <2>1 DEF WriteTemporary, Fsync, Rename, Abandon, AskActive, Session
  <2>2. ASSUME NEW s \in Sessions, Activate(s)
        PROVE  RuleInv'
    BY <2>2 DEF Activate, Session, Hangup, Start
  <2>3. CASE (\E ok \in BOOLEAN : HandEdit(ok)) \/ BootGoesOn
    BY <2>3 DEF HandEdit, BootGoesOn
  <2>4. CASE Reload \/ Terminate
    BY <2>4 DEF Reload, Terminate, Hangup
  <2>5. CASE StartService \/ Crash \/ PowerLoss
    BY <2>5 DEF StartService, Start, Crash, PowerLoss
  <2> QED
    BY <1>7, <2>1, <2>2, <2>3, <2>4, <2>5 DEF Outside
<1> QED
  BY <1>1, <1>2, <1>3, <1>4, <1>5, <1>6, <1>7 DEF Next, Daemon

LEMMA RuleAlways == Spec => []RuleInv
<1>1. Init => RuleInv
  BY DEF Init, RuleInv, Installed, Listening, Looping, Reloading
<1> QED
  BY <1>1, RuleStep, PTL DEF Spec

(* A daemon in its loop has its rule and listens, whatever an earlier       *)
(* daemon left behind, unless a request failed (audit_start).               *)
THEOREM AuditStaysOn == Spec => []AuditOn
<1>1. RuleInv => AuditOn
  BY DEF RuleInv, AuditOn, Listening
<1> QED
  BY <1>1, RuleAlways, PTL

(* A daemon that stops takes its rule with it (audit_stop).                 *)
THEOREM StoppingCleans == Spec => StopCleans
<1>1. RuleInv /\ [Next]_vars => [Stop => (rule' => auditFailed)]_vars
  BY DEF RuleInv, Installed, Looping, Stop, CloseRuntime
<1> QED
  BY <1>1, RuleAlways, PTL DEF Spec, StopCleans

-----------------------------------------------------------------------------
(* Descriptor 0 *)

(* Zeroed process states come with a zeroed last_scan, so that the scan     *)
(* which fills them in precedes the next look at the reload flag.           *)
PidfdInv ==
  /\ ~strayClose
  /\ pidfds \in {"zero", "set"}
  /\ pidfds = "zero" => ~scanned \/ pc \in {"off", "rewatch", "reaudit"}
  /\ pc \in {"check", "reload", "close"} => pidfds = "set"

LEMMA PidfdStep ==
  ASSUME StdinReady = TRUE
  PROVE  PidfdInv /\ [Next]_vars => PidfdInv'
<1> SUFFICES ASSUME PidfdInv, [Next]_vars PROVE PidfdInv'
  OBVIOUS
<1> USE DEF PidfdInv, fileVars, daemonVars, ghostVars
<1>1. CASE UNCHANGED vars
  BY <1>1 DEF vars
<1>2. CASE Load \/ Watch \/ Audit \/ InstallHandlers \/ Stop
  BY <1>2 DEF Load, Watch, Audit, InstallHandlers, Stop, Quit
<1>3. CASE Poll
  BY <1>3 DEF Poll, ScanForced
<1>4. CASE Scan \/ CheckReload \/ ReloadConfig
  BY <1>4 DEF Scan, CheckReload, ReloadConfig
<1>5. CASE ReloadClose \/ ReloadWatch \/ ReloadAudit
  <2>1. CASE ReloadClose
    BY <2>1 DEF ReloadClose
  <2>2. CASE ReloadWatch
    BY <2>2 DEF ReloadWatch
  <2>3. CASE ReloadAudit
    BY <2>3 DEF ReloadAudit
  <2> QED
    BY <1>5, <2>1, <2>2, <2>3
<1>6. CASE Outside
  <2>1. ASSUME NEW s \in Sessions, WriteTemporary(s) \/ Fsync(s) \/ Rename(s) \/ Abandon(s)
                                   \/ AskActive(s)
        PROVE  PidfdInv'
    BY <2>1 DEF WriteTemporary, Fsync, Rename, Abandon, AskActive
  <2>2. ASSUME NEW s \in Sessions, Activate(s)
        PROVE  PidfdInv'
    BY <2>2 DEF Activate, Hangup, Start
  <2>3. CASE (\E ok \in BOOLEAN : HandEdit(ok)) \/ BootGoesOn
    BY <2>3 DEF HandEdit, BootGoesOn
  <2>4. CASE Reload \/ Terminate
    BY <2>4 DEF Reload, Terminate, Hangup
  <2>5. CASE StartService \/ Crash \/ PowerLoss
    BY <2>5 DEF StartService, Start, Crash, PowerLoss
  <2> QED
    BY <1>6, <2>1, <2>2, <2>3, <2>4, <2>5 DEF Outside
<1> QED
  BY <1>1, <1>2, <1>3, <1>4, <1>5, <1>6 DEF Next, Daemon

(* With a standard input that poll finds readable, as systemd's /dev/null   *)
(* is, no running daemon takes descriptor 0 for a pidfd and closes it       *)
(* (runtime_close).                                                         *)
THEOREM StdinStaysOpen ==
  ASSUME StdinReady = TRUE
  PROVE  Spec => []NoStrayClose
<1>1. Init => PidfdInv
  BY DEF Init, PidfdInv
<1>2. PidfdInv => NoStrayClose
  BY DEF PidfdInv, NoStrayClose
<1>3. PidfdInv /\ [Next]_vars => PidfdInv'
  BY PidfdStep
<1> QED
  BY <1>1, <1>2, <1>3, PTL DEF Spec
=============================================================================
