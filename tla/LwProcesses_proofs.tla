------------------------- MODULE LwProcesses_proofs -------------------------
(* Theorems about the process monitor, for every set of targets and senders *)
(* and every length of the audit ring.                                      *)
EXTENDS LwProcesses, WellFoundedInduction, TLAPS

(* A non-empty set of positions of a log has a last one. *)
LEMMA LastExists ==
  ASSUME NEW n \in Nat, NEW S \in SUBSET (1..n), S # {}
  PROVE  \E i \in S : \A j \in S : j <= i
<1> DEFINE T == {n - i : i \in S}
<1>1. T \in SUBSET Nat /\ T # {}
  <2>1. \A i \in S : n - i \in Nat
    OBVIOUS
  <2>2. \E i \in S : TRUE
    OBVIOUS
  <2> QED
    BY <2>1, <2>2
<1> DEFINE Less == {ss \in Nat \X Nat : ss[1] < ss[2]}
<1>2. IsWellFoundedOn(Less, Nat)
  BY NatLessThanWellFounded DEF OpToRel
<1>3. PICK x \in T : \A y \in T : ~(<<y, x>> \in Less)
  <2> HIDE DEF T, Less
  <2> QED
    BY <1>1, <1>2, WFMin
<1>4. \A y \in T : x <= y
  <2> SUFFICES ASSUME NEW y \in T PROVE x <= y
    OBVIOUS
  <2>1. x \in Nat /\ y \in Nat
    BY <1>1
  <2>2. y < x => <<y, x>> \in Less
    <3> HIDE DEF T
    <3> QED
      BY <2>1
  <2>3. ~(<<y, x>> \in Less)
    BY <1>3
  <2> HIDE DEF T, Less
  <2> QED
    BY <2>1, <2>2, <2>3
<1>5. PICK i \in S : x = n - i
  OBVIOUS
<1>6. \A j \in S : j <= i
  BY <1>4, <1>5
<1> QED
  BY <1>6

(* find_recent_signal returns a sender exactly when a recent record about   *)
(* the PID is held.                                                         *)
LEMMA FindRecentSignalType ==
  ASSUME NEW log \in Seq(Records), NEW t
  PROVE  /\ RecentSignals(log, t) = {} => FindRecentSignal(log, t) = Nobody
         /\ RecentSignals(log, t) # {} => FindRecentSignal(log, t) \in Senders
<1>1. RecentSignals(log, t) \in SUBSET (1..Len(log)) /\ Len(log) \in Nat
  BY DEF RecentSignals
<1>2. CASE RecentSignals(log, t) = {}
  BY <1>2 DEF FindRecentSignal
<1>3. CASE RecentSignals(log, t) # {}
  <2> DEFINE newest == CHOOSE i \in RecentSignals(log, t) :
                         \A j \in RecentSignals(log, t) : j <= i
  <2>1. \E i \in RecentSignals(log, t) : \A j \in RecentSignals(log, t) : j <= i
    BY <1>1, <1>3, LastExists
  <2>2. newest \in RecentSignals(log, t)
    BY <2>1
  <2>3. log[newest] \in Records
    BY <1>1, <2>2
  <2> QED
    BY <1>3, <2>3 DEF FindRecentSignal, Records
<1> QED
  BY <1>2, <1>3

-----------------------------------------------------------------------------
(* The inductive invariant: what the loop knows between its steps.          *)

LoopInv ==
  /\ pc \in {"decide", "wait"} => cur \in Targets
  /\ pc = "wait" => Lost /\ found = 0

NothingBeforeFirstScan ==
  \A t \in Targets : ~initialized[t] => startTicks[t] = 0 /\ pidfd[t] = 0

IInv ==
  /\ TypeOK
  /\ LoopInv
  /\ NothingBeforeFirstScan
  /\ FollowsOnlyTarget
  /\ ToldIsBelief
  /\ PidfdReleased

LEMMA InitIInv == Init => IInv
<1> SUFFICES ASSUME Init PROVE IInv
  OBVIOUS
<1>1. TypeOK
  BY ProcessAssumption DEF Init, TypeOK, TargetTicks, Records, Events, Pids
<1>2. LoopInv /\ NothingBeforeFirstScan /\ FollowsOnlyTarget /\ ToldIsBelief
        /\ PidfdReleased
  BY DEF Init, LoopInv, NothingBeforeFirstScan, FollowsOnlyTarget, ToldIsBelief,
         PidfdReleased, TargetTicks
<1> QED
  BY <1>1, <1>2 DEF IInv

(* No step of the kernel touches what the daemon believes. *)
LEMMA KernelStep ==
  ASSUME IInv, Kernel
  PROVE  IInv'
<1> USE ProcessAssumption DEF IInv
<1>1. UNCHANGED <<stateVars, loopVars, received, failures, report, told>>
  BY DEF Kernel, Exit, Reap, Reuse, Kill, KillReturns, Expire, kernelVars, observed
<1>2. TypeOK'
  <2>1. ASSUME NEW t \in Targets, Exit(t) \/ Reap(t) \/ Reuse(t)
        PROVE  TypeOK'
    <3>1. CASE Exit(t)
      BY <3>1 DEF TypeOK, Exit, stateVars, loopVars, observed
    <3>2. CASE Reap(t)
      <4>1. /\ ticks' \in [Targets -> 0..MaxTicks] /\ zombie' \in [Targets -> BOOLEAN]
            /\ UNCHANGED <<born, flight, auditQ, sent, failures, killer, received, horizon>>
        BY <3>2 DEF TypeOK, Reap, observed
      <4> QED
        BY <1>1, <4>1 DEF TypeOK, stateVars, loopVars
    <3>3. CASE Reuse(t)
      <4>1. born[t] + 1 \in 1..MaxTicks /\ born[t] + 1 \in 0..MaxTicks
        BY <3>3 DEF TypeOK, Reuse
      <4> QED
        BY <3>3, <4>1 DEF TypeOK, Reuse, stateVars, loopVars, observed
    <3> QED
      BY <2>1, <3>1, <3>2, <3>3
  <2>2. ASSUME NEW s \in Senders, NEW t \in Targets, NEW fatal \in BOOLEAN,
               NEW named \in {t, Elsewhere}, Kill(s, t, fatal, named)
        PROVE  TypeOK'
    <3>1. /\ zombie' \in [Targets -> BOOLEAN] /\ sent' \in 0..MaxSignals
          /\ flight' \in [Senders -> Pids \cup {Nobody}]
      BY <2>2 DEF TypeOK, Kill, Pids
    <3>2. killer' \in [Targets -> Senders \cup {Nobody}]
      BY <2>2 DEF TypeOK, Kill
    <3>3. UNCHANGED <<ticks, born, auditQ, horizon>>
      BY <2>2 DEF Kill
    <3> QED
      BY <1>1, <3>1, <3>2, <3>3 DEF TypeOK, stateVars, loopVars
  <2>3. ASSUME NEW s \in Senders, KillReturns(s)
        PROVE  TypeOK'
    <3>1. [pid |-> flight[s], sender |-> s] \in Records
      BY <2>3 DEF KillReturns, TypeOK, Records
    <3> QED
      BY <2>3, <3>1 DEF TypeOK, KillReturns, stateVars, loopVars, observed
  <2>4. ASSUME Expire
        PROVE  TypeOK'
    BY <2>4 DEF TypeOK, Expire, kernelVars, stateVars, loopVars, observed
  <2> QED
    BY <2>1, <2>2, <2>3, <2>4 DEF Kernel
<1> QED
  BY <1>1, <1>2 DEF stateVars, loopVars, LoopInv, Lost, NothingBeforeFirstScan,
                    FollowsOnlyTarget, ToldIsBelief, PidfdReleased

(* Receiving records and starting a scan leave every belief alone. *)
LEMMA ReceiveStep ==
  ASSUME IInv, pc = "poll", Receive \/ StartScan
  PROVE  IInv'
<1>1. received \o auditQ \in Seq(Records) /\ <<>> \in Seq(Records)
  BY DEF IInv, TypeOK
<1>2. TypeOK'
  <2>1. CASE Receive
    BY <1>1, <2>1 DEF IInv, TypeOK, Receive, AuditReceive, stateVars, loopVars, observed
  <2>2. CASE StartScan
    BY <1>1, <2>2 DEF IInv, TypeOK, StartScan, AuditReceive, stateVars, observed
  <2> QED
    BY <2>1, <2>2
<1>3. LoopInv' /\ UNCHANGED <<stateVars, report, told>>
  BY DEF IInv, LoopInv, Receive, StartScan, loopVars, observed
<1> QED
  BY <1>2, <1>3 DEF IInv, stateVars, NothingBeforeFirstScan, FollowsOnlyTarget,
                    ToldIsBelief, PidfdReleased

(* A target is settled: what is stored is what was found, a descriptor is   *)
(* kept only for a process that was found, and the last notification about  *)
(* the target, new or old, says as much.                                    *)
LEMMA SettleStep ==
  ASSUME IInv, pc \in {"decide", "wait"}, NEW fd \in 0..MaxTicks,
         Settle(fd), found = 0 => fd = 0,
         told' = [told EXCEPT ![cur] = IF found = 0 THEN "missing" ELSE "present"],
         report'.event # "restarted"
  PROVE  /\ LoopInv' /\ NothingBeforeFirstScan' /\ FollowsOnlyTarget'
         /\ ToldIsBelief' /\ PidfdReleased'
         /\ initialized' \in [Targets -> BOOLEAN]
         /\ startTicks' \in [Targets -> 0..MaxTicks]
         /\ pidfd' \in [Targets -> 0..MaxTicks]
         /\ told' \in [Targets -> {"unknown", "present", "missing"}]
         /\ pc' \in {"poll", "scan", "decide", "wait"}
         /\ todo' \in SUBSET Targets /\ cur' \in Targets \cup {Nobody}
         /\ found' \in {0, TargetTicks}
<1> USE ProcessAssumption DEF IInv, TypeOK, TargetTicks
<1>1. cur \in Targets /\ found \in {0, TargetTicks}
  BY DEF LoopInv
<1>2. LoopInv'
  BY DEF LoopInv, Settle
<1>3. NothingBeforeFirstScan'
  BY <1>1 DEF NothingBeforeFirstScan, Settle
<1>4. FollowsOnlyTarget'
  BY <1>1 DEF FollowsOnlyTarget, Settle
<1>5. ToldIsBelief'
  BY <1>1 DEF ToldIsBelief, Settle
<1>6. PidfdReleased'
  BY <1>1 DEF PidfdReleased, Settle
<1> QED
  BY <1>1, <1>2, <1>3, <1>4, <1>5, <1>6 DEF Settle

(* describe_exit names a sender or nobody. *)
LEMMA ReportLossStep ==
  ASSUME IInv, pc \in {"decide", "wait"}, Lost, NEW log \in Seq(Records),
         ReportLoss(log)
  PROVE  /\ LoopInv' /\ NothingBeforeFirstScan' /\ FollowsOnlyTarget'
         /\ ToldIsBelief' /\ PidfdReleased'
         /\ initialized' \in [Targets -> BOOLEAN]
         /\ startTicks' \in [Targets -> 0..MaxTicks]
         /\ pidfd' \in [Targets -> 0..MaxTicks]
         /\ told' \in [Targets -> {"unknown", "present", "missing"}]
         /\ pc' \in {"poll", "scan", "decide", "wait"}
         /\ todo' \in SUBSET Targets /\ cur' \in Targets \cup {Nobody}
         /\ found' \in {0, TargetTicks}
         /\ killer' = killer
         /\ report' \in [target : Targets \cup {Nobody}, event : Events,
                         sender : Senders \cup {Nobody}]
         /\ told'[cur] = "missing"
         /\ \A t \in Targets \ {cur} : told'[t] = told[t]
         /\ report'.sender = FindRecentSignal(log, cur)
<1>1. cur \in Targets /\ found = 0
  BY DEF IInv, TypeOK, LoopInv, FollowsOnlyTarget, Lost, TargetTicks
<1>2. FindRecentSignal(log, cur) \in Senders \cup {Nobody}
  BY <1>1, FindRecentSignalType
<1>3. report' = [target |-> cur, event |-> "exited",
                 sender |-> FindRecentSignal(log, cur)] /\ killer' = killer
  BY <1>1 DEF ReportLoss, Notify
<1>4. told' = [told EXCEPT ![cur] = IF found = 0 THEN "missing" ELSE "present"]
  BY <1>1 DEF ReportLoss, Notify
<1>5. Settle(0)
  BY <1>1 DEF ReportLoss, OpenPidfd
<1>6. 0 \in 0..MaxTicks
  BY ProcessAssumption
<1>7. told'[cur] = "missing" /\ \A t \in Targets \ {cur} : told'[t] = told[t]
  BY <1>1, <1>4 DEF IInv, TypeOK
<1> QED
  <2>1. report'.event # "restarted"
    BY <1>3
  <2>2. report' \in [target : Targets \cup {Nobody}, event : Events,
                     sender : Senders \cup {Nobody}]
    BY <1>1, <1>2, <1>3 DEF Events
  <2>3. report'.sender = FindRecentSignal(log, cur)
    BY <1>3
  <2>4. /\ LoopInv' /\ NothingBeforeFirstScan' /\ FollowsOnlyTarget'
        /\ ToldIsBelief' /\ PidfdReleased'
        /\ initialized' \in [Targets -> BOOLEAN]
        /\ startTicks' \in [Targets -> 0..MaxTicks]
        /\ pidfd' \in [Targets -> 0..MaxTicks]
        /\ told' \in [Targets -> {"unknown", "present", "missing"}]
        /\ pc' \in {"poll", "scan", "decide", "wait"}
        /\ todo' \in SUBSET Targets /\ cur' \in Targets \cup {Nobody}
        /\ found' \in {0, TargetTicks}
    <3> HIDE DEF IInv
    <3> QED
      BY <1>1, <1>4, <1>5, <1>6, <2>1, SettleStep
  <2> QED
    BY <1>3, <1>7, <2>2, <2>3, <2>4

(* The steps of a scan. *)
LEMMA ScanStep ==
  ASSUME IInv, Scan
  PROVE  IInv'
<1> USE ProcessAssumption
<1>1. ASSUME NEW t \in Targets, ScanRead(t)
      PROVE  IInv'
  <2>1. found' \in {0, TargetTicks} /\ failures' \in 0..MaxFailures
    BY <1>1 DEF ScanRead, FindProcess, IInv, TypeOK
  <2>2. /\ pc' = "decide" /\ cur' \in Targets /\ todo' \in SUBSET Targets
        /\ UNCHANGED <<kernelVars, stateVars, received, horizon, observed>>
    BY <1>1 DEF IInv, TypeOK, ScanRead
  <2>3. TypeOK'
    BY <2>1, <2>2 DEF IInv, TypeOK, kernelVars, stateVars, observed
  <2> QED
    BY <1>1, <2>1, <2>3 DEF IInv, ScanRead, LoopInv, NothingBeforeFirstScan,
         FollowsOnlyTarget, ToldIsBelief, PidfdReleased, stateVars, observed
<1>2. CASE ScanDone
  <2>1. TypeOK'
    BY <1>2 DEF IInv, TypeOK, ScanDone, kernelVars, stateVars, observed
  <2> QED
    BY <1>2, <2>1 DEF IInv, ScanDone, LoopInv, NothingBeforeFirstScan,
         FollowsOnlyTarget, ToldIsBelief, PidfdReleased, stateVars, observed
<1>3. CASE FirstScan
  <2>1. cur \in Targets /\ OpenPidfd \in 0..MaxTicks /\ (found = 0 => OpenPidfd = 0)
    BY <1>3 DEF IInv, LoopInv, TypeOK, FirstScan, OpenPidfd
  <2>2. /\ told' = [told EXCEPT ![cur] = IF found = 0 THEN "missing" ELSE "present"]
        /\ report' \in {report, [target |-> cur, event |-> "missing", sender |-> Nobody]}
        /\ killer' = killer
    BY <1>3 DEF FirstScan, Notify
  <2>3. report'.event # "restarted"
    BY <2>2 DEF IInv, FollowsOnlyTarget
  <2>4. report' \in [target : Targets \cup {Nobody}, event : Events,
                     sender : Senders \cup {Nobody}]
    BY <2>1, <2>2 DEF IInv, TypeOK, Events
  <2> QED
    BY <1>3, <2>1, <2>2, <2>3, <2>4, SettleStep
    DEF FirstScan, IInv, TypeOK, kernelVars
<1>4. CASE SameAsBefore
  <2>1. cur \in Targets
    BY <1>4 DEF IInv, LoopInv, SameAsBefore
  <2>2. pidfd[cur] \in 0..MaxTicks /\ (found = 0 => pidfd[cur] = 0)
    BY <1>4, <2>1 DEF IInv, TypeOK, SameAsBefore, PidfdReleased
  <2>3. told' = [told EXCEPT ![cur] = IF found = 0 THEN "missing" ELSE "present"]
    <3>1. told[cur] = IF found = 0 THEN "missing" ELSE "present"
      BY <1>4, <2>1 DEF IInv, SameAsBefore, ToldIsBelief
    <3>2. told = [told EXCEPT ![cur] = told[cur]]
      BY <2>1 DEF IInv, TypeOK
    <3> QED
      BY <1>4, <3>1, <3>2 DEF SameAsBefore, observed
  <2>4. report'.event # "restarted"
    BY <1>4 DEF IInv, FollowsOnlyTarget, SameAsBefore, observed
  <2> QED
    BY <1>4, <2>1, <2>2, <2>3, <2>4, SettleStep
    DEF SameAsBefore, IInv, TypeOK, kernelVars, observed
<1>5. CASE Recovered
  <2>1. cur \in Targets /\ OpenPidfd \in 0..MaxTicks /\ found # 0
    BY <1>5 DEF IInv, LoopInv, TypeOK, Recovered, OpenPidfd
  <2>2. /\ told' = [told EXCEPT ![cur] = IF found = 0 THEN "missing" ELSE "present"]
        /\ report' = [target |-> cur, event |-> "recovered", sender |-> Nobody]
        /\ killer' = killer
    BY <1>5, <2>1 DEF Recovered, Notify
  <2>3. report' \in [target : Targets \cup {Nobody}, event : Events,
                     sender : Senders \cup {Nobody}] /\ report'.event # "restarted"
    BY <2>1, <2>2 DEF Events
  <2> QED
    BY <1>5, <2>1, <2>2, <2>3, SettleStep DEF Recovered, IInv, TypeOK, kernelVars
<1>6. CASE LostKnown
  <2>1. received \in Seq(Records)
    BY DEF IInv, TypeOK
  <2> QED
    BY <1>6, <2>1, ReportLossStep DEF LostKnown, IInv, TypeOK, kernelVars
<1>7. CASE LostWait
  <2>1. found = 0 /\ cur \in Targets
    BY <1>7 DEF LostWait, Lost, IInv, TypeOK, LoopInv, FollowsOnlyTarget, TargetTicks
  <2>2. TypeOK'
    <3>1. pc' = "wait"
      BY <1>7 DEF LostWait
    <3>2. UNCHANGED <<kernelVars, stateVars, todo, cur, found, received, horizon,
                      failures, observed>>
      BY <1>7 DEF LostWait
    <3> QED
      BY <3>1, <3>2 DEF IInv, TypeOK, kernelVars, stateVars, observed
  <2> QED
    BY <1>7, <2>1, <2>2 DEF IInv, LostWait, Lost, LoopInv, NothingBeforeFirstScan,
         FollowsOnlyTarget, ToldIsBelief, PidfdReleased, stateVars, observed
<1>8. CASE WaitHeard
  <2>1. received \o auditQ \in Seq(Records) /\ <<>> \in Seq(Records) /\ Lost
    BY <1>8 DEF IInv, TypeOK, WaitHeard, LoopInv
  <2> QED
    BY <1>8, <2>1, ReportLossStep DEF WaitHeard, AuditReceive, IInv, TypeOK
<1>9. CASE WaitTimeout
  <2>1. received \in Seq(Records) /\ Lost
    BY <1>9 DEF IInv, TypeOK, WaitTimeout, LoopInv
  <2> QED
    BY <1>9, <2>1, ReportLossStep DEF WaitTimeout, IInv, TypeOK, kernelVars
<1> QED
  BY <1>1, <1>2, <1>3, <1>4, <1>5, <1>6, <1>7, <1>8, <1>9 DEF Scan

LEMMA NextIInv == IInv /\ [Next]_vars => IInv'
<1> SUFFICES ASSUME IInv, [Next]_vars PROVE IInv'
  OBVIOUS
<1>1. CASE Kernel
  BY <1>1, KernelStep
<1>2. CASE Receive \/ WakeOnExit \/ IntervalElapsed
  BY <1>2, ReceiveStep DEF Receive, WakeOnExit, IntervalElapsed
<1>3. CASE Scan
  BY <1>3, ScanStep
<1>4. CASE UNCHANGED vars
  BY <1>4 DEF vars, kernelVars, stateVars, loopVars, observed, IInv, TypeOK, LoopInv,
              Lost, NothingBeforeFirstScan, FollowsOnlyTarget, ToldIsBelief, PidfdReleased
<1> QED
  BY <1>1, <1>2, <1>3, <1>4 DEF Next

LEMMA Inductive == Spec => []IInv
  BY InitIInv, NextIInv, PTL DEF Spec

-----------------------------------------------------------------------------
(* The variables keep their types. *)
THEOREM TypeCorrect == Spec => []TypeOK
<1>1. IInv => TypeOK
  BY DEF IInv
<1> QED
  BY <1>1, Inductive, PTL

(* The monitor never follows another process that has the PID              *)
(* (find_process), whatever the machine does.                              *)
THEOREM FollowsOnlyTheTarget == Spec => []FollowsOnlyTarget
<1>1. IInv => FollowsOnlyTarget
  BY DEF IInv
<1> QED
  BY <1>1, Inductive, PTL

(* The notifications about a target agree with what scan_processes stores.  *)
THEOREM NotificationsMatch == Spec => []ToldIsBelief
<1>1. IInv => ToldIsBelief
  BY DEF IInv
<1> QED
  BY <1>1, Inductive, PTL

(* No pidfd is held for a target that is missing (close_process_state).     *)
THEOREM PidfdsReleased == Spec => []PidfdReleased
<1>1. IInv => PidfdReleased
  BY DEF IInv
<1> QED
  BY <1>1, Inductive, PTL

(* An exit is reported with an unknown cause only when neither the ring nor *)
(* the socket has a usable record about the PID (wait_for_audit_signal).    *)
THEOREM UnknownIsUnheard == Spec => UnknownOnlyUnheard
<1> DEFINE A == \A t \in Targets :
       (told[t] = "present" /\ told'[t] = "missing" /\ report'.sender = Nobody)
         => RecentSignals(received \o auditQ, t) = {}
<1>1. IInv /\ [Next]_vars => [A]_vars
  <2> SUFFICES ASSUME IInv, Next, NEW t \in Targets,
                      told[t] = "present", told'[t] = "missing", report'.sender = Nobody
               PROVE  RecentSignals(received \o auditQ, t) = {}
    BY DEF A
  <2> USE DEF IInv, TypeOK
  <2>1. Scan /\ told' # told
    BY DEF Next, Kernel, Exit, Reap, Reuse, Kill, KillReturns, Expire, Receive,
           WakeOnExit, IntervalElapsed, StartScan, observed
  <2>2. LostKnown \/ WaitHeard \/ WaitTimeout
    <3>1. ~(\E u \in Targets : ScanRead(u)) /\ ~ScanDone /\ ~SameAsBefore /\ ~LostWait
      BY <2>1 DEF ScanRead, ScanDone, SameAsBefore, LostWait, observed
    <3>2. ~FirstScan
      BY DEF FirstScan, Notify, ToldIsBelief, LoopInv
    <3>3. ~Recovered
      BY DEF Recovered, Notify, LoopInv
    <3> QED
      BY <2>1, <3>1, <3>2, <3>3 DEF Scan
  <2>3. cur \in Targets /\ Lost
    BY <2>2 DEF LostKnown, WaitHeard, WaitTimeout, LoopInv
  <2>4. CASE LostKnown
    BY <2>3, <2>4, ReportLossStep, FindRecentSignalType DEF LostKnown
  <2>5. CASE WaitHeard
    <3>1. received \o auditQ \in Seq(Records)
      OBVIOUS
    <3>2. t = cur /\ FindRecentSignal(received \o auditQ, cur) = Nobody
      BY <2>3, <2>5, <3>1, ReportLossStep DEF WaitHeard
    <3> DEFINE log == received \o auditQ
    <3> HIDE DEF log, IInv, TypeOK
    <3>3. log \in Seq(Records) /\ FindRecentSignal(log, t) = Nobody
      BY <3>1, <3>2 DEF log
    <3>4. RecentSignals(log, t) = {}
      BY <3>3, FindRecentSignalType, ProcessAssumption
    <3> QED
      BY <3>4 DEF log
  <2>6. CASE WaitTimeout
    <3>1. received \o auditQ = received
      BY <2>6 DEF WaitTimeout
    <3>2. t = cur /\ FindRecentSignal(received, cur) = Nobody
      BY <2>3, <2>6, ReportLossStep DEF WaitTimeout
    <3>3. RecentSignals(received, t) = {}
      BY <3>2, FindRecentSignalType, ProcessAssumption
    <3> HIDE DEF IInv, TypeOK
    <3> QED
      BY <3>1, <3>3
  <2> QED
    BY <2>2, <2>4, <2>5, <2>6
<1> QED
  BY <1>1, Inductive, PTL DEF Spec, UnknownOnlyUnheard, A
=============================================================================
