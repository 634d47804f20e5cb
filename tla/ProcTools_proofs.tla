---------------------------- MODULE ProcTools_proofs ----------------------------
(***************************************************************************)
(* Theorems about the three process tools, for every set of PIDs, every    *)
(* size of the job table and every bound.                                  *)
(***************************************************************************)
EXTENDS ProcTools, FiniteSetTheorems, SequenceTheorems, TLAPS

Entry == [start : 0..births, up : BOOLEAN, parent : Pids \cup {0, Forge}]

(* The kernel's table: start times are the past's and tell processes apart. *)
TableOK ==
    /\ births \in Nat
    /\ table \in [Pids -> Entry]
    /\ \A p, q \in Pids : table[p].start = table[q].start /\ There(p) => p = q

Job == [pid : Pids \cup {0}, start : Nat, state : {"dry_run", "running", "ended", "wait_failed"}]
ForgeType == [up : BOOLEAN, dry : BOOLEAN, keys : Nat]
ForgeOK ==
    /\ forge \in ForgeType
    /\ jobs \in Seq(Job)
    /\ \A i \in DOMAIN jobs : jobs[i].start <= births

(* While testforge runs, a running job is a child of its own, so that      *)
(* nobody else can wait for it and its number is not given again, and two  *)
(* running jobs are two children.                                          *)
OwnChild(job) ==
    /\ job.pid \in Pids /\ There(job.pid)
    /\ table[job.pid].start = job.start /\ table[job.pid].parent = Forge
Running(i) == jobs[i].state = "running"
RunningOwn == \A i \in DOMAIN jobs : Running(i) => OwnChild(jobs[i])
RunningApart == \A i, j \in DOMAIN jobs : Running(i) /\ Running(j) /\ jobs[i].pid = jobs[j].pid => i = j
NoneFailed == \A i \in DOMAIN jobs : jobs[i].state # "wait_failed"
EndedGone == \A i \in DOMAIN jobs : jobs[i].state = "ended" => \A q \in Present : table[q].start # jobs[i].start
Entered(q) == \/ table[q].start \in dropped
              \/ \E i \in DOMAIN jobs : jobs[i].pid = q /\ jobs[i].start = table[q].start /\ Running(i)
AllEntered == \A q \in Present : table[q].parent = Forge => Entered(q)
JobsInv == forge.up => RunningOwn /\ RunningApart /\ NoneFailed /\ EndedGone /\ AllEntered

Inv == TableOK /\ ForgeOK /\ JobsInv

LEMMA ForgeIsNobody == Forge \notin Pids /\ Forge # 0 /\ 0 \notin Pids /\ Pids \subseteq Nat
  BY ProcTableAssumption DEF ProcTableAssumption

(* What everyone but testforge does to the table: nothing, a birth, an end, *)
(* or a wait by a parent that is not testforge.                             *)
Birth(p, parent) == p \in Pids \ Present /\ table' = Started(p, parent) /\ births' = births + 1
Death(p) == p \in Pids /\ table' = Ended(p) /\ births' = births
Wait(p) == p \in Present /\ ~table[p].up /\ table[p].parent # Forge /\ table' = [table EXCEPT ![p] = Nobody] /\ births' = births

LEMMA BirthKeepsTable ==
  ASSUME TableOK, NEW p, NEW parent \in Pids \cup {0, Forge}, Birth(p, parent)
  PROVE  TableOK'
  BY ForgeIsNobody DEF TableOK, Birth, Started, Present, There, Entry

LEMMA DeathKeepsTable ==
  ASSUME TableOK, NEW p, Death(p)
  PROVE  TableOK'
  BY ForgeIsNobody DEF TableOK, Death, Ended, Orphaned, There, Entry

LEMMA WaitKeepsTable ==
  ASSUME TableOK, NEW p \in Pids, table' = [table EXCEPT ![p] = Nobody], births' = births
  PROVE  TableOK'
  BY ForgeIsNobody DEF TableOK, Nobody, There, Entry

LEMMA JobsInvIsEnough ==
  ASSUME JobsInv
  PROVE  JobsTrue
<1> SUFFICES ASSUME forge.up PROVE JobsTrue
  BY DEF JobsTrue
<1>1. RunningOwn /\ NoneFailed /\ EndedGone /\ AllEntered
  BY DEF JobsInv
<1>2. \A i \in DOMAIN jobs : jobs[i].state = "running" => Who(jobs[i].pid).start = jobs[i].start
  BY <1>1 DEF RunningOwn, Running, OwnChild, Who
<1>3. \A i \in DOMAIN jobs : jobs[i].state = "ended" => ~\E p \in Present : table[p].start = jobs[i].start
  BY <1>1 DEF EndedGone
<1>4. \A p \in Present : table[p].parent = Forge =>
            \/ table[p].start \in dropped
            \/ \E i \in DOMAIN jobs : jobs[i].pid = p /\ jobs[i].start = table[p].start /\ jobs[i].state = "running"
  BY <1>1 DEF AllEntered, Entered, Running
<1> QED
  BY <1>1, <1>2, <1>3, <1>4 DEF NoneFailed, JobsTrue

(***************************************************************************)
(* testforge's jobs.                                                       *)
(***************************************************************************)
LEMMA OthersKeepJobs ==
  ASSUME Inv, UNCHANGED testForge, NEW p,
         \/ \E parent \in Pids \cup {0} : Birth(p, parent)
         \/ Death(p) \/ Wait(p)
  PROVE  Inv'
<1> USE ForgeIsNobody
<1>t. TableOK /\ ForgeOK /\ p \in Pids /\ jobs' = jobs /\ dropped' = dropped /\ forge' = forge
  BY DEF Inv, Birth, Death, Wait, Present, testForge
<1>s. \A q \in Pids :
        \/ table'[q].start = table[q].start /\ (table[q].parent = Forge <=> table'[q].parent = Forge)
        \/ /\ ~There(q) \/ table[q].parent # Forge
           /\ table'[q].start = 0 \/ (table'[q].start = births + 1 /\ table'[q].parent # Forge)
  <2>1. CASE \E parent \in Pids \cup {0} : Birth(p, parent)
    BY <1>t, <2>1 DEF TableOK, Birth, Started, Present, There, Entry
  <2>2. CASE Death(p)
    BY <1>t, <2>2 DEF TableOK, Death, Ended, Orphaned, Entry
  <2>3. CASE Wait(p)
    BY <1>t, <2>3 DEF TableOK, Wait, Nobody, Present, Entry
  <2> QED
    BY <2>1, <2>2, <2>3, <1>t
<1>1. TableOK'
  BY <1>t, BirthKeepsTable, DeathKeepsTable, WaitKeepsTable DEF Wait, Present
<1>b. births \in Nat /\ births' \in {births, births + 1}
  BY <1>t DEF TableOK, Birth, Death, Wait
<1>j. \A i \in DOMAIN jobs : jobs[i].start \in Nat /\ jobs[i].start <= births
  <2>1. \A i \in DOMAIN jobs : jobs[i] \in Job /\ jobs[i].start <= births
    BY <1>t DEF ForgeOK
  <2>2. \A j \in Job : j.start \in Nat
    BY DEF Job
  <2> QED
    BY <2>1, <2>2
<1>2. ForgeOK'
  BY <1>t, <1>b, <1>j DEF ForgeOK
<1>3. ASSUME forge.up
      PROVE  (RunningOwn /\ RunningApart /\ NoneFailed /\ EndedGone /\ AllEntered)'
  <2>i. RunningOwn /\ RunningApart /\ NoneFailed /\ EndedGone /\ AllEntered
    BY <1>3 DEF Inv, JobsInv
  <2>1. RunningOwn'
    BY <1>s, <1>t, <2>i DEF RunningOwn, OwnChild, Running, There
  <2>2. RunningApart' /\ NoneFailed'
    BY <1>t, <2>i DEF RunningApart, NoneFailed, Running
  <2>3. EndedGone'
    <3> SUFFICES ASSUME NEW i \in DOMAIN jobs, jobs[i].state = "ended", NEW q \in Present', table'[q].start = jobs[i].start
                 PROVE  FALSE
      BY <1>t DEF EndedGone
    <3>1. jobs[i].start \in Nat /\ jobs[i].start <= births /\ births \in Nat
      BY <1>j, <1>b
    <3>2. q \in Pids /\ table'[q].start # 0 /\ table'[q].start # births + 1
      BY <3>1 DEF Present, There
    <3>3. q \in Present /\ table[q].start = jobs[i].start
      BY <1>s, <3>2 DEF Present, There
    <3> QED
      BY <2>i, <3>3 DEF EndedGone
  <2>4. AllEntered'
    <3> SUFFICES ASSUME NEW q \in Present', table'[q].parent = Forge
                 PROVE  Entered(q)'
      BY DEF AllEntered
    <3>1. q \in Present /\ table[q].parent = Forge /\ table'[q].start = table[q].start
      BY <1>s DEF Present, There
    <3>2. Entered(q)
      BY <2>i, <3>1 DEF AllEntered
    <3> QED
      BY <1>t, <3>1, <3>2, Zenon DEF Entered, Running
  <2> QED
    BY <2>1, <2>2, <2>3, <2>4
<1> QED
  BY <1>1, <1>2, <1>3, <1>t DEF Inv, JobsInv

(* What a key leaves of testforge's own state.                             *)
LEMMA KeyKeepsForge ==
  ASSUME forge \in ForgeType, NEW f \in ForgeType, f.up \in {forge.up, FALSE}, ForgeKey(f)
  PROVE  forge' \in ForgeType /\ forge'.up = f.up /\ forge.up
<1>1. forge' = [f EXCEPT !.keys = @ + 1] /\ forge.up
  BY DEF ForgeKey
<1>2. f.keys + 1 \in Nat
  BY DEF ForgeType
<1> QED
  BY <1>1, <1>2 DEF ForgeType

LEMMA UnchangedJobs ==
  ASSUME Inv, UNCHANGED <<procTable, jobs, dropped>>, forge' \in ForgeType, forge'.up \in {forge.up, FALSE}
  PROVE  Inv'
<1>1. table' = table /\ births' = births /\ jobs' = jobs /\ dropped' = dropped
  BY DEF procTable
<1>2. TableOK'
  BY <1>1 DEF Inv, TableOK, There, Entry
<1>3. ForgeOK'
  BY <1>1 DEF Inv, ForgeOK, ForgeType
<1>4. (RunningOwn <=> RunningOwn') /\ (RunningApart <=> RunningApart') /\ (NoneFailed <=> NoneFailed')
  BY <1>1 DEF RunningOwn, RunningApart, NoneFailed, OwnChild, Running, There
<1>5. EndedGone <=> EndedGone'
  BY <1>1 DEF EndedGone, Present, There
<1>6. AllEntered <=> AllEntered'
  <2>1. \A q : Entered(q) <=> Entered(q)'
    BY <1>1, Zenon DEF Entered, Running
  <2>2. Present' = Present
    BY <1>1 DEF Present, There
  <2> QED
    BY <1>1, <2>1, <2>2 DEF AllEntered
<1>7. JobsInv'
  BY <1>4, <1>5, <1>6 DEF Inv, JobsInv
<1> QED
  BY <1>2, <1>3, <1>7 DEF Inv

LEMMA Appended ==
  ASSUME NEW S, NEW s \in Seq(S), NEW e \in S
  PROVE  /\ Append(s, e) \in Seq(S)
         /\ DOMAIN Append(s, e) = DOMAIN s \cup {Len(s) + 1} /\ Len(s) + 1 \notin DOMAIN s
         /\ \A i \in DOMAIN s : Append(s, e)[i] = s[i]
         /\ Append(s, e)[Len(s) + 1] = e
  OBVIOUS

(* An entry of a dry run says nothing of the table.                         *)
LEMMA DryJobKeepsInv ==
  ASSUME Inv, forge.up, forge' \in ForgeType, UNCHANGED <<procTable, dropped>>,
         NEW job \in Job, job.state = "dry_run", job.start = 0, jobs' = Append(jobs, job)
  PROVE  Inv'
<1>1. TableOK /\ ForgeOK /\ RunningOwn /\ RunningApart /\ NoneFailed /\ EndedGone /\ AllEntered
  BY DEF Inv, JobsInv
<1>t. table' = table /\ births' = births /\ dropped' = dropped
  BY DEF procTable
<1>2. /\ jobs' \in Seq(Job) /\ DOMAIN jobs' = DOMAIN jobs \cup {Len(jobs) + 1} /\ Len(jobs) + 1 \notin DOMAIN jobs
      /\ (\A i \in DOMAIN jobs : jobs'[i] = jobs[i]) /\ jobs'[Len(jobs) + 1] = job
  <2>1. jobs \in Seq(Job)
    BY <1>1 DEF ForgeOK
  <2> QED
    BY <2>1, Appended
<1>3. TableOK'
  BY <1>1, <1>t DEF TableOK, There, Entry
<1>4. ForgeOK'
  <2>1. \A i \in DOMAIN jobs' : jobs'[i].start <= births
    <3> SUFFICES ASSUME NEW i \in DOMAIN jobs' PROVE jobs'[i].start <= births
      OBVIOUS
    <3>1. CASE i \in DOMAIN jobs
      BY <3>1, <1>1, <1>2 DEF ForgeOK
    <3>2. CASE i = Len(jobs) + 1
      BY <3>2, <1>1, <1>2 DEF TableOK
    <3> QED
      BY <3>1, <3>2, <1>2
  <2> QED
    BY <1>2, <1>t, <2>1 DEF ForgeOK
<1>5. RunningOwn'
  BY <1>1, <1>2, <1>t DEF RunningOwn, Running, OwnChild, There
<1>6. RunningApart'
  <2>1. \A i \in DOMAIN jobs' : Running(i)' => i \in DOMAIN jobs /\ Running(i) /\ jobs'[i] = jobs[i]
    BY <1>2 DEF Running
  <2> SUFFICES ASSUME NEW i \in DOMAIN jobs', NEW j \in DOMAIN jobs', Running(i)', Running(j)', jobs'[i].pid = jobs'[j].pid
               PROVE  i = j
    BY DEF RunningApart
  <2>2. i \in DOMAIN jobs /\ j \in DOMAIN jobs /\ Running(i) /\ Running(j) /\ jobs[i].pid = jobs[j].pid
    BY <2>1
  <2> QED
    BY <1>1, <2>2 DEF RunningApart
<1>f. NoneFailed'
  BY <1>1, <1>2 DEF NoneFailed
<1>p. Present' = Present
  BY <1>t DEF Present, There
<1>7. EndedGone'
  <2> SUFFICES ASSUME NEW i \in DOMAIN jobs', jobs'[i].state = "ended", NEW q \in Present
               PROVE  table[q].start # jobs'[i].start
    BY <1>p, <1>t DEF EndedGone
  <2>1. i \in DOMAIN jobs /\ jobs[i].state = "ended" /\ jobs'[i] = jobs[i]
    BY <1>2
  <2> QED
    BY <1>1, <2>1 DEF EndedGone
<1>8. AllEntered'
  <2> SUFFICES ASSUME NEW q \in Present, table[q].parent = Forge PROVE Entered(q)'
    BY <1>t DEF AllEntered, Present, There
  <2>1. Entered(q)
    BY <1>1 DEF AllEntered
  <2>2. CASE table[q].start \in dropped
    BY <2>2, <1>t DEF Entered
  <2>3. CASE \E i \in DOMAIN jobs : jobs[i].pid = q /\ jobs[i].start = table[q].start /\ Running(i)
    <3>1. PICK i \in DOMAIN jobs : jobs[i].pid = q /\ jobs[i].start = table[q].start /\ Running(i)
      BY <2>3
    <3>2. i \in DOMAIN jobs' /\ jobs'[i] = jobs[i]
      BY <1>2
    <3> QED
      BY <3>1, <3>2, <1>t DEF Entered, Running
  <2> QED
    BY <2>1, <2>2, <2>3 DEF Entered
<1> QED
  BY <1>3, <1>4, <1>5, <1>6, <1>f, <1>7, <1>8 DEF Inv, JobsInv

(* A child is new to everything, and it is entered or dropped.              *)
LEMMA ChildKeepsInv ==
  ASSUME Inv, forge.up, forge' \in ForgeType, NEW p, Birth(p, Forge),
         NEW job \in Job, job.pid = p, job.start = births + 1, job.state = "running",
         \/ jobs' = jobs /\ dropped' = dropped \cup {births + 1}
         \/ jobs' = Append(jobs, job) /\ dropped' = dropped
  PROVE  Inv'
<1> USE ForgeIsNobody
<1>1. TableOK /\ ForgeOK /\ RunningOwn /\ RunningApart /\ NoneFailed /\ EndedGone /\ AllEntered
  BY DEF Inv, JobsInv
<1>2. TableOK'
  BY <1>1, BirthKeepsTable
<1>b. births \in Nat /\ births' = births + 1
  BY <1>1 DEF TableOK, Birth
<1>3. /\ p \in Pids \ Present /\ table'[p].start = births + 1 /\ table'[p].parent = Forge
      /\ \A q \in Pids \ {p} : table'[q] = table[q]
  BY <1>1 DEF TableOK, Birth, Started
<1>4. Present' = Present \cup {p}
  <2>1. births + 1 # 0
    BY <1>b
  <2> QED
    BY <2>1, <1>3 DEF Present, There
<1>j. jobs \in Seq(Job) /\ \A i \in DOMAIN jobs : jobs[i].start <= births
  BY <1>1 DEF ForgeOK
<1>k. \A i \in DOMAIN jobs : jobs[i].start \in Nat
  <2>1. \A i \in DOMAIN jobs : jobs[i] \in Job
    BY <1>j
  <2>2. \A j \in Job : j.start \in Nat
    BY DEF Job
  <2> QED
    BY <2>1, <2>2
<1>5. \A i \in DOMAIN jobs : i \in DOMAIN jobs' /\ jobs'[i] = jobs[i]
  BY <1>j, Appended
<1>6. \A i \in DOMAIN jobs' : i \in DOMAIN jobs \/ (i = Len(jobs) + 1 /\ jobs'[i] = job)
  BY <1>j, Appended
<1>7. jobs' \in Seq(Job)
  BY <1>j, Appended
<1>8. births + 1 \in dropped' \/ \E i \in DOMAIN jobs' : jobs'[i] = job
  BY <1>j, Appended
<1>9. dropped \subseteq dropped'
  OBVIOUS
<1>a. ForgeOK'
  <2>1. \A i \in DOMAIN jobs' : jobs'[i].start <= births'
    <3> SUFFICES ASSUME NEW i \in DOMAIN jobs' PROVE jobs'[i].start <= births + 1
      BY <1>b
    <3>1. CASE i \in DOMAIN jobs
      BY <3>1, <1>j, <1>k, <1>5, <1>b
    <3>2. CASE jobs'[i] = job
      BY <3>2, <1>b
    <3> QED
      BY <3>1, <3>2, <1>6
  <2> QED
    BY <1>7, <2>1 DEF ForgeOK
<1>c. OwnChild(job)'
  BY <1>3, <1>b DEF OwnChild, There
<1>d. \A i \in DOMAIN jobs : Running(i) => OwnChild(jobs[i]) /\ OwnChild(jobs[i])' /\ jobs[i].pid \in Present /\ jobs[i].pid # p
  <2> SUFFICES ASSUME NEW i \in DOMAIN jobs, Running(i)
               PROVE  OwnChild(jobs[i]) /\ OwnChild(jobs[i])' /\ jobs[i].pid \in Present /\ jobs[i].pid # p
    OBVIOUS
  <2>1. OwnChild(jobs[i])
    BY <1>1 DEF RunningOwn
  <2>2. jobs[i].pid \in Present /\ jobs[i].pid # p
    BY <2>1, <1>3 DEF OwnChild, Present
  <2>3. table'[jobs[i].pid] = table[jobs[i].pid]
    BY <2>1, <2>2, <1>3 DEF OwnChild
  <2>4. OwnChild(jobs[i])'
    BY <2>1, <2>3, <1>5 DEF OwnChild, There
  <2> QED
    BY <2>1, <2>2, <2>4
<1>e. RunningOwn'
  <2> SUFFICES ASSUME NEW i \in DOMAIN jobs', Running(i)' PROVE OwnChild(jobs[i])'
    BY DEF RunningOwn
  <2>1. CASE i \in DOMAIN jobs
    BY <2>1, <1>d, <1>5 DEF Running
  <2>2. CASE jobs'[i] = job
    BY <2>2, <1>c
  <2> QED
    BY <2>1, <2>2, <1>6
<1>f. RunningApart'
  <2> SUFFICES ASSUME NEW i \in DOMAIN jobs', NEW j \in DOMAIN jobs', Running(i)', Running(j)', jobs'[i].pid = jobs'[j].pid
               PROVE  i = j
    BY DEF RunningApart
  <2>1. CASE i \in DOMAIN jobs /\ j \in DOMAIN jobs
    BY <2>1, <1>5, <1>1 DEF RunningApart, Running
  <2>2. CASE i \in DOMAIN jobs /\ j \notin DOMAIN jobs
    BY <2>2, <1>5, <1>6, <1>d DEF Running
  <2>3. CASE i \notin DOMAIN jobs /\ j \in DOMAIN jobs
    BY <2>3, <1>5, <1>6, <1>d DEF Running
  <2>4. CASE i \notin DOMAIN jobs /\ j \notin DOMAIN jobs
    BY <2>4, <1>6
  <2> QED
    BY <2>1, <2>2, <2>3, <2>4
<1>g. NoneFailed'
  BY <1>1, <1>5, <1>6 DEF NoneFailed
<1>h. EndedGone'
  <2> SUFFICES ASSUME NEW i \in DOMAIN jobs', jobs'[i].state = "ended", NEW q \in Present \cup {p}
               PROVE  table'[q].start # jobs'[i].start
    BY <1>4 DEF EndedGone
  <2>1. i \in DOMAIN jobs /\ jobs'[i] = jobs[i] /\ jobs[i].state = "ended"
    BY <1>5, <1>6
  <2>2. CASE q = p
    BY <2>1, <2>2, <1>3, <1>b, <1>j, <1>k
  <2>3. CASE q \in Present /\ q # p
    BY <2>1, <2>3, <1>1, <1>3 DEF EndedGone, Present
  <2> QED
    BY <2>2, <2>3
<1>i. AllEntered'
  <2> SUFFICES ASSUME NEW q \in Present \cup {p}, table'[q].parent = Forge PROVE Entered(q)'
    BY <1>4 DEF AllEntered
  <2>1. CASE q = p
    BY <2>1, <1>3, <1>8 DEF Entered, Running
  <2>2. CASE q \in Present /\ q # p
    <3>1. table'[q] = table[q]
      BY <2>2, <1>3 DEF Present
    <3>2. CASE table[q].start \in dropped
      BY <3>1, <3>2, <1>9 DEF Entered
    <3>3. CASE \E i \in DOMAIN jobs : jobs[i].pid = q /\ jobs[i].start = table[q].start /\ Running(i)
      <4>1. PICK i \in DOMAIN jobs : jobs[i].pid = q /\ jobs[i].start = table[q].start /\ Running(i)
        BY <3>3
      <4>2. i \in DOMAIN jobs' /\ jobs'[i] = jobs[i]
        BY <1>5
      <4> QED
        BY <3>1, <4>1, <4>2 DEF Entered, Running
    <3>4. Entered(q)
      BY <2>2, <3>1, <1>1 DEF AllEntered
    <3> QED
      BY <3>2, <3>3, <3>4 DEF Entered
  <2> QED
    BY <2>1, <2>2
<1> QED
  BY <1>2, <1>a, <1>e, <1>f, <1>g, <1>h, <1>i DEF Inv, JobsInv

(***************************************************************************)
(* The steps of testforge, of the kernel and of the two screens.           *)
(***************************************************************************)
(* The job that is looked at is an own child that has ended, for one that   *)
(* still runs is left alone; with it goes the only process it stood for.    *)
LEMMA RefreshKeepsInv ==
  ASSUME Inv, NEW k \in DOMAIN jobs, RefreshJob(k)
  PROVE  Inv'
<1> USE ForgeIsNobody
<1> DEFINE pid == jobs[k].pid
<1>1. TableOK /\ ForgeOK /\ RunningOwn /\ RunningApart /\ NoneFailed /\ EndedGone /\ AllEntered /\ forge.up
  BY DEF Inv, JobsInv, RefreshJob
<1>2. Running(k) /\ OwnChild(jobs[k]) /\ pid \in Present
  BY <1>1 DEF RefreshJob, Running, RunningOwn, OwnChild, Present
<1>3. Waited(pid)
  <2>1. ~Waiting(pid)
    BY DEF RefreshJob
  <2>2. table[pid].up \in BOOLEAN
    BY <1>1, <1>2 DEF TableOK, Entry, Present
  <2> QED
    BY <2>1, <2>2, <1>2 DEF Waiting, Waited, OwnChild
<1>4. /\ jobs' = [jobs EXCEPT ![k].state = "ended"] /\ table' = [table EXCEPT ![pid] = Nobody]
      /\ births' = births /\ dropped' = dropped /\ forge' = forge
  BY <1>3 DEF RefreshJob
<1>5. TableOK'
  BY <1>1, <1>2, <1>4, WaitKeepsTable DEF Present
<1>6. /\ DOMAIN jobs' = DOMAIN jobs
      /\ \A i \in DOMAIN jobs : i # k => jobs'[i] = jobs[i]
      /\ jobs'[k] = [jobs[k] EXCEPT !.state = "ended"]
  BY <1>4
<1>7. jobs[k] \in Job /\ jobs \in Seq(Job)
  BY <1>1 DEF ForgeOK
<1>8. jobs'[k] \in Job /\ jobs'[k].state = "ended" /\ jobs'[k].start = jobs[k].start
  BY <1>6, <1>7 DEF Job
<1>9. ForgeOK'
  <2>1. jobs' \in Seq(Job)
    BY <1>4, <1>6, <1>7, <1>8
  <2>2. \A i \in DOMAIN jobs' : jobs'[i].start <= births
    BY <1>1, <1>6, <1>8 DEF ForgeOK
  <2>3. forge \in ForgeType
    BY <1>1 DEF ForgeOK
  <2> QED
    BY <1>4, <2>1, <2>2, <2>3 DEF ForgeOK
<1>a. pid \in Pids /\ table'[pid].start = 0 /\ \A q \in Pids \ {pid} : table'[q] = table[q]
  BY <1>1, <1>2, <1>4 DEF TableOK, Nobody, Present
<1>b. \A q \in Present' : q \in Present /\ q # pid /\ table'[q] = table[q]
  BY <1>a DEF Present, There
<1>c. \A i \in DOMAIN jobs : Running(i)' => i # k /\ Running(i) /\ jobs'[i] = jobs[i]
  BY <1>6, <1>8 DEF Running
<1>d. RunningOwn'
  <2> SUFFICES ASSUME NEW i \in DOMAIN jobs, Running(i)' PROVE OwnChild(jobs[i])'
    BY <1>6 DEF RunningOwn
  <2>1. i # k /\ Running(i) /\ jobs'[i] = jobs[i]
    BY <1>c
  <2>2. OwnChild(jobs[i]) /\ jobs[i].pid # pid
    BY <2>1, <1>1, <1>2 DEF RunningOwn, RunningApart
  <2>3. table'[jobs[i].pid] = table[jobs[i].pid]
    BY <2>2, <1>a DEF OwnChild
  <2> QED
    BY <2>1, <2>2, <2>3 DEF OwnChild, There
<1>e. RunningApart'
  <2> SUFFICES ASSUME NEW i \in DOMAIN jobs, NEW j \in DOMAIN jobs, Running(i)', Running(j)', jobs'[i].pid = jobs'[j].pid
               PROVE  i = j
    BY <1>6 DEF RunningApart
  <2>1. Running(i) /\ Running(j) /\ jobs[i].pid = jobs[j].pid
    BY <1>c
  <2> QED
    BY <2>1, <1>1 DEF RunningApart
<1>f. NoneFailed'
  BY <1>1, <1>6, <1>8 DEF NoneFailed
<1>g. EndedGone'
  <2> SUFFICES ASSUME NEW i \in DOMAIN jobs, jobs'[i].state = "ended", NEW q \in Present'
               PROVE  table'[q].start # jobs'[i].start
    BY <1>6 DEF EndedGone
  <2>1. q \in Present /\ q # pid /\ table'[q] = table[q]
    BY <1>b
  <2>2. CASE i = k
    BY <2>1, <2>2, <1>1, <1>2, <1>8 DEF TableOK, OwnChild, Present
  <2>3. CASE i # k
    BY <2>1, <2>3, <1>1, <1>6 DEF EndedGone
  <2> QED
    BY <2>2, <2>3
<1>h. AllEntered'
  <2> SUFFICES ASSUME NEW q \in Present', table'[q].parent = Forge PROVE Entered(q)'
    BY DEF AllEntered
  <2>1. q \in Present /\ q # pid /\ table'[q] = table[q]
    BY <1>b
  <2>2. Entered(q)
    BY <2>1, <1>1 DEF AllEntered
  <2>3. CASE table[q].start \in dropped
    BY <2>1, <2>3, <1>4 DEF Entered
  <2>4. CASE \E i \in DOMAIN jobs : jobs[i].pid = q /\ jobs[i].start = table[q].start /\ Running(i)
    <3>1. PICK i \in DOMAIN jobs : jobs[i].pid = q /\ jobs[i].start = table[q].start /\ Running(i)
      BY <2>4
    <3>2. jobs'[i] = jobs[i] /\ i \in DOMAIN jobs'
      BY <3>1, <2>1, <1>6
    <3> QED
      BY <3>1, <3>2, <2>1 DEF Entered, Running
  <2> QED
    BY <2>2, <2>3, <2>4 DEF Entered
<1> QED
  BY <1>5, <1>9, <1>d, <1>e, <1>f, <1>g, <1>h DEF Inv, JobsInv

LEMMA QuitKeepsInv ==
  ASSUME Inv, QuitForge
  PROVE  Inv'
<1> USE ForgeIsNobody
<1> DEFINE f == [forge EXCEPT !.up = FALSE]
<1>1. TableOK /\ ForgeOK /\ jobs' = jobs /\ births' = births /\ table' = Orphaned(table, Forge) /\ ForgeKey(f)
  BY DEF Inv, QuitForge
<1>2. f \in ForgeType /\ f.up = FALSE /\ forge \in ForgeType
  BY <1>1 DEF ForgeOK, ForgeType
<1>3. forge' \in ForgeType /\ forge'.up = FALSE
  <2> HIDE DEF f
  <2> QED
    BY <1>1, <1>2, KeyKeepsForge
<1>4. TableOK'
  BY <1>1 DEF TableOK, Orphaned, There, Entry
<1>5. ForgeOK'
  BY <1>1, <1>3 DEF ForgeOK
<1> QED
  BY <1>3, <1>4, <1>5 DEF Inv, JobsInv

LEMMA RunKeepsInv ==
  ASSUME Inv, RunStep
  PROVE  Inv'
<1> USE ForgeIsNobody
<1>1. TableOK /\ ForgeOK /\ forge \in ForgeType /\ ForgeKey(forge)
  BY DEF Inv, ForgeOK, RunStep
<1>2. forge' \in ForgeType /\ forge'.up = forge.up /\ forge.up
  BY <1>1, KeyKeepsForge
<1>3. CASE forge.dry
  <2> DEFINE job == [pid |-> 0, start |-> 0, state |-> "dry_run"]
  <2>1. job \in Job /\ job.state = "dry_run" /\ job.start = 0
    BY DEF Job
  <2>2. UNCHANGED procTable /\ dropped' = dropped /\ (jobs' = jobs \/ jobs' = Append(jobs, job))
    BY <1>3 DEF RunStep, AddJob
  <2>3. CASE jobs' = jobs
    BY <2>2, <2>3, <1>2, UnchangedJobs
  <2>4. CASE jobs' = Append(jobs, job)
    <3> HIDE DEF job
    <3> QED
      BY <2>1, <2>2, <2>4, <1>2, DryJobKeepsInv
  <2> QED
    BY <2>2, <2>3, <2>4
<1>4. CASE ~forge.dry /\ UNCHANGED <<procTable, jobs, dropped>>
  BY <1>2, <1>4, UnchangedJobs
<1>5. ASSUME NEW p \in Pids \ Present, ~forge.dry, Birth(p, Forge), AddJob(p, births + 1, "running")
      PROVE  Inv'
  <2> DEFINE job == [pid |-> p, start |-> births + 1, state |-> "running"]
  <2>0. births \in Nat
    BY <1>1 DEF TableOK
  <2>1. job \in Job /\ job.pid = p /\ job.start = births + 1 /\ job.state = "running"
    BY <2>0 DEF Job
  <2>2. {births + 1} \ {0} = {births + 1}
    BY <2>0
  <2>3. \/ jobs' = jobs /\ dropped' = dropped \cup {births + 1}
        \/ jobs' = Append(jobs, job) /\ dropped' = dropped
    BY <1>5, <2>2 DEF AddJob
  <2> HIDE DEF job
  <2> QED
    BY <1>2, <1>5, <2>1, <2>3, ChildKeepsInv
<1>6. CASE ~forge.dry
  <2>1. \/ UNCHANGED <<procTable, jobs, dropped>>
        \/ \E p \in Pids \ Present : Birth(p, Forge) /\ AddJob(p, births + 1, "running")
    BY <1>6 DEF RunStep, Birth
  <2> QED
    BY <2>1, <1>4, <1>5, <1>6
<1> QED
  BY <1>3, <1>6

(* The two screens do to the table what a signal does.                      *)
LEMMA OnlySend ==
  ASSUME PpsNext
  PROVE  UNCHANGED procTable \/ Send \/ KillTarget
<1>1. CASE RefreshUi \/ LoadRow \/ Drawn \/ Move \/ Refresh \/ Resize
  BY <1>1 DEF RefreshUi, LoadRow, Drawn, Move, Refresh, Resize, Pressed
<1>2. CASE SearchMove
  BY <1>2, Zenon DEF SearchMove, Pressed
<1>3. CASE SortMenu
  BY <1>3, Zenon DEF SortMenu, Pressed
<1>4. CASE Choose \/ AskSignal \/ AnswerSignal \/ OpenPidfd \/ CheckSame
  BY <1>4 DEF Choose, AskSignal, AnswerSignal, OpenPidfd, CheckSame, Pressed
<1>5. CASE Target \/ FindTarget
  BY <1>5 DEF Target, FindTarget
<1> QED
  BY <1>1, <1>2, <1>3, <1>4, <1>5 DEF PpsNext, CommandLine

LEMMA OnlyKill ==
  ASSUME ViewNext
  PROVE  UNCHANGED procTable \/ Kill
<1>1. CASE AutoRefresh \/ DrawApp \/ NoKey \/ RefreshNow
  BY <1>1 DEF AutoRefresh, DrawApp, NoKey, RefreshNow, Step
<1>2. CASE MoveProcess \/ MoveTree \/ ChangePanel
  BY <1>2 DEF MoveProcess, MoveTree, ChangePanel, Step
<1>3. CASE EditFilter \/ TreeMode
  BY <1>3, Zenon DEF EditFilter, TreeMode, Step
<1>4. CASE AskKill \/ Killed \/ Cancel
  BY <1>4 DEF AskKill, Killed, Cancel
<1> QED
  BY <1>1, <1>2, <1>3, <1>4 DEF ViewNext

LEMMA ScreensKeepTable ==
  ASSUME PpsNext \/ ViewNext
  PROVE  UNCHANGED procTable \/ \E p : Death(p)
<1>1. ASSUME NEW p, NEW start, Signal(p, start)
      PROVE  UNCHANGED procTable \/ Death(p)
  BY <1>1 DEF Signal, Hit, Death, Present, procTable
<1>2. CASE Send \/ KillTarget
  BY <1>1, <1>2 DEF Send, KillTarget
<1>3. CASE Kill
  BY <1>1, <1>3 DEF Kill
<1> QED
  BY <1>2, <1>3, OnlySend, OnlyKill

LEMMA NextKeepsInv ==
  ASSUME Inv, [Next]_vars
  PROVE  Inv'
<1> USE ForgeIsNobody
<1>o. ASSUME UNCHANGED testForge, UNCHANGED procTable
      PROVE  Inv'
  <2>1. forge' = forge /\ UNCHANGED <<procTable, jobs, dropped>>
    BY <1>o DEF testForge
  <2>2. forge \in ForgeType
    BY DEF Inv, ForgeOK
  <2> QED
    BY <2>1, <2>2, UnchangedJobs
<1>1. CASE UNCHANGED vars
  BY <1>1, <1>o DEF vars
<1>2. CASE Kernel
  <2>1. CASE Fork
    <3>1. PICK p \in Pids \ Present, parent \in {0} \cup {q \in Present : table[q].up} :
            table' = Started(p, parent) /\ births' = births + 1
      BY <2>1 DEF Fork
    <3>2. parent \in Pids \cup {0} /\ Birth(p, parent)
      BY <3>1 DEF Birth, Present
    <3> QED
      BY <1>2, <3>2, OthersKeepJobs DEF Kernel
  <2>2. CASE Exit
    <3>1. PICK p : Death(p)
      BY <2>2 DEF Exit, Death, Present
    <3> QED
      BY <1>2, <3>1, OthersKeepJobs DEF Kernel
  <2>3. CASE Reap
    <3>1. PICK p : Wait(p)
      BY <2>3 DEF Reap, Wait
    <3> QED
      BY <1>2, <3>1, OthersKeepJobs DEF Kernel
  <2> QED
    BY <1>2, <2>1, <2>2, <2>3 DEF Kernel
<1>3. CASE ForgeNext
  <2>1. CASE RunStep
    BY <2>1, RunKeepsInv
  <2>2. CASE ToggleDryRun
    <3> DEFINE f == [forge EXCEPT !.dry = ~@]
    <3>1. forge \in ForgeType /\ f \in ForgeType /\ f.up = forge.up
      BY DEF Inv, ForgeOK, ForgeType
    <3>2. ForgeKey(f) /\ UNCHANGED <<procTable, jobs, dropped>>
      BY <2>2 DEF ToggleDryRun
    <3>3. forge' \in ForgeType /\ forge'.up = forge.up
      <4> HIDE DEF f
      <4> QED
        BY <3>1, <3>2, KeyKeepsForge
    <3> QED
      BY <3>2, <3>3, UnchangedJobs
  <2>3. CASE \E i \in DOMAIN jobs : RefreshJob(i)
    BY <2>3, RefreshKeepsInv
  <2>4. CASE QuitForge
    BY <2>4, QuitKeepsInv
  <2> QED
    BY <1>3, <2>1, <2>2, <2>3, <2>4 DEF ForgeNext
<1>4. CASE (PpsNext \/ ViewNext) /\ UNCHANGED testForge
  <2>1. CASE UNCHANGED procTable
    BY <2>1, <1>4, <1>o
  <2>2. CASE \E p : Death(p)
    BY <2>2, <1>4, OthersKeepJobs
  <2> QED
    BY <1>4, <2>1, <2>2, ScreensKeepTable
<1> QED
  BY <1>1, <1>2, <1>3, <1>4 DEF Next

LEMMA InitMakesInv == Init => Inv
<1> SUFFICES ASSUME Init PROVE Inv
  OBVIOUS
<1>1. TableOK
  BY ForgeIsNobody DEF Init, TableInit, TableOK, Nobody, There, Entry
<1>2. jobs = <<>> /\ forge = [up |-> TRUE, dry |-> TRUE, keys |-> 0]
  BY DEF Init, ForgeInit
<1>3. ForgeOK
  BY <1>2 DEF ForgeOK, ForgeType
<1>4. RunningOwn /\ RunningApart /\ NoneFailed /\ EndedGone
  BY <1>2 DEF RunningOwn, RunningApart, NoneFailed, EndedGone
<1>5. AllEntered
  BY ForgeIsNobody DEF Init, TableInit, AllEntered, Present, There, Nobody
<1> QED
  BY <1>1, <1>3, <1>4, <1>5 DEF Inv, JobsInv

(* What testforge shows of its jobs while it runs is true, whatever the     *)
(* other two tools do to their processes and however PIDs are given again   *)
(* (testforge.c 1554-1612).                                                 *)
THEOREM ForgeJobsTrue == Spec => []JobsTrue
<1>1. Inv => JobsTrue
  BY JobsInvIsEnough DEF Inv
<1> QED
  BY <1>1, InitMakesInv, NextKeepsInv, PTL DEF Spec

-----------------------------------------------------------------------------
(* Whom the signals of pps and of procview reach.                           *)

(***************************************************************************)
(* Sequences made of the members of a set.                                 *)
(***************************************************************************)
LEMMA RemoveAtType ==
  ASSUME NEW S, NEW s \in Seq(S), NEW i \in DOMAIN s
  PROVE  RemoveAt(s, i) \in Seq(S)
<1>1. i \in 1..Len(s) /\ Len(s) \in Nat
  OBVIOUS
<1>2. SubSeq(s, 1, i - 1) \in Seq(S)
  BY <1>1, SubSeqProperties
<1>3. SubSeq(s, i + 1, Len(s)) \in Seq(S)
  BY <1>1, SubSeqProperties
<1> QED
  BY <1>2, <1>3 DEF RemoveAt

LEMMA ReverseType ==
  ASSUME NEW S, NEW s \in Seq(S)
  PROVE  Reverse(s) \in Seq(S)
<1>1. \A i \in 1..Len(s) : s[(Len(s) - i) + 1] \in S
  OBVIOUS
<1> QED
  BY <1>1 DEF Reverse

LEMMA SetToSeqsType ==
  ASSUME NEW S, IsFiniteSet(S), NEW s \in SetToSeqs(S)
  PROVE  s \in Seq(S)
<1>1. Cardinality(S) \in Nat
  BY FS_CardinalityType
<1>2. s \in [1..Cardinality(S) -> S]
  BY DEF SetToSeqs
<1> QED
  BY <1>1, <1>2

LEMMA RangeFinite ==
  ASSUME NEW S, NEW s \in Seq(S)
  PROVE  IsFiniteSet(Range(s)) /\ Range(s) \subseteq S
<1>1. IsFiniteSet(1..Len(s))
  BY FS_Interval
<1>2. s \in Surjection(1..Len(s), Range(s))
  BY DEF Surjection, Range
<1> QED
  BY <1>1, <1>2, FS_Surjection DEF Range

(***************************************************************************)
(* What is known of a row stays true: a number is given later or not at    *)
(* all.                                                                    *)
(***************************************************************************)
Row == [pid : Pids, start : Nat, row : BOOLEAN]
Known(pid, start) == pid \in Pids /\ start \in 0..births /\ (There(pid) => start <= table[pid].start)
KnownRows == {r \in Row : Known(r.pid, r.start)}

(* A step of the table, seen from one number. *)
Passes == births' \in {births, births + 1} /\ \A q \in Pids : table'[q].start \in {table[q].start, 0, births'}

LEMMA TablePasses ==
  ASSUME Inv, [Next]_vars
  PROVE  Passes
<1> USE ForgeIsNobody
<1>1. TableOK /\ ForgeOK
  BY DEF Inv
<1>u. ASSUME UNCHANGED procTable PROVE Passes
  BY <1>u DEF Passes, procTable
<1>d. ASSUME NEW p, Death(p) PROVE Passes
  BY <1>1, <1>d DEF Passes, Death, Ended, Orphaned, TableOK, Entry
<1>b. ASSUME NEW p \in Pids, NEW parent, births' = births + 1, table' = Started(p, parent) PROVE Passes
  BY <1>1, <1>b DEF Passes, Started, TableOK
<1>2. CASE UNCHANGED vars
  BY <1>2, <1>u DEF vars
<1>3. CASE Kernel
  <2>1. CASE Fork
    BY <2>1, <1>b DEF Fork
  <2>2. CASE Exit
    BY <2>2, <1>d DEF Exit, Death, Present
  <2>3. CASE Reap
    BY <2>3, <1>1 DEF Reap, Passes, Nobody, Present, TableOK
  <2> QED
    BY <1>3, <2>1, <2>2, <2>3 DEF Kernel
<1>4. CASE ForgeNext
  <2>1. CASE RunStep
    BY <2>1, <1>b, <1>u DEF RunStep
  <2>2. CASE ToggleDryRun
    BY <2>2, <1>u DEF ToggleDryRun
  <2>3. CASE \E i \in DOMAIN jobs : RefreshJob(i)
    BY <2>3, <1>1 DEF RefreshJob, Passes, Nobody, TableOK
  <2>4. CASE QuitForge
    BY <2>4, <1>1 DEF QuitForge, Passes, Orphaned, TableOK, Entry
  <2> QED
    BY <1>4, <2>1, <2>2, <2>3, <2>4 DEF ForgeNext
<1>5. CASE PpsNext \/ ViewNext
  BY <1>5, <1>u, <1>d, ScreensKeepTable
<1> QED
  BY <1>2, <1>3, <1>4, <1>5 DEF Next

LEMMA KnownStays ==
  ASSUME TableOK, Passes, NEW pid, NEW start, Known(pid, start)
  PROVE  Known(pid, start)'
BY DEF TableOK, Entry, Passes, Known, There

LEMMA KnownRowsStay ==
  ASSUME TableOK, Passes
  PROVE  KnownRows \subseteq KnownRows'
BY KnownStays DEF KnownRows, Row

(***************************************************************************)
(* pps.                                                                    *)
(***************************************************************************)
Shape(u) ==
    u = [stage |-> u.stage, lazy |-> u.lazy, pidfds |-> u.pidfds, list |-> u.list, at |-> u.at, top |-> u.top,
         page |-> u.page, snapshot |-> u.snapshot, sort |-> u.sort, shown |-> u.shown, want |-> u.want,
         pidfd |-> u.pidfd, keys |-> u.keys]
Pair(r) == r = [pid |-> r.pid, start |-> r.start]

(* The row under the selection is the one that was drawn, until it becomes *)
(* the one the question is about.  When the question has been answered the *)
(* list has it still, and from then on nobody older can have its number.   *)
Asked(u) == u.want = u.shown /\ Pair(u.shown)
Found(u) ==
    \E i \in DOMAIN u.list : /\ i = FindPid(u.list, u.want.pid) /\ u.list[i].pid = u.want.pid
                             /\ u.list[i].start = u.want.start
Opened(u) == u.pidfds => u.pidfd # 0 /\ u.want.start <= u.pidfd /\ Known(u.want.pid, u.pidfd)
PpsStages ==
    /\ pps.stage = "key" /\ pps.list # <<>> =>
          pps.shown = [pid |-> pps.list[pps.at].pid, start |-> pps.list[pps.at].start]
    /\ pps.stage \in {"draw_question", "question", "open", "check", "send", "perform", "kill"} => Asked(pps)
    /\ pps.stage \in {"open", "check"} => Found(pps) /\ Known(pps.want.pid, pps.want.start)
    /\ pps.stage = "check" => Opened(pps)
    /\ pps.stage = "send" /\ pps.pidfds => pps.pidfd = pps.want.start /\ pps.pidfd # 0
PpsOK == Shape(pps) /\ pps.list \in Seq(KnownRows) /\ PpsStages
PpsInv == pps.stage # "unused" => PpsOK

(* What To leaves of a record.                                             *)
LEMMA ToGives ==
  ASSUME NEW u, Shape(u), NEW stage, To(stage, u)
  PROVE  /\ Shape(pps)' /\ pps'.stage = stage /\ pps'.list = u.list /\ pps'.at = u.at /\ pps'.pidfds = u.pidfds
         /\ stage \notin {"draw", "refresh", "chosen"} => pps'.shown = u.shown /\ pps'.want = u.want /\ pps'.pidfd = u.pidfd
<1> DEFINE v == IF stage \in {"draw", "refresh", "chosen"} THEN Forget(u) ELSE u
<1>1. /\ Shape(v) /\ v.list = u.list /\ v.at = u.at /\ v.pidfds = u.pidfds
      /\ stage \notin {"draw", "refresh", "chosen"} => v = u
  BY DEF Shape, Forget
<1>2. pps' = [KeepVisible(v) EXCEPT !.stage = stage]
  BY DEF To
<1> HIDE DEF v
<1> QED
  BY <1>1, <1>2 DEF KeepVisible, Shape

LEMMA PpsElse ==
  ASSUME PpsInv, pps.stage # "unused", UNCHANGED pps, TableOK, Passes
  PROVE  PpsOK'
<1>1. PpsOK
  BY DEF PpsInv
<1>2. pps.list \in Seq(KnownRows')
  BY <1>1, KnownRowsStay DEF PpsOK
<1>3. pps.stage \in {"open", "check"} => Known(pps.want.pid, pps.want.start)'
  BY <1>1, KnownStays DEF PpsOK, PpsStages
<1>4. pps.stage = "check" => Opened(pps)'
  BY <1>1, KnownStays DEF PpsOK, PpsStages, Opened
<1> QED
  BY <1>1, <1>2, <1>3, <1>4 DEF PpsOK, PpsStages, Shape, Asked, Found

(* A screen that is drawn anew, or left, owes nothing but its rows.        *)
LEMMA PpsAnew ==
  ASSUME NEW u, Shape(u), u.list \in Seq(KnownRows), UNCHANGED procTable,
         NEW stage \in {"draw", "refresh", "chosen"}, To(stage, u)
  PROVE  PpsOK'
<1>1. Shape(pps)' /\ pps'.stage = stage /\ pps'.list = u.list
  BY ToGives
<1>2. KnownRows' = KnownRows
  BY DEF KnownRows, Known, There, procTable
<1> QED
  BY <1>1, <1>2 DEF PpsOK, PpsStages

LEMMA PpsAsked ==
  ASSUME NEW u, Shape(u), u.list \in Seq(KnownRows), Asked(u), UNCHANGED procTable,
         NEW stage \in {"draw_question", "question", "perform", "kill"}, To(stage, u)
  PROVE  PpsOK'
<1>1. Shape(pps)' /\ pps'.stage = stage /\ pps'.list = u.list /\ pps'.shown = u.shown /\ pps'.want = u.want
  BY ToGives
<1>2. KnownRows' = KnownRows
  BY DEF KnownRows, Known, There, procTable
<1> QED
  BY <1>1, <1>2 DEF PpsOK, PpsStages, Asked, Pair

(***************************************************************************)
(* The lists that pps makes.                                               *)
(***************************************************************************)
LEMMA ReselectGives ==
  ASSUME NEW u, Shape(u), NEW list
  PROVE  Shape(Reselect(u, list)) /\ Reselect(u, list).list = list
<1>1. Reselect(u, list) = [u EXCEPT !.list = list, !.at = IF FindPid(list, SelectedPid(u)) # 0 THEN FindPid(list, SelectedPid(u))
                                                           ELSE Min({Max({u.at, 1}), Len(list)})]
  BY DEF Reselect
<1>2. \E a : Reselect(u, list) = [u EXCEPT !.list = list, !.at = a]
  BY <1>1
<1> QED
  BY <1>2 DEF Shape

LEMMA OrdersType ==
  ASSUME NEW S, NEW rows \in SUBSET S, IsFiniteSet(rows), NEW sort, NEW l \in Orders(rows, sort)
  PROVE  l \in Seq(S)
<1>1. l \in Seq(rows)
  BY SetToSeqsType DEF Orders
<1> QED
  BY <1>1

LEMMA ScannedType ==
  ASSUME TableOK, NEW u
  PROVE  IsFiniteSet(Scanned(u)) /\ Scanned(u) \subseteq KnownRows
<1>0. IsFiniteSet(Present) /\ Present \subseteq Pids
  BY FS_Subset, ProcTableAssumption DEF ProcTableAssumption, Present
<1> DEFINE row(p) == IF u.lazy THEN [pid |-> p, start |-> IF u.sort = "pid" THEN 0 ELSE table[p].start, row |-> FALSE]
                     ELSE [pid |-> p, start |-> table[p].start, row |-> TRUE]
           f == [p \in Present |-> row(p)]
<1>1. Scanned(u) = {row(p) : p \in Present}
  BY DEF Scanned
<1>2. f \in Surjection(Present, Scanned(u))
  BY <1>1 DEF Surjection
<1>3. \A p \in Present : row(p) \in KnownRows
  BY <1>0 DEF KnownRows, Known, Row, TableOK, Entry
<1> QED
  BY <1>0, <1>1, <1>2, <1>3, FS_Surjection

LEMMA ListsType ==
  ASSUME TableOK, NEW u, NEW l \in Lists(u)
  PROVE  l \in Seq(KnownRows)
<1>1. IsFiniteSet(Scanned(u)) /\ Scanned(u) \subseteq KnownRows
  BY ScannedType
<1>2. PICK rows \in SUBSET Scanned(u) : l \in Orders(rows, u.sort)
  BY DEF Lists
<1>3. IsFiniteSet(rows) /\ rows \subseteq KnownRows
  BY <1>1, <1>2, FS_Subset
<1> QED
  BY <1>2, <1>3, OrdersType

LEMMA LoadedType ==
  ASSUME TableOK, NEW u, NEW row \in KnownRows, Loadable(u, row), NEW drawn \in BOOLEAN
  PROVE  Loaded(row, drawn) \in KnownRows
<1>1. row \in Row /\ row.pid \in Pids
  BY DEF KnownRows, Row
<1>2. table[row.pid].start \in 0..births /\ births \in Nat
  BY <1>1 DEF TableOK, Entry
<1> DEFINE b == row.row \/ drawn
           n == table[row.pid].start
<1>3. b \in BOOLEAN /\ n \in Nat /\ Loaded(row, drawn) = [row EXCEPT !.start = n, !.row = b]
  BY <1>2 DEF Loaded
<1> HIDE DEF b
<1>4. Loaded(row, drawn) \in Row /\ Loaded(row, drawn).pid = row.pid /\ Loaded(row, drawn).start = table[row.pid].start
  <2> HIDE DEF n
  <2>1. Loaded(row, drawn) \in Row /\ Loaded(row, drawn).pid = row.pid /\ Loaded(row, drawn).start = n
    BY <1>1, <1>3 DEF Row
  <2> QED
    BY <2>1 DEF n
<1> QED
  BY <1>1, <1>2, <1>4 DEF KnownRows, Known

LEMMA LoadAllType ==
  ASSUME TableOK, NEW u, NEW list \in Seq(KnownRows), NEW drawn \in BOOLEAN, NEW l \in LoadAll(u, list, drawn)
  PROVE  l \in Seq(KnownRows)
<1> DEFINE Has(row) == row.row \/ (row.start # 0 /\ ~drawn)
           kept == {i \in DOMAIN list : Has(list[i]) \/ Loadable(u, list[i])}
<1>1. PICK s \in SetToSeqs(kept) :
         l = [i \in DOMAIN s |-> IF Has(list[s[i]]) THEN list[s[i]] ELSE Loaded(list[s[i]], drawn)]
  BY DEF LoadAll
<1>2. IsFiniteSet(kept)
  BY FS_Interval, FS_Subset
<1>3. s \in Seq(kept)
  BY <1>1, <1>2, SetToSeqsType
<1>4. \A i \in DOMAIN s : l[i] \in KnownRows
  <2> SUFFICES ASSUME NEW i \in DOMAIN s PROVE l[i] \in KnownRows
    OBVIOUS
  <2>1. s[i] \in kept /\ list[s[i]] \in KnownRows
    BY <1>3
  <2>2. CASE Has(list[s[i]])
    BY <1>1, <2>1, <2>2
  <2>3. CASE ~Has(list[s[i]])
    BY <1>1, <2>1, <2>3, LoadedType
  <2> QED
    BY <2>2, <2>3
<1>5. DOMAIN s = 1..Len(s) /\ Len(s) \in Nat
  BY <1>3
<1>6. l \in [1..Len(s) -> KnownRows]
  BY <1>1, <1>4, <1>5
<1> QED
  BY <1>5, <1>6

(***************************************************************************)
(* Its steps.                                                              *)
(***************************************************************************)
(* A key changes a record to another, counts, and draws or refreshes.      *)
LEMMA PressedAnew ==
  ASSUME NEW u, Shape(u), u.list \in Seq(KnownRows), NEW stage \in {"draw", "refresh", "chosen"}, Pressed(stage, u)
  PROVE  PpsOK'
<1> DEFINE v == [u EXCEPT !.keys = @ + 1]
<1>1. Shape(v) /\ v.list = u.list /\ To(stage, v) /\ UNCHANGED procTable
  BY DEF Shape, Pressed
<1> HIDE DEF v
<1> QED
  BY <1>1, PpsAnew

LEMMA RefreshUiKeeps ==
  ASSUME TableOK, PpsOK, RefreshUi
  PROVE  PpsOK'
<1>1. PICK l \in Lists(pps) : To("draw", [Reselect(pps, l) EXCEPT !.snapshot = births])
  BY DEF RefreshUi
<1> DEFINE r == Reselect(pps, l)
           u == [r EXCEPT !.snapshot = births]
<1>2. l \in Seq(KnownRows)
  BY <1>1, ListsType
<1>3. Shape(r) /\ r.list = l
  BY ReselectGives DEF PpsOK
<1>4. Shape(u) /\ u.list = l
  <2> HIDE DEF r
  <2> QED
    BY <1>3 DEF Shape
<1>5. To("draw", u) /\ UNCHANGED procTable
  BY <1>1 DEF RefreshUi
<1> HIDE DEF u
<1> QED
  BY <1>2, <1>4, <1>5, PpsAnew

LEMMA LoadRowKeeps ==
  ASSUME TableOK, PpsOK, LoadRow
  PROVE  PpsOK'
<1>1. PICK i \in Page(pps) :
         To(pps.stage, IF Loadable(pps, pps.list[i]) THEN [pps EXCEPT !.list[i] = Loaded(@, TRUE)] ELSE Removed(pps, i))
  BY DEF LoadRow
<1>2. i \in DOMAIN pps.list /\ pps.list[i] \in KnownRows /\ pps.list \in Seq(KnownRows) /\ Shape(pps)
  BY <1>1 DEF Page, PpsOK
<1>3. PICK u : /\ To(pps.stage, u) /\ Shape(u) /\ u.list \in Seq(KnownRows)
               /\ u.shown = pps.shown /\ u.want = pps.want
  <2>1. CASE Loadable(pps, pps.list[i])
    <3> DEFINE row == Loaded(pps.list[i], TRUE)
               u == [pps EXCEPT !.list[i] = row]
    <3>1. row \in KnownRows
      BY <1>2, <2>1, LoadedType
    <3>2. To(pps.stage, u)
      BY <1>1, <2>1
    <3> HIDE DEF row
    <3>3. Shape(u) /\ u.list = [pps.list EXCEPT ![i] = row] /\ u.shown = pps.shown /\ u.want = pps.want
      BY <1>2 DEF Shape
    <3>4. u.list \in Seq(KnownRows)
      BY <1>2, <3>1, <3>3
    <3> HIDE DEF u
    <3> QED
      BY <3>2, <3>3, <3>4
  <2>2. CASE ~Loadable(pps, pps.list[i])
    <3> DEFINE u == Removed(pps, i)
    <3>1. To(pps.stage, u)
      BY <1>1, <2>2
    <3>2. \E a, t : u = [pps EXCEPT !.list = RemoveAt(pps.list, i), !.at = a, !.top = t]
      BY DEF Removed
    <3>3. Shape(u) /\ u.list = RemoveAt(pps.list, i) /\ u.shown = pps.shown /\ u.want = pps.want
      <4> HIDE DEF u
      <4> QED
        BY <1>2, <3>2 DEF Shape
    <3>4. u.list \in Seq(KnownRows)
      BY <1>2, <3>3, RemoveAtType
    <3> HIDE DEF u
    <3> QED
      BY <3>1, <3>3, <3>4
  <2> QED
    BY <2>1, <2>2
<1>4. pps.stage \in {"draw", "draw_question"} /\ UNCHANGED procTable
  BY DEF LoadRow
<1>5. CASE pps.stage = "draw"
  BY <1>3, <1>4, <1>5, PpsAnew
<1>6. CASE pps.stage = "draw_question"
  <2>1. Asked(u)
    BY <1>3, <1>6 DEF PpsOK, PpsStages, Asked
  <2> QED
    BY <2>1, <1>3, <1>4, <1>6, PpsAsked
<1> QED
  BY <1>4, <1>5, <1>6

LEMMA DrawnKeeps ==
  ASSUME TableOK, PpsOK, Drawn
  PROVE  PpsOK'
<1>1. Shape(pps) /\ pps.list \in Seq(KnownRows) /\ UNCHANGED procTable
  BY DEF PpsOK, Drawn
<1>2. CASE pps.stage = "draw_question"
  <2>1. To("question", pps) /\ Asked(pps)
    BY <1>2 DEF Drawn, PpsOK, PpsStages
  <2> QED
    BY <1>1, <2>1, PpsAsked
<1>3. CASE pps.stage = "draw"
  <2> DEFINE shown == IF pps.list = <<>> THEN NoOne ELSE [pid |-> pps.list[pps.at].pid, start |-> pps.list[pps.at].start]
             u == [pps EXCEPT !.shown = shown]
  <2>1. To("key", u)
    BY <1>3 DEF Drawn
  <2>2. Shape(u) /\ u.list = pps.list /\ u.at = pps.at /\ u.shown = shown
    <3> HIDE DEF shown
    <3> QED
      BY <1>1 DEF Shape
  <2>3. Shape(pps)' /\ pps'.stage = "key" /\ pps'.list = pps.list /\ pps'.at = pps.at /\ pps'.shown = shown
    <3> HIDE DEF u
    <3> QED
      BY <2>1, <2>2, ToGives
  <2>4. KnownRows' = KnownRows
    BY <1>1 DEF KnownRows, Known, There, procTable
  <2>5. pps'.list \in Seq(KnownRows')
    BY <1>1, <2>3, <2>4
  <2>6. PpsStages'
    BY <2>3 DEF PpsStages
  <2> QED
    BY <2>3, <2>5, <2>6 DEF PpsOK
<1> QED
  BY <1>2, <1>3 DEF Drawn

(* The keys after which the screen is drawn or the list taken anew.        *)
LEMMA MovesKeep ==
  ASSUME TableOK, PpsOK, Move \/ Refresh \/ Resize \/ SearchMove \/ SortMenu \/ Choose
  PROVE  PpsOK'
<1>0. Shape(pps) /\ pps.list \in Seq(KnownRows)
  BY DEF PpsOK
<1>1. CASE Move
  <2>1. PICK i : Pressed("draw", [pps EXCEPT !.at = i])
    BY <1>1 DEF Move
  <2> DEFINE u == [pps EXCEPT !.at = i]
  <2>2. Shape(u) /\ u.list = pps.list
    BY <1>0 DEF Shape
  <2> HIDE DEF u
  <2> QED
    BY <1>0, <2>1, <2>2, PressedAnew DEF u
<1>2. CASE Refresh
  BY <1>0, <1>2, PressedAnew DEF Refresh
<1>3. CASE Resize
  <2>1. PICK page : Pressed("draw", [pps EXCEPT !.page = page])
    BY <1>3 DEF Resize
  <2> DEFINE u == [pps EXCEPT !.page = page]
  <2>2. Shape(u) /\ u.list = pps.list
    BY <1>0 DEF Shape
  <2> HIDE DEF u
  <2> QED
    BY <1>0, <2>1, <2>2, PressedAnew DEF u
<1>4. CASE SearchMove
  <2>1. PICK list \in IF pps.lazy THEN LoadAll(pps, pps.list, TRUE) ELSE {pps.list} :
           LET u == Reselect(pps, list)
           IN  IF list = <<>> THEN Pressed("draw", u) ELSE \E i \in DOMAIN list : Pressed("draw", [u EXCEPT !.at = i])
    BY <1>4 DEF SearchMove
  <2>2. list \in Seq(KnownRows)
    BY <1>0, <2>1, LoadAllType
  <2> DEFINE u == Reselect(pps, list)
  <2>3. Shape(u) /\ u.list = list
    BY <1>0, ReselectGives
  <2>4. Pressed("draw", u) \/ \E i : Pressed("draw", [u EXCEPT !.at = i])
    BY <2>1
  <2> HIDE DEF u
  <2>5. CASE Pressed("draw", u)
    BY <2>2, <2>3, <2>5, PressedAnew
  <2>6. ASSUME NEW i, Pressed("draw", [u EXCEPT !.at = i]) PROVE PpsOK'
    <3> DEFINE v == [u EXCEPT !.at = i]
    <3>1. Shape(v) /\ v.list = list
      BY <2>3 DEF Shape
    <3> HIDE DEF v
    <3> QED
      BY <2>2, <2>6, <3>1, PressedAnew DEF v
  <2> QED
    BY <2>4, <2>5, <2>6
<1>5. CASE SortMenu
  <2>a. PICK sort \in {"pid", "other"} :
           \E list \in IF pps.lazy /\ sort # "pid" THEN LoadAll(pps, pps.list, FALSE) ELSE {pps.list} :
              \E l \in Orders(Range(list), sort) \cup {Reverse(o) : o \in Orders(Range(list), sort)} :
                 Pressed("draw", Reselect([pps EXCEPT !.sort = sort], l))
    BY <1>5 DEF SortMenu
  <2>b. PICK list \in IF pps.lazy /\ sort # "pid" THEN LoadAll(pps, pps.list, FALSE) ELSE {pps.list} :
           \E l \in Orders(Range(list), sort) \cup {Reverse(o) : o \in Orders(Range(list), sort)} :
              Pressed("draw", Reselect([pps EXCEPT !.sort = sort], l))
    BY <2>a
  <2>1. PICK l \in Orders(Range(list), sort) \cup {Reverse(o) : o \in Orders(Range(list), sort)} :
           Pressed("draw", Reselect([pps EXCEPT !.sort = sort], l))
    BY <2>b
  <2>2. list \in Seq(KnownRows)
    BY <1>0, <2>b, LoadAllType
  <2>3. IsFiniteSet(Range(list)) /\ Range(list) \subseteq KnownRows
    BY <2>2, RangeFinite
  <2>4. \A o \in Orders(Range(list), sort) : o \in Seq(KnownRows)
    BY <2>3, OrdersType
  <2>5. l \in Seq(KnownRows)
    BY <2>1, <2>4, ReverseType
  <2> DEFINE v == [pps EXCEPT !.sort = sort]
             u == Reselect(v, l)
  <2>6. Shape(v)
    BY <1>0 DEF Shape
  <2>7. Shape(u) /\ u.list = l
    <3> HIDE DEF v
    <3> QED
      BY <2>6, ReselectGives
  <2>8. Pressed("draw", u)
    BY <2>1
  <2> HIDE DEF u
  <2> QED
    BY <2>5, <2>7, <2>8, PressedAnew
<1>6. CASE Choose
  <2> DEFINE stage == IF SameProcess(pps.list[pps.at]) THEN "chosen" ELSE "refresh"
  <2>1. Pressed(stage, pps) /\ stage \in {"chosen", "refresh"}
    BY <1>6 DEF Choose
  <2> HIDE DEF stage
  <2> QED
    BY <1>0, <2>1, PressedAnew
<1> QED
  BY <1>1, <1>2, <1>3, <1>4, <1>5, <1>6

(***************************************************************************)
(* The way to a signal.                                                    *)
(***************************************************************************)
LEMMA AskKeeps ==
  ASSUME TableOK, PpsOK, AskSignal
  PROVE  PpsOK'
<1> DEFINE want == [pid |-> pps.list[pps.at].pid, start |-> pps.list[pps.at].start]
<1>1. PICK page : Pressed("draw_question", [pps EXCEPT !.want = want, !.page = page])
  BY DEF AskSignal
<1> DEFINE v == [pps EXCEPT !.want = want, !.page = page]
           u == [v EXCEPT !.keys = @ + 1]
<1>2. To("draw_question", u) /\ UNCHANGED procTable
  BY <1>1 DEF Pressed
<1>3. pps.shown = want /\ Shape(pps) /\ pps.list \in Seq(KnownRows)
  BY DEF PpsOK, PpsStages, AskSignal, Pressed
<1>4. Pair(want)
  BY DEF Pair
<1> HIDE DEF want
<1>7. Shape(v) /\ v.list = pps.list /\ v.want = want /\ v.shown = want
  <2> DEFINE w == [pps EXCEPT !.want = want]
  <2>1. Shape(w) /\ w.list = pps.list /\ w.want = want /\ w.shown = want
    BY <1>3 DEF Shape
  <2>2. v = [w EXCEPT !.page = page]
    OBVIOUS
  <2> HIDE DEF w, v
  <2> QED
    BY <2>1, <2>2 DEF Shape
<1>5. Shape(u) /\ u.list = pps.list /\ u.want = want /\ u.shown = want
  <2> HIDE DEF v
  <2> QED
    BY <1>7 DEF Shape
<1>6. Asked(u)
  BY <1>4, <1>5 DEF Asked
<1> HIDE DEF u
<1> QED
  BY <1>2, <1>3, <1>5, <1>6, PpsAsked

LEMMA FindPidFinds ==
  ASSUME NEW list, NEW pid, FindPid(list, pid) # 0
  PROVE  FindPid(list, pid) \in DOMAIN list /\ list[FindPid(list, pid)].pid = pid
BY DEF FindPid

LEMMA AnswerKeeps ==
  ASSUME TableOK, PpsOK, AnswerSignal
  PROVE  PpsOK'
<1> DEFINE at == FindPid(pps.list, pps.want.pid)
           stage == IF at = 0 \/ pps.list[at].start # pps.want.start THEN "refresh" ELSE IF pps.pidfds THEN "open" ELSE "check"
<1>0. Shape(pps) /\ pps.list \in Seq(KnownRows) /\ Asked(pps) /\ UNCHANGED procTable
  BY DEF PpsOK, PpsStages, AnswerSignal
<1>1. To("draw", pps) \/ To(stage, pps)
  BY DEF AnswerSignal
<1>2. CASE To("draw", pps)
  BY <1>0, <1>2, PpsAnew
<1>3. CASE To(stage, pps) /\ stage = "refresh"
  BY <1>0, <1>3, PpsAnew
<1>4. CASE To(stage, pps) /\ stage # "refresh"
  <2>1. /\ at # 0 /\ pps.list[at].start = pps.want.start
        /\ stage \in {"open", "check"} /\ (stage = "check" => ~pps.pidfds)
    BY <1>4
  <2>2. at \in DOMAIN pps.list /\ pps.list[at].pid = pps.want.pid
    BY <2>1, FindPidFinds
  <2>3. Found(pps)
    BY <2>1, <2>2 DEF Found
  <2>4. pps.list[at] \in KnownRows
    BY <1>0, <2>2
  <2>5. Known(pps.want.pid, pps.want.start)
    BY <2>1, <2>2, <2>4 DEF KnownRows
  <2> HIDE DEF stage, at
  <2>6. /\ Shape(pps)' /\ pps'.stage = stage /\ pps'.list = pps.list /\ pps'.pidfds = pps.pidfds
        /\ pps'.shown = pps.shown /\ pps'.want = pps.want
    BY <1>0, <1>4, <2>1, ToGives
  <2>7. KnownRows' = KnownRows /\ Known(pps.want.pid, pps.want.start)'
    BY <1>0, <2>5, <2>6 DEF KnownRows, Known, There, procTable
  <2>8. Asked(pps)' /\ Found(pps)'
    BY <1>0, <2>3, <2>6 DEF Asked, Found, Pair
  <2>9. PpsStages'
    BY <2>1, <2>6, <2>7, <2>8 DEF PpsStages, Opened
  <2> QED
    BY <1>0, <2>6, <2>7, <2>9 DEF PpsOK
<1> QED
  BY <1>1, <1>2, <1>3, <1>4

LEMMA OpenKeeps ==
  ASSUME TableOK, PpsOK, OpenPidfd
  PROVE  PpsOK'
<1>0. /\ Shape(pps) /\ pps.list \in Seq(KnownRows) /\ UNCHANGED procTable
      /\ Asked(pps) /\ Found(pps) /\ Known(pps.want.pid, pps.want.start)
  BY DEF PpsOK, PpsStages, OpenPidfd
<1>1. CASE ~There(pps.want.pid)
  BY <1>0, <1>1, PpsAnew DEF OpenPidfd
<1>2. CASE There(pps.want.pid)
  <2> DEFINE start == table[pps.want.pid].start
             u == [pps EXCEPT !.pidfd = start]
  <2>1. To("check", u)
    BY <1>2 DEF OpenPidfd
  <2>2. start # 0 /\ pps.want.start <= start /\ Known(pps.want.pid, start)
    BY <1>0, <1>2 DEF Known, There, TableOK, Entry
  <2> HIDE DEF start
  <2>3. /\ Shape(u) /\ u.list = pps.list /\ u.pidfds = pps.pidfds
        /\ u.shown = pps.shown /\ u.want = pps.want /\ u.pidfd = start
    BY <1>0 DEF Shape
  <2> HIDE DEF u
  <2>4. /\ Shape(pps)' /\ pps'.stage = "check" /\ pps'.list = pps.list /\ pps'.pidfds = pps.pidfds
        /\ pps'.shown = pps.shown /\ pps'.want = pps.want /\ pps'.pidfd = start
    BY <2>1, <2>3, ToGives
  <2>5. KnownRows' = KnownRows /\ Known(pps.want.pid, pps.want.start)'
    BY <1>0, <2>4 DEF KnownRows, Known, There, procTable
  <2>6. Asked(pps)' /\ Found(pps)'
    BY <1>0, <2>4 DEF Asked, Found, Pair
  <2>7. Opened(pps)'
    BY <1>0, <2>2, <2>4 DEF Opened, Known, There, procTable
  <2>8. PpsStages'
    BY <2>4, <2>5, <2>6, <2>7 DEF PpsStages
  <2> QED
    BY <1>0, <2>4, <2>5, <2>8 DEF PpsOK
<1> QED
  BY <1>1, <1>2

(* The check that the number has still the individual of the list makes     *)
(* sure that the descriptor, which was opened before, refers to it.         *)
LEMMA CheckKeeps ==
  ASSUME TableOK, PpsOK, CheckSame
  PROVE  PpsOK'
<1> DEFINE at == FindPid(pps.list, pps.want.pid)
<1>0. /\ Shape(pps) /\ pps.list \in Seq(KnownRows) /\ UNCHANGED procTable
      /\ Asked(pps) /\ Found(pps) /\ Known(pps.want.pid, pps.want.start) /\ Opened(pps)
  BY DEF PpsOK, PpsStages, CheckSame
<1>1. CASE ~SameProcess(pps.list[at])
  BY <1>0, <1>1, PpsAnew DEF CheckSame
<1>2. CASE SameProcess(pps.list[at])
  <2>1. To("send", pps)
    BY <1>2 DEF CheckSame
  <2>2. pps.list[at].pid = pps.want.pid /\ pps.list[at].start = pps.want.start
    BY <1>0 DEF Found
  <2>3. There(pps.want.pid) /\ table[pps.want.pid].start = pps.want.start
    BY <1>2, <2>2 DEF SameProcess
  <2>4. pps.pidfds => pps.pidfd = pps.want.start /\ pps.pidfd # 0
    BY <1>0, <2>3 DEF Opened, Known
  <2>5. /\ Shape(pps)' /\ pps'.stage = "send" /\ pps'.list = pps.list /\ pps'.pidfds = pps.pidfds
        /\ pps'.shown = pps.shown /\ pps'.want = pps.want /\ pps'.pidfd = pps.pidfd
    BY <1>0, <2>1, ToGives
  <2>6. KnownRows' = KnownRows
    BY <1>0 DEF KnownRows, Known, There, procTable
  <2>7. PpsStages'
    BY <1>0, <2>4, <2>5 DEF PpsStages, Asked, Pair
  <2> QED
    BY <1>0, <2>5, <2>6, <2>7 DEF PpsOK
<1> QED
  BY <1>1, <1>2

LEMMA SendKeeps ==
  ASSUME TableOK, Passes, PpsOK, Send
  PROVE  PpsOK'
<1>1. Shape(pps) /\ To("refresh", pps)
  BY DEF PpsOK, Send
<1>2. Shape(pps)' /\ pps'.stage = "refresh" /\ pps'.list = pps.list
  BY <1>1, ToGives
<1>3. pps.list \in Seq(KnownRows')
  BY KnownRowsStay DEF PpsOK
<1> QED
  BY <1>2, <1>3 DEF PpsOK, PpsStages

LEMMA CommandKeeps ==
  ASSUME TableOK, Passes, PpsOK, CommandLine
  PROVE  PpsOK'
<1>0. Shape(pps) /\ pps.list \in Seq(KnownRows)
  BY DEF PpsOK
<1>1. CASE Target
  <2>1. PICK p \in Pids : To("perform", [pps EXCEPT !.shown = Who(p), !.want = Who(p)]) /\ UNCHANGED procTable
    BY <1>1 DEF Target
  <2> DEFINE who == Who(p)
             v == [pps EXCEPT !.shown = who]
             u == [pps EXCEPT !.shown = who, !.want = who]
  <2>2. Pair(who)
    BY DEF Pair, Who
  <2> HIDE DEF who
  <2>3. Shape(v) /\ v.list = pps.list /\ v.shown = who
    BY <1>0 DEF Shape
  <2>4. u = [v EXCEPT !.want = who]
    OBVIOUS
  <2>5. To("perform", u)
    BY <2>1 DEF who
  <2> HIDE DEF u, v
  <2>6. Shape(u) /\ u.list = pps.list /\ u.shown = who /\ u.want = who
    BY <2>3, <2>4 DEF Shape
  <2> QED
    BY <1>0, <2>1, <2>2, <2>5, <2>6, PpsAsked DEF Asked
<1>2. CASE FindTarget
  <2>1. Asked(pps) /\ UNCHANGED procTable
    BY <1>2 DEF FindTarget, PpsOK, PpsStages
  <2>2. To("kill", pps) \/ To("chosen", pps)
    BY <1>2 DEF FindTarget
  <2> QED
    BY <1>0, <2>1, <2>2, PpsAsked, PpsAnew
<1>3. CASE KillTarget
  <2>1. Shape(pps)' /\ pps'.stage = "chosen" /\ pps'.list = pps.list
    BY <1>0, <1>3, ToGives DEF KillTarget
  <2>2. pps.list \in Seq(KnownRows')
    BY <1>0, KnownRowsStay
  <2> QED
    BY <2>1, <2>2 DEF PpsOK, PpsStages
<1> QED
  BY <1>1, <1>2, <1>3 DEF CommandLine

LEMMA PpsKeeps ==
  ASSUME Inv, Passes, PpsInv, Next
  PROVE  PpsInv'
<1> SUFFICES ASSUME pps'.stage # "unused" PROVE PpsOK'
  BY DEF PpsInv
<1>1. TableOK
  BY DEF Inv
<1>2. CASE UNCHANGED pps
  BY <1>1, <1>2, PpsElse
<1>3. CASE pps.stage # "unused" /\ PpsNext
  <2>1. PpsOK
    BY <1>3 DEF PpsInv
  <2> QED
    BY <1>1, <1>3, <2>1, RefreshUiKeeps, LoadRowKeeps, DrawnKeeps, MovesKeep, AskKeeps, AnswerKeeps, OpenKeeps,
       CheckKeeps, SendKeeps, CommandKeeps DEF PpsNext
<1> QED
  BY <1>2, <1>3 DEF Next, Kernel

(***************************************************************************)
(* procview.                                                               *)
(***************************************************************************)
ViewShape(v) ==
    v = [stage |-> v.stage, procs |-> v.procs, rows |-> v.rows, selected |-> v.selected, tree |-> v.tree,
         treeSelected |-> v.treeSelected, inTree |-> v.inTree, filtered |-> v.filtered, byPid |-> v.byPid,
         shown |-> v.shown, count |-> v.count]

(* Until a key is taken, and while it is asked whether to kill, what was    *)
(* drawn as the selected process is the active one.                        *)
ViewStages ==
    /\ view.stage \in {"key", "question"} /\ Active(view) \in DOMAIN view.procs =>
          view.shown.pid = view.procs[Active(view)].pid
    /\ view.stage = "question" => Active(view) \in DOMAIN view.procs
ViewInv == view.stage # "unused" => ViewShape(view) /\ ViewStages

LEMMA TreeBuiltShape ==
  ASSUME NEW v, ViewShape(v), NEW w \in Built(v)
  PROVE  ViewShape(w)
<1>1. PICK desired : w = TreeBuilt(v, desired)
  BY DEF Built
<1>2. \E tree, r : w = [v EXCEPT !.tree = tree, !.treeSelected = r]
  BY <1>1, Zenon DEF TreeBuilt
<1> QED
  BY <1>2 DEF ViewShape

LEMMA RefreshedShape ==
  ASSUME ViewShape(view), NEW w \in Refreshed
  PROVE  ViewShape(w)
<1>1. PICK rows : w \in Built(Clamped([view EXCEPT !.procs = Snapshot, !.rows = rows]))
  BY DEF Refreshed
<1> DEFINE u == [view EXCEPT !.procs = Snapshot, !.rows = rows]
<1>2. ViewShape(u)
  <2> DEFINE n == [view EXCEPT !.procs = Snapshot]
  <2>1. ViewShape(n)
    BY DEF ViewShape
  <2>2. u = [n EXCEPT !.rows = rows]
    OBVIOUS
  <2> HIDE DEF n, u
  <2> QED
    BY <2>1, <2>2 DEF ViewShape
<1>3. \E s : Clamped(u) = [u EXCEPT !.selected = s]
  BY Zenon DEF Clamped
<1> HIDE DEF u
<1>4. ViewShape(Clamped(u))
  BY <1>2, <1>3 DEF ViewShape
<1> QED
  BY <1>1, <1>4, TreeBuiltShape DEF u

(* Everything but drawing and asking ends in a screen to be drawn.          *)
LEMMA StepKeeps ==
  ASSUME NEW v, ViewShape(v), Step(v)
  PROVE  ViewInv'
<1>1. view' = [v EXCEPT !.count = @ + 1, !.stage = "draw", !.shown = NoOne]
  BY DEF Step
<1> DEFINE c == v.count + 1
<1>2. view' = [v EXCEPT !.count = c, !.stage = "draw", !.shown = NoOne]
  BY <1>1 DEF ViewShape
<1> HIDE DEF c
<1>3. ViewShape(view)' /\ view'.stage = "draw"
  BY <1>2 DEF ViewShape
<1> QED
  BY <1>3 DEF ViewInv, ViewStages

LEMMA FilteredShape ==
  ASSUME NEW v, ViewShape(v), NEW filtered
  PROVE  ViewShape([v EXCEPT !.filtered = filtered, !.selected = 1])
<1> DEFINE u == [v EXCEPT !.filtered = filtered]
           w == [v EXCEPT !.filtered = filtered, !.selected = 1]
<1>1. ViewShape(u)
  BY DEF ViewShape
<1>2. w = [u EXCEPT !.selected = 1]
  OBVIOUS
<1>3. SUFFICES ViewShape(w)
  OBVIOUS
<1> HIDE DEF u, w
<1> QED
  BY <1>1, <1>2 DEF ViewShape

LEMMA MovesKeepView ==
  ASSUME ViewShape(view),
         \/ AutoRefresh \/ RefreshNow \/ MoveProcess \/ MoveTree \/ ChangePanel \/ EditFilter \/ TreeMode
  PROVE  ViewInv'
<1>1. CASE AutoRefresh \/ RefreshNow
  BY <1>1, RefreshedShape, StepKeeps DEF AutoRefresh, RefreshNow
<1>2. CASE MoveProcess
  <2>1. PICK i : \E v \in Built([view EXCEPT !.selected = i]) : Step(v)
    BY <1>2 DEF MoveProcess
  <2>2. ViewShape([view EXCEPT !.selected = i])
    BY DEF ViewShape
  <2> QED
    BY <2>1, <2>2, TreeBuiltShape, StepKeeps
<1>3. CASE MoveTree
  <2>1. PICK i : Step([view EXCEPT !.treeSelected = i])
    BY <1>3 DEF MoveTree
  <2>2. ViewShape([view EXCEPT !.treeSelected = i])
    BY DEF ViewShape
  <2> QED
    BY <2>1, <2>2, StepKeeps
<1>4. CASE ChangePanel
  <2>1. Step([view EXCEPT !.inTree = ~@])
    BY <1>4 DEF ChangePanel
  <2>2. ViewShape([view EXCEPT !.inTree = ~@])
    BY DEF ViewShape
  <2> QED
    BY <2>1, <2>2, StepKeeps
<1>5. ASSUME NEW u, ViewShape(u), NEW rows, NEW v \in Built([u EXCEPT !.rows = rows]), Step(v) PROVE ViewInv'
  <2>1. ViewShape([u EXCEPT !.rows = rows])
    BY <1>5 DEF ViewShape
  <2> QED
    BY <1>5, <2>1, TreeBuiltShape, StepKeeps
<1>6. CASE EditFilter
  <2>1. PICK filtered \in BOOLEAN :
           LET u == [view EXCEPT !.filtered = filtered, !.selected = 1]
           IN  \E rows \in RowsOf(u) : \E v \in Built([u EXCEPT !.rows = rows]) : Step(v)
    BY <1>6, Zenon DEF EditFilter
  <2> DEFINE u == [view EXCEPT !.filtered = filtered, !.selected = 1]
  <2>2. ViewShape(u)
    BY FilteredShape
  <2>3. \E rows \in RowsOf(u) : \E v \in Built([u EXCEPT !.rows = rows]) : Step(v)
    BY <2>1
  <2> HIDE DEF u
  <2> QED
    BY <1>5, <2>2, <2>3
<1>7. CASE TreeMode
  <2> DEFINE byPid == ~view.byPid
             u == [view EXCEPT !.byPid = ~@, !.selected = 1]
  <2>1. \E rows \in RowsOf(u) : \E v \in Built([u EXCEPT !.rows = rows]) : Step(v)
    BY <1>7, Zenon DEF TreeMode
  <2>2. ViewShape(u)
    <3>1. u = [view EXCEPT !.byPid = byPid, !.selected = 1]
      BY DEF ViewShape
    <3> HIDE DEF byPid, u
    <3> QED
      BY <3>1 DEF ViewShape
  <2> HIDE DEF u
  <2> QED
    BY <1>5, <2>1, <2>2
<1> QED
  BY <1>1, <1>2, <1>3, <1>4, <1>6, <1>7

LEMMA DrawAppKeeps ==
  ASSUME ViewShape(view), DrawApp
  PROVE  ViewInv'
<1> DEFINE a == Active(view)
           shown == IF a \in DOMAIN view.procs THEN [pid |-> view.procs[a].pid, start |-> view.procs[a].start] ELSE NoOne
<1>1. view' = [view EXCEPT !.stage = "key", !.shown = shown]
  BY DEF DrawApp
<1>2. a \in DOMAIN view.procs => shown.pid = view.procs[a].pid
  OBVIOUS
<1> HIDE DEF shown
<1>3. /\ ViewShape(view)' /\ view'.stage = "key" /\ view'.shown = shown /\ view'.procs = view.procs
      /\ view'.inTree = view.inTree /\ view'.tree = view.tree /\ view'.treeSelected = view.treeSelected
      /\ view'.rows = view.rows /\ view'.selected = view.selected
  BY <1>1 DEF ViewShape
<1>4. Active(view)' = a
  BY <1>3 DEF Active, Base
<1> QED
  BY <1>2, <1>3, <1>4 DEF ViewInv, ViewStages

LEMMA AskKillKeeps ==
  ASSUME ViewShape(view), ViewStages, AskKill
  PROVE  ViewInv'
<1> DEFINE count == view.count + 1
<1>1. view' = [view EXCEPT !.count = count, !.stage = "question"] /\ Active(view) \in DOMAIN view.procs /\ view.stage = "key"
  BY DEF AskKill, ViewShape, Keyed
<1> HIDE DEF count
<1>3. /\ ViewShape(view)' /\ view'.stage = "question" /\ view'.shown = view.shown /\ view'.procs = view.procs
      /\ view'.inTree = view.inTree /\ view'.tree = view.tree /\ view'.treeSelected = view.treeSelected
      /\ view'.rows = view.rows /\ view'.selected = view.selected
  BY <1>1 DEF ViewShape
<1>4. Active(view)' = Active(view)
  BY <1>3 DEF Active, Base
<1> QED
  BY <1>1, <1>3, <1>4 DEF ViewInv, ViewStages

LEMMA RestKeepsView ==
  ASSUME ViewShape(view), NoKey \/ Kill \/ Killed \/ Cancel
  PROVE  ViewInv'
<1>1. CASE Killed
  <2>1. PICK v \in Refreshed : view' = [v EXCEPT !.stage = "draw"]
    BY <1>1 DEF Killed
  <2>2. ViewShape(v)
    BY RefreshedShape
  <2> QED
    BY <2>1, <2>2 DEF ViewShape, ViewInv, ViewStages
<1>2. CASE NoKey \/ Kill \/ Cancel
  <2>1. PICK stage \in {"draw", "refresh"} : view' = [view EXCEPT !.stage = stage, !.shown = NoOne]
    <3> DEFINE stage == IF Hit(view.procs[Active(view)].pid, 0) THEN "refresh" ELSE "draw"
    <3>1. Kill => view' = [view EXCEPT !.stage = stage, !.shown = NoOne]
      BY DEF Kill
    <3>2. stage \in {"draw", "refresh"}
      OBVIOUS
    <3>3. NoKey \/ Cancel => view' = [view EXCEPT !.stage = "draw", !.shown = NoOne]
      BY DEF NoKey, Cancel
    <3> HIDE DEF stage
    <3> QED
      BY <1>2, <3>1, <3>2, <3>3
  <2> QED
    BY <2>1 DEF ViewShape, ViewInv, ViewStages
<1> QED
  BY <1>1, <1>2

LEMMA ViewKeeps ==
  ASSUME ViewInv, Next
  PROVE  ViewInv'
<1>1. CASE UNCHANGED view
  BY <1>1 DEF ViewInv, ViewShape, ViewStages, Active, Base
<1>2. CASE view.stage # "unused" /\ ViewNext
  <2>1. ViewShape(view) /\ ViewStages
    BY <1>2 DEF ViewInv
  <2> QED
    BY <1>2, <2>1, MovesKeepView, DrawAppKeeps, AskKillKeeps, RestKeepsView DEF ViewNext
<1> QED
  BY <1>1, <1>2 DEF Next, Kernel

(***************************************************************************)
(* Only one of the two is used.                                            *)
(***************************************************************************)
OneTool == pps.stage = "unused" \/ view.stage = "unused"
ToolsInv == PpsInv /\ ViewInv /\ OneTool

LEMMA OneToolStays ==
  ASSUME OneTool, Next
  PROVE  OneTool'
<1>1. CASE UNCHANGED <<pps, view>>
  BY <1>1 DEF OneTool
<1>2. CASE pps.stage # "unused" /\ UNCHANGED view
  BY <1>2 DEF OneTool
<1>3. CASE view.stage # "unused" /\ UNCHANGED pps
  BY <1>3 DEF OneTool
<1> QED
  BY <1>1, <1>2, <1>3 DEF Next, Kernel

LEMMA ToolsStart ==
  ASSUME Init
  PROVE  ToolsInv
<1>1. PpsInit => PpsOK
  BY DEF PpsInit, PpsOK, Shape, PpsStages
<1>2. ViewInit => ViewShape(view) /\ ViewStages
  BY DEF ViewInit, ViewShape, ViewStages
<1> QED
  BY <1>1, <1>2 DEF Init, ToolsInv, PpsInv, ViewInv, OneTool

LEMMA ToolsKeep ==
  ASSUME Inv, Inv', ToolsInv, [Next]_vars
  PROVE  ToolsInv'
<1>1. CASE Next
  BY <1>1, TablePasses, PpsKeeps, ViewKeeps, OneToolStays DEF ToolsInv
<1>2. CASE UNCHANGED vars
  BY <1>2 DEF ToolsInv, PpsInv, PpsOK, PpsStages, Shape, KnownRows, Known, Row, There, Asked, Pair, Found, Opened,
     ViewInv, ViewShape, ViewStages, Active, Base, OneTool, vars, procTable
<1> QED
  BY <1>1, <1>2

(***************************************************************************)
(* Whom a signal ends.                                                     *)
(***************************************************************************)
LEMMA SignalEnds ==
  ASSUME TableOK, NEW pid, NEW start, Signal(pid, start), NEW p \in Pids, table[p].up, ~table'[p].up
  PROVE  p = pid /\ Hit(pid, start)
<1>1. Hit(pid, start) /\ table' = Ended(pid)
  BY DEF Signal
<1> QED
  BY <1>1 DEF Ended, Orphaned, TableOK, Entry, Hit, Present

LEMMA SendHitsShown ==
  ASSUME TableOK, PpsOK, Send, NEW p \in Pids, table[p].up, ~table'[p].up
  PROVE  HitsShown(p)
<1> DEFINE start == IF pps.pidfds THEN pps.pidfd ELSE 0
<1>1. pps.stage = "send" /\ Signal(pps.want.pid, start)
  BY DEF Send
<1>2. Asked(pps) /\ (pps.pidfds => pps.pidfd = pps.want.start /\ pps.pidfd # 0)
  BY <1>1 DEF PpsOK, PpsStages
<1>3. p = pps.want.pid /\ Hit(pps.want.pid, start)
  BY <1>1, SignalEnds
<1>4. Shown = pps.want
  BY <1>1, <1>2 DEF Shown, Asked
<1>5. CASE pps.pidfds
  <2>1. table[p].start = pps.want.start
    BY <1>2, <1>3, <1>5 DEF Hit
  <2>2. Who(p) = Shown
    BY <1>2, <1>3, <1>4, <2>1 DEF Who, Asked, Pair
  <2> QED
    BY <1>1, <1>5, <2>2 DEF HitsShown, Sure
<1>6. CASE ~pps.pidfds
  BY <1>3, <1>4, <1>6 DEF HitsShown, Sure
<1> QED
  BY <1>5, <1>6

LEMMA CommandHitsShown ==
  ASSUME TableOK, PpsOK, KillTarget, NEW p \in Pids, table[p].up, ~table'[p].up
  PROVE  HitsShown(p)
<1>1. pps.stage = "kill" /\ Signal(pps.want.pid, 0)
  BY DEF KillTarget
<1>2. p = pps.want.pid
  BY <1>1, SignalEnds
<1> QED
  BY <1>1, <1>2 DEF HitsShown, Sure, Shown, PpsOK, PpsStages, Asked

LEMMA KillHitsShown ==
  ASSUME TableOK, ViewStages, pps.stage = "unused", Kill, NEW p \in Pids, table[p].up, ~table'[p].up
  PROVE  HitsShown(p)
<1>1. view.stage = "question" /\ Signal(view.procs[Active(view)].pid, 0)
  BY DEF Kill
<1>2. p = view.procs[Active(view)].pid
  BY <1>1, SignalEnds
<1> QED
  BY <1>1, <1>2 DEF HitsShown, Sure, Shown, ViewStages

(* A signal that pps or procview sends reaches nothing but the process that *)
(* was drawn as the selected one when its key was pressed, and where it     *)
(* has no pidfd, or its target by command, nothing but a process with the   *)
(* number of that one                                                       *)
(* (pps.c 384-409, 844-884 and 1116-1121, procview.c 575-629, 1205-1231).   *)
THEOREM SignalsHitShown == Spec => SignalHitsShown
<1>1. ASSUME Inv, ToolsInv, [Next]_vars
      PROVE  [<<pps, view>>' # <<pps, view>> => \A p \in Pids : table[p].up /\ ~table'[p].up => HitsShown(p)]_vars
  <2> SUFFICES ASSUME Next, <<pps, view>>' # <<pps, view>>, NEW p \in Pids, table[p].up, ~table'[p].up
               PROVE  HitsShown(p)
    BY <1>1
  <2>1. TableOK
    BY <1>1 DEF Inv
  <2>2. procTable' # procTable
    BY DEF procTable
  <2>3. CASE pps.stage # "unused" /\ PpsNext
    <3>1. PpsOK /\ (Send \/ KillTarget)
      BY <1>1, <2>2, <2>3, OnlySend DEF ToolsInv, PpsInv
    <3> QED
      BY <2>1, <3>1, SendHitsShown, CommandHitsShown
  <2>4. CASE view.stage # "unused" /\ ViewNext
    <3>1. Kill /\ ViewStages /\ pps.stage = "unused"
      BY <1>1, <2>2, <2>4, OnlyKill DEF ToolsInv, ViewInv, OneTool
    <3> QED
      BY <2>1, <3>1, KillHitsShown
  <2> QED
    BY <2>3, <2>4 DEF Next, Kernel
<1> QED
  BY <1>1, InitMakesInv, NextKeepsInv, ToolsStart, ToolsKeep, PTL DEF Spec, SignalHitsShown
================================================================================
