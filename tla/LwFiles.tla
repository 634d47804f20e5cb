------------------------------ MODULE LwFiles ------------------------------
(***************************************************************************)
(* The file monitor of lifewatch (src/lifewatch/lifewatch.c).  Programs    *)
(* create, write, rename and unlink files, and replace the directory that  *)
(* holds them, while the daemon reads inotify events from a bounded queue  *)
(* and now and then compares what it believes with the paths themselves.   *)
(*                                                                         *)
(* inotify names a watch by a descriptor.  The kernel gives one inode one  *)
(* descriptor for as long as the inode lives, so that here an inode is its *)
(* own descriptor.                                                         *)
(***************************************************************************)
EXTENDS Naturals, Sequences, FiniteSets

CONSTANTS Files,       \* names of the watched files
          Others,      \* other names in their directory
          None,        \* no inode, no directory, no mask: the -1 of the code
          MaxInodes,   \* bound: inodes ever created
          MaxDirs,     \* bound: directories ever made at the parent's path
          MaxOps,      \* bound: operations on the file system
          MaxQueue     \* max_queued_events

ASSUME FileAssumption ==
  /\ Files \cap Others = {} /\ IsFiniteSet(Files)
  /\ MaxInodes \in Nat /\ MaxDirs \in Nat /\ MaxOps \in Nat
  /\ MaxQueue \in Nat \ {0}
  /\ None \notin Nat \cup Files \cup Others

Names  == Files \cup Others
Inodes == 1..MaxInodes
Dirs   == 1..MaxDirs

Gone    == {"DELETE", "DELETE_SELF"}
Moved   == {"MOVED_FROM", "MOVE_SELF"}
Appears == {"CREATE", "MOVED_TO"}
Changes == {"CLOSE_WRITE", "ATTRIB"}
Reported == Gone \cup Moved \cup Appears \cup Changes
Masks   == Reported \cup {"IGNORED", "Q_OVERFLOW"}

VARIABLES
  (* the file system and inotify *)
  dir,         \* the directory at the parent's path, 0 if there is none
  entry,       \* entry[d][n]: the inode named n in directory d
  inodes,      \* inodes created so far
  alive,       \* inodes that exist: named, or unlinked and still open
  watchedDirs, watchedInodes,   \* what inotify watches
  queue,       \* inotify events the daemon has not read
  ops,         \* operations so far
  (* the daemon *)
  pc, todo, cur,   \* where the loop is; the files still to be scanned; the one in hand
  initialized, exists, wdFile, wdParent, lastMask,    \* FileState
  (* what an observer knows *)
  told,        \* told[f]: what the last notification about f's presence says
  edited,      \* edited[f]: f was written under a watched parent, not yet notified
  lost         \* the event queue has overflowed

fsVars    == <<dir, entry, inodes, alive>>
watchVars == <<watchedDirs, watchedInodes>>
stateVars == <<initialized, exists, wdFile, wdParent, lastMask>>
vars == <<fsVars, watchVars, queue, ops, pc, todo, cur, stateVars, told, edited, lost>>

-----------------------------------------------------------------------------
(* inotify *)

(* An event of directory d has the name it is about, an event of an inode   *)
(* none.                                                                    *)
DirEvent(d, mask, n) ==
  IF d \in watchedDirs THEN <<[wd |-> d, mask |-> mask, name |-> n]>> ELSE <<>>
InodeEvent(i, mask) ==
  IF i \in watchedInodes THEN <<[wd |-> i, mask |-> mask, name |-> None]>> ELSE <<>>
Overflow == [wd |-> None, mask |-> "Q_OVERFLOW", name |-> None]

Enqueue(events) ==
  LET all == queue \o events
  IN  IF Len(all) <= MaxQueue
      THEN queue' = all /\ UNCHANGED lost
      ELSE queue' = Append(SubSeq(all, 1, MaxQueue), Overflow) /\ lost' = TRUE

-----------------------------------------------------------------------------
(* Programs.  A directory that is no longer at the path can still be used.  *)

Named(d, n) == d # 0 /\ entry[d][n] # None
OnDisk(f) == Named(dir, f)
InodeOf(f) == entry[dir][f]
Linked(i) == \E d \in Dirs, n \in Names : entry[d][n] = i

Operation ==
  /\ ops < MaxOps
  /\ ops' = ops + 1
  /\ UNCHANGED <<watchVars, pc, todo, cur, stateVars, told>>

Create(d, n) ==
  /\ Operation
  /\ 0 < d /\ d <= dir /\ ~Named(d, n) /\ inodes < MaxInodes
  /\ inodes' = inodes + 1
  /\ alive' = alive \cup {inodes + 1}
  /\ entry' = [entry EXCEPT ![d][n] = inodes + 1]
  /\ Enqueue(DirEvent(d, "CREATE", n))
  /\ UNCHANGED <<dir, edited>>

(* A writer closes the file, or its attributes change: the directory is     *)
(* told first, then the inode.                                              *)
Change(d, n, mask) ==
  /\ Operation
  /\ Named(d, n)
  /\ Enqueue(DirEvent(d, mask, n) \o InodeEvent(entry[d][n], mask))
  /\ edited' = IF mask = "CLOSE_WRITE" /\ d = dir /\ n \in Files /\ wdParent[n] = d
               THEN [edited EXCEPT ![n] = TRUE] ELSE edited
  /\ UNCHANGED fsVars

Unlink(d, n) ==
  /\ Operation
  /\ Named(d, n)
  /\ entry' = [entry EXCEPT ![d][n] = None]
  /\ Enqueue(InodeEvent(entry[d][n], "ATTRIB") \o DirEvent(d, "DELETE", n))
  /\ UNCHANGED <<dir, inodes, alive, edited>>

(* rename(n, m), over whatever m names *)
Rename(d, n, m) ==
  /\ Operation
  /\ Named(d, n) /\ n # m
  /\ entry' = [entry EXCEPT ![d][n] = None, ![d][m] = entry[d][n]]
  /\ Enqueue(DirEvent(d, "MOVED_FROM", n) \o DirEvent(d, "MOVED_TO", m)
             \o InodeEvent(entry[d][m], "ATTRIB")
             \o InodeEvent(entry[d][n], "MOVE_SELF"))
  /\ UNCHANGED <<dir, inodes, alive, edited>>

(* The last name is gone and so is the last open descriptor: the inode goes *)
(* and its watch with it.  How long that takes is up to its users.          *)
Evict(i) ==
  /\ i \in alive /\ ~Linked(i)
  /\ alive' = alive \ {i}
  /\ watchedInodes' = watchedInodes \ {i}
  /\ Enqueue(InodeEvent(i, "DELETE_SELF") \o InodeEvent(i, "IGNORED"))
  /\ UNCHANGED <<dir, entry, inodes, watchedDirs, ops, pc, todo, cur, stateVars,
                 told, edited>>

(* The parent directory is made, or another is put in its place.  No event  *)
(* of a watch of the daemon tells of it.                                    *)
MakeDir ==
  /\ Operation
  /\ dir < MaxDirs
  /\ dir' = dir + 1
  /\ edited' = [f \in Files |-> FALSE]
  /\ UNCHANGED <<entry, inodes, alive, queue, lost>>

Programs ==
  \/ \E d \in Dirs, n \in Names :
       \/ Create(d, n) \/ Unlink(d, n)
       \/ \E mask \in Changes : Change(d, n, mask)
       \/ \E m \in Names : Rename(d, n, m)
  \/ \E i \in Inodes : Evict(i)
  \/ MakeDir

-----------------------------------------------------------------------------
(* The daemon *)

(* inotify_add_watch of the parent, which fails if it is not there.         *)
ParentWatchUnchecked == dir      \* mutant: the failure is not told from a descriptor
ParentWatch == IF dir = 0 THEN None ELSE dir

(* setup_file_watch for the files of S, which have let go of the inodes     *)
(* they watched if they are in released: each missing watch is added if the *)
(* path is there.                                                           *)
SetupFileWatch(S, released) ==
  LET oldFile(f) == IF f \in released THEN None ELSE wdFile[f]
      newParent(f) == IF f \in S /\ wdParent[f] = None THEN ParentWatch ELSE wdParent[f]
      newFile(f) == IF f \in S /\ oldFile(f) = None /\ OnDisk(f) THEN InodeOf(f)
                    ELSE oldFile(f)
  IN  /\ wdParent' = [f \in Files |-> newParent(f)]
      /\ wdFile' = [f \in Files |-> newFile(f)]
      /\ watchedDirs' = watchedDirs \cup
           {newParent(f) : f \in {g \in S : newParent(g) # wdParent[g]}}
      /\ watchedInodes' = watchedInodes \cup
           {newFile(f) : f \in {g \in S : newFile(g) # oldFile(g)}}

(* The two directions of a watch descriptor: events of the inode, and those *)
(* of the parent that carry the file's name.  The overflow event has        *)
(* descriptor -1, as has a file that is not watched.                        *)
MatchesInode(f, e) == e.name = None /\ e.wd = wdFile[f]    \* mutant: names are not compared
Matches(f, e) ==
  \/ e.name = None /\ e.wd = wdFile[f]
  \/ e.name = f /\ e.wd = wdParent[f]

(* emit_file_change: what an event says of the file's presence.  An absent  *)
(* file cannot be deleted or moved again.                                   *)
Ignored(f, mask) == mask \in Gone \cup Moved /\ ~exists[f]
Presence(f, mask) ==
  IF mask \in Appears THEN TRUE
  ELSE IF mask \in Gone \cup Moved THEN FALSE ELSE exists[f]

(* recent_file_event: an event with the mask of the one before is swallowed *)
(* if it comes within 0.15 s; `soon` are the files for which it does.       *)
EmitFileChange(S, mask, soon) ==
  LET emitted == {f \in S : mask \in Reported /\ ~Ignored(f, mask)}
      notified == {f \in emitted : ~(lastMask[f] = mask /\ f \in soon)}
  IN  /\ exists' = [f \in Files |-> IF f \in emitted THEN Presence(f, mask) ELSE exists[f]]
      /\ lastMask' = [f \in Files |-> IF f \in emitted THEN mask ELSE lastMask[f]]
      /\ told' = [f \in Files |->
                    IF f \in notified /\ mask \notin Changes
                    THEN (IF Presence(f, mask) THEN "present" ELSE "absent")
                    ELSE told[f]]
      /\ edited' = [f \in Files |->
                      edited[f] /\ ~(f \in emitted /\ mask = "CLOSE_WRITE")]

(* mutant: IN_IGNORED does not reset wd_file *)
HandleInotifyKeepsWd ==
  /\ pc = "poll" /\ queue # <<>>
  /\ queue' = Tail(queue)
  /\ LET e == Head(queue)
         concerned == {f \in Files : Matches(f, e)}
     IN  /\ \E soon \in SUBSET concerned : EmitFileChange(concerned, e.mask, soon)
         /\ SetupFileWatch(concerned, {})
  /\ UNCHANGED <<fsVars, ops, pc, todo, cur, initialized, lost>>

(* One event of handle_inotify, for every file it concerns. *)
HandleInotify ==
  /\ pc = "poll" /\ queue # <<>>
  /\ queue' = Tail(queue)
  /\ LET e == Head(queue)
         concerned == {f \in Files : Matches(f, e)}
     IN  /\ \E soon \in SUBSET concerned : EmitFileChange(concerned, e.mask, soon)
         /\ SetupFileWatch(concerned, IF e.mask = "IGNORED" THEN concerned ELSE {})
  /\ UNCHANGED <<fsVars, ops, pc, todo, cur, initialized, lost>>

(* The interval has elapsed.  read() has emptied the queue before.          *)
StartScan ==
  /\ pc = "poll" /\ queue = <<>>
  /\ pc' = "scan" /\ todo' = Files
  /\ UNCHANGED <<fsVars, watchVars, queue, ops, cur, stateVars, told, edited, lost>>

(* mutant: the result of lstat is stored by the first scan only *)
ScanStatOnce(f) ==
  /\ pc = "scan" /\ f \in todo
  /\ pc' = "arm" /\ cur' = f /\ todo' = todo \ {f}
  /\ initialized' = [initialized EXCEPT ![f] = TRUE]
  /\ exists' = IF initialized[f] THEN exists ELSE [exists EXCEPT ![f] = OnDisk(f)]
  /\ told' = IF ~initialized[f] \/ exists[f] # OnDisk(f)
             THEN [told EXCEPT ![f] = IF OnDisk(f) THEN "present" ELSE "absent"]
             ELSE told
  /\ UNCHANGED <<fsVars, watchVars, queue, ops, wdFile, wdParent, lastMask, edited, lost>>

(* scan_files, first the lstat of a file and its notification ...           *)
ScanStat(f) ==
  /\ pc = "scan" /\ f \in todo
  /\ pc' = "arm" /\ cur' = f /\ todo' = todo \ {f}
  /\ initialized' = [initialized EXCEPT ![f] = TRUE]
  /\ exists' = [exists EXCEPT ![f] = OnDisk(f)]
  /\ told' = IF ~initialized[f] \/ exists[f] # OnDisk(f)
             THEN [told EXCEPT ![f] = IF OnDisk(f) THEN "present" ELSE "absent"]
             ELSE told
  /\ UNCHANGED <<fsVars, watchVars, queue, ops, wdFile, wdParent, lastMask, edited, lost>>

(* ... then its watches. *)
ScanArm ==
  /\ pc = "arm"
  /\ SetupFileWatch({cur}, {})
  /\ pc' = "scan" /\ cur' = None
  /\ UNCHANGED <<fsVars, queue, ops, todo, initialized, exists, lastMask, told, edited, lost>>

ScanDone ==
  /\ pc = "scan" /\ todo = {}
  /\ pc' = "poll"
  /\ UNCHANGED <<fsVars, watchVars, queue, ops, todo, cur, stateVars, told, edited, lost>>

Daemon == HandleInotify \/ StartScan \/ (\E f \in Files : ScanStat(f)) \/ ScanArm \/ ScanDone

(* runtime_watch_init: every file starts without state and is watched if it *)
(* can be.                                                                  *)
Init ==
  /\ dir \in 0..(IF MaxDirs = 0 THEN 0 ELSE 1)
  /\ \E present \in SUBSET Files :
       /\ dir = 0 => present = {}
       /\ Cardinality(present) <= MaxInodes
       /\ \E number \in [present -> 1..Cardinality(present)] :
            /\ \A f, g \in present : number[f] = number[g] => f = g
            /\ entry = [d \in Dirs |-> [n \in Names |->
                          IF d = 1 /\ n \in present THEN number[n] ELSE None]]
            /\ inodes = Cardinality(present)
  /\ alive = 1..inodes
  /\ wdParent = [f \in Files |-> ParentWatch]
  /\ wdFile = [f \in Files |-> IF OnDisk(f) THEN InodeOf(f) ELSE None]
  /\ watchedDirs = (IF dir = 0 THEN {} ELSE {dir})
  /\ watchedInodes = 1..inodes
  /\ queue = <<>> /\ ops = 0
  /\ pc = "poll" /\ todo = {} /\ cur = None
  /\ initialized = [f \in Files |-> FALSE]
  /\ exists = [f \in Files |-> FALSE]
  /\ lastMask = [f \in Files |-> None]
  /\ told = [f \in Files |-> "unknown"]
  /\ edited = [f \in Files |-> FALSE]
  /\ lost = FALSE

Next == Programs \/ Daemon

(* poll returns for an event and after the interval at the latest; programs *)
(* owe the daemon nothing.                                                  *)
Spec == Init /\ [][Next]_vars /\ WF_vars(Daemon)

-----------------------------------------------------------------------------
(* Properties *)

TypeOK ==
  /\ dir \in 0..MaxDirs
  /\ entry \in [Dirs -> [Names -> Inodes \cup {None}]]
  /\ inodes \in 0..MaxInodes /\ alive \in SUBSET Inodes
  /\ watchedDirs \in SUBSET Dirs /\ watchedInodes \in SUBSET Inodes
  /\ queue \in Seq([wd : Inodes \cup Dirs \cup {None}, mask : Masks,
                    name : Names \cup {None}])
  /\ Len(queue) <= MaxQueue + 1
  /\ ops \in 0..MaxOps
  /\ pc \in {"poll", "scan", "arm"}
  /\ todo \in SUBSET Files /\ cur \in Files \cup {None}
  /\ pc = "arm" => cur \in Files
  /\ initialized \in [Files -> BOOLEAN] /\ exists \in [Files -> BOOLEAN]
  /\ wdFile \in [Files -> Inodes \cup {None}]
  /\ wdParent \in [Files -> Dirs \cup {None}]
  /\ lastMask \in [Files -> Masks \cup {None}]
  /\ told \in [Files -> {"unknown", "present", "absent"}]
  /\ edited \in [Files -> BOOLEAN] /\ lost \in BOOLEAN

(* A file descriptor the daemon holds is alive in inotify, or the event     *)
(* that takes it away (IN_IGNORED) is still to be read: no file is left     *)
(* with a watch that will never say anything again.                         *)
WatchAccounted ==
  lost \/ \A f \in Files :
    wdFile[f] # None =>
      \/ wdFile[f] \in watchedInodes
      \/ \E k \in 1..Len(queue) : /\ queue[k].mask = "IGNORED"
                                  /\ queue[k].wd = wdFile[f]

(* A write to a watched file under a watched directory has been notified,   *)
(* or merged into the notification before it, by the time the queue is      *)
(* empty, whatever was renamed, unlinked or replaced in between.            *)
NoEditMissed ==
  queue = <<>> /\ ~lost => \A f \in Files : ~edited[f]

(* What was notified about a file's presence is what the daemon believes.   *)
ToldIsBelief ==
  \A f \in Files :
    initialized[f] => told[f] = (IF exists[f] THEN "present" ELSE "absent")

(* When the programs are done, the daemon comes to believe what is really   *)
(* there and holds on to it: deletions reported of a replaced file, events  *)
(* applied late and events lost are all made good by the scans.             *)
BeliefSettles ==
  \A f \in Files : <>[](exists[f] = OnDisk(f))

(* After a scan has set up the watches of a file that is there, the file is *)
(* watched: by its inode or by the directory it is in (README: inotify      *)
(* detects edits, deletion, moves and re-creation of files).                *)
ScanRearms ==
  [][(pc = "arm" /\ pc' = "scan" /\ OnDisk(cur)) =>
       wdParent'[cur] = dir \/ wdFile'[cur] = InodeOf(cur)]_vars
=============================================================================
