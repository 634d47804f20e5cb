--------------------------- MODULE LwFiles_proofs ---------------------------
(***************************************************************************)
(* The watches of the file monitor and the edits it reports, for any files *)
(* and names, sizes of the event queue and bounds.                         *)
(***************************************************************************)
EXTENDS LwFiles, FiniteSetTheorems, TLAPS

Event == [wd : Inodes \cup Dirs \cup {None}, mask : Masks, name : Names \cup {None}]

(* The events of an inode have no name. *)
Proper == {e \in Event : e.mask = "IGNORED" => e.name = None}

(* TypeOK, part by part. *)
DiskType ==
  /\ dir \in 0..MaxDirs
  /\ entry \in [Dirs -> [Names -> Inodes \cup {None}]]
  /\ inodes \in 0..MaxInodes /\ alive \in SUBSET Inodes
WatchType == watchedDirs \in SUBSET Dirs /\ watchedInodes \in SUBSET Inodes
QueueType == queue \in Seq(Proper) /\ Len(queue) <= MaxQueue + 1 /\ lost \in BOOLEAN
LoopType ==
  /\ ops \in 0..MaxOps
  /\ pc \in {"poll", "scan", "arm"}
  /\ todo \in SUBSET Files /\ cur \in Files \cup {None}
  /\ pc = "arm" => cur \in Files
WdType == wdFile \in [Files -> Inodes \cup {None}] /\ wdParent \in [Files -> Dirs \cup {None}]
BeliefType ==
  /\ initialized \in [Files -> BOOLEAN] /\ exists \in [Files -> BOOLEAN]
  /\ lastMask \in [Files -> Masks \cup {None}]
  /\ told \in [Files -> {"unknown", "present", "absent"}]
  /\ edited \in [Files -> BOOLEAN]
Types == DiskType /\ WatchType /\ QueueType /\ LoopType /\ WdType /\ BeliefType

(* A directory the daemon has a descriptor of is watched. *)
ParentsWatched == \A f \in Files : wdParent[f] # None => wdParent[f] \in watchedDirs

(* The event of an edit that has not been notified is in the queue, and the *)
(* descriptor it names is the one the daemon has of the file's directory.   *)
EditQueued(f) ==
  /\ wdParent[f] # None
  /\ \E k \in 1..Len(queue) : queue[k].mask = "CLOSE_WRITE" /\ queue[k].name = f /\ queue[k].wd = wdParent[f]
EditsQueued == lost \/ \A f \in Files : edited[f] => EditQueued(f)

IInv == Types /\ ParentsWatched /\ WatchAccounted /\ EditsQueued

LEMMA TypesGiveTypeOK ==
  ASSUME Types
  PROVE  TypeOK
<1>1. queue \in Seq(Event) /\ Len(queue) <= MaxQueue + 1 /\ lost \in BOOLEAN
  BY DEF Types, QueueType, Proper
<1> QED
  BY <1>1 DEF Types, DiskType, WatchType, LoopType, WdType, BeliefType, TypeOK, Event

(***************************************************************************)
(* The queue.                                                              *)
(***************************************************************************)
LEMMA EnqueueType ==
  ASSUME QueueType, NEW events \in Seq(Proper), Enqueue(events)
  PROVE  QueueType'
<1> USE FileAssumption
<1> DEFINE all == queue \o events
<1>1. all \in Seq(Proper) /\ Len(all) \in Nat
  BY DEF QueueType
<1>2. CASE Len(all) <= MaxQueue
  BY <1>1, <1>2 DEF Enqueue, QueueType
<1>3. CASE Len(all) > MaxQueue
  <2>1. SubSeq(all, 1, MaxQueue) \in Seq(Proper) /\ Len(SubSeq(all, 1, MaxQueue)) = MaxQueue
    BY <1>1, <1>3
  <2>2. Overflow \in Proper
    BY DEF Overflow, Proper, Event, Masks
  <2>3. queue' = Append(SubSeq(all, 1, MaxQueue), Overflow) /\ lost' = TRUE
    BY <1>1, <1>3 DEF Enqueue
  <2> HIDE DEF all
  <2> QED
    BY <2>1, <2>2, <2>3 DEF QueueType
<1> QED
  BY <1>1, <1>2, <1>3

LEMMA EnqueueAdds ==
  ASSUME NEW events, Enqueue(events), ~lost'
  PROVE  queue' = queue \o events /\ ~lost
BY DEF Enqueue

LEMMA EventTypes ==
  ASSUME NEW d \in Dirs, NEW n \in Names, NEW i \in Inodes \cup {None},
         NEW mask \in Masks
  PROVE  /\ mask # "IGNORED" => DirEvent(d, mask, n) \in Seq(Proper)
         /\ WatchType => InodeEvent(i, mask) \in Seq(Proper)
<1>1. mask # "IGNORED" => [wd |-> d, mask |-> mask, name |-> n] \in Proper
  BY DEF Proper, Event
<1>2. [wd |-> i, mask |-> mask, name |-> None] \in Proper
  BY DEF Proper, Event
<1> QED
  BY <1>1, <1>2 DEF DirEvent, InodeEvent

LEMMA QueueGrows ==
  ASSUME QueueType, NEW events \in Seq(Proper), Enqueue(events), ~lost'
  PROVE  /\ ~lost
         /\ \A k \in 1..Len(queue) : k \in 1..Len(queue') /\ queue'[k] = queue[k]
         /\ \A k \in 1..Len(events) : Len(queue) + k \in 1..Len(queue') /\ queue'[Len(queue) + k] = events[k]
<1>1. queue' = queue \o events /\ ~lost
  BY EnqueueAdds
<1>2. queue \in Seq(Proper)
  BY DEF QueueType
<1> QED
  BY <1>1, <1>2

(***************************************************************************)
(* Programs.                                                               *)
(***************************************************************************)
LEMMA EventsKeep ==
  ASSUME IInv, NEW events \in Seq(Proper), Enqueue(events), UNCHANGED <<wdFile, wdParent>>
  PROVE  /\ (\A f \in Files : edited'[f] => edited[f]) => EditsQueued'
         /\ watchedInodes \subseteq watchedInodes' => WatchAccounted'
<1>1. QueueType
  BY DEF IInv, Types
<1>2. ASSUME ~lost', \A f \in Files : edited'[f] => edited[f], NEW f \in Files, edited'[f]
      PROVE  EditQueued(f)'
  <2>1. EditQueued(f)
    BY <1>1, <1>2, QueueGrows DEF IInv, EditsQueued
  <2>2. PICK k \in 1..Len(queue) : queue[k].mask = "CLOSE_WRITE" /\ queue[k].name = f /\ queue[k].wd = wdParent[f]
    BY <2>1 DEF EditQueued
  <2>3. k \in 1..Len(queue') /\ queue'[k] = queue[k]
    BY <1>1, <1>2, QueueGrows
  <2> QED
    BY <2>1, <2>2, <2>3 DEF EditQueued
<1>3. ASSUME ~lost', watchedInodes \subseteq watchedInodes', NEW f \in Files, wdFile'[f] # None, wdFile'[f] \notin watchedInodes'
      PROVE  \E k \in 1..Len(queue') : queue'[k].mask = "IGNORED" /\ queue'[k].wd = wdFile'[f]
  <2>1. PICK k \in 1..Len(queue) : queue[k].mask = "IGNORED" /\ queue[k].wd = wdFile[f]
    BY <1>1, <1>3, QueueGrows DEF IInv, WatchAccounted
  <2>2. k \in 1..Len(queue') /\ queue'[k] = queue[k]
    BY <1>1, <1>3, QueueGrows
  <2> QED
    BY <2>1, <2>2
<1> QED
  BY <1>2, <1>3 DEF EditsQueued, WatchAccounted

(* What an operation leaves alone. *)
LEMMA OperationKeeps ==
  ASSUME Types, Operation
  PROVE  WatchType' /\ LoopType' /\ WdType' /\ (edited' \in [Files -> BOOLEAN] => BeliefType')
BY FileAssumption DEF Types, Operation, watchVars, stateVars, WatchType, LoopType, WdType, BeliefType

(* An operation that writes no file under a watched directory. *)
LEMMA OtherOperation ==
  ASSUME IInv, Operation, NEW events \in Seq(Proper), Enqueue(events), DiskType', UNCHANGED edited
  PROVE  IInv'
<1>1. Types'
  <2>1. QueueType'
    BY EnqueueType DEF IInv, Types
  <2>2. edited' \in [Files -> BOOLEAN]
    BY DEF IInv, Types, BeliefType
  <2> QED
    BY <2>1, <2>2, OperationKeeps DEF IInv, Types
<1>2. UNCHANGED <<wdFile, wdParent, watchedDirs, watchedInodes>>
  BY DEF Operation, watchVars, stateVars
<1>3. EditsQueued' /\ WatchAccounted'
  BY <1>2, EventsKeep
<1>4. ParentsWatched'
  BY <1>2 DEF IInv, ParentsWatched
<1> QED
  BY <1>1, <1>3, <1>4 DEF IInv

LEMMA CreateKeeps ==
  ASSUME IInv, NEW d \in Dirs, NEW n \in Names, Create(d, n)
  PROVE  IInv'
<1>1. DirEvent(d, "CREATE", n) \in Seq(Proper)
  BY EventTypes DEF Masks, Reported, Appears
<1>2. DiskType'
  BY FileAssumption DEF Create, IInv, Types, DiskType, Inodes
<1> QED
  BY <1>1, <1>2, OtherOperation DEF Create

LEMMA EntryType ==
  ASSUME IInv, NEW d \in Dirs, NEW n \in Names
  PROVE  entry[d][n] \in Inodes \cup {None}
BY DEF IInv, Types, DiskType

LEMMA UnlinkKeeps ==
  ASSUME IInv, NEW d \in Dirs, NEW n \in Names, Unlink(d, n)
  PROVE  IInv'
<1>1. DirEvent(d, "DELETE", n) \in Seq(Proper) /\ InodeEvent(entry[d][n], "ATTRIB") \in Seq(Proper)
  BY EventTypes, EntryType DEF Masks, Reported, Gone, Changes, IInv, Types
<1>2. InodeEvent(entry[d][n], "ATTRIB") \o DirEvent(d, "DELETE", n) \in Seq(Proper)
  BY <1>1
<1>3. DiskType'
  BY DEF Unlink, IInv, Types, DiskType
<1> QED
  BY <1>2, <1>3, OtherOperation DEF Unlink

LEMMA RenameKeeps ==
  ASSUME IInv, NEW d \in Dirs, NEW n \in Names, NEW m \in Names, Rename(d, n, m)
  PROVE  IInv'
<1>1. /\ DirEvent(d, "MOVED_FROM", n) \in Seq(Proper) /\ DirEvent(d, "MOVED_TO", m) \in Seq(Proper)
      /\ InodeEvent(entry[d][m], "ATTRIB") \in Seq(Proper) /\ InodeEvent(entry[d][n], "MOVE_SELF") \in Seq(Proper)
  BY EventTypes, EntryType DEF Masks, Reported, Moved, Appears, Changes, IInv, Types
<1>2. DirEvent(d, "MOVED_FROM", n) \o DirEvent(d, "MOVED_TO", m) \o InodeEvent(entry[d][m], "ATTRIB")
      \o InodeEvent(entry[d][n], "MOVE_SELF") \in Seq(Proper)
  BY <1>1
<1>3. DiskType'
  BY EntryType DEF Rename, IInv, Types, DiskType
<1> QED
  BY <1>2, <1>3, OtherOperation DEF Rename

(* A watched directory tells of each write, and tells it first. *)
LEMMA ChangeKeeps ==
  ASSUME IInv, NEW d \in Dirs, NEW n \in Names, NEW mask \in Changes, Change(d, n, mask)
  PROVE  IInv'
<1> DEFINE events == DirEvent(d, mask, n) \o InodeEvent(entry[d][n], mask)
<1>1. DirEvent(d, mask, n) \in Seq(Proper) /\ InodeEvent(entry[d][n], mask) \in Seq(Proper)
  BY EventTypes, EntryType DEF Masks, Reported, Changes, IInv, Types
<1>2. events \in Seq(Proper)
  BY <1>1
<1>3. DiskType' /\ Enqueue(events) /\ Operation
  BY DEF Change, IInv, Types, DiskType, fsVars
<1>4. CASE UNCHANGED edited
  BY <1>2, <1>3, <1>4, OtherOperation
<1>5. CASE mask = "CLOSE_WRITE" /\ n \in Files /\ wdParent[n] = d /\ edited' = [edited EXCEPT ![n] = TRUE]
  <2>1. UNCHANGED <<wdFile, wdParent, watchedDirs, watchedInodes>>
    BY <1>3 DEF Operation, watchVars, stateVars
  <2>2. Types'
    <3>1. QueueType'
      BY <1>2, <1>3, EnqueueType DEF IInv, Types
    <3>2. edited' \in [Files -> BOOLEAN]
      BY <1>5 DEF IInv, Types, BeliefType
    <3> QED
      BY <1>3, <3>1, <3>2, OperationKeeps DEF IInv, Types
  <2>3. WatchAccounted' /\ ParentsWatched'
    BY <1>2, <1>3, <2>1, EventsKeep DEF IInv, ParentsWatched
  <2>4. ASSUME ~lost', NEW f \in Files, edited'[f] PROVE EditQueued(f)'
    <3>1. QueueType
      BY DEF IInv, Types
    <3>2. CASE f = n
      <4>1. d # None /\ d \in watchedDirs
        BY <1>5, FileAssumption DEF IInv, ParentsWatched, Dirs
      <4>2. DirEvent(d, mask, n) = <<[wd |-> d, mask |-> mask, name |-> n]>>
        BY <4>1 DEF DirEvent
      <4>3. 1 \in 1..Len(events) /\ events[1] = [wd |-> d, mask |-> mask, name |-> n]
        BY <1>1, <4>2
      <4> HIDE DEF events
      <4>5. \A k \in 1..Len(events) : Len(queue) + k \in 1..Len(queue') /\ queue'[Len(queue) + k] = events[k]
        BY <1>2, <1>3, <2>4, <3>1, QueueGrows
      <4>4. PICK k \in 1..Len(queue') : queue'[k] = [wd |-> d, mask |-> mask, name |-> n]
        BY <4>3, <4>5
      <4> QED
        BY <1>5, <2>1, <3>2, <4>1, <4>4 DEF EditQueued
    <3>3. CASE f # n
      <4> HIDE DEF events
      <4>1. edited[f] /\ ~lost
        BY <1>2, <1>3, <1>5, <2>4, <3>1, <3>3, QueueGrows DEF IInv, Types, BeliefType
      <4>2. PICK k \in 1..Len(queue) : queue[k].mask = "CLOSE_WRITE" /\ queue[k].name = f /\ queue[k].wd = wdParent[f]
        BY <4>1 DEF IInv, EditsQueued, EditQueued
      <4>3. k \in 1..Len(queue') /\ queue'[k] = queue[k] /\ wdParent[f] # None
        BY <1>2, <1>3, <2>4, <3>1, <4>1, QueueGrows DEF IInv, EditsQueued, EditQueued
      <4> QED
        BY <2>1, <4>2, <4>3 DEF EditQueued
    <3> QED
      BY <3>2, <3>3
  <2> QED
    BY <2>2, <2>3, <2>4 DEF IInv, EditsQueued
<1> QED
  BY <1>4, <1>5 DEF Change

(* Who takes a watch away says so. *)
LEMMA EvictKeeps ==
  ASSUME IInv, NEW i \in Inodes, Evict(i)
  PROVE  IInv'
<1> DEFINE events == InodeEvent(i, "DELETE_SELF") \o InodeEvent(i, "IGNORED")
<1>1. InodeEvent(i, "DELETE_SELF") \in Seq(Proper) /\ InodeEvent(i, "IGNORED") \in Seq(Proper)
  <2>1. ASSUME NEW mask \in {"DELETE_SELF", "IGNORED"} PROVE [wd |-> i, mask |-> mask, name |-> None] \in Proper
    BY <2>1 DEF Proper, Event, Masks, Reported, Gone
  <2> QED
    BY <2>1 DEF InodeEvent
<1>2. events \in Seq(Proper)
  BY <1>1
<1>3. /\ Enqueue(events) /\ watchedInodes' = watchedInodes \ {i}
      /\ UNCHANGED <<wdFile, wdParent, watchedDirs, edited>>
  BY DEF Evict, stateVars
<1>4. Types'
  <2>1. QueueType'
    BY <1>2, <1>3, EnqueueType DEF IInv, Types
  <2>2. DiskType' /\ WatchType' /\ LoopType' /\ WdType' /\ BeliefType'
    BY DEF Evict, stateVars, IInv, Types, DiskType, WatchType, LoopType, WdType, BeliefType
  <2> QED
    BY <2>1, <2>2 DEF Types
<1>5. EditsQueued' /\ ParentsWatched'
  BY <1>2, <1>3, EventsKeep DEF IInv, ParentsWatched
<1>6. ASSUME ~lost', NEW f \in Files, wdFile'[f] # None, wdFile'[f] \notin watchedInodes'
      PROVE  \E k \in 1..Len(queue') : queue'[k].mask = "IGNORED" /\ queue'[k].wd = wdFile'[f]
  <2>0. QueueType /\ (events \in Seq(Proper))
    BY <1>2 DEF IInv, Types
  <2>1. CASE wdFile[f] \in watchedInodes
    <3>1. wdFile'[f] = i /\ i \in watchedInodes
      BY <1>3, <1>6, <2>1
    <3>2. 2 \in 1..Len(events) /\ events[2] = [wd |-> i, mask |-> "IGNORED", name |-> None]
      BY <3>1 DEF InodeEvent
    <3> HIDE DEF events
    <3>3. \A k \in 1..Len(events) : Len(queue) + k \in 1..Len(queue') /\ queue'[Len(queue) + k] = events[k]
      BY <1>3, <1>6, <2>0, QueueGrows
    <3>4. PICK k \in 1..Len(queue') : queue'[k] = [wd |-> i, mask |-> "IGNORED", name |-> None]
      BY <3>2, <3>3
    <3> QED
      BY <3>1, <3>4
  <2>2. CASE wdFile[f] \notin watchedInodes
    <3> HIDE DEF events
    <3>1. ~lost /\ \A k \in 1..Len(queue) : k \in 1..Len(queue') /\ queue'[k] = queue[k]
      BY <1>3, <1>6, <2>0, QueueGrows
    <3>2. PICK k \in 1..Len(queue) : queue[k].mask = "IGNORED" /\ queue[k].wd = wdFile[f]
      BY <1>3, <1>6, <2>2, <3>1 DEF IInv, WatchAccounted
    <3> QED
      BY <1>3, <3>1, <3>2
  <2> QED
    BY <2>1, <2>2
<1> QED
  BY <1>4, <1>5, <1>6 DEF IInv, WatchAccounted

LEMMA MakeDirKeeps ==
  ASSUME IInv, MakeDir
  PROVE  IInv'
<1>1. Types'
  <2>1. DiskType' /\ QueueType' /\ edited' \in [Files -> BOOLEAN]
    BY FileAssumption DEF MakeDir, IInv, Types, DiskType, QueueType
  <2> QED
    BY <2>1, OperationKeeps DEF MakeDir, IInv, Types
<1>2. EditsQueued'
  BY DEF MakeDir, EditsQueued
<1>3. ParentsWatched' /\ WatchAccounted'
  BY DEF MakeDir, Operation, watchVars, stateVars, IInv, ParentsWatched, WatchAccounted
<1> QED
  BY <1>1, <1>2, <1>3 DEF IInv

LEMMA ProgramsKeep ==
  ASSUME IInv, Programs
  PROVE  IInv'
BY CreateKeeps, UnlinkKeeps, ChangeKeeps, RenameKeeps, EvictKeeps, MakeDirKeeps DEF Programs

(***************************************************************************)
(* The daemon.                                                             *)
(***************************************************************************)
LEMMA SetupKeeps ==
  ASSUME Types, ParentsWatched, NEW S \in SUBSET Files, NEW released, SetupFileWatch(S, released)
  PROVE  /\ WatchType' /\ WdType' /\ ParentsWatched'
         /\ watchedInodes \subseteq watchedInodes'
         /\ \A f \in Files : wdParent[f] # None => wdParent'[f] = wdParent[f]
         /\ \A f \in Files : \/ wdFile'[f] = None \/ wdFile'[f] \in watchedInodes'
                             \/ f \notin released /\ wdFile'[f] = wdFile[f]
<1> DEFINE oldFile(f) == IF f \in released THEN None ELSE wdFile[f]
           newParent(f) == IF f \in S /\ wdParent[f] = None THEN ParentWatch ELSE wdParent[f]
           newFile(f) == IF f \in S /\ oldFile(f) = None /\ OnDisk(f) THEN InodeOf(f) ELSE oldFile(f)
<1>1. /\ wdParent' = [f \in Files |-> newParent(f)]
      /\ wdFile' = [f \in Files |-> newFile(f)]
      /\ watchedDirs' = watchedDirs \cup {newParent(f) : f \in {g \in S : newParent(g) # wdParent[g]}}
      /\ watchedInodes' = watchedInodes \cup {newFile(f) : f \in {g \in S : newFile(g) # oldFile(g)}}
  BY DEF SetupFileWatch
<1>2. \A f \in Files : /\ newParent(f) \in Dirs \cup {None}
                       /\ newParent(f) # wdParent[f] => f \in S /\ wdParent[f] = None /\ (newParent(f) = None \/ newParent(f) \in Dirs)
  BY FileAssumption DEF Types, DiskType, WdType, ParentWatch, Dirs
<1>3. \A f \in Files : newParent(f) # wdParent[f] => newParent(f) \in Dirs
  BY <1>2
<1>4. \A f \in Files : /\ newFile(f) \in Inodes \cup {None}
                       /\ newFile(f) # oldFile(f) => f \in S /\ newFile(f) \in Inodes
  BY FileAssumption DEF Types, DiskType, WdType, OnDisk, InodeOf, Named, Dirs, Names
<1> HIDE DEF newParent, newFile
<1>5. WatchType' /\ WdType'
  BY <1>1, <1>2, <1>3, <1>4 DEF Types, WatchType, WdType
<1>6. ParentsWatched'
  BY <1>1, <1>2 DEF ParentsWatched
<1>7. \A f \in Files : newFile(f) = oldFile(f) \/ newFile(f) \in watchedInodes'
  BY <1>1, <1>4
<1>8. \A f \in Files : wdParent[f] # None => newParent(f) = wdParent[f]
  BY DEF newParent
<1> QED
  BY <1>1, <1>5, <1>6, <1>7, <1>8

LEMMA EmitKeeps ==
  ASSUME BeliefType, NEW S \in SUBSET Files, NEW mask \in Masks, NEW soon, EmitFileChange(S, mask, soon),
         UNCHANGED initialized
  PROVE  /\ BeliefType'
         /\ \A f \in Files : edited'[f] => edited[f] /\ ~(f \in S /\ mask = "CLOSE_WRITE")
<1> DEFINE emitted == {f \in S : mask \in Reported /\ ~Ignored(f, mask)}
           notified == {f \in emitted : ~(lastMask[f] = mask /\ f \in soon)}
<1>1. /\ exists' = [f \in Files |-> IF f \in emitted THEN Presence(f, mask) ELSE exists[f]]
      /\ lastMask' = [f \in Files |-> IF f \in emitted THEN mask ELSE lastMask[f]]
      /\ told' = [f \in Files |->
                    IF f \in notified /\ mask \notin Changes
                    THEN (IF Presence(f, mask) THEN "present" ELSE "absent") ELSE told[f]]
      /\ edited' = [f \in Files |-> edited[f] /\ ~(f \in emitted /\ mask = "CLOSE_WRITE")]
  BY DEF EmitFileChange
<1>2. \A f \in S : mask = "CLOSE_WRITE" => f \in emitted
  BY DEF Ignored, Reported, Changes, Gone, Moved
<1>3. \A f \in Files : Presence(f, mask) \in BOOLEAN
  BY DEF Presence, BeliefType
<1> HIDE DEF emitted, notified
<1>4. exists' \in [Files -> BOOLEAN]
  BY <1>1, <1>3 DEF BeliefType
<1>5. lastMask' \in [Files -> Masks \cup {None}]
  BY <1>1 DEF BeliefType
<1>6. told' \in [Files -> {"unknown", "present", "absent"}]
  BY <1>1 DEF BeliefType
<1>7. edited' \in [Files -> BOOLEAN]
  BY <1>1 DEF BeliefType
<1>8. initialized' \in [Files -> BOOLEAN]
  BY DEF BeliefType
<1>9. \A f \in Files : edited'[f] => edited[f] /\ ~(f \in S /\ mask = "CLOSE_WRITE")
  BY <1>1, <1>2
<1> QED
  BY <1>4, <1>5, <1>6, <1>7, <1>8, <1>9 DEF BeliefType

(* Handling an event is due to the files whose watch it takes away, and to  *)
(* the files whose edit it tells; what other files wait for stays in the    *)
(* queue.                                                                   *)
LEMMA HandleKeeps ==
  ASSUME IInv, HandleInotify
  PROVE  IInv'
<1> DEFINE e == Head(queue)
           concerned == {f \in Files : Matches(f, e)}
           released == IF e.mask = "IGNORED" THEN concerned ELSE {}
<1>0. Types /\ QueueType /\ queue # <<>> /\ queue' = Tail(queue) /\ UNCHANGED <<fsVars, ops, pc, todo, cur, initialized, lost>>
  BY DEF IInv, Types, HandleInotify
<1>1. e \in Proper /\ e = queue[1] /\ queue \in Seq(Proper) /\ queue' \in Seq(Proper)
  BY <1>0 DEF QueueType
<1>2. \A k \in 1..Len(queue) : k = 1 \/ (k - 1 \in 1..Len(queue') /\ queue'[k - 1] = queue[k])
  BY <1>0, <1>1
<1>3. PICK soon \in SUBSET concerned : EmitFileChange(concerned, e.mask, soon)
  BY DEF HandleInotify
<1>4. SetupFileWatch(concerned, released)
  BY DEF HandleInotify
<1>5. e.mask \in Masks /\ concerned \in SUBSET Files /\ BeliefType /\ ParentsWatched
  BY <1>0, <1>1 DEF Proper, Event, Types, IInv
<1>6. \A f \in Files : f \in concerned <=> Matches(f, e)
  OBVIOUS
<1>7. \A f \in Files : f \in released <=> e.mask = "IGNORED" /\ Matches(f, e)
  OBVIOUS
<1> HIDE DEF e, concerned, released
<1>8. /\ BeliefType'
      /\ \A f \in Files : edited'[f] => edited[f] /\ ~(f \in concerned /\ e.mask = "CLOSE_WRITE")
  BY <1>0, <1>3, <1>5, EmitKeeps
<1>9. /\ WatchType' /\ WdType' /\ ParentsWatched'
      /\ watchedInodes \subseteq watchedInodes'
      /\ \A f \in Files : wdParent[f] # None => wdParent'[f] = wdParent[f]
      /\ \A f \in Files : \/ wdFile'[f] = None \/ wdFile'[f] \in watchedInodes'
                          \/ f \notin released /\ wdFile'[f] = wdFile[f]
  BY <1>0, <1>4, <1>5, SetupKeeps
<1>10. Types'
  <2>1. QueueType'
    <3>1. Len(queue') <= MaxQueue + 1
      BY <1>0, <1>1, FileAssumption DEF QueueType
    <3>2. lost' \in BOOLEAN
      BY <1>0 DEF QueueType
    <3> QED
      BY <1>1, <3>1, <3>2 DEF QueueType
  <2>2. DiskType' /\ LoopType'
    BY <1>0 DEF Types, DiskType, LoopType, fsVars
  <2> QED
    BY <1>8, <1>9, <2>1, <2>2 DEF Types
<1>11. ASSUME ~lost', NEW f \in Files, wdFile'[f] # None, wdFile'[f] \notin watchedInodes'
       PROVE  \E k \in 1..Len(queue') : queue'[k].mask = "IGNORED" /\ queue'[k].wd = wdFile'[f]
  <2>1. f \notin released /\ wdFile'[f] = wdFile[f] /\ wdFile[f] \notin watchedInodes
    BY <1>9, <1>11
  <2>2. PICK k \in 1..Len(queue) : queue[k].mask = "IGNORED" /\ queue[k].wd = wdFile[f]
    BY <1>0, <1>11, <2>1 DEF IInv, WatchAccounted
  <2>3. k # 1
    BY <1>1, <1>7, <2>1, <2>2 DEF Matches, Proper
  <2> QED
    BY <1>2, <2>1, <2>2, <2>3
<1>12. ASSUME ~lost', NEW f \in Files, edited'[f]
       PROVE  EditQueued(f)'
  <2>1. edited[f] /\ ~(f \in concerned /\ e.mask = "CLOSE_WRITE")
    BY <1>8, <1>12
  <2>2. EditQueued(f)
    BY <1>0, <1>12, <2>1 DEF IInv, EditsQueued
  <2>3. PICK k \in 1..Len(queue) : queue[k].mask = "CLOSE_WRITE" /\ queue[k].name = f /\ queue[k].wd = wdParent[f]
    BY <2>2 DEF EditQueued
  <2>4. k # 1
    BY <1>1, <1>6, <2>1, <2>3 DEF Matches
  <2>5. wdParent[f] # None /\ wdParent'[f] = wdParent[f]
    BY <1>9, <2>2 DEF EditQueued
  <2> QED
    BY <1>2, <2>3, <2>4, <2>5 DEF EditQueued
<1> QED
  BY <1>9, <1>10, <1>11, <1>12 DEF IInv, WatchAccounted, EditsQueued

(* The scans leave the queue alone and take no watch away. *)
LEMMA ScansKeep ==
  ASSUME IInv, StartScan \/ (\E f \in Files : ScanStat(f)) \/ ScanArm \/ ScanDone
  PROVE  IInv'
<1>1. CASE StartScan \/ ScanDone
  <2>1. UNCHANGED <<fsVars, watchVars, queue, ops, cur, stateVars, told, edited, lost>> /\ LoopType'
    BY <1>1 DEF StartScan, ScanDone, IInv, Types, LoopType
  <2> QED
    BY <2>1 DEF fsVars, watchVars, stateVars, IInv, Types, DiskType, WatchType, QueueType, WdType, BeliefType, ParentsWatched,
       WatchAccounted, EditsQueued, EditQueued
<1>2. ASSUME NEW f \in Files, ScanStat(f) PROVE IInv'
  <2>1. UNCHANGED <<fsVars, watchVars, queue, ops, wdFile, wdParent, lastMask, edited, lost>>
    BY <1>2 DEF ScanStat
  <2>2. LoopType'
    BY <1>2 DEF ScanStat, IInv, Types, LoopType
  <2>3. OnDisk(f) \in BOOLEAN
    BY DEF OnDisk, Named
  <2>4. initialized' \in [Files -> BOOLEAN] /\ exists' \in [Files -> BOOLEAN]
    BY <1>2, <2>3 DEF ScanStat, IInv, Types, BeliefType
  <2>5. told' \in [Files -> {"unknown", "present", "absent"}]
    BY <1>2 DEF ScanStat, IInv, Types, BeliefType
  <2>6. BeliefType'
    BY <2>1, <2>4, <2>5 DEF IInv, Types, BeliefType
  <2>7. DiskType' /\ WatchType' /\ QueueType' /\ WdType'
    BY <2>1 DEF fsVars, watchVars, IInv, Types, DiskType, WatchType, QueueType, WdType
  <2>8. ParentsWatched' /\ WatchAccounted' /\ EditsQueued'
    BY <2>1 DEF watchVars, IInv, ParentsWatched, WatchAccounted, EditsQueued, EditQueued
  <2> QED
    BY <2>2, <2>6, <2>7, <2>8 DEF IInv, Types
<1>3. CASE ScanArm
  <2>1. SetupFileWatch({cur}, {}) /\ UNCHANGED <<fsVars, queue, ops, todo, initialized, exists, lastMask, told, edited, lost>>
    BY <1>3 DEF ScanArm
  <2>2. {cur} \in SUBSET Files /\ Types /\ ParentsWatched
    BY <1>3 DEF ScanArm, IInv, Types, LoopType
  <2>3. /\ WatchType' /\ WdType' /\ ParentsWatched'
        /\ watchedInodes \subseteq watchedInodes'
        /\ \A f \in Files : wdParent[f] # None => wdParent'[f] = wdParent[f]
        /\ \A f \in Files : \/ wdFile'[f] = None \/ wdFile'[f] \in watchedInodes'
                            \/ f \notin {} /\ wdFile'[f] = wdFile[f]
    BY <2>1, <2>2, SetupKeeps
  <2>4. Types'
    <3>1. LoopType'
      BY <1>3, <2>2 DEF ScanArm, Types, LoopType
    <3> QED
      BY <2>1, <2>2, <2>3, <3>1 DEF Types, DiskType, QueueType, BeliefType, fsVars
  <2>5. EditsQueued'
    BY <2>1, <2>3 DEF IInv, EditsQueued, EditQueued
  <2>6. WatchAccounted'
    BY <2>1, <2>3 DEF IInv, WatchAccounted
  <2> QED
    BY <2>3, <2>4, <2>5, <2>6 DEF IInv
<1> QED
  BY <1>1, <1>2, <1>3

LEMMA NextKeeps ==
  ASSUME IInv, [Next]_vars
  PROVE  IInv'
<1>1. CASE UNCHANGED vars
  BY <1>1 DEF vars, fsVars, watchVars, stateVars, IInv, Types, DiskType, WatchType, QueueType, LoopType, WdType, BeliefType,
     ParentsWatched, WatchAccounted, EditsQueued, EditQueued
<1> QED
  BY <1>1, ProgramsKeep, HandleKeeps, ScansKeep DEF Next, Daemon

LEMMA InitStarts ==
  ASSUME Init
  PROVE  IInv
<1> USE FileAssumption
<1>1. PICK present \in SUBSET Files :
         /\ dir = 0 => present = {}
         /\ Cardinality(present) <= MaxInodes
         /\ \E number \in [present -> 1..Cardinality(present)] :
              /\ entry = [d \in Dirs |-> [n \in Names |-> IF d = 1 /\ n \in present THEN number[n] ELSE None]]
              /\ inodes = Cardinality(present)
  BY DEF Init
<1>2. Cardinality(present) \in Nat
  BY FS_Subset, FS_CardinalityType
<1>3. PICK number \in [present -> 1..Cardinality(present)] :
         /\ entry = [d \in Dirs |-> [n \in Names |-> IF d = 1 /\ n \in present THEN number[n] ELSE None]]
         /\ inodes = Cardinality(present)
  BY <1>1
<1>4. inodes \in 0..MaxInodes /\ dir \in 0..MaxDirs /\ (dir = 0 \/ dir \in Dirs)
  BY <1>1, <1>2, <1>3 DEF Init, Dirs
<1>5. \A n \in present : number[n] \in 1..inodes /\ number[n] \in Inodes
  BY <1>1, <1>2, <1>3 DEF Inodes
<1>6. DiskType
  BY <1>3, <1>4, <1>5 DEF Init, DiskType, Inodes
<1>7. \A f \in Files : OnDisk(f) => InodeOf(f) \in 1..inodes /\ InodeOf(f) \in Inodes
  BY <1>3, <1>4, <1>5 DEF OnDisk, InodeOf, Named, Names
<1>8. WdType /\ WatchType
  BY <1>4, <1>7 DEF Init, WdType, WatchType, ParentWatch, Inodes, Dirs
<1>9. LoopType /\ BeliefType
  BY DEF Init, LoopType, BeliefType
<1>13. QueueType
  <2>1. queue \in Seq(Proper) /\ Len(queue) <= MaxQueue + 1
    BY DEF Init
  <2>2. lost \in BOOLEAN
    BY DEF Init
  <2> QED
    BY <2>1, <2>2 DEF QueueType
<1>10. ParentsWatched
  BY DEF Init, ParentsWatched, ParentWatch
<1>11. WatchAccounted
  BY <1>7 DEF Init, WatchAccounted
<1>12. EditsQueued
  BY DEF Init, EditsQueued
<1> QED
  BY <1>6, <1>8, <1>9, <1>10, <1>11, <1>12, <1>13 DEF IInv, Types

(***************************************************************************)
(* The theorems.                                                           *)
(***************************************************************************)
LEMMA Invariance == Spec => []IInv
BY InitStarts, NextKeeps, PTL DEF Spec

(* Every variable keeps its type: an event is about a directory or an inode *)
(* there has been, and the queue is as long as the kernel lets it be.       *)
THEOREM TypeCorrect == Spec => []TypeOK
<1>1. IInv => TypeOK
  BY TypesGiveTypeOK DEF IInv
<1> QED
  BY <1>1, Invariance, PTL

(* No file is left with a watch that will never say anything again          *)
(* (lifewatch.c 1320-1336 and 1445-1480).                                   *)
THEOREM WatchesAccounted == Spec => []WatchAccounted
<1>1. IInv => WatchAccounted
  BY DEF IInv
<1> QED
  BY <1>1, Invariance, PTL

(* No edit under a watched directory goes by unseen, whatever is renamed,   *)
(* unlinked or replaced in between (lifewatch.c 1400-1480).                 *)
THEOREM EditsNotMissed == Spec => []NoEditMissed
<1>1. IInv => NoEditMissed
  BY DEF IInv, EditsQueued, EditQueued, NoEditMissed
<1> QED
  BY <1>1, Invariance, PTL
=============================================================================
