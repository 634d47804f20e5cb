----------------------------- MODULE StraceIngest -----------------------------
(***************************************************************************)
(* How strace-src takes in a trace: strace writes lines into a pipe, the   *)
(* program reads them in pieces of any size, feeds whole lines to its      *)
(* model of events and finds out which process each thread belongs to;     *)
(* when the user quits it stops strace, drains the pipe and saves.         *)
(*                                                                         *)
(* strace and the traced threads are external.  A line is two pieces in    *)
(* the pipe, the second with the line end.  strace prints while the thread *)
(* it tells of is held, so a thread's step and its line are one step; a    *)
(* birth in whose middle another line comes is told in two lines, and the  *)
(* second does not show whether the child is a thread.  No thread number   *)
(* is given twice.                                                         *)
(***************************************************************************)
EXTENDS Integers, Sequences, SequencesExt, FiniteSets

CONSTANTS
    Tids,      \* thread numbers, a process has the number of its first thread
    First,     \* the command, or the process attached to
    MaxLines,  \* lines strace may write
    PipeSize,  \* pieces the pipe holds
    Sources    \* source lines a frame may lead to

NoSource == "none"
ASSUME IngestAssumption ==
    /\ First \in Tids /\ Tids \subseteq Nat \ {0} /\ IsFiniteSet(Tids)
    /\ MaxLines \in Nat /\ PipeSize \in Nat \ {0} /\ NoSource \notin Sources

VARIABLES
    world,    \* the process of each living thread, 0 for the others
    born,     \* thread numbers given so far
    split,    \* births of which the second line is still to come
    strace,   \* "up", "told" to end, or "gone"
    killed,   \* strace was killed
    held,     \* another process still holds the pipe
    written,  \* lines written, the last perhaps cut
    pipe,     \* pieces not yet read
    pending,  \* app->pending
    model,    \* app->model
    known,    \* app->identities
    done,     \* app->trace_done
    phase     \* "run", "stop", "drain" or "saved"

kernel == <<world, born, split, strace, killed, held, written>>
ingest == <<kernel, pipe, pending, model, known, done, phase>>

(***************************************************************************)
(* The traced threads and strace.                                          *)
(***************************************************************************)
Living == {t \in Tids : world[t] # 0}
Line(kind, t, child, thread, src) ==
    [kind |-> kind, tid |-> t, own |-> world[t], child |-> child, thread |-> thread, src |-> src]

Write(line) ==
    /\ strace # "gone" /\ Len(written) < MaxLines /\ Len(pipe) + 2 <= PipeSize
    /\ written' = Append(written, line)
    /\ pipe' = pipe \o <<[line |-> Len(written) + 1, last |-> FALSE], [line |-> Len(written) + 1, last |-> TRUE]>>
    /\ UNCHANGED <<strace, killed, held, pending, model, known, done, phase>>

SysCall == \E t \in Living : Write(Line("call", t, 0, FALSE, NoSource)) /\ UNCHANGED <<world, born, split>>

Spawn ==
    \E t \in Living : \E c \in Tids \ born : \E thread \in BOOLEAN :
       /\ world' = [world EXCEPT ![c] = IF thread THEN world[t] ELSE c]
       /\ born' = born \cup {c}
       /\ \/ Write(Line("call", t, c, thread, NoSource)) /\ UNCHANGED split
          \/ Write(Line("call", t, 0, FALSE, NoSource)) /\ split' = split \cup {<<t, c>>}

Resumed ==
    \E s \in split :
       /\ world[s[1]] # 0
       /\ Write(Line("call", s[1], s[2], FALSE, NoSource))
       /\ split' = split \ {s}
       /\ UNCHANGED <<world, born>>

Frame ==
    /\ written # <<>> /\ Last(written).kind # "other"
    /\ \E src \in Sources \cup {NoSource} : Write(Line("frame", Last(written).tid, 0, FALSE, src))
    /\ UNCHANGED <<world, born, split>>

End ==
    \E t \in Living :
       /\ Write(Line("other", t, 0, FALSE, NoSource))
       /\ world' = [world EXCEPT ![t] = 0]
       /\ UNCHANGED <<born, split>>

(* A command was started, not a process of several threads attached to.    *)
Started == \A t \in born \ {First} : (\E s \in split : s[2] = t) \/ (\E i \in DOMAIN written : written[i].child = t)

(* strace ends with the last thread or when it is told to.  A command it   *)
(* leaves behind holds the pipe.                                           *)
Holding == {h \in BOOLEAN : h => Living # {} /\ Started}
StraceEnds ==
    /\ (strace = "up" /\ Living = {}) \/ strace = "told"
    /\ strace' = "gone"
    /\ held' \in Holding
    /\ UNCHANGED <<world, born, split, killed, written, pipe, pending, model, known, done, phase>>

External == SysCall \/ Spawn \/ Resumed \/ Frame \/ End \/ StraceEnds

(***************************************************************************)
(* Lines and events.                                                       *)
(***************************************************************************)
(* A fault: a thread that has ended is taken for a process.                *)
ProcessOfLiving(k, t) == IF world[t] # 0 THEN world[t] ELSE t

(* process_tgid: asked when the line is handled, not when it was written.  *)
ProcessOf(k, t) == IF world[t] # 0 THEN world[t] ELSE IF k[t] # 0 THEN k[t] ELSE t

(* spawned_id and remember_identity.  A cut line has lost its result.      *)
Remember(k, line, whole, pid) ==
    LET own == [k EXCEPT ![line.tid] = pid]
    IN  IF whole /\ line.child # 0 THEN [own EXCEPT ![line.child] = IF line.thread THEN pid ELSE line.child] ELSE own

AppendEvent(events, i, whole, pid) ==
    Append(events, [line |-> i, whole |-> whole, tid |-> written[i].tid, pid |-> pid,
                    lost |-> world[written[i].tid] = 0, frames |-> <<>>, res |-> "unknown"])

(* A fault: what was resolved stays.                                       *)
AppendFrameOnly(events, src) == [events EXCEPT ![Len(events)].frames = Append(@, src)]

(* A frame makes what was resolved void.                                   *)
AppendFrame(events, src) ==
    [events EXCEPT ![Len(events)].frames = Append(@, src), ![Len(events)].res = "unknown"]

(* trace_model_feed_line: a cut frame is no frame.                         *)
FeedResult(line, whole, events) ==
    IF line.kind = "call" THEN "new event"
    ELSE IF line.kind = "frame" /\ whole /\ events # <<>> THEN "stack added" ELSE "ignored"

(* feed_line.                                                              *)
FeedLine(s, i, whole) ==
    LET line == written[i]
        pid == ProcessOf(s.known, line.tid)
        result == FeedResult(line, whole, s.model)
    IN  IF result = "new event"
        THEN [s EXCEPT !.model = AppendEvent(@, i, whole, pid), !.known = Remember(@, line, whole, pid), !.fresh = TRUE]
        ELSE IF result = "stack added" THEN [s EXCEPT !.model = AppendFrame(@, line.src), !.frame = TRUE]
        ELSE s

(* A fault: the beginning of a line is forgotten with the lines before it. *)
ProcessAll(s, flush) ==
    LET Feed(t, piece) == IF piece.last THEN FeedLine(t, piece.line, piece = Head(s.pending)) ELSE t
    IN  [FoldLeft(Feed, s, s.pending) EXCEPT !.pending = <<>>]

(* process_complete_lines: every piece up to the last line end is fed, the *)
(* rest is kept, or fed as well at the end of the trace.                   *)
Process(s, flush) ==
    LET ends == {j \in 1..Len(s.pending) : s.pending[j].last}
        Feed(t, piece) == IF piece.last THEN FeedLine(t, piece.line, TRUE) ELSE t
        fed == FoldLeft(Feed, s, s.pending)
        from == IF ends = {} THEN 1 ELSE 1 + CHOOSE j \in ends : \A k \in ends : k <= j
        rest == SubSeq(s.pending, from, Len(s.pending))
    IN  IF flush /\ rest # <<>> THEN [FeedLine(fed, Last(rest).line, FALSE) EXCEPT !.pending = <<>>]
        ELSE [fed EXCEPT !.pending = rest]

Fed(s) == pending' = s.pending /\ model' = s.model /\ known' = s.known
Before == [pending |-> pending, model |-> model, known |-> known, fresh |-> FALSE, frame |-> FALSE]

(* read_trace.                                                             *)
After(n) == Process([Before EXCEPT !.pending = @ \o SubSeq(pipe, 1, n)], FALSE)
Read(n) ==
    /\ ~done /\ phase \in {"run", "drain"} /\ n \in 1..Len(pipe)
    /\ pipe' = SubSeq(pipe, n + 1, Len(pipe))
    /\ Fed(After(n))
    /\ UNCHANGED <<kernel, done, phase>>

AtEnd == Process(Before, TRUE)
ReadEnd ==
    /\ ~done /\ phase \in {"run", "drain"} /\ pipe = <<>> /\ strace = "gone" /\ ~held
    /\ Fed(AtEnd)
    /\ done' = TRUE
    /\ UNCHANGED <<kernel, pipe, phase>>

(***************************************************************************)
(* The end of the session: stop_strace, drain_trace and the save.          *)
(***************************************************************************)
Quit ==
    /\ phase = "run"
    /\ phase' = IF strace = "gone" THEN "drain" ELSE "stop"
    /\ strace' = IF strace = "up" THEN "told" ELSE strace
    /\ UNCHANGED <<world, born, split, killed, held, written, pipe, pending, model, known, done>>

Stopped ==
    /\ phase = "stop" /\ strace = "gone"
    /\ phase' = "drain"
    /\ UNCHANGED <<kernel, pipe, pending, model, known, done>>

(* After a second strace is killed, perhaps in the middle of a line.       *)
Kill ==
    /\ phase = "stop" /\ strace = "told"
    /\ strace' = "gone" /\ killed' = TRUE /\ phase' = "drain"
    /\ held' \in Holding
    /\ \/ UNCHANGED <<written, pipe>>
       \/ /\ Len(pipe) < PipeSize /\ Len(written) < MaxLines
          /\ \E t \in Living : written' = Append(written, Line("call", t, 0, FALSE, NoSource))
          /\ pipe' = Append(pipe, [line |-> Len(written'), last |-> FALSE])
    /\ UNCHANGED <<world, born, split, pending, model, known, done>>

(* drain_trace ends with the trace, or gives up on a pipe that is empty    *)
(* and stays open.                                                         *)
Save ==
    /\ phase = "drain" /\ (done \/ (pipe = <<>> /\ held))
    /\ phase' = "saved"
    /\ UNCHANGED <<kernel, pipe, pending, model, known, done>>

IngestInit ==
    /\ born \in {b \in SUBSET Tids : First \in b}
    /\ world = [t \in Tids |-> IF t \in born THEN First ELSE 0]
    /\ split = {} /\ strace = "up" /\ killed = FALSE /\ held = FALSE
    /\ written = <<>> /\ pipe = <<>> /\ pending = <<>> /\ model = <<>>
    /\ known = [t \in Tids |-> 0] /\ done = FALSE /\ phase = "run"
================================================================================
