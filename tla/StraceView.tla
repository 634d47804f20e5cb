------------------------------ MODULE StraceView ------------------------------
(***************************************************************************)
(* What the user sees of a trace that is still coming in: the events the   *)
(* filters let through, the one selected, the popups over them.  The main  *)
(* loop reads what has come, draws when something changed, and takes one   *)
(* key.  The list is rebuilt only when it was marked, and the source line  *)
(* of an event is looked up once, although its stack frames come later.    *)
(*                                                                         *)
(* A search text is the number it names, since the text of an event begins *)
(* with its thread.  Scrolling, the help and the language change no state  *)
(* this is about.  MaxKeys bounds the keys, and MaxSteps the keys and the  *)
(* lines together.                                                         *)
(***************************************************************************)
EXTENDS StraceIngest, FiniteSetsExt

CONSTANTS MaxKeys, MaxSteps
ASSUME KeysAssumption == MaxKeys \in Nat /\ MaxSteps \in Nat

VARIABLE
    ui     \* the App record's part that belongs to the screen

vars == <<ingest, ui>>

Nothing == -1
AllCalls == {"all"}        \* a filter that is not active
AllProcesses == {<<0, 0>>}
NoPopup == [kind |-> "none", over |-> Nothing, choices |-> {}]

(***************************************************************************)
(* Sources and filters.                                                    *)
(***************************************************************************)
(* trace_event_resolve: the first frame that leads to a source.            *)
FirstSource(frames) ==
    LET found == SelectSeq(frames, LAMBDA src : src # NoSource)
    IN  IF found = <<>> THEN NoSource ELSE Head(found)
SourceOf(e) == IF e.res # "unknown" THEN e.res ELSE FirstSource(e.frames)
Resolve(events, those) == [i \in DOMAIN events |-> IF i \in those THEN [events[i] EXCEPT !.res = SourceOf(events[i])] ELSE events[i]]

(* trace_event_syscall_name: births, and everything else.                  *)
Name(e) == IF e.whole /\ written[e.line].child # 0 THEN "clone" ELSE "read"

(* event_visible.                                                          *)
Matches(u, e, src) ==
    /\ u.processes = AllProcesses \/ <<e.pid, e.tid>> \in u.processes
    /\ u.calls = AllCalls \/ Name(e) \in u.calls
    /\ u.search \in {0, e.tid}
    /\ u.source \in {NoSource, src}

(***************************************************************************)
(* The list of events.                                                     *)
(***************************************************************************)
(* select_event: the source chosen from a stack belongs to one event.      *)
Select(u, i) == [u EXCEPT !.selected = i, !.override = IF u.selected = i THEN @ ELSE NoSource]

Position(u) == LET at == {p \in DOMAIN u.visible : u.visible[p] = u.selected}
               IN  IF at = {} THEN 0 ELSE Min(at)

(* rebuild_visible.                                                        *)
Rebuild(u, events) ==
    LET Shown(i) == i = u.forced \/ Matches(u, events[i], SourceOf(events[i]))
        v == [u EXCEPT !.visible = SelectSeq([i \in DOMAIN events |-> i], Shown), !.dirty = FALSE]
    IN  IF ~u.dirty THEN u
        ELSE IF v.visible = <<>> THEN Select(v, Nothing)
        ELSE IF u.follow \/ Position(v) = 0 THEN Select(v, Last(v.visible)) ELSE v

(* draw, with the lookups that drawing the rows makes.                     *)
Draw ==
    LET u == Rebuild(ui, model)
    IN  /\ phase = "run" /\ ~ui.drawn
        /\ ui' = [u EXCEPT !.drawn = TRUE]
        /\ model' = Resolve(model, Range(u.visible))
        /\ UNCHANGED <<kernel, pipe, pending, known, done, phase>>

(* A fault: the list waits for the next event.                             *)
MarkedByEvents(s) == [ui EXCEPT !.dirty = @ \/ s.fresh, !.drawn = @ /\ ~s.fresh /\ ~s.frame]

(* What a batch of lines marks: main.c 474 and 496-500.                    *)
Marked(s) == [ui EXCEPT !.dirty = @ \/ s.fresh \/ (s.frame /\ ui.source # NoSource),
                        !.drawn = @ /\ ~s.fresh /\ ~s.frame]

ReadSome == \E n \in 1..Len(pipe) : Read(n) /\ ui' = Marked(After(n))
ReadLast == ReadEnd /\ ui' = [Marked(AtEnd) EXCEPT !.drawn = FALSE]

(***************************************************************************)
(* Keys.  One is taken after the screen was drawn.                         *)
(***************************************************************************)
Key(u) ==
    /\ phase = "run" /\ ui.drawn /\ ui.keys < MaxKeys /\ Len(written) + ui.keys < MaxSteps
    /\ ui' = [u EXCEPT !.keys = @ + 1, !.drawn = FALSE]
    /\ UNCHANGED ingest
Bare == ui.popup = NoPopup
Here == ui.selected
Followed(u) == [u EXCEPT !.dirty = TRUE, !.follow = TRUE]

(* navigate: any of its keys, which lead to some row.                      *)
Navigate ==
    LET u == Rebuild(IF ui.forced # Nothing THEN [ui EXCEPT !.forced = Nothing, !.dirty = TRUE] ELSE ui, model)
    IN  /\ Bare
        /\ IF u.visible = <<>> THEN Key(u)
           ELSE \E p \in DOMAIN u.visible : Key([Select(u, u.visible[p]) EXCEPT !.follow = p = Len(u.visible)])

Search == Bare /\ \E t \in Tids \cup {0} : Key(Followed([ui EXCEPT !.search = t]))

(* reverse_from_selected.                                                  *)
Displayed(u, e) == IF u.override # NoSource THEN u.override ELSE SourceOf(e)
ReverseFromSelected ==
    /\ Bare /\ Here # Nothing /\ Displayed(ui, model[Here]) # NoSource
    /\ Key([ui EXCEPT !.source = Displayed(ui, model[Here]), !.dirty = TRUE])

Clear == Bare /\ Key(Followed([ui EXCEPT !.search = 0, !.calls = AllCalls, !.processes = AllProcesses, !.source = NoSource,
                                         !.forced = Nothing]))

(* jump_fd_origin: fd_analysis leads to some event of the trace.           *)
Jump ==
    /\ Bare /\ Here # Nothing
    /\ \E i \in 1..Here : Key([Select(ui, i) EXCEPT !.forced = i, !.dirty = TRUE, !.follow = FALSE])

Open(kind, choices) == [ui EXCEPT !.popup = [kind |-> kind, over |-> Here, choices |-> choices]]
OpenStack == Bare /\ Here # Nothing /\ model[Here].frames # <<>> /\ Key([Open("stack", {}) EXCEPT !.follow = FALSE])
OpenInfo == Bare /\ Here # Nothing /\ Key([Open("info", {}) EXCEPT !.follow = FALSE])
OpenCalls == Bare /\ Key(Open("calls", {Name(model[i]) : i \in DOMAIN model}))
OpenProcesses == Bare /\ Key(Open("processes", {<<model[i].pid, model[i].tid>> : i \in DOMAIN model}))
Close == ~Bare /\ Key([ui EXCEPT !.popup = NoPopup])

(* use_stack_source: the frame under the cursor, if it leads to a source.  *)
UseStackSource ==
    /\ ui.popup.kind = "stack" /\ Here # Nothing
    /\ \E src \in Range(model[Here].frames) \ {NoSource} :
          Key([ui EXCEPT !.override = src, !.popup = NoPopup])

(* apply_syscall_menu and apply_process_menu, the menu being what was      *)
(* there when it was opened: to choose everything is no filter.            *)
Chosen(some, all) == IF some = ui.popup.choices THEN all ELSE some
ApplyCalls ==
    /\ ui.popup.kind = "calls"
    /\ \E some \in SUBSET ui.popup.choices : Key(Followed([ui EXCEPT !.calls = Chosen(some, AllCalls), !.popup = NoPopup]))
ApplyProcesses ==
    /\ ui.popup.kind = "processes"
    /\ \E some \in SUBSET ui.popup.choices : Key(Followed([ui EXCEPT !.processes = Chosen(some, AllProcesses), !.popup = NoPopup]))

(***************************************************************************)
(* The specification.                                                      *)
(***************************************************************************)
Init ==
    /\ IngestInit
    /\ ui = [visible |-> <<>>, selected |-> Nothing, follow |-> TRUE, forced |-> Nothing, override |-> NoSource,
             dirty |-> TRUE, drawn |-> FALSE, search |-> 0, calls |-> AllCalls, processes |-> AllProcesses,
             source |-> NoSource, popup |-> NoPopup, keys |-> 0]

Keys == \/ Navigate \/ Search \/ ReverseFromSelected \/ Clear \/ Jump \/ OpenStack \/ OpenInfo \/ OpenCalls \/ OpenProcesses
        \/ Close \/ UseStackSource \/ ApplyCalls \/ ApplyProcesses

Next ==
    \/ (External \/ Stopped \/ Kill \/ Save) /\ Len(written') + ui.keys <= MaxSteps /\ UNCHANGED ui
    \/ Quit /\ ui.drawn /\ Bare /\ UNCHANGED ui
    \/ ReadSome \/ ReadLast \/ Draw \/ Keys

Spec == Init /\ [][Next]_vars

(***************************************************************************)
(* Properties.                                                             *)
(***************************************************************************)
Behind == {pipe[j].line : j \in DOMAIN pipe} \cup {pending[j].line : j \in DOMAIN pending}
Taken == {i \in DOMAIN written : i \notin Behind}
Calls == SelectSeq([i \in DOMAIN written |-> i], LAMBDA i : i \in Taken /\ written[i].kind = "call")
FramesOf(i) ==
    LET to == {j \in DOMAIN written : j > i /\ \E k \in i + 1 .. j : written[k].kind = "call"}
        mine == SelectSeq([j \in DOMAIN written |-> j],
                          LAMBDA j : j > i /\ j \notin to /\ j \in Taken /\ written[j].kind = "frame")
    IN  [k \in DOMAIN mine |-> written[mine[k]].src]

(* However the pipe cut the lines into reads, the events are the calls     *)
(* strace wrote, in their order and with their own frames, and what is     *)
(* saved at the end is everything it wrote.  Only a line cut by killing    *)
(* strace may be taken as it is, or be lost when a command left behind     *)
(* holds the pipe (main.c 504-525, 527-555, 1969-1999).                    *)
NothingLost ==
    /\ [i \in DOMAIN model |-> model[i].line] = Calls
    /\ \A i \in DOMAIN model : model[i].frames = FramesOf(model[i].line)
    /\ \A i \in DOMAIN model : ~model[i].whole => killed /\ i = Len(model)
    /\ phase = "saved" => pipe = <<>> /\ (pending = <<>> \/ (killed /\ held))

(* An event is filed under the process of its thread, although the         *)
(* program looks the process up when it comes to read the line: it is      *)
(* wrong only for a thread that has ended by then and whose birth was not  *)
(* seen, or not in one line (main.c 473-502, 1617-1632).                   *)
PidTrue ==
    \A i \in DOMAIN model :
        \/ model[i].pid = written[model[i].line].own
        \/ /\ model[i].lost
           /\ \A j \in 1 .. i - 1 :
                 LET birth == written[model[j].line]
                 IN  birth.child = model[i].tid /\ birth.thread => model[j].pid # birth.own

(* What is drawn is what the filters let through of everything read so     *)
(* far, frames that came after their event included; the selection is on   *)
(* it, the last event while the user follows; and a popup is about the     *)
(* event it was opened over (main.c 192-203, 557-603, 1790-1867).          *)
ViewTrue ==
    ui.drawn =>
      /\ ui.visible = SelectSeq([i \in DOMAIN model |-> i],
                         LAMBDA i : i = ui.forced \/ Matches(ui, model[i], FirstSource(model[i].frames)))
      /\ ui.selected = Nothing <=> ui.visible = <<>>
      /\ ui.visible # <<>> => ui.selected \in Range(ui.visible) /\ (ui.follow => ui.selected = Last(ui.visible))
      /\ ui.override # NoSource => ui.override \in Range(model[ui.selected].frames)
      /\ ui.popup.kind \in {"stack", "info"} => ui.popup.over = ui.selected
================================================================================
