--------------------------------- MODULE GdApp ---------------------------------
(***************************************************************************)
(* gd's main loop over a session: each turn polls GDB, follows a stop and  *)
(* draws (app_update_and_draw), then takes one key, which a dialog, a      *)
(* pane or the code view handles (app_handle_view, app_handle_panes,       *)
(* app_handle_code, app_handle_input).                                     *)
(*                                                                         *)
(* Which pane has the focus, the cursor, scrolling, searching, the typing  *)
(* in dialogs, the view history and the drawing itself change nothing of   *)
(* the session and are left out: the user may be in any pane, and where a  *)
(* dialog's input matters, any input may come.                             *)
(***************************************************************************)
EXTENDS GdSession

CONSTANT MaxKeys   \* keys that ask GDB for something

ASSUME AppAssumption == MaxKeys \in Nat

VARIABLES ui, keys

vars == <<session, ui, keys>>

Idle == phase = "loop" /\ todo = <<>>

(***************************************************************************)
(* app_update_and_draw.                                                    *)
(***************************************************************************)
Turn ==
    /\ Idle /\ (~ui.drawn \/ buf # <<>> \/ pipe # <<>>)
    /\ \E n \in 0..Len(pipe) :
         /\ n = 0 <=> (pipe = <<>> \/ buf # <<>>)
         /\ PollWith([g EXCEPT !.changed = FALSE], n, <<L("draw", 0)>>)
    /\ ui' = [ui EXCEPT !.before = [state |-> g.state, pc |-> g.pc]]
    /\ UNCHANGED <<gdb, cmds, want, phase, late, keys>>

StoppedNow == g.state = "stopped" /\ (ui.before.state # "stopped" \/ ui.before.pc # g.pc)

(* The view follows the stop: source if there is one, else assembly.       *)
Follow(u) == [u EXCEPT !.code = IF g.source THEN "source" ELSE "assembly"]
Draw == [(IF StoppedNow THEN [Follow(ui) EXCEPT !.expanded = {}] ELSE ui) EXCEPT !.drawn = TRUE]

(***************************************************************************)
(* The application's part of a local step.                                 *)
(***************************************************************************)
UiEffect(op) ==
    CASE op.do = "draw" -> Draw
      [] op.do = "ready" -> Follow(ui)
      [] op.do = "expanded" /\ g.info # {} -> [ui EXCEPT !.expanded = {[val |-> g.info, rev |-> op.x]}]
      [] op.do = "reexpanded" /\ g.info # {} -> [ui EXCEPT !.expanded = {[val |-> g.info, rev |-> g.rev]}]
      [] op.do = "collapsed" -> [ui EXCEPT !.expanded = {}]
      [] op.do = "frameShown" -> [Follow(ui) EXCEPT !.expanded = {}]
      [] op.do = "assembly" -> [ui EXCEPT !.code = IF g.code THEN "assembly" ELSE @]
      [] OTHER -> ui

UiUnfold(op) ==
    CASE op.do = "draw" -> IF Draw.code = "assembly" /\ ~g.code THEN Disassemble ELSE <<>>
      [] op.do = "expansions" ->
           IF ui.expanded = {} THEN <<>>
           ELSE <<L("collapsed", 0)>> \o ListChildren(1) \o <<L("reexpanded", 0)>>
      [] op.do = "candidates" ->
           (IF g.state = "stopped" /\ g.varsRev # g.rev THEN RefreshVariables ELSE <<>>)
      [] OTHER -> Unfold(op)

LocalStep ==
    /\ todo # <<>> /\ Head(todo).kind = "local" /\ Head(todo).do \notin {"settle", "settled"}
    /\ LET op == Head(todo)
       IN  /\ g' = Effect(op)
           /\ todo' = UiUnfold(op) \o Tail(todo)
           /\ phase' = PhaseAfter(op)
           /\ ui' = UiEffect(op)
    /\ UNCHANGED <<gdb, cmds, pipe, buf, want, late, keys>>

(***************************************************************************)
(* Keys.  `Call' starts a call with what the key does to the view at once. *)
(***************************************************************************)
Call(steps, u) ==
    /\ Idle /\ ui.drawn /\ keys < MaxKeys
    /\ keys' = keys + 1
    /\ todo' = steps
    /\ ui' = [u EXCEPT !.drawn = FALSE]
    /\ UNCHANGED <<gdb, cmds, pipe, buf, want, g, phase, late>>

(* A key that changes the view only.                                       *)
Show(u) ==
    /\ Idle /\ ui.drawn
    /\ ui' = [u EXCEPT !.drawn = FALSE]
    /\ UNCHANGED <<session, keys>>

Main == ui.view = "main"
Stopped == g.state = "stopped"

KeyEscape == ui.view # "main" /\ Show([ui EXCEPT !.view = "main"])
KeyRun ==
    /\ Main /\ ~g.attached /\ g.state \notin {"running", "stopped"}
    /\ Call(<<L("rerun", 0)>> \o ExecSimple("run"), ui)
KeyResume == Main /\ Stopped /\ Call(ExecSimple("exec"), ui)
KeyBreak ==
    /\ Main
    /\ \E l \in Lines :
         IF ui.code = "source" THEN Call(ToggleBreakpoint(l), ui) ELSE Stopped /\ Call(ToggleAddressBreakpoint(l), ui)
(* The condition dialog: its candidates, one of whose values may have to   *)
(* be evaluated or whose members may be asked for, then the breakpoint; or *)
(* what was typed is evaluated.                                            *)
KeyCondition ==
    /\ Main /\ ui.code = "source" /\ g.state # "running"
    /\ \E l \in Lines :
         IF ~Stopped THEN Call(ScopeCandidates \o BreakAt(l), ui)
         ELSE \E rest \in {BreakAt(l), <<L("invalidate", 0), R("eval", 0, 0)>> \o BreakAt(l), ListChildren(0) \o BreakAt(l),
                           PrintExpression} :
                Call(<<L("candidates", 0)>> \o rest, ui)
KeyWatch == Main /\ ui.code = "source" /\ Stopped /\ Call(Watch, ui)
KeyPrint == Main /\ ui.code = "source" /\ Stopped /\ Call(PrintExpression, ui)
KeyExpand ==
    /\ Main /\ Stopped /\ g.args # {}
    /\ IF ui.expanded # {} THEN Show([ui EXCEPT !.expanded = {}])
       ELSE Call(ListChildren(1) \o <<L("expanded", g.rev)>>, ui)
(* The addresses of the other variables are compared with a pointer's.     *)
KeyInspect ==
    /\ Main /\ Stopped /\ g.args # {}
    /\ \E what \in {"pointer", "value", "nowhere"} :
         Call(<<L("inspect", what)>> \o (IF what = "pointer" THEN <<L("address", 0)>> ELSE <<>>), ui)
KeyEdit ==
    /\ Main /\ Stopped
    /\ \/ g.args # {} /\ Show([ui EXCEPT !.view = "variable"])
       \/ g.regs # {} /\ Show([ui EXCEPT !.view = "register"])
KeyAssign ==
    /\ ui.view \in {"variable", "register"} /\ Stopped
    /\ Call(AssignExpression \o (IF ui.view = "variable" THEN <<L("expansions", 0)>> ELSE <<>>),
            [ui EXCEPT !.view = "main"])
KeyFrame ==
    /\ Main /\ Stopped /\ g.frames # {}
    /\ \E level \in {0, 1} : Call(SelectFrame(level) \o <<L("frameShown", 0)>>, ui)
KeyReturn == Main /\ Stopped /\ Call(ReturnType, [ui EXCEPT !.view = "return"])
KeyReturned ==
    /\ ui.view = "return" /\ Stopped
    /\ \E raw \in BOOLEAN : Call(ForceReturn(raw) \o <<L("frameShown", 0)>>, [ui EXCEPT !.view = "main"])
KeyCatch ==
    /\ Main
    /\ \E l \in Lines : \E search \in BOOLEAN :
         Call((IF search THEN ListCatchCandidates ELSE <<>>) \o SetCatchpoint(l), ui)
KeyFunction == Main /\ \E l \in Lines : Call(ListFunctions \o SetFunctionBreakpoint(l), ui)
KeyOpen ==
    /\ Main
    /\ \/ Call(<<L("catalogue", 0)>>, [ui EXCEPT !.code = "source"])
       \/ Call(ListFunctions \o DisassembleAt \o <<L("assembly", 0)>>, ui)
(* Source and assembly are exchanged; the execution position is shown.     *)
KeyAssembly == Main /\ ui.code = "source" /\ g.pc # {} /\ Call(DisassembleAt \o <<L("assembly", 0)>>, ui)
KeySource == Main /\ (ui.code = "assembly" \/ g.source) /\ Show([ui EXCEPT !.code = "source"])
KeyFollowCall == Main /\ ui.code = "assembly" /\ g.code /\ Call(DisassembleAt, ui)
KeyBreaks == Main /\ Call(RefreshBreakpoints, [ui EXCEPT !.view = "breaks"])
KeyBreakDelete == ui.view = "breaks" /\ \E b \in g.breaks : Call(DeleteBreakpoint(b.n), ui)
KeyBreakToggle == ui.view = "breaks" /\ \E b \in g.breaks : Call(EnableBreakpoint(b.n), ui)
KeyQuit ==
    /\ Main /\ Idle /\ ui.drawn /\ keys < MaxKeys
    /\ keys' = keys + 1
    /\ phase' = "quit"
    /\ todo' = Shutdown
    /\ UNCHANGED <<gdb, cmds, pipe, buf, want, g, late, ui>>

(* A launched session has a key more, to start the program with.           *)
Init == SessionInit /\ keys = (IF gdb.async THEN 1 ELSE 0)
        /\ ui = [view |-> "main", code |-> "source", expanded |-> {}, drawn |-> FALSE,
                 before |-> [state |-> "none", pc |-> {}]]

Next ==
    \/ (External \/ Send \/ Await \/ GiveUp \/ Settle \/ StartFailed) /\ UNCHANGED <<ui, keys>>
    \/ LocalStep \/ Turn
    \/ KeyEscape \/ KeyRun \/ KeyResume \/ KeyBreak \/ KeyCondition \/ KeyWatch \/ KeyPrint \/ KeyExpand
    \/ KeyInspect \/ KeyEdit \/ KeyAssign \/ KeyFrame \/ KeyReturn \/ KeyReturned \/ KeyCatch \/ KeyFunction \/ KeyOpen
    \/ KeyAssembly \/ KeySource \/ KeyFollowCall \/ KeyBreaks \/ KeyBreakDelete \/ KeyBreakToggle \/ KeyQuit

Spec == Init /\ [][Next]_vars

(***************************************************************************)
(* Properties                                                              *)
(***************************************************************************)
(* Every part of the session is of its kind: the state is one of the       *)
(* program's, at most one command is out that is still waited for, what is *)
(* kept is kept under a revision that has been, and a call is under way    *)
(* only while its steps are left.                                          *)
TypeOK ==
    /\ g.state \in {"none", "running", "stopped", "exited"}
    /\ phase \in {"start", "loop", "quit", "end"}
    /\ want # 0 => want = g.token /\ todo # <<>> /\ Head(todo).kind = "request"
    /\ \A i \in 1..Len(cmds) : cmds[i].tok \in 1..g.token
    /\ g.varsRev <= g.rev /\ g.cache.rev <= g.rev
    /\ g.modulesRev <= g.symbols /\ g.sourcesRev <= g.symbols
    /\ Cardinality(g.args) <= 1 /\ Cardinality(g.cache.address) <= 1

(* All GDB has said has been heard, and nothing is asked.                  *)
IsNews(r) == r.k # "result"
Quiet == Idle /\ cmds = <<>> /\ SelectInSeq(pipe, IsNews) = 0 /\ SelectInSeq(buf, IsNews) = 0

(* With nothing left unread gd knows whether the program runs, has stopped *)
(* or has exited, in whatever order answers and news came, whatever was    *)
(* given up, and though the program's own text may stand before the news.  *)
(* The one thing it does not know is that a signal has killed the program, *)
(* which it takes for a stop.                                              *)
Reported(run) == IF run = "killed" THEN "stopped" ELSE run
StateAgrees == Quiet => \A s \in {"running", "stopped", "exited"} : g.state = s <=> Reported(gdb.run) = s

(* False: a program that has ended has exited for gd, which then accepts r *)
(* again (README.md:151).                                                  *)
EndIsExit == Quiet /\ gdb.run \in {"exited", "killed"} => g.state = "exited"

(* What is kept under the current revision: variables, an expanded one,    *)
(* addresses and their details.                                            *)
CurrentVariables(s) == IF s.varsRev = s.rev THEN s.args \cup s.locals ELSE {}
CurrentMembers(s, u) == UNION {e.val : e \in {x \in u.expanded : x.rev = s.rev}}
CurrentAnswers(s) == IF s.cache.rev = s.rev THEN s.cache.address \cup s.cache.detail ELSE {}
Current(s, u) == CurrentVariables(s) \cup CurrentMembers(s, u) \cup CurrentAnswers(s)

(* What is current is what GDB has now of the frame it was asked for in,   *)
(* and that is the selected frame unless a request was given up, which may *)
(* have selected another one all the same.  So is the stack, and under the *)
(* current symbol revision are modules and sources, but for a library      *)
(* whose news was glued to the program's text.                             *)
CurrentIsTrue ==
    Quiet =>
        /\ \A v \in Current(g, ui) : /\ [v EXCEPT !.frame = gdb.frame] = Now(gdb)
                                     /\ late = 0 => v.frame = gdb.frame
        /\ g.framesValid => g.frames \subseteq {gdb.at}
        /\ gdb.prints = 0 => /\ g.modulesRev = g.symbols => g.modules \subseteq {gdb.libs}
                             /\ g.sourcesRev = g.symbols => g.sources \subseteq {gdb.libs}

(* Unless a request was given up, the list of breakpoints is GDB's.        *)
BreaksAgree == Quiet /\ late = 0 => g.breaks = gdb.bps

(* The panes show the program where it stopped.                            *)
StopShown == Quiet /\ ui.drawn /\ late = 0 /\ gdb.run = "stopped" => g.pc = {Now(gdb)} /\ g.varsRev = g.rev
================================================================================
