----------------------------- MODULE AtBuilder ------------------------------
(***************************************************************************)
(* The test list of autotest-assist-tui                                    *)
(* (src/autotest-assist-tui/autotest_builder.c): adding, editing, copying, *)
(* renaming and deleting tests, what becomes of their scripts and of the   *)
(* registry on disk, and the filter that hides some of them.  The program  *)
(* may be killed between any two writes; --regen-scripts runs while it is  *)
(* not running.                                                            *)
(***************************************************************************)
EXTENDS AtEditor

CONSTANTS Titles, FileOf,     \* FileOf[t]: the script's name, make_test_filename
          Kept,               \* the registry at the beginning: [title, cmd, sel]
          Filters,            \* filters that are set: titles or glyphs
          MaxCases, DescSize, \* MAX_CASES, size of a description
          Keys,               \* keys pressed in the editor
          Budgets,            \* bound: numbers of operations and of keys
          MaxMishaps          \* bound: kills and failed writes

Files == {FileOf[t] : t \in Titles}
None == "none"

(* A script's name ends in ".sh", and the tests kept have scripts of their  *)
(* own.                                                                     *)
ASSUME BuilderAssumption ==
  /\ DOMAIN FileOf = Titles /\ None \notin Files
  /\ Kept \in Seq([title : Titles, cmd : Text, sel : BOOLEAN])
  /\ \A i, j \in DOMAIN Kept : FileOf[Kept[i].title] = FileOf[Kept[j].title] => i = j
  /\ \A i \in DOMAIN Kept : Kept[i].cmd # <<>>
  /\ MaxCases \in Nat /\ Len(Kept) <= MaxCases /\ DescSize \in Nat
  /\ MaxMishaps \in Nat /\ Budgets \subseteq [ops : Nat, keys : Nat]

VARIABLES
  app,       \* [cases, sel, filter, screen, fresh]; screen "off": not running
  ed,        \* the editor
  disk,      \* [script, reg]: the scripts by name, the registry
  regen,     \* --regen-scripts: its tests, how many are done, whether one failed
  loaded,    \* ghost: the test whose text the editor was opened with
  gone,      \* ghost: the new test that :q! discarded last, 0 if none
  troubled,  \* ghost: a write failed or was cut short since the last repair
  budget, mishaps

vars == <<app, ed, disk, regen, loaded, gone, troubled, budget, mishaps>>

NoScript == [id |-> 0, cmd |-> <<>>]
Idle == [cases |-> <<>>, done |-> 0, failed |-> FALSE]

Matches(c, filter) ==                                       \* case_matches_filter
  \/ filter = None \/ c.title = filter
  \/ \E i \in DOMAIN c.cmd : filter \in ToSet(c.cmd[i])
  \/ \E i \in DOMAIN c.desc : filter \in ToSet(c.desc[i])
Visible(a) == {i \in DOMAIN a.cases : Matches(a.cases[i], a.filter)}

(* clamp_selected.  select_first_filtered_case leaves the selection alone   *)
(* if no test is visible.                                                   *)
ClampSelected(a) ==
  LET n == Len(a.cases)
      s == IF n = 0 THEN 1 ELSE Least(a.sel, n)
  IN  [a EXCEPT !.sel = IF n > 0 /\ s \notin Visible(a) /\ Visible(a) # {}
                        THEN Min(Visible(a)) ELSE s]

Selected(a) == a.cases[a.sel]

(* Checks that a script must pass: validate_script_syntax in short.         *)
Starts(text, w) == Cardinality({i \in DOMAIN text : FirstWord(text[i]) = w})
Valid(text) ==
  /\ Starts(text, "@") = 0
  /\ Starts(text, "@tui") = Starts(text, "@end")

-----------------------------------------------------------------------------
(* The disk.  A write is a list of the disks it goes through.               *)

Entry(c) == [path |-> c.path, title |-> c.title, cmd |-> c.cmd, desc |-> c.desc, sel |-> c.sel]

Scripted(cases) ==
  LET first[n \in 0..Len(cases)] ==
        IF n = 0 THEN <<>>
        ELSE IF cases[n].path = None THEN first[n - 1] ELSE Append(first[n - 1], cases[n])
  IN  first[Len(cases)]

(* save_test_registry: truncated, then written line by line; a test that    *)
(* has no script is left out.                                               *)
RegistrySteps(cases, d) ==
  LET lines == [i \in DOMAIN Scripted(cases) |-> Entry(Scripted(cases)[i])]
  IN  [i \in 1..(Len(lines) + 1) |-> [d EXCEPT !.reg = Upto(lines, i - 1)]]

(* load_test_registry: the IDs are given anew. *)
FromRegistry(reg) ==
  [i \in 1..Least(Len(reg), MaxCases) |->
     [id |-> i, key |-> i, title |-> reg[i].title, cmd |-> reg[i].cmd, desc |-> reg[i].desc,
      path |-> reg[i].path, sel |-> reg[i].sel]]

(* title_path_conflicts, and the check of write_single_test_script          *)
Conflicts(c, title, d) ==
  FileOf[title] # c.path /\ d.script[FileOf[title]] # NoScript

(* write_single_test_script: truncated, written, and the old one removed.   *)
ScriptSteps(c, d) ==
  LET path == FileOf[c.title]
      cut == [d EXCEPT !.script[path] = [id |-> c.id, cmd |-> <<>>]]
      new == [d EXCEPT !.script[path] = [id |-> c.id, cmd |-> c.cmd]]
  IN  <<cut, new>> \o (IF c.path \in {None, path} THEN <<>>
                       ELSE << [new EXCEPT !.script[c.path] = NoScript] >>)

Written(c) == [c EXCEPT !.path = FileOf[c.title]]

Off == [cases |-> <<>>, sel |-> 1, filter |-> None, screen |-> "off",
        fresh |-> FALSE]

(* The program is killed before the last of its writes is done. *)
Cut(steps) ==
  /\ mishaps < MaxMishaps /\ mishaps' = mishaps + 1
  /\ \E i \in 1..(Len(steps) - 1) : disk' = steps[i]
  /\ app' = Off /\ regen' = Idle /\ troubled' = TRUE

(* The writes are made and the program goes on with a, or it is killed.     *)
Commit(steps, a) ==
  \/ disk' = Last(steps) /\ app' = a /\ UNCHANGED <<regen, mishaps, troubled>>
  \/ Cut(steps)

(* fopen of a script fails. *)
Fails(a) ==
  /\ mishaps < MaxMishaps /\ mishaps' = mishaps + 1
  /\ app' = a /\ troubled' = TRUE /\ UNCHANGED <<disk, regen>>

AndThen(steps, more(_)) == steps \o more(Last(steps))

-----------------------------------------------------------------------------
Init ==
  /\ budget \in Budgets /\ mishaps = 0 /\ troubled = FALSE
  /\ disk = [script |-> [f \in Files |->
               IF \E i \in DOMAIN Kept : FileOf[Kept[i].title] = f
               THEN LET i == CHOOSE j \in DOMAIN Kept : FileOf[Kept[j].title] = f
                    IN  [id |-> i, cmd |-> Kept[i].cmd]
               ELSE NoScript],
             reg |-> [i \in DOMAIN Kept |->
               [path |-> FileOf[Kept[i].title], title |-> Kept[i].title, cmd |-> Kept[i].cmd,
                desc |-> << <<>> >>, sel |-> Kept[i].sel]]]
  /\ app = Off /\ regen = Idle /\ loaded = 0 /\ gone = 0
  /\ ed = Loaded(<< <<>> >>, "command")

On(screen) == app.screen = screen /\ budget.ops > 0 /\ budget' = [budget EXCEPT !.ops = @ - 1]
Quietly == UNCHANGED <<disk, regen, troubled, mishaps>>
NotEditing == UNCHANGED <<ed, loaded, gone>>

(* init_app *)
Launch ==
  /\ app.screen = "off" /\ regen = Idle
  /\ app' = [Off EXCEPT !.cases = FromRegistry(disk.reg), !.screen = "dashboard"]
  /\ gone' = 0 /\ UNCHANGED <<ed, loaded, budget>> /\ Quietly

(* Esc *)
Exit ==
  /\ On("dashboard") /\ app' = Off /\ Quietly /\ NotEditing

Navigate ==
  /\ \/ On("dashboard") /\ app' = ClampSelected([app EXCEPT !.screen = "list"])
     \/ On("list") /\ app' = ClampSelected([app EXCEPT !.screen = "dashboard"])
     \/ On("result") /\ \E next \in {"list", "dashboard"} : app' = ClampSelected([app EXCEPT !.screen = next])
  /\ Quietly /\ NotEditing

(* move_filtered_case *)
Step(direction) ==
  /\ On("list") /\ app.cases # <<>> /\ Visible(app) # {}
  /\ LET n == Len(app.cases)
         RowAt(step) == ((app.sel - 1 + direction * step) % n) + 1
         first == Min({s \in 1..n : RowAt(s) \in Visible(app)})
     IN  app' = [app EXCEPT !.sel = IF app.sel \in Visible(app) THEN RowAt(first) ELSE Min(Visible(app))]
  /\ Quietly /\ NotEditing

(* edit_case_filter *)
SetFilter(f) ==
  /\ On("list") /\ app.filter # f
  /\ LET a == ClampSelected([app EXCEPT !.filter = f])
     IN  app' = IF f # None /\ Visible(a) # {} THEN [a EXCEPT !.sel = Min(Visible(a))] ELSE a
  /\ Quietly /\ NotEditing

-----------------------------------------------------------------------------
(* The editor over the list *)

(* open_text_editor.  handle_key, which called it, then moves a selection   *)
(* that the filter hides to the first test in sight.                        *)
OpensEditor(a, text, target) ==
  /\ ed' = Loaded(text, target)
  /\ loaded' = Selected(a).key /\ UNCHANGED gone
  /\ app' = ClampSelected([a EXCEPT !.screen = "script"])

Open(target) ==
  /\ On("list") /\ Visible(app) # {}
  /\ OpensEditor([app EXCEPT !.fresh = IF target = "command" THEN FALSE ELSE @],
                 IF target = "command" THEN Selected(app).cmd ELSE Selected(app).desc, target)
  /\ Quietly

NewKey(a) == 1 + Max({0, loaded, gone} \cup {a.cases[i].key : i \in DOMAIN a.cases})
NewCase(title) ==
  [id |-> Len(app.cases) + 1, key |-> NewKey(app), title |-> title, cmd |-> << <<"b">> >>,
   desc |-> << <<>> >>, path |-> None, sel |-> TRUE]

(* mutant: the new test is not selected *)
AddCaseUnselected(title) ==
  /\ On("dashboard") /\ Len(app.cases) < MaxCases
  /\ LET c == NewCase(title)
         a == [app EXCEPT !.cases = Append(@, c), !.fresh = TRUE]
     IN  /\ ~Conflicts(c, title, disk)
         /\ ed' = Loaded(c.cmd, "command") /\ loaded' = c.key /\ UNCHANGED gone
         /\ app' = ClampSelected([a EXCEPT !.screen = "script"])
  /\ Quietly

(* add_case: in memory only, until it is written. *)
AddCase(title) ==
  /\ On("dashboard") /\ Len(app.cases) < MaxCases
  /\ LET c == NewCase(title)
         a == [app EXCEPT !.cases = Append(@, c), !.sel = Len(app.cases) + 1, !.fresh = TRUE]
     IN  /\ ~Conflicts(c, title, disk)
         /\ OpensEditor(a, c.cmd, "command")
  /\ Quietly

Editing(k) ==
  /\ app.screen = "script" /\ budget.keys > 0
  /\ budget' = [budget EXCEPT !.keys = @ - 1]
  /\ ed' \in Keyed(ed, k)
  /\ UNCHANGED <<app, loaded, gone>> /\ Quietly

(* :w, :wq, Ctrl-S and Ctrl-Q need no key of the text's. *)
CanLeave == app.screen = "script" /\ ed.mode \in {"normal", "insert", "line"}
Back == [app EXCEPT !.screen = "list"]

(* save_editor_to_case.  A description keeps the lines that fit.            *)
Bytes(lines, n) == FoldLeft(LAMBDA sum, line : sum + Len(line) + 1, 0, Upto(lines, n))
Taken ==
  LET c == Selected(app)
      n == Cardinality({m \in 1..Rows(ed) : Bytes(ed.lines, m) + 1 < DescSize})
  IN  IF ed.target = "command" THEN [c EXCEPT !.cmd = ed.lines]
      ELSE [c EXCEPT !.desc = Upto(ed.lines, n) \o (IF n = Rows(ed) THEN <<>> ELSE << <<>> >>)]

(* save_current_editor *)
Save(leave) ==
  /\ CanLeave /\ app.cases # <<>>
  /\ ed.target = "command" => Valid(ed.lines)
  /\ LET c == Taken
         stuck == [app EXCEPT !.cases[app.sel] = c]
         new == IF c.path = None /\ ed.target # "command" THEN c ELSE Written(c)
         put == [(IF leave THEN Back ELSE app) EXCEPT !.cases[app.sel] = new]
         done == [put EXCEPT !.fresh = IF ed.target = "command" THEN FALSE ELSE @]
         writes == IF ed.target = "command" \/ c.path # None THEN ScriptSteps(c, disk) ELSE <<disk>>
     IN  IF ed.target = "command" /\ Conflicts(c, c.title, disk)
         THEN app' = stuck /\ Quietly /\ UNCHANGED ed
         ELSE \/ /\ Commit(AndThen(writes, LAMBDA d : RegistrySteps(done.cases, d)), done)
                 /\ ed' = [ed EXCEPT !.dirty = FALSE, !.mode = IF @ = "line" THEN "normal" ELSE @]
              \/ /\ ed.target = "command" /\ Fails(stuck)
                 /\ UNCHANGED ed
  /\ UNCHANGED <<loaded, gone, budget>>

(* :q and Ctrl-Q *)
Quit ==
  /\ CanLeave
  /\ ~ed.dirty /\ ~(app.fresh /\ ed.target = "command")
  /\ app' = Back
  /\ UNCHANGED <<budget, ed, loaded, gone>> /\ Quietly

(* :q!, with discard_current_case_if_new *)
Discard ==
  /\ CanLeave /\ ed.mode = "line"
  /\ app' = IF app.fresh /\ ed.target = "command" /\ app.cases # <<>>
            THEN ClampSelected([Back EXCEPT !.cases = RemoveAt(@, app.sel), !.fresh = FALSE])
            ELSE Back
  /\ gone' = IF app.fresh /\ ed.target = "command" THEN loaded ELSE gone
  /\ ed' = [ed EXCEPT !.dirty = FALSE]
  /\ UNCHANGED <<budget, loaded>> /\ Quietly

-----------------------------------------------------------------------------
(* Other operations on the list *)

(* rename_case: a test that was never written has no old script.            *)
Rename(title) ==
  /\ On("list") /\ Visible(app) # {} /\ title # Selected(app).title
  /\ LET c == [Selected(app) EXCEPT !.title = title]
         a == ClampSelected([app EXCEPT !.cases[app.sel] = Written(c)])
     IN  /\ ~Conflicts(c, title, disk)
         /\ \/ Commit(AndThen(ScriptSteps(c, disk), LAMBDA d : RegistrySteps(a.cases, d)), a)
            \/ Fails(app)
  /\ NotEditing

(* copy_case *)
Copy(title) ==
  /\ On("list") /\ Visible(app) # {} /\ Len(app.cases) < MaxCases
  /\ LET c == [Selected(app) EXCEPT !.title = title, !.path = None, !.sel = TRUE,
                                    !.id = Len(app.cases) + 1, !.key = NewKey(app)]
         a == [app EXCEPT !.cases = Append(@, Written(c)), !.sel = Len(app.cases) + 1]
     IN  /\ ~Conflicts(c, title, disk)
         /\ \/ Commit(AndThen(ScriptSteps(c, disk), LAMBDA d : RegistrySteps(a.cases, d)), ClampSelected(a))
            \/ Fails(app)
  /\ NotEditing

Toggle ==
  /\ On("list") /\ Visible(app) # {}
  /\ LET a == [app EXCEPT !.cases[app.sel].sel = ~@]
     IN  Commit(RegistrySteps(a.cases, disk), a)
  /\ NotEditing

(* CONFIRM_DELETE, with "No" and with delete_case *)
AskDelete ==
  /\ On("list") /\ Visible(app) # {}
  /\ app' = ClampSelected([app EXCEPT !.screen = "delete"])
  /\ Quietly /\ NotEditing

DontDelete ==
  /\ On("delete") /\ app' = ClampSelected([app EXCEPT !.screen = "list"])
  /\ Quietly /\ NotEditing

Delete ==
  /\ On("delete") /\ app.cases # <<>>
  /\ LET path == Selected(app).path
         cut == IF path = None THEN disk ELSE [disk EXCEPT !.script[path] = NoScript]
         rest == RemoveAt(app.cases, app.sel)
     IN  Commit(<<cut>> \o RegistrySteps(rest, cut),
                ClampSelected([app EXCEPT !.cases = rest, !.screen = "list"]))
  /\ NotEditing

Unwritten(cases) == {i \in DOMAIN cases : cases[i].sel /\ cases[i].path = None}

(* The script of the n-th test is written if it is selected and has none.   *)
Prepare(p, n, missed) ==
  LET c == p.cases[n]
      d == Last(p.steps)
  IN  IF n \in missed \/ n \notin Unwritten(p.cases) \/ Conflicts(c, c.title, d) THEN p
      ELSE [cases |-> [p.cases EXCEPT ![n] = Written(c)], steps |-> p.steps \o ScriptSteps(c, d)]

(* Selected tests without a script get one in their order.  Those of missed *)
(* get none: fopen fails, or an earlier failure has ended the run.          *)
Prepared(missed) ==
  LET upto[n \in 0..Len(app.cases)] ==
        IF n = 0 THEN [cases |-> app.cases, steps |-> <<disk>>]
        ELSE Prepare(upto[n - 1], n, missed)
  IN  upto[Len(app.cases)]

Ran(cases) == [app EXCEPT !.cases = cases, !.screen = "result"]

(* start_selected_test_scripts: with a reboot test selected all must have a *)
(* script before the registry is saved (ensure_selected_test_scripts);      *)
(* without, those that have none are left out, and it is not saved.         *)
Start ==
  /\ On("list") \/ On("dashboard")
  /\ \E i \in DOMAIN app.cases : app.cases[i].sel
  /\ \E missed \in SUBSET Unwritten(app.cases) :
       LET p == Prepared(missed)
       IN  \/ Commit(p.steps, Ran(p.cases))
           \/ /\ Unwritten(p.cases) = {}
              /\ Commit(AndThen(p.steps, LAMBDA d : RegistrySteps(p.cases, d)), Ran(p.cases))
  /\ NotEditing

(* Killed between two writes, or at the keyboard, when nothing was being    *)
(* written.                                                                 *)
Kill ==
  /\ app.screen # "off" \/ regen # Idle
  /\ mishaps < MaxMishaps /\ mishaps' = mishaps + 1
  /\ app' = Off /\ regen' = Idle /\ troubled' = (troubled \/ regen # Idle)
  /\ UNCHANGED <<disk, budget>> /\ NotEditing

-----------------------------------------------------------------------------
(* regenerate_registered_scripts: one script after the other, and then, if  *)
(* none has failed, the registry.                                           *)

Regenerate ==
  /\ On("off") /\ regen = Idle
  /\ regen' = [Idle EXCEPT !.cases = FromRegistry(disk.reg)]
  /\ UNCHANGED <<app, disk, troubled, mishaps>> /\ NotEditing

(* mutant: a script that is there already is left as it is                  *)
RegenOneMissing ==
  /\ regen.done < Len(regen.cases)
  /\ LET i == regen.done + 1
     IN  disk' = IF disk.script[regen.cases[i].path] = NoScript THEN Last(ScriptSteps(regen.cases[i], disk))
                 ELSE disk
  /\ regen' = [regen EXCEPT !.done = @ + 1]
  /\ UNCHANGED <<app, budget, mishaps, troubled>> /\ NotEditing

RegenOne ==
  /\ regen.done < Len(regen.cases)
  /\ LET i == regen.done + 1
         c == regen.cases[i]
         more == [regen EXCEPT !.done = i, !.cases[i] = Written(c)]
     IN  /\ ~Conflicts(c, c.title, disk)
         /\ \/ /\ disk' = Last(ScriptSteps(c, disk)) /\ regen' = more
               /\ UNCHANGED <<app, mishaps, troubled>>
            \/ Cut(ScriptSteps(c, disk))
            \/ /\ mishaps < MaxMishaps /\ mishaps' = mishaps + 1
               /\ regen' = [regen EXCEPT !.done = i, !.failed = TRUE] /\ troubled' = TRUE
               /\ UNCHANGED <<app, disk>>
  /\ UNCHANGED budget /\ NotEditing

OwnScripts(reg) == \A i, j \in DOMAIN reg : reg[i].path = reg[j].path => i = j

RegenEnd ==
  /\ regen.cases # <<>> /\ regen.done = Len(regen.cases)
  /\ \/ /\ regen.failed /\ regen' = Idle
        /\ UNCHANGED <<app, disk, mishaps, troubled>>
     \/ /\ ~regen.failed /\ regen' = Idle
        /\ disk' = Last(RegistrySteps(regen.cases, disk))
        /\ troubled' = ~OwnScripts(disk'.reg) /\ UNCHANGED <<app, mishaps>>
     \/ ~regen.failed /\ Cut(RegistrySteps(regen.cases, disk))
  /\ UNCHANGED budget /\ NotEditing

Next ==
  \/ Launch \/ Exit \/ Navigate \/ \E d \in {-1, 1} : Step(d)
  \/ \E f \in Filters \cup {None} : SetFilter(f)
  \/ \E target \in {"command", "description"} : Open(target)
  \/ \E t \in Titles : AddCase(t) \/ Rename(t) \/ Copy(t)
  \/ \E k \in Keys : Editing(k)
  \/ \E leave \in BOOLEAN : Save(leave)
  \/ Quit \/ Discard \/ Toggle \/ AskDelete \/ DontDelete \/ Delete \/ Start
  \/ Kill \/ Regenerate \/ RegenOne \/ RegenEnd

Spec == Init /\ [][Next]_vars

-----------------------------------------------------------------------------
(* Properties *)

(* The selection is a test if there is one, the editor's cursor is in its   *)
(* text, and the registry has a script's name in every line.                *)
TypeOK ==
  /\ app.screen \in {"off", "dashboard", "list", "script", "delete", "result"}
  /\ app.sel \in 1..Max({1, Len(app.cases)}) /\ Len(app.cases) <= MaxCases
  /\ app.filter \in Filters \cup {None} /\ app.fresh \in BOOLEAN
  /\ InText(ed)
  /\ \A i \in DOMAIN disk.reg : disk.reg[i].path \in Files
  /\ disk.script \in [Files -> [id : Nat, cmd : Text]]

(* Every change of a text can be taken back, as AtDocument says.            *)
Document == INSTANCE AtDocument WITH
  Depth <- UndoDepth, burst <- KeyChanges(ed),
  open <- app.screen = "script", doc <- ed.lines,
  past <- [i \in DOMAIN ed.undo |-> ed.undo[i].lines]
Undoes == Document!Spec

(* Unless a filter is set, the test that a write will go to, and that :q!   *)
(* takes away if it is new, is the one whose text is in the editor.         *)
EditsTheChosen == app.screen = "script" /\ app.filter = None => Selected(app).key = loaded

(* SCREEN_UI.md: a new test that was discarded is not left in the list.     *)
DiscardedIsGone == gone \notin {app.cases[i].key : i \in DOMAIN app.cases}

(* As long as no write failed or was cut short, and again after a repair    *)
(* with --regen-scripts, every test of the registry has a script of its     *)
(* own, generated from the commands that are in the registry.  A repair     *)
(* does not part tests that share a script.                                 *)
ScriptsFollow ==
  ~troubled =>
    /\ \A i \in DOMAIN disk.reg : disk.script[disk.reg[i].path].cmd = disk.reg[i].cmd
    /\ OwnScripts(disk.reg)

(* tests/FEATURE_TEST_PLAN.md: saving does not overwrite another test with  *)
(* the same title-derived name: no two tests in the registry name one       *)
(* script.                                                                  *)
NotShared == OwnScripts(disk.reg)
=============================================================================
