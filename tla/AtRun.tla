------------------------------- MODULE AtRun --------------------------------
(***************************************************************************)
(* How autotest-assist-tui runs the selected tests                         *)
(* (src/autotest-assist-tui/autotest_builder.c).  Without a reboot among   *)
(* them the builder starts one script after the other.  With one it writes *)
(* a runner that keeps its place in files under /var/tmp and has systemd   *)
(* start it again at each boot; a reboot test does the same for itself.    *)
(* Both are woken by the same boot and meet through those files.           *)
(***************************************************************************)
EXTENDS AtScript

CONSTANTS Projects,   \* the lists of selected tests, each test a script
          Patient,    \* whether a resumed test is done within the 600 s the runner waits
          LossAt,     \* steps of the runner at which power may be lost
          MaxLosses   \* bound: power losses

ASSUME RunAssumption ==
  /\ \A p \in Projects : p \in Seq(Scripts)
  /\ Patient \in BOOLEAN /\ MaxLosses \in Nat

VARIABLES
  tests, stops,                     \* the project and "Stop on NG"
  power, losses,                    \* "up", "going" down for a reboot, "off"
  (* on disk *)
  root,                             \* STATE_DIR: [index, fails, wait]
  unit,                             \* autotest-selected-resume.service is enabled
  tdir,                             \* tdir[t]: state directory of a reboot test
  tunit,                            \* tunit[t]: the test's own unit is enabled
  result,                           \* result[t]: its .result file
  (* processes *)
  runner,                           \* [todo, idx, fails, res]
  proc,                             \* proc[t]: the script of test t
  (* what has been told *)
  told, verdict

disk == <<root, unit, tdir, tunit, result>>
said == <<told, verdict>>
world == <<tests, stops, power, losses>>
vars == <<world, disk, runner, proc, said>>

N == Len(tests)
T == 1..N
Kind(t) == IF LooksLikeReboot(tests[t]) THEN "reboot" ELSE "shell"   \* auto_configure_test
Rebooting == \E t \in T : Kind(t) = "reboot"               \* first_selected_reboot_index

Torn == -1               \* a one-line file cut down and not yet written: reads as ""
PlusOne(n) == IF n = Torn THEN 1 ELSE n + 1                \* $((n + 1))

NoDir == [there |-> FALSE, kept |-> <<>>]
Fresh == [index |-> 0, fails |-> 0, wait |-> 0]
Idle  == [pc |-> "none", mode |-> "run", good |-> TRUE]
Off   == [todo |-> <<>>, idx |-> 0, fails |-> 0, res |-> "none"]

At(step) == runner.todo # <<>> /\ Head(runner.todo) = step
Then(steps) == runner' = [runner EXCEPT !.todo = steps]
Done == Then(Tail(runner.todo))

Init ==
  /\ tests \in Projects /\ stops \in BOOLEAN
  /\ power = "up" /\ losses = 0
  /\ root = Fresh /\ unit = FALSE
  /\ tdir = [t \in T |-> NoDir] /\ tunit = [t \in T |-> FALSE]
  /\ result = [t \in T |-> "none"]
  /\ runner = [Off EXCEPT !.todo = IF Rebooting THEN <<"prepare", "enable", "begin">>
                                   ELSE <<"direct">>]
  /\ proc = [t \in T |-> Idle]
  /\ told = [t \in T |-> "none"] /\ verdict = "none"

-----------------------------------------------------------------------------
(* A test's script (write_case)                                             *)

Goes(t, pc) == proc' = [proc EXCEPT ![t].pc = pc]
InTest(t, pc) == power # "off" /\ proc[t].pc = pc

(* The exit status of a phase and the checks it captured: all of them if it *)
(* ran to its end, else as many as it came to.                              *)
Runs(phase, Q(_, _)) ==
  \E good \in BOOLEAN : \E k \in 0..Kept(phase) : \E checks \in [1..k -> BOOLEAN] :
    (good => k = Kept(phase)) /\ Q(good, checks)

AllHold(checks) == \A i \in DOMAIN checks : checks[i]

(* The body of a test without a reboot, judged by its exit status and by    *)
(* the checks it captured in a directory of its own.                        *)
Body(t) ==
  /\ InTest(t, "body")
  /\ Runs(tests[t], LAMBDA good, checks :
       proc' = [proc EXCEPT ![t].pc = "exit", ![t].good = good /\ AllHold(checks)])
  /\ UNCHANGED <<world, disk, runner, said>>

MakeDir(t) ==
  /\ InTest(t, "mkdir")
  /\ tdir' = [tdir EXCEPT ![t].there = TRUE]
  /\ Goes(t, IF proc[t].mode = "resume" THEN "post" ELSE "pre")
  /\ UNCHANGED <<world, root, unit, tunit, result, runner, said>>

RunPre(t) ==
  /\ InTest(t, "pre")
  /\ Runs(Phase(tests[t], FALSE), LAMBDA good, checks :
       /\ tdir' = [tdir EXCEPT ![t].kept = @ \o checks]
       /\ proc' = [proc EXCEPT ![t].pc = IF good THEN "unit" ELSE "finish", ![t].good = good])
  /\ UNCHANGED <<world, root, unit, tunit, result, runner, said>>

InstallUnit(t) ==
  /\ InTest(t, "unit")
  /\ tunit' = [tunit EXCEPT ![t] = TRUE]
  /\ Goes(t, "reboot")
  /\ UNCHANGED <<world, root, unit, tdir, result, runner, said>>

(* reboot.sh: the reboot is on its way when the command returns, or not     *)
(* wanted (125), or refused.                                                *)
IssueReboot(t) ==
  /\ InTest(t, "reboot")
  /\ \/ power' = "going" /\ Goes(t, "pending")
     \/ RebootCommand(tests[t]) = "rebootif" /\ Goes(t, "post") /\ UNCHANGED power
     \/ proc' = [proc EXCEPT ![t].pc = "finish", ![t].good = FALSE] /\ UNCHANGED power
  /\ UNCHANGED <<tests, stops, losses, disk, runner, said>>

Pending(t) ==
  /\ InTest(t, "pending")
  /\ result' = [result EXCEPT ![t] = "pending"]
  /\ proc' = [proc EXCEPT ![t].pc = "exit", ![t].good = TRUE]
  /\ UNCHANGED <<world, root, unit, tdir, tunit, runner, said>>

RunPost(t) ==
  /\ InTest(t, "post")
  /\ Runs(Phase(tests[t], TRUE), LAMBDA good, checks :
       /\ tdir' = [tdir EXCEPT ![t].kept = @ \o checks]
       /\ proc' = [proc EXCEPT ![t].pc = "finish", ![t].good = good])
  /\ UNCHANGED <<world, root, unit, tunit, result, runner, said>>

(* mutant: the state directory, which the runner waits on, goes before the  *)
(* result is written                                                        *)
FinishEarly(t) ==
  /\ InTest(t, "finish")
  /\ tunit' = [tunit EXCEPT ![t] = FALSE]
  /\ tdir' = [tdir EXCEPT ![t] = NoDir]
  /\ proc' = [proc EXCEPT ![t].pc = "result", ![t].good = @ /\ AllHold(tdir[t].kept)]
  /\ UNCHANGED <<world, root, unit, result, runner, said>>

(* finish_reboot_case: the unit goes first, the state directory last.       *)
Finish(t) ==
  /\ InTest(t, "finish")
  /\ tunit' = [tunit EXCEPT ![t] = FALSE]
  /\ proc' = [proc EXCEPT ![t].pc = "result", ![t].good = @ /\ AllHold(tdir[t].kept)]
  /\ UNCHANGED <<world, root, unit, tdir, result, runner, said>>

WriteResult(t) ==
  /\ InTest(t, "result")
  /\ result' = [result EXCEPT ![t] = IF proc[t].good THEN "ok" ELSE "ng"]
  /\ Goes(t, "rmdir")
  /\ UNCHANGED <<world, root, unit, tdir, tunit, runner, said>>

RemoveDir(t) ==
  /\ InTest(t, "rmdir")
  /\ tdir' = [tdir EXCEPT ![t] = NoDir]
  /\ Goes(t, IF proc[t].mode = "resume" THEN "none" ELSE "exit")
  /\ UNCHANGED <<world, root, unit, tunit, result, runner, said>>

TestStep(t) ==
  \/ Body(t) \/ MakeDir(t) \/ RunPre(t) \/ InstallUnit(t) \/ IssueReboot(t)
  \/ Pending(t) \/ RunPost(t) \/ Finish(t) \/ WriteResult(t) \/ RemoveDir(t)

-----------------------------------------------------------------------------
(* The runner (write_resume_automation)                                     *)

Working == power # "off"

Prepare ==
  /\ Working /\ At("prepare")
  /\ root' = Fresh
  /\ Done
  /\ UNCHANGED <<world, unit, tdir, tunit, result, proc, said>>

Enable ==
  /\ Working /\ At("enable")
  /\ unit' = TRUE
  /\ Done
  /\ UNCHANGED <<world, root, tdir, tunit, result, proc, said>>

(* The part run first, and again at each boot. *)
Begin ==
  /\ Working /\ At("begin")
  /\ Then((IF root.wait # 0 THEN <<"waiting">> ELSE <<>>) \o <<"stop", "load", "next">>)
  /\ UNCHANGED <<world, disk, proc, said>>

(* check_waiting_reboot: the test is done when its state directory is gone. *)
(* Patience ends after 600 s.                                               *)
Waited ==
  /\ Working /\ At("waiting")
  /\ LET t == root.wait
         over == ~tdir[t].there
         bad == ~over \/ result[t] \in {"none", "ng"}
     IN  /\ ~over => ~(Patient /\ proc[t].pc # "none")
         /\ result' = IF over THEN [result EXCEPT ![t] = "none"] ELSE result
         /\ runner' = [runner EXCEPT !.todo = <<"note", "unwait">> \o Tail(@),
                         !.idx = t - 1,
                         !.fails = IF bad THEN PlusOne(root.fails) ELSE root.fails,
                         !.res = IF bad THEN "ng" ELSE "ok"]
  /\ UNCHANGED <<world, root, unit, tdir, tunit, proc, said>>

(* write_failures.  A failure is on record from here on. *)
Tell(t) == IF told[t] = "none" THEN told' = [told EXCEPT ![t] = runner.res]
           ELSE UNCHANGED told

(* mutant: the count is added to the one on record *)
NoteAdds ==
  /\ Working /\ (At("note") \/ At("park"))
  /\ root' = [root EXCEPT !.fails = @ + runner.fails]
  /\ IF At("note") /\ runner.res = "ng" THEN Tell(runner.idx + 1) ELSE UNCHANGED told
  /\ Done
  /\ UNCHANGED <<world, unit, tdir, tunit, result, proc, verdict>>

Note ==
  /\ Working /\ (At("note") \/ At("park"))
  /\ root' = [root EXCEPT !.fails = runner.fails]
  /\ IF At("note") /\ runner.res = "ng" THEN Tell(runner.idx + 1) ELSE UNCHANGED told
  /\ Done
  /\ UNCHANGED <<world, unit, tdir, tunit, result, proc, verdict>>

Unwait ==
  /\ Working /\ At("unwait")
  /\ root' = [root EXCEPT !.wait = 0]
  /\ Tell(runner.idx + 1)
  /\ Done
  /\ UNCHANGED <<world, unit, tdir, tunit, result, proc, verdict>>

(* mutant: the run stops without its clean-up *)
StopCheckExits ==
  /\ Working /\ At("stop")
  /\ IF stops /\ root.fails > 0 THEN Then(<<>>) /\ verdict' = "ng" ELSE Done /\ UNCHANGED verdict
  /\ UNCHANGED <<world, disk, proc, told>>

(* stop_after_failure_if_needed *)
StopCheck ==
  /\ Working /\ At("stop")
  /\ IF stops /\ root.fails > 0
     THEN Then(<<"disable", "rmroot">>) /\ verdict' = "ng"
     ELSE Done /\ UNCHANGED verdict
  /\ UNCHANGED <<world, disk, proc, told>>

(* mutant: only the place is read back *)
LoadIndexOnly ==
  /\ Working /\ At("load")
  /\ runner' = [runner EXCEPT !.todo = Tail(@), !.idx = root.index]
  /\ UNCHANGED <<world, disk, proc, said>>

Load ==
  /\ Working /\ At("load")
  /\ runner' = [runner EXCEPT !.todo = Tail(@), !.idx = root.index, !.fails = root.fails]
  /\ UNCHANGED <<world, disk, proc, said>>

Starts(t, pc) == proc' = [proc EXCEPT ![t] = [pc |-> pc, mode |-> "run", good |-> TRUE]]

(* The head of the loop.  An index that reads as "" ends it. *)
NextTest ==
  /\ Working /\ At("next") /\ runner.idx # Torn /\ runner.idx < N
  /\ LET t == runner.idx + 1
     IN  IF Kind(t) = "reboot"
         THEN Then(<<"mark", "await", "child">>) /\ UNCHANGED proc
         ELSE Then(<<"child">>) /\ Starts(t, "body")
  /\ UNCHANGED <<world, disk, said>>

(* mutant: the place is left to be kept after the test *)
MarkLater ==
  /\ Working /\ At("mark") /\ Done
  /\ UNCHANGED <<world, disk, proc, said>>

(* For a reboot test the place is kept before the test runs. *)
Mark ==
  /\ Working /\ At("mark")
  /\ root' = [root EXCEPT !.index = runner.idx + 1]
  /\ Done
  /\ UNCHANGED <<world, unit, tdir, tunit, result, proc, said>>

(* The two WAIT files; the second only says where to look for the result,   *)
(* and a test that has not begun has none.                                  *)
Await ==
  /\ Working /\ At("await")
  /\ root' = [root EXCEPT !.wait = runner.idx + 1]
  /\ Starts(runner.idx + 1, "mkdir")
  /\ Done
  /\ UNCHANGED <<world, unit, tdir, tunit, result, said>>

(* The test's script has ended. *)
Judge ==
  /\ Working /\ At("child")
  /\ LET t == runner.idx + 1
         bad == ~proc[t].good
         left == Kind(t) = "reboot" /\ ~bad /\ result[t] = "pending"
         after == (CASE Kind(t) = "reboot" /\ bad -> <<"note", "unwait">>
                     [] Kind(t) = "reboot" /\ ~bad -> <<"unwait", "note">>
                     [] OTHER -> IF bad THEN <<"note">> ELSE <<>>)
                    \o <<"stop", "advance", "next">>
     IN  /\ proc[t].pc = "exit"
         /\ proc' = [proc EXCEPT ![t] = Idle]
         /\ result' = IF left THEN result ELSE [result EXCEPT ![t] = "none"]
         /\ runner' = [runner EXCEPT !.todo = IF left THEN <<"park">> ELSE after,
                         !.fails = IF bad THEN PlusOne(@) ELSE @,
                         !.res = IF bad THEN "ng" ELSE "ok"]
  /\ UNCHANGED <<world, root, unit, tdir, tunit, said>>

Advance ==
  /\ Working /\ At("advance")
  /\ root' = [root EXCEPT !.index = runner.idx + 1]
  /\ runner' = [runner EXCEPT !.todo = Tail(@), !.idx = @ + 1]
  /\ Tell(runner.idx + 1)
  /\ UNCHANGED <<world, unit, tdir, tunit, result, proc, verdict>>

Conclude ==
  /\ Working /\ At("next") /\ (runner.idx = Torn \/ runner.idx >= N)
  /\ verdict' = IF runner.fails = 0 THEN "ok" ELSE "ng"
  /\ Then(<<"disable", "rmroot">>)
  /\ UNCHANGED <<world, disk, proc, told>>

(* cleanup_selected_runner *)
Disable ==
  /\ Working /\ At("disable")
  /\ unit' = FALSE
  /\ Done
  /\ UNCHANGED <<world, root, tdir, tunit, result, proc, said>>

RemoveRoot ==
  /\ Working /\ At("rmroot")
  /\ root' = Fresh
  /\ runner' = Off
  /\ UNCHANGED <<world, unit, tdir, tunit, result, proc, said>>

RunnerStep ==
  \/ Prepare \/ Enable \/ Begin \/ Waited \/ Note \/ Unwait \/ StopCheck \/ Load
  \/ NextTest \/ Mark \/ Await \/ Judge \/ Advance \/ Conclude \/ Disable \/ RemoveRoot

-----------------------------------------------------------------------------
(* Without a reboot test (start_selected_test_scripts): everything is kept  *)
(* in memory.                                                               *)

DirectStart ==
  /\ Working /\ At("direct") /\ runner.idx < N
  /\ result' = [result EXCEPT ![runner.idx + 1] = "none"]
  /\ Starts(runner.idx + 1, "body")
  /\ Then(<<"ended">>)
  /\ UNCHANGED <<world, root, unit, tdir, tunit, said>>

DirectJudge ==
  /\ Working /\ At("ended")
  /\ LET t == runner.idx + 1
         bad == ~proc[t].good
     IN  /\ proc[t].pc = "exit"
         /\ proc' = [proc EXCEPT ![t] = Idle]
         /\ told' = [told EXCEPT ![t] = IF bad THEN "ng" ELSE "ok"]
         /\ runner' = [runner EXCEPT !.todo = IF bad /\ stops THEN <<"summary">> ELSE <<"direct">>,
                         !.idx = t, !.fails = IF bad THEN @ + 1 ELSE @]
  /\ UNCHANGED <<world, disk, verdict>>

DirectSummary ==
  /\ Working /\ (At("summary") \/ (At("direct") /\ runner.idx = N))
  /\ verdict' = IF runner.fails = 0 THEN "ok" ELSE "ng"
  /\ runner' = Off
  /\ UNCHANGED <<world, disk, proc, told>>

DirectStep == DirectStart \/ DirectJudge \/ DirectSummary

-----------------------------------------------------------------------------
(* The machine *)

(* Every process ends, and a file being written may be left empty.          *)
Halt ==
  /\ \E torn \in BOOLEAN :
       root' = CASE torn /\ (At("note") \/ At("park")) -> [root EXCEPT !.fails = Torn]
                 [] torn /\ power = "up" /\ (At("mark") \/ At("advance")) ->
                      [root EXCEPT !.index = Torn]
                 [] OTHER -> root
  /\ power' = "off"
  /\ runner' = Off /\ proc' = [t \in T |-> Idle]
  /\ UNCHANGED <<tests, stops, unit, tdir, tunit, result, said>>

Shutdown == power = "going" /\ Halt /\ UNCHANGED losses

PowerLoss ==
  /\ Working /\ losses < MaxLosses
  /\ runner.todo # <<>> => Head(runner.todo) \in LossAt
  /\ Halt /\ losses' = losses + 1

(* systemd starts what is enabled: the runner, and the tests that wait for  *)
(* their resumption, in any order.                                          *)
Boot ==
  /\ power = "off"
  /\ power' = "up"
  /\ runner' = [Off EXCEPT !.todo = IF unit THEN <<"begin">> ELSE <<>>]
  /\ proc' = [t \in T |-> IF tunit[t] THEN [pc |-> "mkdir", mode |-> "resume", good |-> TRUE]
                          ELSE Idle]
  /\ UNCHANGED <<tests, stops, losses, disk, said>>

Next == (\E t \in T : TestStep(t)) \/ RunnerStep \/ DirectStep
          \/ Shutdown \/ PowerLoss \/ Boot

(* Processes run, and a machine that goes down or is off comes up again.    *)
Fairness == /\ \A t \in UNION {DOMAIN p : p \in Projects} : WF_vars(t \in T /\ TestStep(t))
            /\ WF_vars(RunnerStep) /\ WF_vars(DirectStep)
            /\ WF_vars(Shutdown) /\ WF_vars(Boot)

Spec == Init /\ [][Next]_vars /\ Fairness

-----------------------------------------------------------------------------
(* Properties *)

Steps == {"prepare", "enable", "begin", "waiting", "note", "unwait", "stop", "load", "next",
          "mark", "await", "child", "park", "advance", "disable", "rmroot",
          "direct", "ended", "summary"}

(* The types, with the limits of the counters. *)
TypeOK ==
  /\ power \in {"up", "going", "off"} /\ losses \in 0..MaxLosses
  /\ root \in [index : (0..N) \cup {Torn}, fails : (0..(N + MaxLosses)) \cup {Torn}, wait : 0..N]
  /\ unit \in BOOLEAN /\ tunit \in [T -> BOOLEAN]
  /\ \A t \in T : tdir[t].there \in BOOLEAN /\ tdir[t].kept \in Seq(BOOLEAN)
  /\ \A t \in T : result[t] \in {"none", "pending", "ok", "ng"}
  /\ runner.todo \in Seq(Steps) /\ runner.idx \in Nat \cup {Torn}
  /\ \A t \in T : told[t] \in {"none", "ok", "ng"}
  /\ verdict \in {"none", "ok", "ng"}

(* Whatever script a run is prepared for: one that passes the syntax check  *)
(* has no complaint in its code, and as many checks are captured in it as   *)
(* will be judged (autotest_builder.c 1482-2269).                           *)
ScannersAgree == At("prepare") => \A s \in Scripts : Agrees(s)

(* And the parts before and after its reboots are valid as the whole is,    *)
(* and have its checks between them.                                        *)
SplitKeepsValid == At("prepare") => \A s \in Scripts : Splits(s)

(* README "Each selected test is still executed sequentially": no two test  *)
(* scripts run at the same time.                                            *)
Sequential ==
  \A t, u \in T : proc[t].pc \notin {"none", "exit"} /\ proc[u].pc \notin {"none", "exit"} => t = u

(* Every reboot and power loss notwithstanding, the detailed run implements *)
(* AtSequence: each test is recorded once and in its turn, and [OK] means   *)
(* that all came out well.                                                  *)
Sequence == INSTANCE AtSequence WITH outcome <- told
Implements == Sequence!Spec

(* Once the runner is enabled it reaches a verdict. *)
Concludes == unit ~> verdict # "none"

(* After the verdict nothing is left that would start at a later boot, save *)
(* for the clean-up itself.                                                 *)
NothingLeft == verdict # "none" /\ runner.todo = <<>> /\ power # "off" =>
                 ~unit /\ \A t \in T : tunit[t] => proc[t].pc # "none"
=============================================================================
