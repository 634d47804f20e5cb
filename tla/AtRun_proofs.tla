---------------------------- MODULE AtRun_proofs ----------------------------
(***************************************************************************)
(* Proofs about AtRun: the tests of a run never overlap, nothing is left   *)
(* behind that would start at a later boot, and the run with its files,    *)
(* reboots and losses of power implements AtSequence.                      *)
(***************************************************************************)
EXTENDS AtRun, SequenceTheorems, TLAPS

(* What the machine is trusted for (sections 3 and 4 of the README say     *)
(* why): a resumed test ends within the 600 s the runner waits, and power  *)
(* is not lost in the steps that move the place in the list.               *)
Trusted == Patient /\ LossAt \cap {"mark", "await", "advance"} = {}

-----------------------------------------------------------------------------
(* The types                                                                *)

(* What the runner may have left to do. *)
Plans ==
  {<<>>, <<"prepare", "enable", "begin">>, <<"enable", "begin">>, <<"begin">>,
   <<"waiting", "stop", "load", "next">>, <<"note", "unwait", "stop", "load", "next">>,
   <<"unwait", "stop", "load", "next">>, <<"stop", "load", "next">>, <<"load", "next">>,
   <<"next">>, <<"mark", "await", "child">>, <<"await", "child">>, <<"child">>, <<"park">>,
   <<"note", "unwait", "stop", "advance", "next">>, <<"unwait", "stop", "advance", "next">>,
   <<"unwait", "note", "stop", "advance", "next">>, <<"note", "stop", "advance", "next">>,
   <<"stop", "advance", "next">>, <<"advance", "next">>, <<"disable", "rmroot">>, <<"rmroot">>,
   <<"direct">>, <<"ended">>, <<"summary">>}

Pcs == {"none", "body", "mkdir", "pre", "unit", "reboot", "pending", "post", "finish", "result",
        "rmdir", "exit"}

TypeWorld == /\ tests \in Projects /\ stops \in BOOLEAN
             /\ power \in {"up", "going", "off"} /\ losses \in 0..MaxLosses
             /\ unit \in BOOLEAN /\ verdict \in {"none", "ok", "ng"}
TypeRoot == root \in [index : 0..N, fails : Nat \cup {Torn}, wait : 0..N]
TypeTests == /\ tdir \in [T -> [there : BOOLEAN, kept : Seq(BOOLEAN)]]
             /\ tunit \in [T -> BOOLEAN]
             /\ result \in [T -> {"none", "pending", "ok", "ng"}]
             /\ told \in [T -> {"none", "ok", "ng"}]
TypeRunner == runner \in [todo : Plans, idx : 0..N, fails : Nat \cup {Torn},
                          res : {"none", "ok", "ng"}]
TypeProc == proc \in [T -> [pc : Pcs, mode : {"run", "resume"}, good : BOOLEAN]]

Types == TypeWorld /\ TypeRoot /\ TypeTests /\ TypeRunner /\ TypeProc

-----------------------------------------------------------------------------
(* Where the run can be: one situation for each stretch of the runner's     *)
(* plan, with what is on disk and which processes run meanwhile.            *)

Quiet == \A t \in T : proc[t].pc = "none"
NoUnit == \A t \in T : ~tunit[t]
OnlyTest(w) == \A t \in T : t # w => proc[t].pc = "none"
OnlyUnit(w) == \A t \in T : t # w => ~tunit[t]
Calm == unit /\ power = "up" /\ Quiet /\ NoUnit

(* The test the runner waits for across a reboot. *)
Awaited == /\ root.wait # 0 /\ root.index = root.wait /\ OnlyUnit(root.wait)
           /\ Kind(root.wait) = "reboot"

(* Its process after a boot, *)
Resumed(w) ==
  /\ proc[w].pc \in {"none", "mkdir", "post", "finish", "result", "rmdir"}
  /\ proc[w].pc # "none" => proc[w].mode = "resume" /\ tdir[w].there
  /\ tunit[w] <=> proc[w].pc \in {"mkdir", "post", "finish"}

(* and before, as a child of the runner. *)
Running(w) ==
  /\ proc[w].pc \in Pcs \ {"none", "body"} /\ proc[w].mode = "run"
  /\ proc[w].pc \in {"mkdir", "pre", "unit", "result", "rmdir"} => ~tunit[w]
  /\ proc[w].pc \in {"reboot", "pending", "post"} => tunit[w]
  /\ proc[w].pc \notin {"mkdir", "exit"} => tdir[w].there
  /\ proc[w].pc = "rmdir" => result[w] # "pending"
  /\ proc[w].pc = "exit" => IF tunit[w] THEN proc[w].good /\ result[w] = "pending" /\ tdir[w].there
                            ELSE ~tdir[w].there /\ result[w] # "pending"
  /\ power = IF proc[w].pc = "pending" \/ (proc[w].pc = "exit" /\ tunit[w]) THEN "going" ELSE "up"

DirectAt  == /\ runner.todo \in {<<"direct">>, <<"summary">>} /\ ~unit /\ power = "up"
             /\ Quiet /\ NoUnit
DirectRun == /\ runner.todo = <<"ended">> /\ ~unit /\ power = "up" /\ runner.idx < N
             /\ OnlyTest(runner.idx + 1) /\ NoUnit /\ proc[runner.idx + 1].pc \in {"body", "exit"}
Over      == /\ runner.todo \in {<<>>, <<"rmroot">>} /\ ~unit /\ power # "going"
             /\ Quiet /\ NoUnit
Setup     == /\ runner.todo \in {<<"prepare", "enable", "begin">>, <<"enable", "begin">>}
             /\ ~unit /\ power = "up" /\ Quiet /\ NoUnit /\ root = Fresh
Down      == /\ runner.todo = <<>> /\ unit /\ power = "off" /\ Quiet
             /\ IF root.wait = 0 THEN NoUnit
                ELSE Awaited /\ (tunit[root.wait] => tdir[root.wait].there)
Booted    == /\ unit /\ power = "up"
             /\ IF root.wait = 0 THEN runner.todo = <<"begin">> /\ Quiet /\ NoUnit
                ELSE /\ runner.todo \in {<<"begin">>, <<"waiting", "stop", "load", "next">>}
                     /\ Awaited /\ OnlyTest(root.wait) /\ Resumed(root.wait)
Judged    == /\ runner.todo \in {<<"note", "unwait", "stop", "load", "next">>,
                                 <<"unwait", "stop", "load", "next">>,
                                 <<"note", "unwait", "stop", "advance", "next">>,
                                 <<"unwait", "stop", "advance", "next">>,
                                 <<"unwait", "note", "stop", "advance", "next">>}
             /\ Calm /\ Awaited /\ root.wait = runner.idx + 1
Placing   == /\ runner.todo \in {<<"stop", "load", "next">>, <<"load", "next">>,
                                 <<"disable", "rmroot">>}
             /\ Calm /\ root.wait = 0
Looping   == runner.todo = <<"next">> /\ Calm /\ root.wait = 0 /\ root.index = runner.idx
Marking   == /\ runner.todo = <<"mark", "await", "child">> /\ Calm /\ root.wait = 0
             /\ runner.idx < N /\ Kind(runner.idx + 1) = "reboot" /\ root.index = runner.idx
Awaiting  == /\ runner.todo = <<"await", "child">> /\ Calm /\ root.wait = 0
             /\ runner.idx < N /\ Kind(runner.idx + 1) = "reboot" /\ root.index = runner.idx + 1
ShellRun  == /\ runner.todo = <<"child">> /\ unit /\ power = "up" /\ NoUnit /\ root.wait = 0
             /\ runner.idx < N /\ root.index = runner.idx /\ Kind(runner.idx + 1) = "shell"
             /\ OnlyTest(runner.idx + 1) /\ proc[runner.idx + 1].pc \in {"body", "exit"}
RebootRun == /\ runner.todo = <<"child">> /\ unit /\ root.wait = runner.idx + 1
             /\ Awaited /\ OnlyTest(root.wait) /\ Running(root.wait)
Parked    == /\ runner.todo \in {<<"park">>, <<>>} /\ unit /\ power = "going"
             /\ Awaited /\ Quiet /\ tunit[root.wait] /\ tdir[root.wait].there
Closing   == /\ runner.todo \in {<<"note", "stop", "advance", "next">>,
                                 <<"stop", "advance", "next">>, <<"advance", "next">>}
             /\ Calm /\ root.wait = 0 /\ runner.idx < N
             /\ root.index = IF Kind(runner.idx + 1) = "reboot" THEN runner.idx + 1 ELSE runner.idx

Control == \/ DirectAt \/ DirectRun \/ Over \/ Setup \/ Down \/ Booted \/ Judged \/ Placing
           \/ Looping \/ Marking \/ Awaiting \/ ShellRun \/ RebootRun \/ Parked \/ Closing

Inv == Types /\ Control

-----------------------------------------------------------------------------
(* Plans                                                                    *)

LEMMA Tail1 == ASSUME NEW a PROVE Tail(<<a>>) = <<>>
  OBVIOUS

LEMMA Tail2 == ASSUME NEW a, NEW b PROVE Tail(<<a, b>>) = <<b>>
  <1>1. Len(Tail(<<a, b>>)) = 1 /\ Tail(<<a, b>>)[1] = b
    OBVIOUS
  <1>2. Tail(<<a, b>>) \in Seq({a, b})
    OBVIOUS
  <1>3. QED BY <1>1, <1>2

LEMMA Tail3 == ASSUME NEW a, NEW b, NEW c PROVE Tail(<<a, b, c>>) = <<b, c>>
  <1>1. Len(Tail(<<a, b, c>>)) = 2 /\ Tail(<<a, b, c>>)[1] = b /\ Tail(<<a, b, c>>)[2] = c
    OBVIOUS
  <1>2. Tail(<<a, b, c>>) \in Seq({a, b, c})
    OBVIOUS
  <1>3. QED BY <1>1, <1>2

LEMMA Tail4 == ASSUME NEW a, NEW b, NEW c, NEW d PROVE Tail(<<a, b, c, d>>) = <<b, c, d>>
  <1>1. /\ Len(Tail(<<a, b, c, d>>)) = 3 /\ Tail(<<a, b, c, d>>)[1] = b
        /\ Tail(<<a, b, c, d>>)[2] = c /\ Tail(<<a, b, c, d>>)[3] = d
    OBVIOUS
  <1>2. Tail(<<a, b, c, d>>) \in Seq({a, b, c, d})
    OBVIOUS
  <1>3. QED BY <1>1, <1>2

LEMMA Tail5 == ASSUME NEW a, NEW b, NEW c, NEW d, NEW e
               PROVE  Tail(<<a, b, c, d, e>>) = <<b, c, d, e>>
  <1>1. /\ Len(Tail(<<a, b, c, d, e>>)) = 4 /\ Tail(<<a, b, c, d, e>>)[1] = b
        /\ Tail(<<a, b, c, d, e>>)[2] = c /\ Tail(<<a, b, c, d, e>>)[3] = d
        /\ Tail(<<a, b, c, d, e>>)[4] = e
    OBVIOUS
  <1>2. Tail(<<a, b, c, d, e>>) \in Seq({a, b, c, d, e})
    OBVIOUS
  <1>3. QED BY <1>1, <1>2

LEMMA Join0 == ASSUME NEW a, NEW b, NEW c PROVE <<>> \o <<a, b, c>> = <<a, b, c>>
  <1>1. <<a, b, c>> \in Seq({a, b, c})
    OBVIOUS
  <1>2. QED BY <1>1, ConcatEmptySeq

LEMMA Join1 ==
  ASSUME NEW a, NEW b, NEW c, NEW d
  PROVE  <<a>> \o <<b, c, d>> = <<a, b, c, d>>
  <1> DEFINE s == <<a>> \o <<b, c, d>>
             t == <<a, b, c, d>>
             S == {a, b, c, d}
  <1>1. s \in Seq(S)
    OBVIOUS
  <1>2. t \in Seq(S)
    OBVIOUS
  <1>3. Len(s) = 4 /\ s[1] = a /\ s[2] = b /\ s[3] = c /\ s[4] = d
    OBVIOUS
  <1>4. Len(t) = 4 /\ t[1] = a /\ t[2] = b /\ t[3] = c /\ t[4] = d
    OBVIOUS
  <1>5. Len(s) = Len(t) /\ \A i \in 1..Len(s) : s[i] = t[i]
    BY <1>3, <1>4
  <1>6. s = t
    <2> HIDE DEF s, t, S
    <2> QED BY <1>1, <1>2, <1>5, SeqEqual
  <1>7. QED BY <1>6

LEMMA Join2 ==
  ASSUME NEW a, NEW b, NEW c, NEW d, NEW e
  PROVE  <<a, b>> \o <<c, d, e>> = <<a, b, c, d, e>>
  <1> DEFINE s == <<a, b>> \o <<c, d, e>>
             t == <<a, b, c, d, e>>
             S == {a, b, c, d, e}
  <1>1. s \in Seq(S)
    OBVIOUS
  <1>2. t \in Seq(S)
    OBVIOUS
  <1>3. Len(s) = 5 /\ s[1] = a /\ s[2] = b /\ s[3] = c /\ s[4] = d /\ s[5] = e
    OBVIOUS
  <1>4. Len(t) = 5 /\ t[1] = a /\ t[2] = b /\ t[3] = c /\ t[4] = d /\ t[5] = e
    OBVIOUS
  <1>5. Len(s) = Len(t) /\ \A i \in 1..Len(s) : s[i] = t[i]
    BY <1>3, <1>4
  <1>6. s = t
    <2> HIDE DEF s, t, S
    <2> QED BY <1>1, <1>2, <1>5, SeqEqual
  <1>7. QED BY <1>6

(* The first step of a plan tells the plan, but for the three ways a test   *)
(* is judged.                                                               *)
LEMMA Steps1 ==
  ASSUME runner.todo \in Plans
  PROVE  /\ At("prepare") => runner.todo = <<"prepare", "enable", "begin">>
         /\ At("enable") => runner.todo = <<"enable", "begin">>
         /\ At("begin") => runner.todo = <<"begin">>
         /\ At("waiting") => runner.todo = <<"waiting", "stop", "load", "next">>
         /\ At("load") => runner.todo = <<"load", "next">>
         /\ At("next") => runner.todo = <<"next">>
         /\ At("mark") => runner.todo = <<"mark", "await", "child">>
         /\ At("await") => runner.todo = <<"await", "child">>
         /\ At("child") => runner.todo = <<"child">>
         /\ At("park") => runner.todo = <<"park">>
         /\ At("advance") => runner.todo = <<"advance", "next">>
         /\ At("disable") => runner.todo = <<"disable", "rmroot">>
         /\ At("rmroot") => runner.todo = <<"rmroot">>
         /\ At("direct") => runner.todo = <<"direct">>
         /\ At("ended") => runner.todo = <<"ended">>
         /\ At("summary") => runner.todo = <<"summary">>
  BY DEF Plans, At

LEMMA Steps2 ==
  ASSUME runner.todo \in Plans
  PROVE  /\ At("note") => runner.todo \in {<<"note", "unwait", "stop", "load", "next">>,
                                           <<"note", "unwait", "stop", "advance", "next">>,
                                           <<"note", "stop", "advance", "next">>}
         /\ At("unwait") => runner.todo \in {<<"unwait", "stop", "load", "next">>,
                                             <<"unwait", "stop", "advance", "next">>,
                                             <<"unwait", "note", "stop", "advance", "next">>}
         /\ At("stop") => runner.todo \in {<<"stop", "load", "next">>,
                                           <<"stop", "advance", "next">>}
  BY DEF Plans, At

(* A step of the runner and the situation it is taken in.                   *)
LEMMA Places1 ==
  ASSUME Types, Control
  PROVE  /\ At("prepare") \/ At("enable") => Setup
         /\ At("begin") \/ At("waiting") => Booted
         /\ At("load") \/ At("disable") => Placing
         /\ At("next") => Looping
         /\ At("mark") => Marking
         /\ At("await") => Awaiting
         /\ At("child") => ShellRun \/ RebootRun
         /\ At("park") => Parked
         /\ At("advance") => Closing
         /\ At("rmroot") => Over
         /\ At("direct") \/ At("summary") => DirectAt
         /\ At("ended") => DirectRun
  BY DEF At, Control, DirectAt, DirectRun, Over, Setup, Down, Booted, Judged, Placing, Looping,
         Marking, Awaiting, ShellRun, RebootRun, Parked, Closing

LEMMA Places2 ==
  ASSUME Types, Control
  PROVE  /\ At("note") => Judged \/ Closing
         /\ At("unwait") => Judged
         /\ At("stop") => Placing \/ Closing
  BY DEF At, Control, DirectAt, DirectRun, Over, Setup, Down, Booted, Judged, Placing, Looping,
         Marking, Awaiting, ShellRun, RebootRun, Parked, Closing

(* A step of a test belongs to the one test that runs.                      *)
LEMMA Active ==
  ASSUME Types, Control, NEW t \in T, proc[t].pc # "none"
  PROVE  \/ DirectRun /\ t = runner.idx + 1
         \/ Booted /\ root.wait = t
         \/ ShellRun /\ t = runner.idx + 1
         \/ RebootRun /\ root.wait = t
  BY DEF Types, Control, DirectAt, DirectRun, Over, Setup, Down, Booted, Judged, Placing, Looping,
         Marking, Awaiting, ShellRun, RebootRun, Parked, Closing, Calm, Quiet, OnlyTest

LEMMA SameList ==
  ASSUME tests' = tests
  PROVE  T' = T /\ N' = N
  BY DEF T, N

-----------------------------------------------------------------------------
(* The types are kept                                                       *)

LEMMA BasicTypes ==
  ASSUME Types
  PROVE  /\ N \in Nat /\ T = 1..N
         /\ root.index \in 0..N /\ root.wait \in 0..N /\ root.fails \in Nat \cup {Torn}
         /\ runner.idx \in 0..N /\ runner.fails \in Nat \cup {Torn}
         /\ runner.res \in {"none", "ok", "ng"} /\ runner.todo \in Plans
  <1>1. tests \in Seq(Scripts)
    BY RunAssumption DEF Types, TypeWorld
  <1>2. N \in Nat
    BY <1>1 DEF N
  <1>3. QED BY <1>2 DEF Types, TypeRoot, TypeRunner, T

LEMMA PlusOneType == ASSUME NEW n \in Nat \cup {Torn} PROVE PlusOne(n) \in Nat /\ PlusOne(n) > 0
  BY DEF PlusOne, Torn

(* What each step of a test does.                                           *)
Moves(t, to) ==
  /\ TypeProc' /\ proc'[t].pc = to /\ proc'[t].mode = proc[t].mode
  /\ \A u \in T : u # t => proc'[u] = proc[u]

LEMMA MovesPc ==
  ASSUME Types, tests' = tests, NEW t \in T, NEW to \in Pcs, proc' = [proc EXCEPT ![t].pc = to]
  PROVE  Moves(t, to) /\ proc'[t].good = proc[t].good
<1> DEFINE P == proc
           P1 == proc'
<1>1. P \in [T -> [pc : Pcs, mode : {"run", "resume"}, good : BOOLEAN]]
  BY DEF Types, TypeProc
<1>2. P1 = [P EXCEPT ![t].pc = to]
  OBVIOUS
<1>3. /\ P1 \in [T -> [pc : Pcs, mode : {"run", "resume"}, good : BOOLEAN]]
      /\ P1[t].pc = to /\ P1[t].good = P[t].good /\ P1[t].mode = P[t].mode
      /\ \A u \in T : u # t => P1[u] = P[u]
  <2> HIDE DEF P, P1
  <2> QED BY <1>1, <1>2
<1>4. QED BY <1>3, SameList DEF Moves, TypeProc

LEMMA MovesGood ==
  ASSUME Types, tests' = tests, NEW t \in T, NEW to \in Pcs, NEW good \in BOOLEAN,
         proc' = [proc EXCEPT ![t].pc = to, ![t].good = good]
  PROVE  Moves(t, to) /\ proc'[t].good = good
<1> DEFINE P == proc
           P1 == proc'
<1>1. P \in [T -> [pc : Pcs, mode : {"run", "resume"}, good : BOOLEAN]]
  BY DEF Types, TypeProc
<1>2. P1 = [P EXCEPT ![t].pc = to, ![t].good = good]
  OBVIOUS
<1>3. /\ P1 \in [T -> [pc : Pcs, mode : {"run", "resume"}, good : BOOLEAN]]
      /\ P1[t].pc = to /\ P1[t].good = good /\ P1[t].mode = P[t].mode
      /\ \A u \in T : u # t => P1[u] = P[u]
  <2> HIDE DEF P, P1
  <2> QED BY <1>1, <1>2
<1>4. QED BY <1>3, SameList DEF Moves, TypeProc

LEMMA DirKept ==
  ASSUME Types, NEW t \in T, NEW more \in Seq(BOOLEAN),
         tdir' = [tdir EXCEPT ![t].kept = @ \o more]
  PROVE  /\ tdir' \in [T -> [there : BOOLEAN, kept : Seq(BOOLEAN)]]
         /\ \A u \in T : tdir'[u].there = tdir[u].there
<1> DEFINE D == tdir
           D1 == tdir'
<1>1. D \in [T -> [there : BOOLEAN, kept : Seq(BOOLEAN)]]
  BY DEF Types, TypeTests
<1>2. D1 = [D EXCEPT ![t].kept = @ \o more]
  OBVIOUS
<1>3. D[t].kept \o more \in Seq(BOOLEAN)
  BY <1>1
<1>4. QED
  <2> HIDE DEF D, D1
  <2>1. /\ D1 \in [T -> [there : BOOLEAN, kept : Seq(BOOLEAN)]]
        /\ \A u \in T : D1[u].there = D[u].there
    BY <1>1, <1>2, <1>3
  <2> QED BY <2>1 DEF D, D1

LEMMA DirMade ==
  ASSUME Types, NEW t \in T, tdir' = [tdir EXCEPT ![t].there = TRUE]
  PROVE  /\ tdir' \in [T -> [there : BOOLEAN, kept : Seq(BOOLEAN)]]
         /\ tdir'[t].there /\ \A u \in T : u # t => tdir'[u] = tdir[u]
<1> DEFINE D == tdir
           D1 == tdir'
<1>1. D \in [T -> [there : BOOLEAN, kept : Seq(BOOLEAN)]]
  BY DEF Types, TypeTests
<1>2. D1 = [D EXCEPT ![t].there = TRUE]
  OBVIOUS
<1>3. QED
  <2> HIDE DEF D, D1
  <2>1. /\ D1 \in [T -> [there : BOOLEAN, kept : Seq(BOOLEAN)]]
        /\ D1[t].there = TRUE /\ \A u \in T : u # t => D1[u] = D[u]
    BY <1>1, <1>2
  <2> QED BY <2>1 DEF D, D1

LEMMA DirRemoved ==
  ASSUME Types, NEW t \in T, tdir' = [tdir EXCEPT ![t] = NoDir]
  PROVE  /\ tdir' \in [T -> [there : BOOLEAN, kept : Seq(BOOLEAN)]]
         /\ ~tdir'[t].there /\ \A u \in T : u # t => tdir'[u] = tdir[u]
<1>1. NoDir \in [there : BOOLEAN, kept : Seq(BOOLEAN)] /\ ~NoDir.there
  BY DEF NoDir
<1>2. QED BY <1>1 DEF Types, TypeTests


LEMMA RunPreDoes ==
  ASSUME Types, NEW t \in T, RunPre(t)
  PROVE  /\ Moves(t, "unit") \/ Moves(t, "finish")
         /\ tdir' \in [T -> [there : BOOLEAN, kept : Seq(BOOLEAN)]]
         /\ \A u \in T : tdir'[u].there = tdir[u].there
<1>1. PICK good \in BOOLEAN, k \in 0..Kept(Phase(tests[t], FALSE)) :
        \E more \in [1..k -> BOOLEAN] :
          /\ tdir' = [tdir EXCEPT ![t].kept = @ \o more]
          /\ proc' = [proc EXCEPT ![t].pc = IF good THEN "unit" ELSE "finish", ![t].good = good]
  BY DEF RunPre, Runs
<1>2. PICK more \in [1..k -> BOOLEAN] :
          /\ tdir' = [tdir EXCEPT ![t].kept = @ \o more]
          /\ proc' = [proc EXCEPT ![t].pc = IF good THEN "unit" ELSE "finish", ![t].good = good]
  BY <1>1
<1>3. k \in Nat
  OBVIOUS
<1>4. more \in Seq(BOOLEAN)
  BY <1>3
<1>5. tests' = tests
  BY DEF RunPre, world
<1>6. Moves(t, "unit") \/ Moves(t, "finish")
  <2>1. CASE good
    BY <1>2, <1>5, <2>1, MovesGood DEF Pcs
  <2>2. CASE ~good
    BY <1>2, <1>5, <2>2, MovesGood DEF Pcs
  <2>3. QED BY <2>1, <2>2
<1>7. QED BY <1>2, <1>4, <1>6, DirKept

LEMMA RunPostDoes ==
  ASSUME Types, NEW t \in T, RunPost(t)
  PROVE  /\ Moves(t, "finish")
         /\ tdir' \in [T -> [there : BOOLEAN, kept : Seq(BOOLEAN)]]
         /\ \A u \in T : tdir'[u].there = tdir[u].there
<1>1. PICK good \in BOOLEAN, k \in 0..Kept(Phase(tests[t], TRUE)) :
        \E more \in [1..k -> BOOLEAN] :
          /\ tdir' = [tdir EXCEPT ![t].kept = @ \o more]
          /\ proc' = [proc EXCEPT ![t].pc = "finish", ![t].good = good]
  BY DEF RunPost, Runs
<1>2. PICK more \in [1..k -> BOOLEAN] :
          /\ tdir' = [tdir EXCEPT ![t].kept = @ \o more]
          /\ proc' = [proc EXCEPT ![t].pc = "finish", ![t].good = good]
  BY <1>1
<1>3. k \in Nat
  OBVIOUS
<1>4. more \in Seq(BOOLEAN)
  BY <1>3
<1>5. tests' = tests
  BY DEF RunPost, world
<1>6. QED BY <1>2, <1>4, <1>5, DirKept, MovesGood DEF Pcs

LEMMA BodyDoes ==
  ASSUME Types, NEW t \in T, Body(t)
  PROVE  Moves(t, "exit")
<1>1. PICK good \in BOOLEAN : proc' = [proc EXCEPT ![t].pc = "exit", ![t].good = good]
  BY DEF Body, Runs, AllHold
<1>2. QED BY <1>1, MovesGood DEF Body, world, Pcs

LEMMA IssueRebootDoes ==
  ASSUME Types, NEW t \in T, IssueReboot(t)
  PROVE  \/ power' = "going" /\ Moves(t, "pending")
         \/ power' = power /\ (Moves(t, "post") \/ Moves(t, "finish"))
<1>1. CASE power' = "going" /\ Goes(t, "pending")
  BY <1>1, MovesPc DEF IssueReboot, Goes, Pcs
<1>2. CASE Goes(t, "post") /\ UNCHANGED power
  BY <1>2, MovesPc DEF IssueReboot, Goes, Pcs
<1>3. CASE proc' = [proc EXCEPT ![t].pc = "finish", ![t].good = FALSE] /\ UNCHANGED power
  BY <1>3, MovesGood DEF IssueReboot, Pcs
<1>4. QED BY <1>1, <1>2, <1>3 DEF IssueReboot

LEMMA OtherMoves ==
  ASSUME Types, NEW t \in T
  PROVE  /\ MakeDir(t) => /\ Moves(t, IF proc[t].mode = "resume" THEN "post" ELSE "pre")
                          /\ tdir' \in [T -> [there : BOOLEAN, kept : Seq(BOOLEAN)]]
                          /\ tdir'[t].there /\ \A u \in T : u # t => tdir'[u] = tdir[u]
         /\ InstallUnit(t) => Moves(t, "reboot")
         /\ Pending(t) => Moves(t, "exit") /\ proc'[t].good
         /\ Finish(t) => Moves(t, "result")
         /\ WriteResult(t) => Moves(t, "rmdir")
         /\ RemoveDir(t) => /\ Moves(t, IF proc[t].mode = "resume" THEN "none" ELSE "exit")
                            /\ tdir' \in [T -> [there : BOOLEAN, kept : Seq(BOOLEAN)]]
                            /\ ~tdir'[t].there /\ \A u \in T : u # t => tdir'[u] = tdir[u]
<1>1. ASSUME MakeDir(t)
      PROVE  Moves(t, IF proc[t].mode = "resume" THEN "post" ELSE "pre")
  BY <1>1, MovesPc DEF MakeDir, Goes, world, Pcs
<1>2. ASSUME InstallUnit(t) PROVE Moves(t, "reboot")
  BY <1>2, MovesPc DEF InstallUnit, Goes, world, Pcs
<1>3. ASSUME Pending(t) PROVE Moves(t, "exit") /\ proc'[t].good
  BY <1>3, MovesGood DEF Pending, world, Pcs
<1>4. ASSUME Finish(t) PROVE Moves(t, "result")
  <2>1. PICK good \in BOOLEAN : proc' = [proc EXCEPT ![t].pc = "result", ![t].good = good]
    BY <1>4 DEF Finish, AllHold, Types, TypeProc
  <2>2. QED BY <1>4, <2>1, MovesGood DEF Finish, world, Pcs
<1>5. ASSUME WriteResult(t) PROVE Moves(t, "rmdir")
  BY <1>5, MovesPc DEF WriteResult, Goes, world, Pcs
<1>6. ASSUME RemoveDir(t)
      PROVE  Moves(t, IF proc[t].mode = "resume" THEN "none" ELSE "exit")
  BY <1>6, MovesPc DEF RemoveDir, Goes, world, Pcs
<1>7. QED
  BY <1>1, <1>2, <1>3, <1>4, <1>5, <1>6, DirMade, DirRemoved DEF MakeDir, RemoveDir

(* A step of a test, by the point it starts from.                           *)
SameDirs == \A u \in T : tdir'[u].there = tdir[u].there
SameOther(f1, f, t) == \A u \in T : u # t => f1[u] = f[u]

TestDoes(t) ==
  \/ /\ proc[t].pc = "body" /\ Moves(t, "exit")
     /\ UNCHANGED <<power, tdir, tunit, result>>
  \/ /\ proc[t].pc = "mkdir" /\ Moves(t, IF proc[t].mode = "resume" THEN "post" ELSE "pre")
     /\ tdir'[t].there /\ SameOther(tdir', tdir, t)
     /\ UNCHANGED <<power, tunit, result>>
  \/ /\ proc[t].pc = "pre" /\ (Moves(t, "unit") \/ Moves(t, "finish"))
     /\ SameDirs /\ UNCHANGED <<power, tunit, result>>
  \/ /\ proc[t].pc = "unit" /\ Moves(t, "reboot")
     /\ tunit'[t] /\ SameOther(tunit', tunit, t)
     /\ UNCHANGED <<power, tdir, result>>
  \/ /\ proc[t].pc = "reboot"
     /\ \/ power' = "going" /\ Moves(t, "pending")
        \/ power' = power /\ (Moves(t, "post") \/ Moves(t, "finish"))
     /\ UNCHANGED <<tdir, tunit, result>>
  \/ /\ proc[t].pc = "pending" /\ Moves(t, "exit") /\ proc'[t].good
     /\ result'[t] = "pending" /\ SameOther(result', result, t)
     /\ UNCHANGED <<power, tdir, tunit>>
  \/ /\ proc[t].pc = "post" /\ Moves(t, "finish")
     /\ SameDirs /\ UNCHANGED <<power, tunit, result>>
  \/ /\ proc[t].pc = "finish" /\ Moves(t, "result")
     /\ ~tunit'[t] /\ SameOther(tunit', tunit, t)
     /\ UNCHANGED <<power, tdir, result>>
  \/ /\ proc[t].pc = "result" /\ Moves(t, "rmdir")
     /\ result'[t] # "pending" /\ SameOther(result', result, t)
     /\ UNCHANGED <<power, tdir, tunit>>
  \/ /\ proc[t].pc = "rmdir" /\ Moves(t, IF proc[t].mode = "resume" THEN "none" ELSE "exit")
     /\ ~tdir'[t].there /\ SameOther(tdir', tdir, t)
     /\ UNCHANGED <<power, tunit, result>>

LEMMA TestEffect ==
  ASSUME Types, NEW t \in T, TestStep(t)
  PROVE  /\ TestDoes(t) /\ Types' /\ power # "off"
         /\ UNCHANGED <<tests, stops, losses, root, unit, runner, told, verdict>>
<1> DEFINE Kept3 == /\ power # "off"
                    /\ UNCHANGED <<tests, stops, losses, root, unit, runner, told, verdict>>
<1>1. CASE Body(t)
  <2>1. /\ proc[t].pc = "body" /\ UNCHANGED <<power, tdir, tunit, result>> /\ Kept3
    BY <1>1 DEF Body, InTest, world, disk, said
  <2>2. Moves(t, "exit")
    BY <1>1, BodyDoes
  <2>3. QED
    BY <2>1, <2>2, SameList
    DEF TestDoes, Types, TypeWorld, TypeRoot, TypeRunner, TypeTests, Moves
<1>2. CASE MakeDir(t)
  <2>1. proc[t].pc = "mkdir" /\ UNCHANGED <<power, tunit, result>> /\ Kept3
    BY <1>2 DEF MakeDir, InTest, world, said
  <2>2. QED
    BY <1>2, <2>1, OtherMoves, SameList
    DEF TestDoes, Types, TypeWorld, TypeRoot, TypeRunner, TypeTests, Moves, SameOther
<1>3. CASE RunPre(t)
  <2>1. proc[t].pc = "pre" /\ UNCHANGED <<power, tunit, result>> /\ Kept3
    BY <1>3 DEF RunPre, InTest, world, said
  <2>2. QED
    BY <1>3, <2>1, RunPreDoes, SameList
    DEF TestDoes, Types, TypeWorld, TypeRoot, TypeRunner, TypeTests, Moves, SameDirs
<1>4. CASE InstallUnit(t)
  <2>1. /\ proc[t].pc = "unit" /\ UNCHANGED <<power, tdir, result>> /\ Kept3
        /\ tunit' = [tunit EXCEPT ![t] = TRUE]
    BY <1>4 DEF InstallUnit, InTest, world, said
  <2>2. tunit' \in [T -> BOOLEAN] /\ tunit'[t] /\ SameOther(tunit', tunit, t)
    BY <2>1 DEF Types, TypeTests, SameOther
  <2>3. QED
    BY <1>4, <2>1, <2>2, OtherMoves, SameList
    DEF TestDoes, Types, TypeWorld, TypeRoot, TypeRunner, TypeTests, Moves
<1>5. CASE IssueReboot(t)
  <2>1. /\ proc[t].pc = "reboot" /\ UNCHANGED <<tdir, tunit, result>>
        /\ power # "off" /\ UNCHANGED <<tests, stops, losses, root, unit, runner, told, verdict>>
    BY <1>5 DEF IssueReboot, InTest, disk, said
  <2>2. QED
    BY <1>5, <2>1, IssueRebootDoes, SameList
    DEF TestDoes, Types, TypeWorld, TypeRoot, TypeRunner, TypeTests, Moves
<1>6. CASE Pending(t)
  <2>1. /\ proc[t].pc = "pending" /\ UNCHANGED <<power, tdir, tunit>> /\ Kept3
        /\ result' = [result EXCEPT ![t] = "pending"]
    BY <1>6 DEF Pending, InTest, world, said
  <2>2. /\ result' \in [T -> {"none", "pending", "ok", "ng"}]
        /\ result'[t] = "pending" /\ SameOther(result', result, t)
    BY <2>1 DEF Types, TypeTests, SameOther
  <2>3. QED
    BY <1>6, <2>1, <2>2, OtherMoves, SameList
    DEF TestDoes, Types, TypeWorld, TypeRoot, TypeRunner, TypeTests, Moves
<1>7. CASE RunPost(t)
  <2>1. proc[t].pc = "post" /\ UNCHANGED <<power, tunit, result>> /\ Kept3
    BY <1>7 DEF RunPost, InTest, world, said
  <2>2. QED
    BY <1>7, <2>1, RunPostDoes, SameList
    DEF TestDoes, Types, TypeWorld, TypeRoot, TypeRunner, TypeTests, Moves, SameDirs
<1>8. CASE Finish(t)
  <2>1. /\ proc[t].pc = "finish" /\ UNCHANGED <<power, tdir, result>> /\ Kept3
        /\ tunit' = [tunit EXCEPT ![t] = FALSE]
    BY <1>8 DEF Finish, InTest, world, said
  <2>2. tunit' \in [T -> BOOLEAN] /\ ~tunit'[t] /\ SameOther(tunit', tunit, t)
    BY <2>1 DEF Types, TypeTests, SameOther
  <2>3. QED
    BY <1>8, <2>1, <2>2, OtherMoves, SameList
    DEF TestDoes, Types, TypeWorld, TypeRoot, TypeRunner, TypeTests, Moves
<1>9. CASE WriteResult(t)
  <2>1. /\ proc[t].pc = "result" /\ UNCHANGED <<power, tdir, tunit>> /\ Kept3
        /\ result' = [result EXCEPT ![t] = IF proc[t].good THEN "ok" ELSE "ng"]
    BY <1>9 DEF WriteResult, InTest, world, said
  <2>2. /\ result' \in [T -> {"none", "pending", "ok", "ng"}]
        /\ result'[t] # "pending" /\ SameOther(result', result, t)
    BY <2>1 DEF Types, TypeTests, SameOther
  <2>3. QED
    BY <1>9, <2>1, <2>2, OtherMoves, SameList
    DEF TestDoes, Types, TypeWorld, TypeRoot, TypeRunner, TypeTests, Moves
<1>10. CASE RemoveDir(t)
  <2>1. proc[t].pc = "rmdir" /\ UNCHANGED <<power, tunit, result>> /\ Kept3
    BY <1>10 DEF RemoveDir, InTest, world, said
  <2>2. QED
    BY <1>10, <2>1, OtherMoves, SameList
    DEF TestDoes, Types, TypeWorld, TypeRoot, TypeRunner, TypeTests, Moves, SameOther
<1>11. QED BY <1>1, <1>2, <1>3, <1>4, <1>5, <1>6, <1>7, <1>8, <1>9, <1>10 DEF TestStep

-----------------------------------------------------------------------------
(* What is left of a plan after its first step.                             *)
Without1st(plan) == Tail(plan)
Left == Without1st(runner.todo)

LEMMA Rest ==
  ASSUME Types
  PROVE  /\ At("prepare") => Left = <<"enable", "begin">>
         /\ At("enable") => Left = <<"begin">>
         /\ At("waiting") => Left = <<"stop", "load", "next">>
         /\ At("load") \/ At("advance") => Left = <<"next">>
         /\ At("mark") => Left = <<"await", "child">>
         /\ At("await") => Left = <<"child">>
         /\ At("park") => Left = <<>>
         /\ At("disable") => Left = <<"rmroot">>
         /\ At("note") => \/ /\ runner.todo = <<"note", "unwait", "stop", "load", "next">>
                             /\ Left = <<"unwait", "stop", "load", "next">>
                          \/ /\ runner.todo = <<"note", "unwait", "stop", "advance", "next">>
                             /\ Left = <<"unwait", "stop", "advance", "next">>
                          \/ /\ runner.todo = <<"note", "stop", "advance", "next">>
                             /\ Left = <<"stop", "advance", "next">>
         /\ At("unwait") => \/ /\ runner.todo = <<"unwait", "stop", "load", "next">>
                               /\ Left = <<"stop", "load", "next">>
                            \/ /\ runner.todo = <<"unwait", "stop", "advance", "next">>
                               /\ Left = <<"stop", "advance", "next">>
                            \/ /\ runner.todo = <<"unwait", "note", "stop", "advance", "next">>
                               /\ Left = <<"note", "stop", "advance", "next">>
         /\ At("stop") => \/ /\ runner.todo = <<"stop", "load", "next">>
                             /\ Left = <<"load", "next">>
                          \/ /\ runner.todo = <<"stop", "advance", "next">>
                             /\ Left = <<"advance", "next">>
<1>1. runner.todo \in Plans
  BY BasicTypes
<1>2. /\ Without1st(<<"enable", "begin">>) = <<"begin">>
      /\ Without1st(<<"load", "next">>) = <<"next">> /\ Without1st(<<"advance", "next">>) = <<"next">>
      /\ Without1st(<<"await", "child">>) = <<"child">> /\ Without1st(<<"park">>) = <<>>
      /\ Without1st(<<"disable", "rmroot">>) = <<"rmroot">>
  BY Tail1, Tail2 DEF Without1st
<1>3. /\ Without1st(<<"prepare", "enable", "begin">>) = <<"enable", "begin">>
      /\ Without1st(<<"mark", "await", "child">>) = <<"await", "child">>
      /\ Without1st(<<"stop", "load", "next">>) = <<"load", "next">>
      /\ Without1st(<<"stop", "advance", "next">>) = <<"advance", "next">>
  BY Tail3 DEF Without1st
<1>4. /\ Without1st(<<"waiting", "stop", "load", "next">>) = <<"stop", "load", "next">>
      /\ Without1st(<<"note", "stop", "advance", "next">>) = <<"stop", "advance", "next">>
      /\ Without1st(<<"unwait", "stop", "load", "next">>) = <<"stop", "load", "next">>
      /\ Without1st(<<"unwait", "stop", "advance", "next">>) = <<"stop", "advance", "next">>
  BY Tail4 DEF Without1st
<1>5. /\ Without1st(<<"note", "unwait", "stop", "load", "next">>) = <<"unwait", "stop", "load", "next">>
      /\ Without1st(<<"note", "unwait", "stop", "advance", "next">>)
            = <<"unwait", "stop", "advance", "next">>
      /\ Without1st(<<"unwait", "note", "stop", "advance", "next">>)
            = <<"note", "stop", "advance", "next">>
  BY Tail5 DEF Without1st
<1>6. /\ At("prepare") => Left = <<"enable", "begin">>
      /\ At("mark") => Left = <<"await", "child">>
  BY <1>1, <1>3, Steps1 DEF Left
<1>7. At("waiting") => Left = <<"stop", "load", "next">>
  BY <1>1, <1>4, Steps1 DEF Left
<1>8. /\ At("enable") => Left = <<"begin">>
      /\ At("load") \/ At("advance") => Left = <<"next">>
      /\ At("await") => Left = <<"child">>
      /\ At("park") => Left = <<>>
      /\ At("disable") => Left = <<"rmroot">>
  BY <1>1, <1>2, Steps1 DEF Left
<1>9. ASSUME At("note")
      PROVE  \/ /\ runner.todo = <<"note", "unwait", "stop", "load", "next">>
                /\ Left = <<"unwait", "stop", "load", "next">>
             \/ /\ runner.todo = <<"note", "unwait", "stop", "advance", "next">>
                /\ Left = <<"unwait", "stop", "advance", "next">>
             \/ /\ runner.todo = <<"note", "stop", "advance", "next">>
                /\ Left = <<"stop", "advance", "next">>
  BY <1>1, <1>4, <1>5, <1>9, Steps2 DEF Left
<1>10. ASSUME At("unwait")
       PROVE  \/ /\ runner.todo = <<"unwait", "stop", "load", "next">>
                 /\ Left = <<"stop", "load", "next">>
              \/ /\ runner.todo = <<"unwait", "stop", "advance", "next">>
                 /\ Left = <<"stop", "advance", "next">>
              \/ /\ runner.todo = <<"unwait", "note", "stop", "advance", "next">>
                 /\ Left = <<"note", "stop", "advance", "next">>
  BY <1>1, <1>4, <1>5, <1>10, Steps2 DEF Left
<1>11. ASSUME At("stop")
       PROVE  \/ /\ runner.todo = <<"stop", "load", "next">>
                 /\ Left = <<"load", "next">>
              \/ /\ runner.todo = <<"stop", "advance", "next">>
                 /\ Left = <<"advance", "next">>
  BY <1>1, <1>3, <1>11, Steps2 DEF Left
<1>12. QED BY <1>6, <1>7, <1>8, <1>9, <1>10, <1>11

LEMMA RestIsPlan ==
  ASSUME Types,
         \/ At("prepare") \/ At("enable") \/ At("load") \/ At("advance") \/ At("mark")
         \/ At("await") \/ At("park") \/ At("disable") \/ At("note") \/ At("unwait") \/ At("stop")
  PROVE  Left \in Plans
<1>1. CASE \/ At("prepare") \/ At("enable") \/ At("load") \/ At("advance") \/ At("mark")
           \/ At("await") \/ At("park") \/ At("disable")
  BY <1>1, Rest DEF Plans
<1>2. CASE At("note") \/ At("unwait") \/ At("stop")
  BY <1>2, Rest DEF Plans
<1>3. QED BY <1>1, <1>2

LEMMA SomePlans ==
  {<<"stop", "load", "next">>, <<"waiting", "stop", "load", "next">>,
   <<"note", "unwait", "stop", "load", "next">>, <<"disable", "rmroot">>,
   <<"mark", "await", "child">>, <<"child">>, <<"park">>,
   <<"note", "unwait", "stop", "advance", "next">>,
   <<"unwait", "note", "stop", "advance", "next">>, <<"note", "stop", "advance", "next">>,
   <<"stop", "advance", "next">>, <<>>, <<"begin">>, <<"direct">>, <<"ended">>, <<"summary">>}
    \subseteq Plans
  BY DEF Plans

(* What the runner keeps while it goes on.                                 *)
LEMMA GoesOn ==
  ASSUME Types, tests' = tests, NEW todo \in Plans, Then(todo)
  PROVE  /\ TypeRunner' /\ runner'.todo = todo
         /\ runner'.idx = runner.idx /\ runner'.fails = runner.fails /\ runner'.res = runner.res
  BY SameList DEF Types, TypeRunner, Then

LEMMA Continues ==
  ASSUME Types, tests' = tests, Done, Left \in Plans
  PROVE  /\ TypeRunner' /\ runner'.todo = Left
         /\ runner'.idx = runner.idx /\ runner'.fails = runner.fails /\ runner'.res = runner.res
<1>1. Then(Left)
  BY DEF Done, Left, Without1st
<1>2. QED BY <1>1, GoesOn

LEMMA RunnerSet ==
  ASSUME Types, tests' = tests, NEW todo \in Plans, NEW idx \in 0..N,
         NEW fails \in Nat \cup {Torn}, NEW res \in {"none", "ok", "ng"},
         runner' = [runner EXCEPT !.todo = todo, !.idx = idx, !.fails = fails, !.res = res]
  PROVE  /\ TypeRunner' /\ runner'.todo = todo /\ runner'.idx = idx
         /\ runner'.fails = fails /\ runner'.res = res
<1>1. runner \in [todo : Plans, idx : 0..N, fails : Nat \cup {Torn}, res : {"none", "ok", "ng"}]
  BY DEF Types, TypeRunner
<1>2. QED BY <1>1, SameList DEF TypeRunner

LEMMA RunnerLoads ==
  ASSUME Types, tests' = tests, NEW todo \in Plans, NEW idx \in 0..N,
         NEW fails \in Nat \cup {Torn},
         runner' = [runner EXCEPT !.todo = todo, !.idx = idx, !.fails = fails]
  PROVE  /\ TypeRunner' /\ runner'.todo = todo /\ runner'.idx = idx
         /\ runner'.fails = fails /\ runner'.res = runner.res
<1>1. runner \in [todo : Plans, idx : 0..N, fails : Nat \cup {Torn}, res : {"none", "ok", "ng"}]
  BY DEF Types, TypeRunner
<1>2. QED BY <1>1, SameList DEF TypeRunner

LEMMA RunnerJudges ==
  ASSUME Types, tests' = tests, NEW todo \in Plans, NEW fails \in Nat \cup {Torn},
         NEW res \in {"none", "ok", "ng"},
         runner' = [runner EXCEPT !.todo = todo, !.fails = fails, !.res = res]
  PROVE  /\ TypeRunner' /\ runner'.todo = todo /\ runner'.idx = runner.idx
         /\ runner'.fails = fails /\ runner'.res = res
<1>1. runner \in [todo : Plans, idx : 0..N, fails : Nat \cup {Torn}, res : {"none", "ok", "ng"}]
  BY DEF Types, TypeRunner
<1>2. QED BY <1>1, SameList DEF TypeRunner

LEMMA RunnerMoves ==
  ASSUME Types, tests' = tests, NEW todo \in Plans, NEW idx \in 0..N,
         runner' = [runner EXCEPT !.todo = todo, !.idx = idx]
  PROVE  /\ TypeRunner' /\ runner'.todo = todo /\ runner'.idx = idx
         /\ runner'.fails = runner.fails /\ runner'.res = runner.res
<1>1. runner \in [todo : Plans, idx : 0..N, fails : Nat \cup {Torn}, res : {"none", "ok", "ng"}]
  BY DEF Types, TypeRunner
<1>2. QED BY <1>1, SameList DEF TypeRunner

LEMMA RootKeeps ==
  ASSUME Types, tests' = tests
  PROVE  /\ \A i \in 0..N : root' = [root EXCEPT !.index = i] =>
              TypeRoot' /\ root'.index = i /\ root'.fails = root.fails /\ root'.wait = root.wait
         /\ \A n \in Nat \cup {Torn} : root' = [root EXCEPT !.fails = n] =>
              TypeRoot' /\ root'.fails = n /\ root'.index = root.index /\ root'.wait = root.wait
         /\ \A i \in 0..N : root' = [root EXCEPT !.wait = i] =>
              TypeRoot' /\ root'.wait = i /\ root'.fails = root.fails /\ root'.index = root.index
         /\ root' = Fresh => TypeRoot' /\ root'.wait = 0 /\ root'.index = 0 /\ root'.fails = 0
  BY BasicTypes, SameList DEF Types, TypeRoot, Fresh

LEMMA Started ==
  ASSUME Types, tests' = tests, NEW t \in T, NEW pc \in Pcs, Starts(t, pc)
  PROVE  /\ TypeProc' /\ proc'[t].pc = pc /\ proc'[t].mode = "run"
         /\ \A u \in T : u # t => proc'[u] = proc[u]
<1>1. [pc |-> pc, mode |-> "run", good |-> TRUE]
         \in [pc : Pcs, mode : {"run", "resume"}, good : BOOLEAN]
  OBVIOUS
<1>2. QED BY <1>1, SameList DEF Starts, Types, TypeProc

LEMMA Stopped ==
  ASSUME Types, tests' = tests, NEW t \in T, proc' = [proc EXCEPT ![t] = Idle]
  PROVE  TypeProc' /\ proc'[t].pc = "none" /\ \A u \in T : u # t => proc'[u] = proc[u]
<1>1. Idle \in [pc : Pcs, mode : {"run", "resume"}, good : BOOLEAN] /\ Idle.pc = "none"
  BY DEF Idle, Pcs
<1>2. QED BY <1>1, SameList DEF Types, TypeProc

LEMMA ToldType ==
  ASSUME Types, NEW t \in T, Tell(t), runner.res \in {"ok", "ng"}
  PROVE  told' \in [T -> {"none", "ok", "ng"}]
  BY DEF Types, TypeTests, Tell

(* The plan after the test's script has ended.                              *)
LEMMA JudgedPlan ==
  ASSUME Types, Judge
  PROVE  LET t == runner.idx + 1
             bad == ~proc[t].good
         IN  /\ Kind(t) = "reboot" /\ ~bad /\ result[t] = "pending" => runner'.todo = <<"park">>
             /\ Kind(t) = "reboot" /\ ~bad /\ result[t] # "pending" =>
                  runner'.todo = <<"unwait", "note", "stop", "advance", "next">>
             /\ Kind(t) = "reboot" /\ bad =>
                  runner'.todo = <<"note", "unwait", "stop", "advance", "next">>
             /\ Kind(t) # "reboot" /\ bad => runner'.todo = <<"note", "stop", "advance", "next">>
             /\ Kind(t) # "reboot" /\ ~bad => runner'.todo = <<"stop", "advance", "next">>
             /\ runner'.todo \in Plans
<1> DEFINE t == runner.idx + 1
           bad == ~proc[t].good
<1>1. /\ <<>> \o <<"stop", "advance", "next">> = <<"stop", "advance", "next">>
      /\ <<"note">> \o <<"stop", "advance", "next">> = <<"note", "stop", "advance", "next">>
  BY Join0, Join1
<1>2. /\ <<"note", "unwait">> \o <<"stop", "advance", "next">>
           = <<"note", "unwait", "stop", "advance", "next">>
      /\ <<"unwait", "note">> \o <<"stop", "advance", "next">>
           = <<"unwait", "note", "stop", "advance", "next">>
  BY Join2
<1>3. /\ Kind(t) = "reboot" /\ ~bad /\ result[t] = "pending" => runner'.todo = <<"park">>
      /\ Kind(t) = "reboot" /\ ~bad /\ result[t] # "pending" =>
           runner'.todo = <<"unwait", "note">> \o <<"stop", "advance", "next">>
      /\ Kind(t) = "reboot" /\ bad =>
           runner'.todo = <<"note", "unwait">> \o <<"stop", "advance", "next">>
      /\ Kind(t) # "reboot" /\ bad => runner'.todo = <<"note">> \o <<"stop", "advance", "next">>
      /\ Kind(t) # "reboot" /\ ~bad => runner'.todo = <<>> \o <<"stop", "advance", "next">>
  BY DEF Judge, Types, TypeRunner
<1>4. QED BY <1>1, <1>2, <1>3, SomePlans

(* What the steps that set more of the runner than its plan do.             *)
LEMMA WaitedDoes ==
  ASSUME Types, Control, Waited
  PROVE  /\ TypeRunner' /\ runner'.todo = <<"note", "unwait", "stop", "load", "next">>
         /\ root.wait \in T /\ runner'.idx = root.wait - 1
         /\ LET bad == tdir[root.wait].there \/ result[root.wait] \in {"none", "ng"}
            IN  /\ runner'.fails = IF bad THEN PlusOne(root.fails) ELSE root.fails
                /\ runner'.res = IF bad THEN "ng" ELSE "ok"
<1>1. root.wait # 0 /\ root.wait \in T
  BY Places1, BasicTypes DEF Waited, Booted, At
<1>2. <<"note", "unwait">> \o Left = <<"note", "unwait", "stop", "load", "next">>
  <2>1. <<"note", "unwait">> \o <<"stop", "load", "next">>
          = <<"note", "unwait", "stop", "load", "next">>
    BY Join2
  <2>2. QED BY <2>1, Rest DEF Waited
<1> DEFINE bad == tdir[root.wait].there \/ result[root.wait] \in {"none", "ng"}
<1>3. PICK fails \in Nat \cup {Torn}, res \in {"none", "ok", "ng"} :
        /\ fails = IF bad THEN PlusOne(root.fails) ELSE root.fails
        /\ res = IF bad THEN "ng" ELSE "ok"
  <2>1. PlusOne(root.fails) \in Nat \cup {Torn} /\ root.fails \in Nat \cup {Torn}
    BY BasicTypes, PlusOneType
  <2>2. CASE bad
    BY <2>1, <2>2
  <2>3. CASE ~bad
    BY <2>1, <2>3
  <2>4. QED BY <2>2, <2>3
<1>4. runner' = [runner EXCEPT !.todo = <<"note", "unwait">> \o Left, !.idx = root.wait - 1,
                   !.fails = fails, !.res = res]
  BY <1>3 DEF Waited, Left, Without1st
<1>5. PICK idx \in 0..N : idx = root.wait - 1
  BY <1>1, BasicTypes
<1>6. PICK todo \in Plans : todo = <<"note", "unwait">> \o Left
  BY <1>2, SomePlans
<1>7. runner' = [runner EXCEPT !.todo = todo, !.idx = idx, !.fails = fails, !.res = res]
  BY <1>4, <1>5, <1>6
<1>8. tests' = tests
  BY DEF Waited, world
<1>9. /\ TypeRunner' /\ runner'.todo = todo /\ runner'.idx = idx /\ runner'.fails = fails
      /\ runner'.res = res
  BY <1>7, <1>8, RunnerSet
<1>10. QED BY <1>1, <1>2, <1>3, <1>5, <1>6, <1>9

LEMMA LoadDoes ==
  ASSUME Types, Load
  PROVE  /\ TypeRunner' /\ runner'.todo = <<"next">> /\ runner'.idx = root.index
         /\ runner'.fails = root.fails
<1>1. runner' = [runner EXCEPT !.todo = Left, !.idx = root.index, !.fails = root.fails]
  BY DEF Load, Left, Without1st
<1>2. tests' = tests /\ At("load")
  BY DEF Load, world
<1>3. Left \in Plans /\ Left = <<"next">>
  BY <1>2, Rest, RestIsPlan
<1>4. PICK idx \in 0..N : idx = root.index
  BY BasicTypes
<1>5. PICK fails \in Nat \cup {Torn} : fails = root.fails
  BY BasicTypes
<1>6. runner' = [runner EXCEPT !.todo = Left, !.idx = idx, !.fails = fails]
  BY <1>1, <1>4, <1>5
<1>7. TypeRunner' /\ runner'.todo = Left /\ runner'.idx = idx /\ runner'.fails = fails
  BY <1>2, <1>3, <1>6, RunnerLoads
<1>8. QED BY <1>3, <1>4, <1>5, <1>7

LEMMA JudgeDoes ==
  ASSUME Types, Judge
  PROVE  /\ TypeRunner' /\ runner'.idx = runner.idx
         /\ runner'.fails = IF ~proc[runner.idx + 1].good THEN PlusOne(runner.fails) ELSE runner.fails
         /\ runner'.res = IF ~proc[runner.idx + 1].good THEN "ng" ELSE "ok"
<1> DEFINE bad == ~proc[runner.idx + 1].good
<1>1. PICK todo : runner' = [runner EXCEPT !.todo = todo, !.fails = IF bad THEN PlusOne(@) ELSE @,
                               !.res = IF bad THEN "ng" ELSE "ok"]
  BY DEF Judge
<1>2. todo \in Plans
  BY <1>1, JudgedPlan DEF Types, TypeRunner
<1>3. PICK fails \in Nat \cup {Torn}, res \in {"none", "ok", "ng"} :
        /\ fails = IF bad THEN PlusOne(runner.fails) ELSE runner.fails
        /\ res = IF bad THEN "ng" ELSE "ok"
  <2>1. PlusOne(runner.fails) \in Nat \cup {Torn} /\ runner.fails \in Nat \cup {Torn}
    BY BasicTypes, PlusOneType
  <2>2. CASE bad
    BY <2>1, <2>2
  <2>3. CASE ~bad
    BY <2>1, <2>3
  <2>4. QED BY <2>2, <2>3
<1>4. runner' = [runner EXCEPT !.todo = todo, !.fails = fails, !.res = res]
  BY <1>1, <1>3
<1>5. tests' = tests
  BY DEF Judge, world
<1>6. QED BY <1>2, <1>3, <1>4, <1>5, RunnerJudges

LEMMA AdvanceDoes ==
  ASSUME Types, Control, Advance
  PROVE  /\ TypeRunner' /\ runner'.todo = <<"next">> /\ runner'.idx = runner.idx + 1
         /\ runner'.fails = runner.fails
         /\ TypeRoot' /\ root'.index = runner.idx + 1 /\ root'.wait = root.wait
         /\ root'.fails = root.fails /\ runner.idx + 1 \in T
<1>1. PICK idx \in 0..N : idx = runner.idx + 1
  BY Places1, BasicTypes DEF Advance, Closing
<1>2. runner' = [runner EXCEPT !.todo = Left, !.idx = idx] /\ root' = [root EXCEPT !.index = idx]
  BY <1>1 DEF Advance, Left, Without1st
<1>3. tests' = tests
  BY DEF Advance, world
<1>4. Left \in Plans /\ Left = <<"next">>
  BY Rest, RestIsPlan DEF Advance
<1>5. /\ TypeRunner' /\ runner'.todo = <<"next">> /\ runner'.idx = idx
      /\ runner'.fails = runner.fails
  BY <1>2, <1>3, <1>4, RunnerMoves
<1>6. /\ TypeRoot' /\ root'.index = idx /\ root'.wait = root.wait /\ root'.fails = root.fails
  BY <1>2, <1>3, RootKeeps
<1>7. QED BY <1>1, <1>5, <1>6, BasicTypes

LEMMA RunnerTypes ==
  ASSUME Types, Control, RunnerStep
  PROVE  Types'
<1>1. CASE Prepare
  <2>1. TypeRunner'
    BY <1>1, RestIsPlan, Continues DEF Prepare, world
  <2>2. TypeRoot'
    BY <1>1, RootKeeps DEF Prepare, world
  <2>3. QED BY <1>1, <2>1, <2>2, SameList DEF Prepare, Types, TypeWorld, TypeTests, TypeProc, world, said
<1>2. CASE Enable
  <2>1. TypeRunner'
    BY <1>2, RestIsPlan, Continues DEF Enable, world
  <2>2. QED
    BY <1>2, <2>1, SameList
    DEF Enable, Types, TypeWorld, TypeRoot, TypeTests, TypeProc, world, said
<1>3. CASE Begin
  <2>1. /\ <<"waiting">> \o <<"stop", "load", "next">> = <<"waiting", "stop", "load", "next">>
        /\ <<>> \o <<"stop", "load", "next">> = <<"stop", "load", "next">>
    BY Join0, Join1
  <2>2. PICK todo \in {<<"waiting", "stop", "load", "next">>, <<"stop", "load", "next">>} : Then(todo)
    BY <1>3, <2>1 DEF Begin
  <2>3. TypeRunner'
    BY <1>3, <2>2, SomePlans, GoesOn DEF Begin, world
  <2>4. QED
    BY <1>3, <2>3, SameList
    DEF Begin, Types, TypeWorld, TypeRoot, TypeTests, TypeProc, world, disk, said
<1>4. CASE Waited
  <2>1. root.wait # 0 /\ root.wait \in T
    BY <1>4, Places1, BasicTypes DEF Waited, Booted, At
  <2>2. result' \in [T -> {"none", "pending", "ok", "ng"}]
    BY <1>4, <2>1 DEF Waited, Types, TypeTests
  <2>3. TypeRunner'
    BY <1>4, WaitedDoes
  <2>4. QED
    BY <1>4, <2>2, <2>3, SameList
    DEF Waited, Types, TypeWorld, TypeRoot, TypeTests, TypeProc, world, said
<1>5. CASE Note
  <2>1. TypeRunner'
    BY <1>5, RestIsPlan, Continues DEF Note, world
  <2>2. TypeRoot'
    BY <1>5, RootKeeps, BasicTypes DEF Note, world
  <2>3. At("note") => runner.idx + 1 \in T
    BY Places2, BasicTypes DEF Judged, Awaited, Closing
  <2>4. told' \in [T -> {"none", "ok", "ng"}]
    BY <1>5, <2>3 DEF Note, Tell, Types, TypeTests
  <2>5. QED
    BY <1>5, <2>1, <2>2, <2>4, SameList DEF Note, Types, TypeWorld, TypeTests, TypeProc, world
<1>6. CASE Unwait
  <2>1. TypeRunner'
    BY <1>6, RestIsPlan, Continues DEF Unwait, world
  <2>2. TypeRoot'
    BY <1>6, RootKeeps, BasicTypes DEF Unwait, world
  <2>3. runner.idx + 1 \in T
    BY <1>6, Places2, BasicTypes DEF Judged, Awaited, Unwait
  <2>4. told' \in [T -> {"none", "ok", "ng"}]
    BY <1>6, <2>3, BasicTypes DEF Unwait, Tell, Types, TypeTests
  <2>5. QED
    BY <1>6, <2>1, <2>2, <2>4, SameList DEF Unwait, Types, TypeWorld, TypeTests, TypeProc, world
<1>7. CASE StopCheck
  <2>1. TypeRunner'
    BY <1>7, RestIsPlan, SomePlans, GoesOn, Continues DEF StopCheck, world
  <2>2. QED
    BY <1>7, <2>1, SameList
    DEF StopCheck, Types, TypeWorld, TypeRoot, TypeTests, TypeProc, world, disk
<1>8. CASE Load
  BY <1>8, LoadDoes, SameList
  DEF Load, Types, TypeWorld, TypeRoot, TypeTests, TypeProc, world, disk, said
<1>9. CASE NextTest
  <2>1. runner.idx + 1 \in T
    BY <1>9, BasicTypes DEF NextTest
  <2>2. TypeRunner'
    BY <1>9, SomePlans, GoesOn DEF NextTest, world
  <2>3. TypeProc'
    BY <1>9, <2>1, Started, SameList DEF NextTest, world, Types, TypeProc, Pcs
  <2>4. QED
    BY <1>9, <2>2, <2>3, SameList
    DEF NextTest, Types, TypeWorld, TypeRoot, TypeTests, world, disk, said
<1>10. CASE Mark
  <2>1. TypeRunner'
    BY <1>10, RestIsPlan, Continues DEF Mark, world
  <2>2. TypeRoot'
    BY <1>10, Places1, RootKeeps, BasicTypes DEF Mark, Marking, world
  <2>3. QED
    BY <1>10, <2>1, <2>2, SameList DEF Mark, Types, TypeWorld, TypeTests, TypeProc, world, said
<1>11. CASE Await
  <2>1. TypeRunner'
    BY <1>11, RestIsPlan, Continues DEF Await, world
  <2>2. runner.idx + 1 \in T
    BY <1>11, Places1, BasicTypes DEF Await, Awaiting
  <2>3. TypeRoot'
    BY <1>11, <2>2, RootKeeps, BasicTypes DEF Await, world
  <2>4. TypeProc'
    BY <1>11, <2>2, Started DEF Await, world, Pcs
  <2>5. QED
    BY <1>11, <2>1, <2>3, <2>4, SameList DEF Await, Types, TypeWorld, TypeTests, world, said
<1>12. CASE Judge
  <2>1. runner.idx + 1 \in T
    BY <1>12, Places1, BasicTypes DEF Judge, ShellRun, RebootRun, Awaited
  <2>2. TypeRunner'
    BY <1>12, JudgeDoes
  <2>3. TypeProc'
    BY <1>12, <2>1, Stopped DEF Judge, world
  <2>4. result' \in [T -> {"none", "pending", "ok", "ng"}]
    BY <1>12, <2>1 DEF Judge, Types, TypeTests
  <2>5. QED
    BY <1>12, <2>2, <2>3, <2>4, SameList
    DEF Judge, Types, TypeWorld, TypeRoot, TypeTests, world, said
<1>13. CASE Advance
  <2>1. TypeRunner' /\ TypeRoot' /\ runner.idx + 1 \in T
    BY <1>13, AdvanceDoes
  <2>2. told' \in [T -> {"none", "ok", "ng"}]
    BY <1>13, <2>1, BasicTypes DEF Advance, Tell, Types, TypeTests
  <2>3. QED
    BY <1>13, <2>1, <2>2, SameList DEF Advance, Types, TypeWorld, TypeTests, TypeProc, world
<1>14. CASE Conclude
  <2>1. TypeRunner'
    BY <1>14, SomePlans, GoesOn DEF Conclude, world
  <2>2. QED
    BY <1>14, <2>1, SameList
    DEF Conclude, Types, TypeWorld, TypeRoot, TypeTests, TypeProc, world, disk
<1>15. CASE Disable
  <2>1. TypeRunner'
    BY <1>15, RestIsPlan, Continues DEF Disable, world
  <2>2. QED
    BY <1>15, <2>1, SameList
    DEF Disable, Types, TypeWorld, TypeRoot, TypeTests, TypeProc, world, said
<1>16. CASE RemoveRoot
  <2>1. TypeRunner'
    BY <1>16, SomePlans, BasicTypes, SameList DEF RemoveRoot, Off, TypeRunner, world
  <2>2. TypeRoot'
    BY <1>16, RootKeeps DEF RemoveRoot, world
  <2>3. QED
    BY <1>16, <2>1, <2>2, SameList DEF RemoveRoot, Types, TypeWorld, TypeTests, TypeProc, world, said
<1>17. QED
  BY <1>1, <1>2, <1>3, <1>4, <1>5, <1>6, <1>7, <1>8, <1>9, <1>10, <1>11, <1>12, <1>13, <1>14,
     <1>15, <1>16 DEF RunnerStep

LEMMA DirectJudgeDoes ==
  ASSUME Types, Control, DirectJudge
  PROVE  /\ TypeRunner' /\ runner.idx + 1 \in T /\ runner'.idx = runner.idx + 1
         /\ LET bad == ~proc[runner.idx + 1].good
            IN  /\ runner'.todo = IF bad /\ stops THEN <<"summary">> ELSE <<"direct">>
                /\ runner'.fails = IF bad THEN runner.fails + 1 ELSE runner.fails
<1>1. PICK idx \in 0..N : idx = runner.idx + 1
  BY Places1, BasicTypes DEF DirectJudge, DirectRun
<1> DEFINE bad == ~proc[runner.idx + 1].good
<1>2. PICK todo \in Plans : todo = IF bad /\ stops THEN <<"summary">> ELSE <<"direct">>
  BY SomePlans
<1>3. PICK fails \in Nat \cup {Torn} : fails = IF bad THEN runner.fails + 1 ELSE runner.fails
  BY BasicTypes DEF Torn
<1>4. tests' = tests
  BY DEF DirectJudge, world
<1>5. runner' = [runner EXCEPT !.todo = todo, !.idx = idx, !.fails = fails]
  BY <1>1, <1>2, <1>3 DEF DirectJudge
<1>6. /\ TypeRunner' /\ runner'.todo = todo /\ runner'.idx = idx /\ runner'.fails = fails
  BY <1>4, <1>5, RunnerLoads
<1>7. QED BY <1>1, <1>2, <1>3, <1>6, BasicTypes

LEMMA DirectTypes ==
  ASSUME Types, Control, DirectStep
  PROVE  Types'
<1>1. CASE DirectStart
  <2>1. runner.idx + 1 \in T
    BY <1>1, BasicTypes DEF DirectStart
  <2>2. TypeRunner'
    BY <1>1, SomePlans, GoesOn DEF DirectStart, world
  <2>3. TypeProc'
    BY <1>1, <2>1, Started DEF DirectStart, world, Pcs
  <2>4. result' \in [T -> {"none", "pending", "ok", "ng"}]
    BY <1>1, <2>1 DEF DirectStart, Types, TypeTests
  <2>5. QED
    BY <1>1, <2>2, <2>3, <2>4, SameList
    DEF DirectStart, Types, TypeWorld, TypeRoot, TypeTests, world, said
<1>2. CASE DirectJudge
  <2>1. TypeRunner' /\ runner.idx + 1 \in T
    BY <1>2, DirectJudgeDoes
  <2>2. TypeProc'
    BY <1>2, <2>1, Stopped DEF DirectJudge, world
  <2>3. told' \in [T -> {"none", "ok", "ng"}]
    BY <1>2, <2>1 DEF DirectJudge, Types, TypeTests
  <2>4. QED
    BY <1>2, <2>1, <2>2, <2>3, SameList
    DEF DirectJudge, Types, TypeWorld, TypeRoot, TypeTests, world, disk
<1>3. CASE DirectSummary
  <2>1. TypeRunner'
    BY <1>3, SomePlans, BasicTypes, SameList DEF DirectSummary, Off, TypeRunner, world
  <2>2. QED
    BY <1>3, <2>1, SameList
    DEF DirectSummary, Types, TypeWorld, TypeRoot, TypeTests, TypeProc, world, disk
<1>4. QED BY <1>1, <1>2, <1>3 DEF DirectStep

(* What a halt leaves: only a file being written may have been cut down,    *)
(* and never the place, as power is not lost where that is written.         *)
LEMMA HaltDoes ==
  ASSUME Trusted, Types, Shutdown \/ PowerLoss
  PROVE  /\ root' = root \/ /\ At("note") \/ At("park")
                            /\ root' = [root EXCEPT !.fails = Torn]
         /\ tests' = tests /\ stops' = stops /\ power' = "off" /\ losses' \in 0..MaxLosses
         /\ runner' = Off /\ proc' = [t \in T |-> Idle]
         /\ UNCHANGED <<unit, tdir, tunit, result, told, verdict>>
         /\ losses' >= losses
<1>1. Halt
  BY DEF Shutdown, PowerLoss
<1>2. power = "up" => ~At("mark") /\ ~At("advance")
  BY DEF Shutdown, PowerLoss, At, Trusted
<1>3. losses' \in 0..MaxLosses /\ losses' >= losses
  BY RunAssumption DEF Shutdown, PowerLoss, Types, TypeWorld
<1>4. QED BY <1>1, <1>2, <1>3 DEF Halt, said

LEMMA IdleType ==
  /\ Idle \in [pc : Pcs, mode : {"run", "resume"}, good : BOOLEAN] /\ Idle.pc = "none"
  /\ [pc |-> "mkdir", mode |-> "resume", good |-> TRUE]
       \in [pc : Pcs, mode : {"run", "resume"}, good : BOOLEAN]
  BY DEF Idle, Pcs

LEMMA MachineTypes ==
  ASSUME Trusted, Types, Shutdown \/ PowerLoss \/ Boot
  PROVE  Types'
<1>1. CASE Shutdown \/ PowerLoss
  <2>1. TypeRunner'
    BY <1>1, HaltDoes, SomePlans, BasicTypes, SameList DEF Off, TypeRunner
  <2>2. TypeRoot'
    <3>1. Torn \in Nat \cup {Torn}
      OBVIOUS
    <3>2. QED BY <1>1, <3>1, HaltDoes, RootKeeps, SameList DEF Types, TypeRoot
  <2>3. TypeProc'
    BY <1>1, HaltDoes, IdleType, SameList DEF TypeProc
  <2>4. QED
    BY <1>1, <2>1, <2>2, <2>3, HaltDoes, SameList DEF Types, TypeWorld, TypeTests
<1>2. CASE Boot
  <2>1. PICK todo \in Plans : runner' = [Off EXCEPT !.todo = todo]
    BY <1>2, SomePlans DEF Boot
  <2>2. TypeRunner'
    BY <1>2, <2>1, BasicTypes, SameList DEF Boot, Off, TypeRunner, world
  <2>3. TypeProc'
    BY <1>2, IdleType, SameList DEF Boot, TypeProc
  <2>4. QED
    BY <1>2, <2>2, <2>3, SameList
    DEF Boot, Types, TypeWorld, TypeRoot, TypeTests, disk, said
<1>3. QED BY <1>1, <1>2

-----------------------------------------------------------------------------
(* The situations follow one another                                        *)

LEMMA TestControl ==
  ASSUME Types, Control, NEW t \in T, TestStep(t)
  PROVE  Control'
<1>1. /\ TestDoes(t) /\ T' = T /\ N' = N
      /\ UNCHANGED <<tests, stops, losses, root, unit, runner, told, verdict>>
  BY TestEffect, SameList
<1>2. proc[t].pc \notin {"none", "exit"}
  BY <1>1 DEF TestDoes
<1>3. CASE DirectRun /\ t = runner.idx + 1
  <2>1. Moves(t, "exit") /\ UNCHANGED <<power, tdir, tunit, result>>
    BY <1>1, <1>2, <1>3 DEF DirectRun, TestDoes
  <2>2. QED
    BY <1>1, <1>3, <2>1 DEF Moves, DirectRun, OnlyTest, NoUnit, Control
<1>4. CASE ShellRun /\ t = runner.idx + 1
  <2>1. Moves(t, "exit") /\ UNCHANGED <<power, tdir, tunit, result>>
    BY <1>1, <1>2, <1>4 DEF ShellRun, TestDoes
  <2>2. QED
    BY <1>1, <1>4, <2>1 DEF Moves, ShellRun, OnlyTest, NoUnit, Control, Kind
<1>5. CASE Booted /\ root.wait = t
  <2>1. /\ Awaited /\ OnlyTest(t) /\ Resumed(t) /\ t # 0 /\ power = "up"
    BY <1>5, BasicTypes DEF Booted
  <2>2. OnlyTest(t)' /\ OnlyUnit(t)' /\ Resumed(t)' /\ power' = power
    BY <1>1, <1>2, <2>1, <1>5
    DEF OnlyTest, OnlyUnit, Awaited, Resumed, Moves, TestDoes, SameDirs, SameOther
  <2>3. QED
    BY <1>1, <1>5, <2>1, <2>2 DEF Booted, Awaited, Kind, Control
<1>6. CASE RebootRun /\ root.wait = t
  <2>1. Awaited /\ OnlyTest(t) /\ Running(t)
    BY <1>6 DEF RebootRun
  <2>2. OnlyTest(t)' /\ OnlyUnit(t)'
    BY <1>1, <1>2, <2>1, <1>6
    DEF OnlyTest, OnlyUnit, Awaited, Moves, TestDoes, SameDirs, SameOther
  <2>3. Running(t)'
    BY <1>1, <1>2, <2>1, <1>6 DEF Running, Moves, TestDoes, SameDirs, SameOther, Pcs
  <2>4. QED
    BY <1>1, <1>6, <2>1, <2>2, <2>3 DEF RebootRun, Awaited, Kind, Control
<1>7. QED BY <1>2, <1>3, <1>4, <1>5, <1>6, Active

LEMMA RunnerControl ==
  ASSUME Trusted, Types, Control, RunnerStep
  PROVE  Control'
<1>1. CASE Prepare
  <2>1. Setup /\ tests' = tests /\ runner'.todo = <<"enable", "begin">> /\ root' = Fresh
    BY <1>1, Places1, Rest, RestIsPlan, Continues DEF Prepare, world
  <2>2. QED
    BY <1>1, <2>1, SameList DEF Prepare, Setup, Control, Quiet, NoUnit, world
<1>2. CASE Enable
  <2>1. Setup /\ tests' = tests /\ runner'.todo = <<"begin">>
    BY <1>2, Places1, Rest, RestIsPlan, Continues DEF Enable, world
  <2>2. QED
    BY <1>2, <2>1, SameList DEF Enable, Setup, Booted, Control, Quiet, NoUnit, world, Fresh
<1>3. CASE Begin
  <2>1. Booted /\ tests' = tests /\ unit' = unit /\ power' = power /\ root' = root
        /\ proc' = proc /\ tunit' = tunit /\ tdir' = tdir
    BY <1>3, Places1 DEF Begin, world, disk
  <2>2. /\ root.wait # 0 => runner'.todo = <<"waiting", "stop", "load", "next">>
        /\ root.wait = 0 => runner'.todo = <<"stop", "load", "next">>
    <3>1. /\ <<"waiting">> \o <<"stop", "load", "next">> = <<"waiting", "stop", "load", "next">>
          /\ <<>> \o <<"stop", "load", "next">> = <<"stop", "load", "next">>
      BY Join0, Join1
    <3>2. QED BY <1>3, <2>1, <3>1, SomePlans, GoesOn DEF Begin
  <2>3. QED
    BY <2>1, <2>2, SameList
    DEF Booted, Placing, Calm, Awaited, Resumed, OnlyTest, OnlyUnit, Kind, Quiet, NoUnit, Control
<1>4. CASE Waited
  <2>1. /\ Booted /\ root.wait # 0 /\ UNCHANGED <<tests, power, unit, root, proc, tunit, tdir>>
    BY <1>4, Places1 DEF Waited, world, Booted, At
  <2>2. runner'.todo = <<"note", "unwait", "stop", "load", "next">> /\ runner'.idx = root.wait - 1
    BY <1>4, WaitedDoes
  <2>3. proc[root.wait].pc = "none"
    BY <1>4, <2>1, BasicTypes DEF Waited, Booted, Resumed, Trusted
  <2>4. Quiet /\ NoUnit
    BY <2>1, <2>3 DEF Booted, Resumed, OnlyTest, Awaited, OnlyUnit, Quiet, NoUnit
  <2>5. QED
    BY <2>1, <2>2, <2>4, SameList, BasicTypes
    DEF Booted, Judged, Calm, Awaited, OnlyUnit, Kind, Quiet, NoUnit, Control
<1>5. CASE Note
  <2>1. /\ UNCHANGED <<tests, power, unit, proc, tunit, tdir>>
        /\ root'.wait = root.wait /\ root'.index = root.index
        /\ runner'.todo = Left /\ runner'.idx = runner.idx
    BY <1>5, BasicTypes, RootKeeps, RestIsPlan, Continues DEF Note, world
  <2>2. CASE At("park")
    BY <2>1, <2>2, Places1, Rest, SameList
    DEF Parked, Awaited, OnlyUnit, Kind, Quiet, Control
  <2>3. CASE At("note") /\ Judged
    BY <2>1, <2>3, Rest, SameList
    DEF Judged, Calm, Awaited, OnlyUnit, Kind, Quiet, NoUnit, Control
  <2>4. CASE At("note") /\ Closing
    BY <2>1, <2>4, Rest, SameList
    DEF Closing, Calm, Kind, Quiet, NoUnit, Control
  <2>5. QED BY <1>5, <2>2, <2>3, <2>4, Places2 DEF Note
<1>6. CASE Unwait
  <2>1. /\ UNCHANGED <<tests, power, unit, proc, tunit, tdir>>
        /\ root'.wait = 0 /\ root'.index = root.index
        /\ runner'.todo = Left /\ runner'.idx = runner.idx
    BY <1>6, BasicTypes, RootKeeps, RestIsPlan, Continues DEF Unwait, world
  <2>2. Judged
    BY <1>6, Places2 DEF Unwait
  <2>3. runner.idx < N /\ root.index = runner.idx + 1 /\ Kind(runner.idx + 1) = "reboot"
    BY <2>2, BasicTypes DEF Judged, Awaited
  <2>4. QED
    BY <1>6, <2>1, <2>2, <2>3, Rest, SameList
    DEF Unwait, Judged, Placing, Closing, Calm, Kind, Quiet, NoUnit, Control
<1>7. CASE StopCheck
  <2>1. /\ UNCHANGED <<tests, power, unit, proc, tunit, root>> /\ runner'.idx = runner.idx
        /\ runner'.todo = <<"disable", "rmroot">> \/ runner'.todo = Left
    BY <1>7, SomePlans, RestIsPlan, GoesOn, Continues DEF StopCheck, world, disk
  <2>2. CASE Placing
    BY <1>7, <2>1, <2>2, Rest, SameList
    DEF StopCheck, Placing, Calm, Quiet, NoUnit, Control
  <2>3. CASE Closing
    BY <1>7, <2>1, <2>3, Rest, SameList
    DEF StopCheck, Placing, Closing, Calm, Kind, Quiet, NoUnit, Control
  <2>4. QED BY <1>7, <2>2, <2>3, Places2 DEF StopCheck
<1>8. CASE Load
  <2>1. /\ UNCHANGED <<tests, power, unit, proc, tunit, root>>
        /\ runner'.todo = <<"next">> /\ runner'.idx = root.index
    BY <1>8, LoadDoes DEF Load, world, disk
  <2>2. QED
    BY <1>8, <2>1, Places1, SameList
    DEF Load, Placing, Looping, Calm, Quiet, NoUnit, Control
<1>9. CASE NextTest
  <2>1. /\ UNCHANGED <<tests, power, unit, tunit, root>> /\ Looping /\ runner'.idx = runner.idx
        /\ runner.idx < N /\ runner.idx + 1 \in T
    BY <1>9, SomePlans, GoesOn, BasicTypes, Places1 DEF NextTest, world, disk
  <2>2. CASE Kind(runner.idx + 1) = "reboot"
    <3>1. runner'.todo = <<"mark", "await", "child">> /\ proc' = proc
      BY <1>9, <2>1, <2>2, SomePlans, GoesOn DEF NextTest
    <3>2. QED
      BY <2>1, <2>2, <3>1, SameList DEF Looping, Marking, Calm, Kind, Quiet, NoUnit, Control
  <2>3. CASE Kind(runner.idx + 1) # "reboot"
    <3>1. /\ runner'.todo = <<"child">> /\ proc'[runner.idx + 1].pc = "body"
          /\ \A u \in T : u # runner.idx + 1 => proc'[u] = proc[u]
      BY <1>9, <2>1, <2>3, SomePlans, GoesOn, Started DEF NextTest, Pcs
    <3>2. QED
      BY <2>1, <2>3, <3>1, SameList
      DEF Looping, ShellRun, Calm, Kind, Quiet, NoUnit, OnlyTest, Control
  <2>4. QED BY <2>2, <2>3
<1>10. CASE Mark
  <2>1. /\ UNCHANGED <<tests, power, unit, proc, tunit>> /\ Marking
        /\ root'.wait = root.wait /\ root'.index = runner.idx + 1
        /\ runner'.todo = <<"await", "child">> /\ runner'.idx = runner.idx
    BY <1>10, Places1, BasicTypes, RootKeeps, RestIsPlan, Rest, Continues DEF Mark, Marking, world
  <2>2. QED
    BY <2>1, SameList DEF Marking, Awaiting, Calm, Kind, Quiet, NoUnit, Control
<1>11. CASE Await
  <2>1. runner.idx + 1 \in T /\ Awaiting
    BY <1>11, Places1, BasicTypes DEF Await, Awaiting
  <2>2. /\ UNCHANGED <<tests, power, unit, tdir, tunit, result>>
        /\ root'.wait = runner.idx + 1 /\ root'.index = root.index
        /\ runner'.todo = <<"child">> /\ runner'.idx = runner.idx
    BY <1>11, <2>1, BasicTypes, RootKeeps, RestIsPlan, Rest, Continues DEF Await, world
  <2>3. /\ proc'[runner.idx + 1].pc = "mkdir" /\ proc'[runner.idx + 1].mode = "run"
        /\ \A u \in T : u # runner.idx + 1 => proc'[u] = proc[u]
    BY <1>11, <2>1, Started DEF Await, world, Pcs
  <2>4. Running(runner.idx + 1)'
    BY <2>1, <2>2, <2>3 DEF Awaiting, Running, Calm, NoUnit, Pcs
  <2>5. QED
    BY <2>1, <2>2, <2>3, <2>4, SameList, BasicTypes
    DEF Awaiting, RebootRun, Awaited, Calm, Kind, Quiet, NoUnit, OnlyTest, OnlyUnit, Control
<1>12. CASE Judge
  <2>1. runner.idx + 1 \in T /\ proc[runner.idx + 1].pc = "exit"
    BY <1>12, Places1, BasicTypes DEF Judge, ShellRun, RebootRun, Awaited
  <2>2. /\ UNCHANGED <<tests, power, unit, tdir, tunit, root>> /\ runner'.idx = runner.idx
        /\ proc'[runner.idx + 1].pc = "none" /\ \A u \in T : u # runner.idx + 1 => proc'[u] = proc[u]
    BY <1>12, <2>1, JudgeDoes, Stopped DEF Judge, world
  <2>3. CASE ShellRun
    <3>1. runner'.todo \in {<<"note", "stop", "advance", "next">>, <<"stop", "advance", "next">>}
      BY <1>12, <2>3, JudgedPlan DEF ShellRun
    <3>2. QED
      BY <2>1, <2>2, <2>3, <3>1, SameList
      DEF ShellRun, Closing, Calm, Kind, Quiet, NoUnit, OnlyTest, Control
  <2>4. CASE RebootRun /\ tunit[runner.idx + 1]
    <3>1. runner'.todo = <<"park">>
      BY <1>12, <2>1, <2>4, JudgedPlan DEF RebootRun, Awaited, Running
    <3>2. QED
      BY <2>1, <2>2, <2>4, <3>1, SameList
      DEF RebootRun, Parked, Awaited, Running, Kind, Quiet, OnlyTest, OnlyUnit, Control
  <2>5. CASE RebootRun /\ ~tunit[runner.idx + 1]
    <3>1. runner'.todo \in {<<"note", "unwait", "stop", "advance", "next">>,
                            <<"unwait", "note", "stop", "advance", "next">>}
      BY <1>12, <2>1, <2>5, JudgedPlan DEF RebootRun, Awaited, Running
    <3>2. QED
      BY <2>1, <2>2, <2>5, <3>1, SameList
      DEF RebootRun, Judged, Calm, Awaited, Running, Kind, Quiet, NoUnit, OnlyTest, OnlyUnit, Control
  <2>6. QED BY <1>12, <2>3, <2>4, <2>5, Places1 DEF Judge
<1>13. CASE Advance
  <2>1. /\ UNCHANGED <<tests, power, unit, proc, tunit>> /\ Closing
        /\ root'.wait = root.wait /\ root'.index = runner.idx + 1
        /\ runner'.todo = <<"next">> /\ runner'.idx = runner.idx + 1
    BY <1>13, Places1, AdvanceDoes DEF Advance, world
  <2>2. QED
    BY <2>1, SameList DEF Closing, Looping, Calm, Quiet, NoUnit, Control
<1>14. CASE Conclude
  <2>1. /\ UNCHANGED <<tests, power, unit, proc, tunit, root>> /\ Looping
        /\ runner'.todo = <<"disable", "rmroot">>
    BY <1>14, Places1, SomePlans, GoesOn DEF Conclude, world, disk
  <2>2. QED
    BY <2>1, SameList DEF Looping, Placing, Calm, Quiet, NoUnit, Control
<1>15. CASE Disable
  <2>1. /\ UNCHANGED <<tests, power, proc, tunit>> /\ Placing /\ ~unit'
        /\ runner'.todo = <<"rmroot">>
    BY <1>15, Places1, Rest, RestIsPlan, Continues DEF Disable, world
  <2>2. QED
    BY <2>1, SameList DEF Placing, Over, Calm, Quiet, NoUnit, Control
<1>16. CASE RemoveRoot
  <2>1. /\ UNCHANGED <<tests, power, unit, proc, tunit>> /\ Over /\ runner'.todo = <<>>
    BY <1>16, Places1 DEF RemoveRoot, Off, world
  <2>2. QED
    BY <2>1, SameList DEF Over, Quiet, NoUnit, Control
<1>17. QED
  BY <1>1, <1>2, <1>3, <1>4, <1>5, <1>6, <1>7, <1>8, <1>9, <1>10, <1>11, <1>12, <1>13, <1>14,
     <1>15, <1>16 DEF RunnerStep

LEMMA DirectControl ==
  ASSUME Types, Control, DirectStep
  PROVE  Control'
<1>1. CASE DirectStart
  <2>1. runner.idx + 1 \in T /\ runner.idx < N /\ DirectAt
    BY <1>1, BasicTypes, Places1 DEF DirectStart
  <2>2. /\ UNCHANGED <<tests, power, unit, tunit>> /\ runner'.idx = runner.idx
        /\ runner'.todo = <<"ended">> /\ proc'[runner.idx + 1].pc = "body"
        /\ \A u \in T : u # runner.idx + 1 => proc'[u] = proc[u]
    BY <1>1, <2>1, SomePlans, GoesOn, Started DEF DirectStart, world, Pcs
  <2>3. QED
    BY <2>1, <2>2, SameList DEF DirectAt, DirectRun, Quiet, OnlyTest, NoUnit, Control
<1>2. CASE DirectJudge
  <2>1. DirectRun /\ runner.idx + 1 \in T
    BY <1>2, Places1, BasicTypes DEF DirectJudge, DirectRun
  <2>2. /\ UNCHANGED <<tests, power, unit, tunit>> /\ proc'[runner.idx + 1].pc = "none"
        /\ \A u \in T : u # runner.idx + 1 => proc'[u] = proc[u]
        /\ runner'.todo \in {<<"summary">>, <<"direct">>}
    BY <1>2, <2>1, Stopped, DirectJudgeDoes DEF DirectJudge, world, disk
  <2>3. QED
    BY <2>1, <2>2, SameList DEF DirectAt, DirectRun, Quiet, OnlyTest, NoUnit, Control
<1>3. CASE DirectSummary
  <2>1. DirectAt /\ runner'.todo = <<>> /\ UNCHANGED <<tests, power, unit, tunit, proc>>
    BY <1>3, Places1 DEF DirectSummary, Off, world, disk
  <2>2. QED
    BY <2>1, SameList DEF DirectAt, Over, Quiet, NoUnit, Control
<1>4. QED BY <1>1, <1>2, <1>3 DEF DirectStep

LEMMA MachineControl ==
  ASSUME Trusted, Types, Control, Shutdown \/ PowerLoss \/ Boot
  PROVE  Control'
<1>1. CASE Shutdown \/ PowerLoss
  <2>1. /\ UNCHANGED <<tests, unit, tunit, tdir>> /\ power' = "off" /\ runner'.todo = <<>> /\ Quiet'
        /\ root'.wait = root.wait /\ root'.index = root.index /\ T' = T
    BY <1>1, HaltDoes, IdleType, SameList DEF Off, Quiet, Types, TypeRoot
  <2>2. ~unit => NoUnit
    BY DEF Control, DirectAt, DirectRun, Over, Setup, Down, Booted, Judged, Placing, Looping,
           Marking, Awaiting, ShellRun, RebootRun, Parked, Closing, Calm
  <2>3. unit /\ root.wait = 0 => NoUnit
    BY DEF Control, DirectAt, DirectRun, Over, Setup, Down, Booted, Judged, Placing, Looping,
           Marking, Awaiting, ShellRun, RebootRun, Parked, Closing, Calm, Awaited
  <2>4. unit /\ root.wait # 0 => Awaited /\ (tunit[root.wait] => tdir[root.wait].there)
    <3>1. Booted /\ root.wait # 0 => Awaited /\ (tunit[root.wait] => tdir[root.wait].there)
      BY DEF Booted, Resumed
    <3>2. RebootRun => Awaited /\ (tunit[root.wait] => tdir[root.wait].there)
      BY DEF RebootRun, Running
    <3>3. Judged => Awaited /\ (tunit[root.wait] => tdir[root.wait].there)
      BY BasicTypes DEF Judged, Calm, NoUnit, Awaited
    <3>4. QED
      BY <3>1, <3>2, <3>3
      DEF Control, DirectAt, DirectRun, Over, Setup, Down, Placing, Looping,
          Marking, Awaiting, ShellRun, Parked, Closing
  <2>5. QED
    BY <2>1, <2>2, <2>3, <2>4 DEF Down, Over, Awaited, OnlyUnit, NoUnit, Kind, Control
<1>2. CASE Boot
  <2>1. /\ UNCHANGED <<tests, unit, tunit, tdir, root>> /\ power' = "up" /\ power = "off" /\ T' = T
        /\ proc' = [t \in T |-> IF tunit[t] THEN [pc |-> "mkdir", mode |-> "resume", good |-> TRUE]
                                ELSE Idle]
        /\ runner'.todo = IF unit THEN <<"begin">> ELSE <<>>
    BY <1>2, SameList DEF Boot, Off, disk
  <2>2. Over \/ Down
    BY <2>1 DEF Control, DirectAt, DirectRun, Over, Setup, Down, Booted, Judged, Placing, Looping,
           Marking, Awaiting, ShellRun, RebootRun, Parked, Closing, Calm, Running
  <2>3. CASE ~unit
    BY <2>1, <2>2, <2>3, IdleType DEF Over, Down, Quiet, NoUnit, Control
  <2>4. CASE unit /\ root.wait = 0
    BY <2>1, <2>2, <2>4, IdleType DEF Over, Down, Booted, Quiet, NoUnit, Control
  <2>5. CASE unit /\ root.wait # 0
    <3>1. /\ Awaited /\ (tunit[root.wait] => tdir[root.wait].there) /\ root.wait \in T
      BY <2>2, <2>5, BasicTypes DEF Over, Down
    <3>2. OnlyTest(root.wait)'
      BY <2>1, <3>1, IdleType DEF OnlyTest, Awaited, OnlyUnit
    <3>3. Resumed(root.wait)'
      BY <2>1, <3>1, IdleType DEF Resumed
    <3>4. QED
      BY <2>1, <2>5, <3>1, <3>2, <3>3 DEF Booted, Awaited, OnlyUnit, Kind, Control
  <2>6. QED BY <2>3, <2>4, <2>5
<1>3. QED BY <1>1, <1>2

-----------------------------------------------------------------------------
(* One test at a time                                                       *)

LEMMA InitInv == Init => Inv
<1> SUFFICES ASSUME Init PROVE Inv
  OBVIOUS
<1>1. tests \in Seq(Scripts)
  BY RunAssumption DEF Init
<1>2. N \in Nat /\ T = 1..N
  BY <1>1 DEF N, T
<1>3. /\ runner.todo \in {<<"prepare", "enable", "begin">>, <<"direct">>}
      /\ runner.todo \in Plans
      /\ runner.idx = 0 /\ runner.fails = 0 /\ runner.res = "none"
      /\ runner = [todo |-> runner.todo, idx |-> 0, fails |-> 0, res |-> "none"]
  BY DEF Init, Off, Plans
<1>4. TypeWorld
  <2>1. MaxLosses \in Nat /\ losses = 0
    BY RunAssumption DEF Init
  <2>2. losses \in 0..MaxLosses
    BY <2>1
  <2>3. QED BY <2>2 DEF Init, TypeWorld
<1>5. TypeRoot
  BY <1>2 DEF Init, TypeRoot, Fresh
<1>6. TypeTests
  BY DEF Init, TypeTests, NoDir
<1>7. TypeRunner
  BY <1>2, <1>3 DEF TypeRunner
<1>8. TypeProc
  BY IdleType DEF Init, TypeProc
<1>9. Quiet /\ NoUnit
  BY IdleType DEF Init, Quiet, NoUnit
<1>10. Setup \/ DirectAt
  BY <1>3, <1>9 DEF Init, Setup, DirectAt
<1>11. QED BY <1>4, <1>5, <1>6, <1>7, <1>8, <1>10 DEF Inv, Types, Control

LEMMA NextInv ==
  ASSUME Trusted, Inv, [Next]_vars
  PROVE  Inv'
<1> USE DEF Inv
<1>1. ASSUME NEW t \in T, TestStep(t) PROVE Inv'
  BY <1>1, TestEffect, TestControl
<1>2. CASE RunnerStep
  BY <1>2, RunnerTypes, RunnerControl
<1>3. CASE DirectStep
  BY <1>3, DirectTypes, DirectControl
<1>4. CASE Shutdown \/ PowerLoss \/ Boot
  BY <1>4, MachineTypes, MachineControl
<1>5. CASE UNCHANGED vars
  <2>1. /\ UNCHANGED <<tests, stops, power, losses>> /\ UNCHANGED <<root, unit, tdir, tunit, result>>
        /\ UNCHANGED <<runner, proc, told, verdict>> /\ T' = T /\ N' = N
    BY <1>5, SameList DEF vars, world, disk, said
  <2>2. Types'
    BY <2>1 DEF Types, TypeWorld, TypeRoot, TypeTests, TypeRunner, TypeProc
  <2>3. Control'
    BY <2>1, SMTT(20) DEF Control, DirectAt, DirectRun, Over, Setup, Down, Booted, Judged, Placing, Looping,
                Marking, Awaiting, ShellRun, RebootRun, Parked, Closing, Calm, Quiet, NoUnit,
                OnlyTest, OnlyUnit, Awaited, Resumed, Running, Kind
  <2>4. QED BY <2>2, <2>3
<1>6. QED BY <1>1, <1>2, <1>3, <1>4, <1>5 DEF Next

LEMMA ControlSequential ==
  ASSUME Inv
  PROVE  Sequential
<1> SUFFICES ASSUME NEW t \in T, NEW u \in T, proc[t].pc # "none", proc[u].pc # "none"
             PROVE  t = u
  BY DEF Sequential
<1>1. Types /\ Control
  BY DEF Inv
<1>2. /\ \/ DirectRun /\ t = runner.idx + 1
         \/ Booted /\ root.wait = t
         \/ ShellRun /\ t = runner.idx + 1
         \/ RebootRun /\ root.wait = t
  BY <1>1, Active
<1>3. root.wait = t /\ Booted => OnlyTest(root.wait)
  BY <1>1, BasicTypes DEF Booted
<1>4. QED BY <1>2, <1>3 DEF DirectRun, ShellRun, RebootRun, OnlyTest

(* Whatever the list of tests, and wherever power is lost but in the steps *)
(* that write the place: no two test scripts run at the same time, neither *)
(* two of the runner nor one of the runner and one that systemd resumed    *)
(* (autotest_builder.c, check_waiting_reboot and the loop of the runner).  *)
THEOREM RunsInTurn == ASSUME Trusted PROVE Spec => []Sequential
<1>1. Init => Inv
  BY InitInv
<1>2. Inv /\ [Next]_vars => Inv'
  BY NextInv
<1>3. Inv => Sequential
  BY ControlSequential
<1>4. QED BY <1>1, <1>2, <1>3, PTL DEF Spec

-----------------------------------------------------------------------------
(* What has been told, for each plan of the runner                          *)

Told(k) == \A t \in T : told[t] # "none" <=> t <= k
Failed == \E t \in T : told[t] = "ng"
Going == stops => ~Failed
SameCount == runner.fails = root.fails
OneMore == runner.fails = PlusOne(root.fails)

(* The count on disk tells a failure unless it was cut down. *)
Counts == (Failed => root.fails # 0) /\ (root.fails > 0 => Failed)

(* The runner will find test w, already told as failed, failed again. *)
Bad(w) == tdir[w].there \/ result[w] \in {"none", "ng"}
Noted(w) == Told(w) /\ told[w] = "ng" /\ proc[w].pc = "none" /\ ~tunit[w] /\ Bad(w)

(* All tests up to place k have been told, and perhaps the failure of the   *)
(* next one, which will be run again.                                       *)
Placed(k) == \/ Told(k)
             \/ k < N /\ Told(k + 1) /\ told[k + 1] = "ng" /\ Kind(k + 1) = "shell"

Open == /\ verdict = "none" /\ Counts
        /\ IF root.wait = 0 THEN Placed(root.index) /\ (stops /\ Failed => root.fails > 0)
           ELSE (Told(root.wait - 1) /\ Going) \/ Noted(root.wait)
Settled == /\ verdict # "none" /\ root.wait = 0 /\ (verdict = "ok" <=> root.fails = 0)
           /\ root.index = N \/ (stops /\ root.fails > 0)
Reading == (Open /\ Going) \/ (Settled /\ root.index = N)
Setting == SameCount /\ Told(runner.idx) /\ Going /\ Counts /\ verdict = "none"
ToClose == /\ Open /\ SameCount /\ runner.res \in {"ok", "ng"}
           /\ runner.res = "ng" => told[runner.idx + 1] = "ng"
Direct == verdict = "none" /\ (Failed <=> runner.fails # 0) /\ runner.fails # Torn

Tale ==
  /\ runner.todo \in {<<"direct">>, <<"ended">>} => Direct /\ Told(runner.idx) /\ Going
  /\ runner.todo = <<"summary">> => Direct /\ stops /\ Failed
  /\ runner.todo \in {<<"prepare", "enable", "begin">>, <<"enable", "begin">>} =>
       verdict = "none" /\ Told(0)
  /\ runner.todo = <<>> /\ unit => Open \/ Settled
  /\ runner.todo \in {<<"begin">>, <<"stop", "load", "next">>} => Open \/ Settled
  /\ runner.todo = <<"waiting", "stop", "load", "next">> => Open
  /\ runner.todo = <<"load", "next">> => Reading
  /\ runner.todo = <<"next">> => Reading /\ SameCount
  /\ runner.todo \in {<<"mark", "await", "child">>, <<"await", "child">>} => Setting
  /\ runner.todo = <<"child">> => Open /\ Going /\ SameCount
  /\ runner.todo = <<"park">> => Open /\ SameCount
  /\ runner.todo = <<"note", "unwait", "stop", "load", "next">> =>
       Open /\ \/ runner.res = "ng" /\ OneMore /\ Bad(root.wait)
               \/ runner.res = "ok" /\ SameCount /\ Told(runner.idx)
  /\ runner.todo = <<"note", "unwait", "stop", "advance", "next">> =>
       Open /\ runner.res = "ng" /\ OneMore /\ Bad(root.wait)
  /\ runner.todo \in {<<"unwait", "stop", "advance", "next">>, <<"unwait", "stop", "load", "next">>}
       => Open /\ SameCount /\ \/ runner.res = "ng" /\ Noted(root.wait) /\ root.fails > 0
                               \/ runner.res = "ok" /\ Told(runner.idx)
  /\ runner.todo = <<"unwait", "note", "stop", "advance", "next">> =>
       Open /\ SameCount /\ Told(runner.idx) /\ runner.res = "ok"
  /\ runner.todo = <<"note", "stop", "advance", "next">> =>
       Open /\ Going /\ IF Kind(runner.idx + 1) = "reboot" THEN runner.res = "ok" /\ SameCount
                        ELSE runner.res = "ng" /\ OneMore
  /\ runner.todo = <<"stop", "advance", "next">> => ToClose
  /\ runner.todo = <<"advance", "next">> => ToClose /\ Going
  /\ runner.todo = <<"disable", "rmroot">> => Settled

-----------------------------------------------------------------------------
(* The told outcomes are those of AtSequence                                *)

Refines == [Sequence!Next]_(Sequence!vars)

LEMMA Silent ==
  ASSUME UNCHANGED <<stops, told, verdict>>
  PROVE  Refines
  BY DEF Refines, Sequence!vars

LEMMA Records ==
  ASSUME Types, NEW t \in T, NEW outcome \in {"ok", "ng"},
         verdict = "none", Told(t - 1), Going, told' = [told EXCEPT ![t] = outcome],
         UNCHANGED <<stops, verdict>>
  PROVE  Refines
<1>1. Sequence!Tests = T /\ \A u \in 1..(t - 1) : u \in T
  BY BasicTypes DEF Sequence!Tests, Types, TypeTests
<1>2. told[t] = "none" /\ \A u \in 1..(t - 1) : told[u] # "none"
  BY <1>1, BasicTypes DEF Told
<1>3. ~(stops /\ Sequence!Failed)
  BY <1>1 DEF Going, Failed, Sequence!Failed
<1>4. Sequence!Record(t)
  BY <1>2, <1>3 DEF Sequence!Record
<1>5. QED BY <1>1, <1>4 DEF Refines, Sequence!Next

LEMMA Concludes1 ==
  ASSUME Types, verdict = "none", NEW v \in {"ok", "ng"}, verdict' = v,
         (\A t \in T : told[t] # "none") \/ (stops /\ Failed),
         v = "ok" => \A t \in T : told[t] = "ok",
         UNCHANGED <<stops, told>>
  PROVE  Refines
<1>1. Sequence!Tests = T
  BY DEF Sequence!Tests, Types, TypeTests
<1>2. Sequence!Conclude
  BY <1>1 DEF Sequence!Conclude, Failed, Sequence!Failed
<1>3. QED BY <1>2 DEF Refines, Sequence!Next

(* A test is told of at its turn, or was already.                           *)
LEMMA Tells ==
  ASSUME Types, NEW t \in T, Tell(t), runner.res \in {"ok", "ng"}, verdict = "none",
         told[t] # "none" \/ (Told(t - 1) /\ Going),
         UNCHANGED <<stops, verdict>>
  PROVE  /\ Refines
         /\ told'[t] = IF told[t] = "none" THEN runner.res ELSE told[t]
         /\ \A u \in T : u # t => told'[u] = told[u]
         /\ told[t] # "none" => told' = told
<1>1. CASE told[t] # "none"
  BY <1>1, Silent DEF Tell
<1>2. CASE told[t] = "none"
  <2>1. told' = [told EXCEPT ![t] = runner.res] /\ Told(t - 1) /\ Going
    BY <1>2 DEF Tell
  <2>2. Refines
    BY <2>1, Records
  <2>3. QED
    BY <1>2, <2>1, <2>2 DEF Types, TypeTests
<1>3. QED BY <1>1, <1>2

(* The parts of Tale are kept as long as what they speak of is.             *)
LEMMA SameTale ==
  ASSUME Types, UNCHANGED <<tests, stops, told, verdict>>
  PROVE  /\ \A k : Told(k)' <=> Told(k)
         /\ \A k : Placed(k)' <=> Placed(k)
         /\ Failed' <=> Failed
         /\ Going' <=> Going
         /\ root'.fails = root.fails => (Counts' <=> Counts)
         /\ root' = root => (Settled' <=> Settled)
<1>1. T' = T /\ N' = N
  BY SameList
<1>2. \A k : Told(k)' <=> Told(k)
  BY <1>1 DEF Told
<1>3. (Failed' <=> Failed) /\ (Going' <=> Going)
  BY <1>1 DEF Failed, Going
<1>4. \A k : Placed(k)' <=> Placed(k)
  BY <1>1, <1>2 DEF Placed, Kind
<1>5. QED BY <1>1, <1>2, <1>3, <1>4 DEF Counts, Settled

(* Tale for the plan a step leaves, *)
LEMMA TaleNext ==
  /\ runner'.todo \in {<<"direct">>, <<"ended">>} /\ Direct' /\ Told(runner.idx)' /\ Going' => Tale'
  /\ runner'.todo = <<"summary">> /\ Direct' /\ stops' /\ Failed' => Tale'
  /\ runner'.todo = <<"enable", "begin">> /\ verdict' = "none" /\ Told(0)' => Tale'
  /\ runner'.todo = <<>> /\ (unit' => Open' \/ Settled') => Tale'
  /\ runner'.todo \in {<<"begin">>, <<"stop", "load", "next">>} /\ (Open' \/ Settled') => Tale'
  /\ runner'.todo = <<"waiting", "stop", "load", "next">> /\ Open' => Tale'
  /\ runner'.todo = <<"load", "next">> /\ Reading' => Tale'
  /\ runner'.todo = <<"next">> /\ Reading' /\ SameCount' => Tale'
  /\ runner'.todo \in {<<"mark", "await", "child">>, <<"await", "child">>} /\ Setting' => Tale'
  /\ runner'.todo = <<"child">> /\ Open' /\ Going' /\ SameCount' => Tale'
  /\ runner'.todo = <<"park">> /\ Open' /\ SameCount' => Tale'
  /\ runner'.todo = <<"stop", "advance", "next">> /\ ToClose' => Tale'
  /\ runner'.todo = <<"advance", "next">> /\ ToClose' /\ Going' => Tale'
  /\ runner'.todo = <<"disable", "rmroot">> /\ Settled' => Tale'
  /\ runner'.todo = <<"rmroot">> => Tale'
<1>1. ASSUME runner'.todo \in {<<"direct">>, <<"ended">>} /\ Direct' /\ Told(runner.idx)' /\ Going' PROVE Tale'
  BY <1>1 DEF Tale
<1>2. ASSUME runner'.todo = <<"summary">> /\ Direct' /\ stops' /\ Failed' PROVE Tale'
  BY <1>2 DEF Tale
<1>3. ASSUME runner'.todo = <<"enable", "begin">> /\ verdict' = "none" /\ Told(0)' PROVE Tale'
  BY <1>3 DEF Tale
<1>4. ASSUME runner'.todo = <<>> /\ (unit' => Open' \/ Settled') PROVE Tale'
  BY <1>4 DEF Tale
<1>5. ASSUME runner'.todo \in {<<"begin">>, <<"stop", "load", "next">>} /\ (Open' \/ Settled') PROVE Tale'
  BY <1>5 DEF Tale
<1>6. ASSUME runner'.todo = <<"waiting", "stop", "load", "next">> /\ Open' PROVE Tale'
  BY <1>6 DEF Tale
<1>7. ASSUME runner'.todo = <<"load", "next">> /\ Reading' PROVE Tale'
  BY <1>7 DEF Tale
<1>8. ASSUME runner'.todo = <<"next">> /\ Reading' /\ SameCount' PROVE Tale'
  BY <1>8 DEF Tale
<1>9. ASSUME runner'.todo \in {<<"mark", "await", "child">>, <<"await", "child">>} /\ Setting' PROVE Tale'
  BY <1>9 DEF Tale
<1>10. ASSUME runner'.todo = <<"child">> /\ Open' /\ Going' /\ SameCount' PROVE Tale'
  BY <1>10 DEF Tale
<1>11. ASSUME runner'.todo = <<"park">> /\ Open' /\ SameCount' PROVE Tale'
  BY <1>11 DEF Tale
<1>12. ASSUME runner'.todo = <<"stop", "advance", "next">> /\ ToClose' PROVE Tale'
  BY <1>12 DEF Tale
<1>13. ASSUME runner'.todo = <<"advance", "next">> /\ ToClose' /\ Going' PROVE Tale'
  BY <1>13 DEF Tale
<1>14. ASSUME runner'.todo = <<"disable", "rmroot">> /\ Settled' PROVE Tale'
  BY <1>14 DEF Tale
<1>15. ASSUME runner'.todo = <<"rmroot">> PROVE Tale'
  BY <1>15 DEF Tale
<1>16. QED BY <1>1, <1>2, <1>3, <1>4, <1>5, <1>6, <1>7, <1>8, <1>9, <1>10, <1>11, <1>12, <1>13, <1>14, <1>15

LEMMA TaleNote ==
  ASSUME Open', runner'.todo \in {<<"note", "unwait", "stop", "load", "next">>,
                                  <<"note", "unwait", "stop", "advance", "next">>},
         \/ runner'.res = "ng" /\ OneMore' /\ Bad(root.wait)'
         \/ /\ runner'.todo = <<"note", "unwait", "stop", "load", "next">>
            /\ runner'.res = "ok" /\ SameCount' /\ Told(runner.idx)'
  PROVE  Tale'
  BY DEF Tale

LEMMA TaleUnwait ==
  ASSUME Open', SameCount',
         runner'.todo \in {<<"unwait", "stop", "advance", "next">>,
                           <<"unwait", "stop", "load", "next">>},
         \/ runner'.res = "ng" /\ Noted(root.wait)' /\ root'.fails > 0
         \/ runner'.res = "ok" /\ Told(runner.idx)'
  PROVE  Tale'
  BY DEF Tale

LEMMA TaleUnwaitFirst ==
  ASSUME Open', SameCount', runner'.todo = <<"unwait", "note", "stop", "advance", "next">>,
         Told(runner.idx)', runner'.res = "ok"
  PROVE  Tale'
  BY DEF Tale

LEMMA TaleNoteLast ==
  ASSUME Open', Going', runner'.todo = <<"note", "stop", "advance", "next">>,
         IF Kind(runner.idx + 1)' = "reboot" THEN runner'.res = "ok" /\ SameCount'
         ELSE runner'.res = "ng" /\ OneMore'
  PROVE  Tale'
  BY DEF Tale

(* and for the step it takes.                                               *)
LEMMA TaleAt ==
  ASSUME Types, Tale
  PROVE  /\ At("direct") \/ At("ended") => Direct /\ Told(runner.idx) /\ Going
         /\ At("summary") => Direct /\ stops /\ Failed
         /\ At("prepare") \/ At("enable") => verdict = "none" /\ Told(0)
         /\ At("begin") => Open \/ Settled
         /\ At("waiting") => Open
         /\ At("load") => Reading
         /\ At("next") => Reading /\ SameCount
         /\ At("mark") \/ At("await") => Setting
         /\ At("child") => Open /\ Going /\ SameCount
         /\ At("park") => Open /\ SameCount
         /\ At("advance") => ToClose /\ Going
         /\ At("disable") => Settled
  BY BasicTypes, Steps1, ZenonT(40) DEF Tale

LEMMA NotedStays ==
  ASSUME Types, UNCHANGED <<tests, stops, told, verdict, proc, tdir, tunit, result>>
  PROVE  \A w : (Noted(w)' <=> Noted(w)) /\ (Bad(w)' <=> Bad(w))
  BY SameTale DEF Noted, Bad

LEMMA OpenStays ==
  ASSUME Types, Open, UNCHANGED <<tests, stops, told, verdict>>,
         root'.index = root.index, root'.wait = root.wait, root'.fails = root.fails,
         root.wait # 0 /\ Noted(root.wait) => Noted(root.wait)'
  PROVE  Open'
<1>1. Open' <=> /\ verdict' = "none" /\ Counts'
                /\ IF root'.wait = 0
                   THEN Placed(root.index)' /\ (stops' /\ Failed' => root'.fails > 0)
                   ELSE (Told(root.wait - 1)' /\ Going') \/ Noted(root.wait)'
  BY DEF Open
<1>2. (Placed(root.index)' <=> Placed(root.index)) /\ (Told(root.wait - 1)' <=> Told(root.wait - 1))
  BY SameTale DEF Placed, Told
<1>3. (Counts' <=> Counts) /\ (Failed' <=> Failed) /\ (Going' <=> Going)
  BY SameTale
<1>4. QED BY <1>1, <1>2, <1>3 DEF Open

(* A step of a test tells nothing.                                          *)
LEMMA TestTale ==
  ASSUME Types, Control, Tale, NEW t \in T, TestStep(t)
  PROVE  Tale' /\ Refines
<1>1. /\ TestDoes(t) /\ UNCHANGED <<tests, stops, losses, root, unit, runner, told, verdict>>
  BY TestEffect
<1>2. proc[t].pc # "none"
  BY <1>1 DEF TestDoes
<1>3. \A w \in T : Noted(w) => Noted(w)'
  BY <1>1, <1>2, SameTale DEF Noted, Bad, TestDoes, Moves, SameOther, SameDirs
<1>4. Open => Open'
  BY <1>1, <1>3, OpenStays, BasicTypes
<1>5. Settled' <=> Settled
  BY <1>1, SameTale
<1>6. (Told(runner.idx)' <=> Told(runner.idx)) /\ (Going' <=> Going) /\ (Direct' <=> Direct)
      /\ (SameCount' <=> SameCount)
  BY <1>1, SameTale DEF Direct, SameCount, Told
<1>7. runner.todo \in {<<"ended">>, <<"begin">>, <<"waiting", "stop", "load", "next">>, <<"child">>}
  BY <1>2, Active DEF DirectRun, Booted, ShellRun, RebootRun
<1>8. Tale'
  BY <1>1, <1>4, <1>5, <1>6, <1>7, TaleNext DEF Tale
<1>9. QED BY <1>1, <1>8, Silent

LEMMA OpenKeeps ==
  ASSUME Types, Open,
         UNCHANGED <<tests, stops, told, verdict, proc, tdir, tunit, result, root>>
  PROVE  Open'
  BY OpenStays, NotedStays

(* The runner's steps, with what each tells.                                *)
LEMMA SetupTale ==
  ASSUME Types, Control, Tale, Prepare \/ Enable \/ Begin
  PROVE  Tale' /\ Refines
<1>1. UNCHANGED <<tests, stops, told, verdict, proc, tdir, tunit, result>>
  BY DEF Prepare, Enable, Begin, world, disk, said
<1>2. Refines
  BY <1>1, Silent
<1>3. CASE Prepare
  <2>1. runner'.todo = <<"enable", "begin">>
    BY <1>1, <1>3, Rest, RestIsPlan, Continues DEF Prepare
  <2>2. verdict' = "none" /\ Told(0)'
    BY <1>1, <1>3, TaleAt, SameTale DEF Prepare
  <2>3. QED BY <1>2, <2>1, <2>2, TaleNext
<1>4. CASE Enable
  <2>1. runner'.todo = <<"begin">>
    BY <1>1, <1>4, Rest, RestIsPlan, Continues DEF Enable
  <2>2. verdict = "none" /\ Told(0) /\ root = Fresh /\ root' = root
    BY <1>4, TaleAt, Places1 DEF Enable, Setup
  <2>3. ~Failed
    BY <2>2, BasicTypes DEF Told, Failed
  <2>4. Open
    BY <2>2, <2>3 DEF Open, Counts, Placed, Fresh
  <2>5. QED BY <1>1, <1>2, <2>1, <2>2, <2>4, OpenKeeps, TaleNext
<1>5. CASE Begin
  <2>1. root' = root /\ (Open \/ Settled)
    BY <1>5, TaleAt DEF Begin, disk
  <2>2. (Open => Open') /\ (Settled => Settled')
    BY <1>1, <2>1, OpenKeeps, SameTale
  <2>3. /\ <<"waiting">> \o <<"stop", "load", "next">> = <<"waiting", "stop", "load", "next">>
        /\ <<>> \o <<"stop", "load", "next">> = <<"stop", "load", "next">>
    BY Join0, Join1
  <2>4. CASE root.wait # 0
    <3>1. runner'.todo = <<"waiting", "stop", "load", "next">>
      BY <1>1, <1>5, <2>3, <2>4, SomePlans, GoesOn DEF Begin
    <3>2. Open
      BY <2>1, <2>4 DEF Settled
    <3>3. QED BY <1>2, <2>2, <3>1, <3>2, TaleNext
  <2>5. CASE root.wait = 0
    <3>1. runner'.todo = <<"stop", "load", "next">>
      BY <1>1, <1>5, <2>3, <2>5, SomePlans, GoesOn DEF Begin
    <3>2. QED BY <1>2, <2>1, <2>2, <3>1, TaleNext
  <2>6. QED BY <2>4, <2>5
<1>6. QED BY <1>3, <1>4, <1>5

LEMMA WaitedTale ==
  ASSUME Types, Control, Tale, Waited
  PROVE  Tale' /\ Refines
<1> DEFINE w == root.wait
<1>1. /\ UNCHANGED <<tests, stops, told, verdict, proc, tdir, tunit, root>> /\ w \in T /\ w # 0
      /\ result' = IF ~tdir[w].there THEN [result EXCEPT ![w] = "none"] ELSE result
  BY WaitedDoes, BasicTypes DEF Waited, world, said
<1>2. /\ runner'.todo = <<"note", "unwait", "stop", "load", "next">> /\ runner'.idx = w - 1
      /\ runner'.fails = IF Bad(w) THEN PlusOne(root.fails) ELSE root.fails
      /\ runner'.res = IF Bad(w) THEN "ng" ELSE "ok"
  BY WaitedDoes DEF Bad
<1>3. Open
  BY TaleAt DEF Waited
<1>4. Bad(w) => Bad(w)'
  BY <1>1 DEF Bad, Types, TypeTests
<1>5. Noted(w) => Bad(w) /\ Noted(w)'
  BY <1>1, <1>4, SameTale DEF Noted
<1>6. Open'
  BY <1>1, <1>3, <1>5, OpenStays
<1>7. CASE Bad(w)
  <2>1. runner'.res = "ng" /\ OneMore' /\ Bad(root.wait)'
    BY <1>1, <1>2, <1>4, <1>7 DEF OneMore
  <2>2. QED BY <1>1, <1>2, <1>6, <2>1, TaleNote, Silent
<1>8. CASE ~Bad(w)
  <2>1. Told(w - 1)
    BY <1>1, <1>3, <1>5, <1>8 DEF Open
  <2>2. runner'.res = "ok" /\ SameCount' /\ Told(runner.idx)'
    BY <1>1, <1>2, <1>8, <2>1, SameList DEF SameCount, Told
  <2>3. QED BY <1>1, <1>2, <1>6, <2>2, TaleNote, Silent
<1>9. QED BY <1>7, <1>8

LEMMA NoteTale ==
  ASSUME Types, Control, Tale, Note
  PROVE  Tale' /\ Refines
<1> DEFINE w == runner.idx + 1
<1>1. /\ UNCHANGED <<tests, stops, verdict, proc, tdir, tunit, result>> /\ T' = T /\ N' = N
      /\ root'.fails = runner.fails /\ root'.index = root.index /\ root'.wait = root.wait
      /\ runner'.todo = Left /\ runner'.idx = runner.idx /\ runner'.fails = runner.fails
      /\ runner'.res = runner.res /\ SameCount'
  <2>1. /\ UNCHANGED <<tests, stops, verdict, proc, tdir, tunit, result>> /\ Done
        /\ (At("note") \/ At("park")) /\ root' = [root EXCEPT !.fails = runner.fails]
    BY DEF Note, world
  <2>2. tests' = tests /\ Left \in Plans
    BY <2>1, RestIsPlan
  <2>3. root'.fails = runner.fails /\ root'.index = root.index /\ root'.wait = root.wait
    BY <2>1, <2>2, RootKeeps, BasicTypes
  <2>4. QED BY <2>1, <2>2, <2>3, Continues, SameList DEF SameCount
<1>2. CASE At("park")
  <2>1. Open /\ SameCount /\ UNCHANGED told /\ runner'.todo = <<>>
    <3>1. ~At("note")
      BY <1>2 DEF At
    <3>2. QED BY <1>1, <1>2, <3>1, TaleAt, Rest DEF Note
  <2>2. Open'
    BY <1>1, <2>1, OpenStays, NotedStays DEF SameCount
  <2>3. QED BY <1>1, <2>1, <2>2, TaleNext, Silent
<1>3. ASSUME At("note"), runner.res # "ng", Open, SameCount
      PROVE  Open' /\ Refines /\ UNCHANGED told
  BY <1>1, <1>3, OpenStays, NotedStays, Silent DEF Note, SameCount
<1>4. ASSUME At("note"), runner.res = "ng", Open, OneMore, w \in T,
             told[w] = "ng" \/ (Told(w - 1) /\ Going)
      PROVE  /\ Refines /\ told'[w] = "ng" /\ Failed' /\ Counts' /\ root'.fails > 0
             /\ verdict' = "none" /\ \A t \in T : t # w => told'[t] = told[t]
             /\ Told(w - 1) \/ Told(w) => Told(w)'
  <2>1. Tell(w) /\ verdict = "none"
    BY <1>4 DEF Note, Open
  <2>2. /\ Refines /\ told'[w] = IF told[w] = "none" THEN "ng" ELSE told[w]
        /\ \A t \in T : t # w => told'[t] = told[t]
    BY <1>1, <1>4, <2>1, Tells
  <2>3. told'[w] = "ng"
    BY <1>4, <2>2, BasicTypes DEF Told
  <2>4. root'.fails > 0 /\ root'.fails # 0
    <3>1. PlusOne(root.fails) \in Nat /\ PlusOne(root.fails) > 0
      BY PlusOneType, BasicTypes
    <3>2. root'.fails = PlusOne(root.fails)
      BY <1>1, <1>4 DEF OneMore
    <3>3. QED BY <3>1, <3>2
  <2>5. Told(w - 1) \/ Told(w) => Told(w)'
    BY <1>1, <1>4, <2>2, <2>3, BasicTypes DEF Told
  <2>6. Failed'
    BY <1>1, <1>4, <2>3 DEF Failed
  <2>7. QED BY <1>1, <2>1, <2>2, <2>3, <2>4, <2>5, <2>6 DEF Counts
<1>5. CASE \/ /\ runner.todo = <<"note", "unwait", "stop", "load", "next">>
              /\ Left = <<"unwait", "stop", "load", "next">>
           \/ /\ runner.todo = <<"note", "unwait", "stop", "advance", "next">>
              /\ Left = <<"unwait", "stop", "advance", "next">>
  <2>1. At("note")
    BY <1>5 DEF At
  <2>2. Judged /\ Calm /\ root.wait = w /\ w \in T
    BY <1>5, <2>1, Places2, BasicTypes DEF Judged, Awaited, Closing
  <2>3. /\ Open
        /\ \/ runner.res = "ng" /\ OneMore /\ Bad(root.wait)
           \/ runner.res = "ok" /\ SameCount /\ Told(runner.idx)
    BY <1>5 DEF Tale
  <2>4. (Told(w - 1) /\ Going) \/ Noted(w)
    BY <2>2, <2>3, BasicTypes DEF Open
  <2>5. CASE runner.res = "ng" /\ OneMore /\ Bad(root.wait)
    <3>1. /\ Refines /\ told'[w] = "ng" /\ Counts' /\ root'.fails > 0 /\ verdict' = "none" /\ Told(w)'
      BY <1>4, <2>1, <2>2, <2>3, <2>4, <2>5 DEF Noted
    <3>2. Noted(w)'
      BY <1>1, <2>2, <2>5, <3>1 DEF Noted, Bad, Calm, Quiet, NoUnit
    <3>3. root'.wait = w /\ w # 0
      BY <1>1, <2>2, BasicTypes
    <3>4. Open' /\ Noted(root.wait)'
      <4>1. Noted(root.wait)'
        BY <1>1, <3>2, <3>3 DEF Noted, Told, Bad
      <4>2. root'.wait # 0
        BY <3>3
      <4>3. QED BY <3>1, <4>1, <4>2 DEF Open
    <3>5. QED BY <1>1, <1>5, <2>5, <3>1, <3>4, TaleUnwait
  <2>6. CASE runner.res = "ok" /\ SameCount /\ Told(runner.idx)
    <3>1. Open' /\ Refines /\ UNCHANGED told
      BY <1>3, <2>1, <2>3, <2>6
    <3>2. Told(runner.idx)'
      BY <1>1, <2>6, <3>1 DEF Told
    <3>3. QED BY <1>1, <1>5, <2>6, <3>1, <3>2, TaleUnwait
  <2>7. QED BY <2>3, <2>5, <2>6
<1>6. CASE /\ runner.todo = <<"note", "stop", "advance", "next">>
           /\ Left = <<"stop", "advance", "next">>
  <2>1. At("note")
    BY <1>6 DEF At
  <2>2. /\ Closing /\ root.wait = 0 /\ w \in T /\ w <= N
        /\ root.index = IF Kind(w) = "reboot" THEN w ELSE runner.idx
    BY <1>6, <2>1, Places2, BasicTypes DEF Judged, Closing
  <2>3. /\ Open /\ Going
        /\ IF Kind(w) = "reboot" THEN runner.res = "ok" /\ SameCount
           ELSE runner.res = "ng" /\ OneMore
    BY <1>6 DEF Tale
  <2>4. CASE Kind(w) = "reboot"
    <3>1. Open' /\ Refines
      BY <1>3, <2>1, <2>3, <2>4
    <3>2. ToClose'
      BY <1>1, <2>3, <2>4, <3>1 DEF ToClose
    <3>3. QED BY <1>1, <1>6, <3>1, <3>2, TaleNext
  <2>5. CASE Kind(w) # "reboot"
    <3>1. Placed(runner.idx) /\ root'.index = runner.idx /\ root'.wait = 0
      BY <1>1, <2>2, <2>3, <2>5 DEF Open
    <3>2. told[w] = "ng" \/ Told(w - 1)
      BY <3>1, BasicTypes DEF Placed
    <3>3. Told(w - 1) \/ Told(w)
      BY <3>1, BasicTypes DEF Placed
    <3>4. /\ Refines /\ told'[w] = "ng" /\ Counts' /\ root'.fails > 0 /\ verdict' = "none" /\ Told(w)'
      BY <1>4, <2>1, <2>2, <2>3, <2>5, <3>2, <3>3
    <3>5. Placed(runner.idx)'
      BY <1>1, <2>2, <2>5, <3>4, BasicTypes DEF Placed, Kind, Told
    <3>6. Open'
      BY <1>1, <3>1, <3>4, <3>5 DEF Open, Placed, Told, Kind
    <3>7. ToClose'
      BY <1>1, <2>3, <2>5, <3>4, <3>6 DEF ToClose
    <3>8. QED BY <1>1, <1>6, <3>4, <3>7, TaleNext
  <2>6. QED BY <2>4, <2>5
<1>7. QED BY <1>2, <1>5, <1>6, Rest DEF Note

LEMMA UnwaitTale ==
  ASSUME Types, Control, Tale, Unwait
  PROVE  Tale' /\ Refines
<1>1. Judged /\ Awaited /\ root.wait = runner.idx + 1
  BY Places2 DEF Unwait, Judged
<1>2. PICK w \in T : w = runner.idx + 1 /\ w - 1 = runner.idx /\ w = root.wait /\ w = root.index
  BY <1>1, BasicTypes DEF Awaited
<1>3. /\ UNCHANGED <<tests, stops, verdict, proc, tdir, tunit, result>> /\ T' = T /\ N' = N
      /\ root'.fails = root.fails /\ root'.index = w /\ root'.wait = 0
      /\ runner'.todo = Left /\ runner'.idx = runner.idx /\ runner'.fails = runner.fails
      /\ runner'.res = runner.res
  <2>1. /\ UNCHANGED <<tests, stops, verdict, proc, tdir, tunit, result>> /\ Done /\ At("unwait")
        /\ root' = [root EXCEPT !.wait = 0]
    BY DEF Unwait, world
  <2>2. tests' = tests /\ Left \in Plans
    BY <2>1, RestIsPlan
  <2>3. root'.fails = root.fails /\ root'.index = root.index /\ root'.wait = 0
    BY <2>1, <2>2, RootKeeps, BasicTypes
  <2>4. QED BY <1>2, <2>1, <2>2, <2>3, Continues, SameList
<1>4. Tell(w) /\ At("unwait")
  BY <1>2 DEF Unwait
<1>5. /\ Open /\ SameCount
      /\ \/ runner.res = "ng" /\ Noted(w) /\ root.fails > 0
            /\ runner.todo # <<"unwait", "note", "stop", "advance", "next">>
         \/ runner.res = "ok" /\ Told(runner.idx)
  BY <1>2, <1>4, Steps2, BasicTypes DEF Tale
<1>6. CASE /\ runner.res = "ng" /\ Noted(w) /\ root.fails > 0
           /\ runner.todo # <<"unwait", "note", "stop", "advance", "next">>
  <2>1. told' = told /\ Told(w) /\ told[w] = "ng"
    BY <1>4, <1>6 DEF Noted, Tell
  <2>2. Counts' /\ verdict' = "none"
    BY <1>3, <1>5, <2>1, SameTale DEF Open
  <2>3. Placed(root.index)'
    BY <1>3, <2>1 DEF Placed, Told
  <2>4. Open'
    BY <1>3, <1>6, <2>2, <2>3 DEF Open
  <2>5. SameCount' /\ ToClose'
    BY <1>2, <1>3, <1>5, <1>6, <2>1, <2>4 DEF SameCount, ToClose
  <2>6. QED
    BY <1>3, <1>4, <1>6, <2>1, <2>4, <2>5, Rest, TaleNext, Silent
<1>7. CASE runner.res = "ok" /\ Told(runner.idx)
  <2>1. told[w] = "none" /\ Told(w - 1) /\ Going /\ verdict = "none" /\ Counts
    BY <1>2, <1>5, <1>7, BasicTypes DEF Open, Noted, Told
  <2>2. Refines /\ told'[w] = "ok" /\ \A t \in T : t # w => told'[t] = told[t]
    BY <1>3, <1>4, <1>7, <2>1, Tells
  <2>3. \A t \in T : told'[t] # "none" <=> t <= w
    BY <2>1, <2>2, BasicTypes DEF Told
  <2>4. Placed(root.index)'
    BY <1>3, <2>3 DEF Placed, Told
  <2>5. Failed' <=> Failed
    BY <1>3, <2>1, <2>2 DEF Failed
  <2>6. Counts' /\ Going' /\ verdict' = "none"
    BY <1>3, <2>1, <2>5 DEF Counts, Going
  <2>7. Open'
    BY <1>3, <2>4, <2>6 DEF Open, Going
  <2>8. SameCount' /\ ToClose' /\ runner'.res = "ok"
    BY <1>3, <1>5, <1>7, <2>7 DEF SameCount, ToClose
  <2>9. Kind(runner.idx + 1)' = "reboot"
    BY <1>1, <1>3 DEF Awaited, Kind
  <2>10. CASE Left = <<"note", "stop", "advance", "next">>
    BY <1>3, <2>2, <2>6, <2>7, <2>8, <2>9, <2>10, TaleNoteLast
  <2>11. CASE Left \in {<<"stop", "load", "next">>, <<"stop", "advance", "next">>}
    BY <1>3, <2>2, <2>7, <2>8, <2>11, TaleNext
  <2>12. QED BY <1>4, <2>10, <2>11, Rest
<1>8. QED BY <1>5, <1>6, <1>7

LEMMA StopTale ==
  ASSUME Types, Control, Tale, StopCheck
  PROVE  Tale' /\ Refines
<1>1. /\ UNCHANGED <<tests, stops, told, proc, tdir, tunit, result, root>> /\ T' = T /\ N' = N
      /\ At("stop") /\ root.wait = 0
  BY Places2, SameList DEF StopCheck, world, disk, Placing, Closing
<1>2. /\ runner.todo = <<"stop", "load", "next">> => Open \/ Settled
      /\ runner.todo = <<"stop", "advance", "next">> => ToClose
  BY DEF Tale
<1>3. Open \/ Settled
  BY <1>1, <1>2, Steps2, BasicTypes DEF ToClose
<1>4. CASE stops /\ root.fails > 0
  <2>1. runner'.todo = <<"disable", "rmroot">> /\ verdict' = "ng"
    BY <1>1, <1>4, SomePlans, GoesOn DEF StopCheck
  <2>2. Settled'
    BY <1>1, <1>4, <2>1 DEF Settled
  <2>3. CASE Open
    <3>1. verdict = "none" /\ Failed
      BY <1>4, <2>3 DEF Open, Counts
    <3>2. QED BY <1>1, <1>4, <2>1, <2>2, <3>1, Concludes1, TaleNext
  <2>4. CASE Settled
    <3>1. verdict = "ng"
      BY <1>4, <2>4 DEF Settled, Types, TypeWorld
    <3>2. QED BY <1>1, <2>1, <2>2, <3>1, Silent, TaleNext
  <2>5. QED BY <1>3, <2>3, <2>4
<1>5. CASE ~(stops /\ root.fails > 0)
  <2>1. UNCHANGED verdict /\ Done /\ Left \in Plans
    BY <1>1, <1>5, RestIsPlan DEF StopCheck
  <2>2. /\ runner'.todo = Left /\ runner'.idx = runner.idx /\ runner'.fails = runner.fails
        /\ runner'.res = runner.res
    BY <1>1, <2>1, Continues
  <2>3. Open => Going
    BY <1>1, <1>5 DEF Open, Going
  <2>4. (Open => Open' /\ Going') /\ (Settled => Settled' /\ root.index = N)
    BY <1>1, <1>5, <2>1, <2>3, OpenKeeps, SameTale DEF Settled
  <2>5. CASE /\ runner.todo = <<"stop", "load", "next">> /\ Left = <<"load", "next">>
    <3>1. Reading'
      BY <1>1, <1>3, <2>4 DEF Reading
    <3>2. QED BY <1>1, <2>1, <2>2, <2>5, <3>1, TaleNext, Silent
  <2>6. CASE /\ runner.todo = <<"stop", "advance", "next">> /\ Left = <<"advance", "next">>
    <3>1. ToClose' /\ Going'
      BY <1>1, <1>2, <2>2, <2>4, <2>6 DEF ToClose, SameCount
    <3>2. QED BY <1>1, <2>1, <2>2, <2>6, <3>1, TaleNext, Silent
  <2>7. QED BY <1>1, <2>5, <2>6, Rest
<1>6. QED BY <1>4, <1>5

LEMMA LoadTale ==
  ASSUME Types, Control, Tale, Load
  PROVE  Tale' /\ Refines
<1>1. /\ UNCHANGED <<tests, stops, told, verdict, proc, tdir, tunit, result, root>> /\ T' = T /\ N' = N
      /\ runner'.todo = <<"next">> /\ SameCount'
  BY LoadDoes, SameList DEF Load, world, disk, said, SameCount
<1>2. Reading
  BY TaleAt DEF Load
<1>3. Reading'
  BY <1>1, <1>2, OpenKeeps, SameTale DEF Reading
<1>4. QED BY <1>1, <1>3, TaleNext, Silent

LEMMA NextTestTale ==
  ASSUME Types, Control, Tale, NextTest \/ Conclude
  PROVE  Tale' /\ Refines
<1>1. /\ UNCHANGED <<tests, stops, told, tdir, tunit, result, root>> /\ T' = T /\ N' = N
      /\ At("next") /\ root.wait = 0 /\ root.index = runner.idx
  BY Places1, SameList DEF NextTest, Conclude, world, disk, said, Looping
<1>2. Reading /\ SameCount
  BY <1>1, TaleAt
<1>3. CASE NextTest
  <2>1. Open /\ Going /\ runner.idx < N /\ UNCHANGED verdict
    BY <1>1, <1>2, <1>3, BasicTypes DEF NextTest, Reading, said
  <2>2. Open' /\ Going'
    BY <1>1, <2>1, OpenStays, SameTale
  <2>3. Placed(runner.idx) /\ Counts /\ verdict = "none"
    BY <1>1, <2>1 DEF Open
  <2>4. CASE Kind(runner.idx + 1) = "reboot"
    <3>1. /\ runner'.todo = <<"mark", "await", "child">> /\ runner'.idx = runner.idx
          /\ runner'.fails = runner.fails
      BY <1>1, <1>3, <2>4, SomePlans, GoesOn DEF NextTest
    <3>2. Told(runner.idx)
      BY <2>3, <2>4 DEF Placed
    <3>3. Setting'
      BY <1>1, <1>2, <2>1, <2>2, <2>3, <3>1, <3>2, SameTale DEF Setting, SameCount, Told
    <3>4. QED BY <1>1, <2>1, <3>1, <3>3, TaleNext, Silent
  <2>5. CASE Kind(runner.idx + 1) # "reboot"
    <3>1. runner'.todo = <<"child">> /\ runner'.fails = runner.fails
      BY <1>1, <1>3, <2>5, SomePlans, GoesOn DEF NextTest
    <3>2. QED BY <1>1, <1>2, <2>1, <2>2, <3>1, TaleNext, Silent DEF SameCount
  <2>6. QED BY <2>4, <2>5
<1>4. CASE Conclude
  <2>1. /\ runner.idx = N /\ runner'.todo = <<"disable", "rmroot">>
        /\ verdict' = IF root.fails = 0 THEN "ok" ELSE "ng"
    BY <1>1, <1>2, <1>4, SomePlans, GoesOn, BasicTypes DEF Conclude, Torn, SameCount
  <2>2. Settled'
    BY <1>1, <2>1 DEF Settled
  <2>3. CASE Open
    <3>1. verdict = "none" /\ Counts /\ Told(N)
      BY <1>1, <2>1, <2>3, BasicTypes DEF Open, Placed
    <3>2. \A t \in T : told[t] # "none"
      BY <3>1, BasicTypes DEF Told
    <3>3. root.fails = 0 => \A t \in T : told[t] = "ok"
      BY <3>1, <3>2 DEF Counts, Failed, Types, TypeTests
    <3>4. Refines
      BY <1>1, <2>1, <3>1, <3>2, <3>3, Concludes1
    <3>5. QED BY <2>1, <2>2, <3>4, TaleNext
  <2>4. CASE Settled
    <3>1. verdict' = verdict
      BY <2>1, <2>4 DEF Settled, Types, TypeWorld
    <3>2. QED BY <1>1, <2>1, <2>2, <3>1, Silent, TaleNext
  <2>5. QED BY <1>2, <2>3, <2>4 DEF Reading
<1>5. QED BY <1>3, <1>4

LEMMA MarkTale ==
  ASSUME Types, Control, Tale, Mark \/ Await
  PROVE  Tale' /\ Refines
<1>1. UNCHANGED <<tests, stops, told, verdict>> /\ T' = T /\ N' = N
  BY SameList DEF Mark, Await, world, said
<1>2. Setting /\ runner.idx + 1 \in T /\ runner.idx + 1 \in 0..N
  BY TaleAt, Places1, BasicTypes DEF Mark, Await, Marking, Awaiting
<1>3. /\ runner'.todo = Left /\ runner'.idx = runner.idx /\ runner'.fails = runner.fails
  BY <1>1, RestIsPlan, Continues DEF Mark, Await
<1>4. CASE Mark
  <2>1. root'.fails = root.fails
    BY <1>1, <1>2, <1>4, RootKeeps DEF Mark
  <2>2. Setting'
    BY <1>1, <1>2, <1>3, <2>1, SameTale DEF Setting, SameCount, Told
  <2>3. runner'.todo = <<"await", "child">>
    BY <1>3, <1>4, Rest DEF Mark
  <2>4. QED BY <1>1, <2>2, <2>3, TaleNext, Silent
<1>5. CASE Await
  <2>1. root'.fails = root.fails /\ root'.wait = runner.idx + 1
    BY <1>1, <1>2, <1>5, RootKeeps DEF Await
  <2>2. root'.wait # 0 /\ root'.wait - 1 = runner.idx
    BY <1>2, <2>1, BasicTypes
  <2>3. Told(root.wait - 1)' /\ Going' /\ Counts' /\ verdict' = "none"
    BY <1>1, <1>2, <2>1, <2>2, SameTale DEF Setting, Told
  <2>4. Open' /\ SameCount'
    BY <1>2, <1>3, <2>1, <2>2, <2>3 DEF Open, Setting, SameCount
  <2>5. runner'.todo = <<"child">>
    BY <1>3, <1>5, Rest DEF Await
  <2>6. QED BY <1>1, <2>3, <2>4, <2>5, TaleNext, Silent
<1>6. QED BY <1>4, <1>5

LEMMA JudgeTale ==
  ASSUME Types, Control, Tale, Judge
  PROVE  Tale' /\ Refines
<1>1. /\ UNCHANGED <<tests, stops, told, verdict, root, tdir, tunit>> /\ T' = T /\ N' = N
      /\ (ShellRun \/ RebootRun)
  BY SameList, Places1 DEF Judge, world, said
<1>2. PICK w \in T : w = runner.idx + 1 /\ w - 1 = runner.idx
  BY <1>1, BasicTypes DEF ShellRun, RebootRun, Awaited
<1>3. Open /\ Going /\ SameCount
  BY TaleAt DEF Judge
<1>4. Refines
  BY <1>1, Silent
<1>5. proc[w].pc = "exit" /\ w = runner.idx + 1
  BY <1>2 DEF Judge
<1>6. ~Noted(w)
  BY <1>5 DEF Noted
<1>7. root.wait # 0 => root.wait = w
  BY <1>1, <1>2 DEF ShellRun, RebootRun
<1>8. Open' /\ Going'
  BY <1>1, <1>3, <1>6, <1>7, OpenStays, SameTale
<1>9. /\ runner'.idx = runner.idx
      /\ runner'.fails = IF ~proc[w].good THEN PlusOne(runner.fails) ELSE runner.fails
      /\ runner'.res = IF ~proc[w].good THEN "ng" ELSE "ok"
  BY <1>2, JudgeDoes
<1>10. proc[w].good => SameCount' /\ runner'.res = "ok"
  BY <1>1, <1>3, <1>9 DEF SameCount
<1>11. ~proc[w].good => OneMore' /\ runner'.res = "ng"
  BY <1>1, <1>3, <1>9 DEF SameCount, OneMore
<1>12. Kind(w) = "reboot" => root.wait = w /\ w # 0
  BY <1>1, <1>2, BasicTypes DEF ShellRun, RebootRun
<1>13. Kind(w) = "reboot" => Told(runner.idx)
  BY <1>2, <1>3, <1>6, <1>12 DEF Open
<1>14. /\ Kind(w) = "reboot" /\ proc[w].good /\ result[w] = "pending" => runner'.todo = <<"park">>
       /\ Kind(w) = "reboot" /\ proc[w].good /\ result[w] # "pending" =>
            runner'.todo = <<"unwait", "note", "stop", "advance", "next">>
       /\ Kind(w) = "reboot" /\ ~proc[w].good =>
            runner'.todo = <<"note", "unwait", "stop", "advance", "next">>
       /\ Kind(w) # "reboot" /\ ~proc[w].good =>
            runner'.todo = <<"note", "stop", "advance", "next">>
       /\ Kind(w) # "reboot" /\ proc[w].good => runner'.todo = <<"stop", "advance", "next">>
  BY <1>2, JudgedPlan
<1>15. CASE Kind(w) = "reboot" /\ proc[w].good /\ result[w] = "pending"
  BY <1>4, <1>8, <1>10, <1>14, <1>15, TaleNext
<1>16. CASE Kind(w) = "reboot" /\ proc[w].good /\ result[w] # "pending"
  <2>1. Told(runner.idx)'
    BY <1>1, <1>9, <1>13, <1>16 DEF Told
  <2>2. QED BY <1>4, <1>8, <1>10, <1>14, <1>16, <2>1, TaleUnwaitFirst
<1>17. CASE Kind(w) = "reboot" /\ ~proc[w].good
  <2>1. result' = [result EXCEPT ![w] = "none"]
    BY <1>2, <1>17 DEF Judge
  <2>2. Bad(root.wait)'
    BY <1>1, <1>12, <1>17, <2>1 DEF Bad, Types, TypeTests
  <2>3. QED BY <1>4, <1>8, <1>11, <1>14, <1>17, <2>2, TaleNote
<1>18. CASE Kind(w) # "reboot" /\ ~proc[w].good
  <2>1. Kind(runner.idx + 1)' # "reboot"
    BY <1>1, <1>2, <1>9, <1>18 DEF Kind
  <2>2. QED BY <1>4, <1>8, <1>11, <1>14, <1>18, <2>1, TaleNoteLast
<1>19. CASE Kind(w) # "reboot" /\ proc[w].good
  <2>1. ToClose'
    BY <1>8, <1>10, <1>19 DEF ToClose
  <2>2. QED BY <1>4, <1>14, <1>19, <2>1, TaleNext
<1>20. QED BY <1>15, <1>16, <1>17, <1>18, <1>19

LEMMA AdvanceTale ==
  ASSUME Types, Control, Tale, Advance
  PROVE  Tale' /\ Refines
<1>1. PICK w \in T : w = runner.idx + 1 /\ w - 1 = runner.idx
  BY AdvanceDoes, BasicTypes
<1>2. /\ UNCHANGED <<tests, stops, verdict>> /\ T' = T /\ N' = N /\ Tell(w)
      /\ runner'.todo = <<"next">> /\ runner'.fails = runner.fails
      /\ root'.index = w /\ root'.wait = 0 /\ root'.fails = root.fails /\ root.wait = 0
      /\ root.index = IF Kind(w) = "reboot" THEN w ELSE w - 1
  BY <1>1, AdvanceDoes, SameList, Places1 DEF Advance, world, Closing
<1>3. ToClose /\ Going
  BY TaleAt DEF Advance
<1>4. /\ Counts /\ verdict = "none" /\ Placed(root.index) /\ SameCount /\ runner.res \in {"ok", "ng"}
      /\ runner.res = "ng" => told[w] = "ng"
  BY <1>1, <1>2, <1>3 DEF ToClose, Open
<1>5. told[w] # "none" \/ (Told(w - 1) /\ runner.res = "ok")
  BY <1>2, <1>4, BasicTypes DEF Placed, Told
<1>6. /\ Refines /\ told'[w] = IF told[w] = "none" THEN runner.res ELSE told[w]
      /\ \A t \in T : t # w => told'[t] = told[t]
      /\ told[w] # "none" => told' = told
  BY <1>2, <1>3, <1>4, <1>5, Tells
<1>7. Failed' <=> Failed
  BY <1>2, <1>5, <1>6 DEF Failed
<1>8. Counts' /\ Going' /\ SameCount' /\ verdict' = "none"
  BY <1>2, <1>3, <1>4, <1>7 DEF Counts, Going, SameCount
<1>9. Placed(root.index)'
  <2>1. CASE told[w] = "none"
    <3>1. \A t \in T : told'[t] # "none" <=> t <= w
      BY <1>5, <1>6, <2>1, BasicTypes DEF Told
    <3>2. QED BY <1>2, <3>1 DEF Placed, Told
  <2>2. CASE told[w] # "none"
    <3>1. told' = told
      BY <1>6, <2>2
    <3>2. Placed(w)
      <4>1. CASE Kind(w) = "reboot"
        BY <1>2, <1>4, <4>1
      <4>2. CASE Kind(w) # "reboot"
        BY <1>2, <1>4, <2>2, <4>2, BasicTypes DEF Placed, Told
      <4>3. QED BY <4>1, <4>2
    <3>3. QED BY <1>2, <3>1, <3>2 DEF Placed, Told, Kind
  <2>3. QED BY <2>1, <2>2
<1>10. Reading'
  BY <1>2, <1>8, <1>9 DEF Reading, Open, Going
<1>11. QED BY <1>2, <1>6, <1>8, <1>10, TaleNext

LEMMA CleanTale ==
  ASSUME Types, Control, Tale, Disable \/ RemoveRoot
  PROVE  Tale' /\ Refines
<1>1. UNCHANGED <<tests, stops, told, verdict>>
  BY DEF Disable, RemoveRoot, world, said
<1>2. CASE Disable
  <2>1. runner'.todo = <<"rmroot">>
    BY <1>1, <1>2, Rest, RestIsPlan, Continues DEF Disable
  <2>2. QED BY <1>1, <2>1, TaleNext, Silent
<1>3. CASE RemoveRoot
  <2>1. runner'.todo = <<>> /\ ~unit'
    BY <1>3, Places1 DEF RemoveRoot, Off, Over
  <2>2. QED BY <1>1, <2>1, TaleNext, Silent
<1>4. QED BY <1>2, <1>3

LEMMA RunnerTale ==
  ASSUME Types, Control, Tale, RunnerStep
  PROVE  Tale' /\ Refines
  BY SetupTale, WaitedTale, NoteTale, UnwaitTale, StopTale, LoadTale, NextTestTale, MarkTale,
     JudgeTale, AdvanceTale, CleanTale DEF RunnerStep

LEMMA DirectTale ==
  ASSUME Types, Control, Tale, DirectStep
  PROVE  Tale' /\ Refines
<1>1. UNCHANGED <<tests, stops>> /\ T' = T /\ N' = N
  BY SameList DEF DirectStep, DirectStart, DirectJudge, DirectSummary, world
<1>2. CASE DirectStart
  <2>1. /\ runner'.todo = <<"ended">> /\ runner'.idx = runner.idx /\ runner'.fails = runner.fails
        /\ UNCHANGED <<told, verdict>>
    BY <1>1, <1>2, SomePlans, GoesOn DEF DirectStart, said
  <2>2. Direct /\ Told(runner.idx) /\ Going
    BY <1>2, TaleAt DEF DirectStart
  <2>3. Direct' /\ Told(runner.idx)' /\ Going'
    BY <1>1, <2>1, <2>2, SameTale DEF Direct, Told
  <2>4. QED BY <1>1, <2>1, <2>3, TaleNext, Silent
<1>3. CASE DirectJudge
  <2>1. PICK w \in T : w = runner.idx + 1 /\ w - 1 = runner.idx
    BY <1>3, DirectJudgeDoes, BasicTypes
  <2> DEFINE bad == ~proc[w].good
  <2>2. /\ runner'.idx = w /\ runner'.todo = IF bad /\ stops THEN <<"summary">> ELSE <<"direct">>
        /\ runner'.fails = IF bad THEN runner.fails + 1 ELSE runner.fails
        /\ UNCHANGED verdict
    BY <1>3, <2>1, DirectJudgeDoes DEF DirectJudge
  <2>3. PICK outcome \in {"ok", "ng"} :
          outcome = (IF bad THEN "ng" ELSE "ok") /\ told' = [told EXCEPT ![w] = outcome]
    BY <1>3, <2>1 DEF DirectJudge
  <2>4. Direct /\ Told(w - 1) /\ Going
    BY <1>3, <2>1, TaleAt DEF DirectJudge
  <2>5. Refines
    BY <1>1, <2>2, <2>3, <2>4, Records DEF Direct
  <2>6. told'[w] = outcome /\ \A t \in T : t # w => told'[t] = told[t]
    BY <2>3 DEF Types, TypeTests
  <2>7. told[w] = "none"
    BY <2>4, BasicTypes DEF Told
  <2>8. Failed' <=> Failed \/ bad
    BY <1>1, <2>3, <2>6, <2>7 DEF Failed
  <2>9. runner.fails \in Nat
    BY <2>4, BasicTypes DEF Direct
  <2>10. Direct'
    BY <2>2, <2>4, <2>8, <2>9 DEF Direct, Torn
  <2>11. Told(runner.idx)'
    BY <1>1, <2>2, <2>3, <2>4, <2>6, BasicTypes DEF Told
  <2>12. CASE bad /\ stops
    BY <1>1, <2>2, <2>5, <2>8, <2>10, <2>12, TaleNext
  <2>13. CASE ~(bad /\ stops)
    <3>1. Going'
      BY <1>1, <2>4, <2>8, <2>13 DEF Going
    <3>2. QED BY <2>2, <2>5, <2>10, <2>11, <2>13, <3>1, TaleNext
  <2>14. QED BY <2>12, <2>13
<1>4. CASE DirectSummary
  <2>1. /\ runner'.todo = <<>> /\ ~unit' /\ UNCHANGED told
        /\ verdict' = IF runner.fails = 0 THEN "ok" ELSE "ng"
    BY <1>4, Places1 DEF DirectSummary, DirectAt, disk, Off
  <2>2. Direct /\ ((stops /\ Failed) \/ (runner.idx = N /\ Told(N)))
    <3>1. CASE At("summary")
      BY <3>1, TaleAt
    <3>2. CASE At("direct") /\ runner.idx = N
      BY <3>2, TaleAt
    <3>3. QED BY <1>4, <3>1, <3>2 DEF DirectSummary
  <2>3. (\A t \in T : told[t] # "none") \/ (stops /\ Failed)
    BY <2>2, BasicTypes DEF Told
  <2>4. runner.fails = 0 => \A t \in T : told[t] = "ok"
    BY <2>2, <2>3 DEF Direct, Failed, Types, TypeTests
  <2>5. Refines
    BY <1>1, <2>1, <2>2, <2>3, <2>4, Concludes1 DEF Direct
  <2>6. QED BY <2>1, <2>5, TaleNext
<1>5. QED BY <1>2, <1>3, <1>4 DEF DirectStep

(* The machine may stop in all but the steps that move the place.           *)
LEMMA StopsWhere ==
  ASSUME Trusted, Types, Control, Shutdown \/ PowerLoss
  PROVE  ~At("mark") /\ ~At("await")
<1>1. At("mark") \/ At("await") => power = "up"
  BY Places1 DEF Marking, Awaiting, Calm
<1>2. QED BY <1>1 DEF Shutdown, PowerLoss, At, Trusted

LEMMA OpenOrSettled ==
  ASSUME Types, Control, Tale, unit, ~At("mark"), ~At("await")
  PROVE  Open \/ Settled
<1>1. runner.todo \notin {<<"mark", "await", "child">>, <<"await", "child">>}
  BY DEF At
<1>2. runner.todo \notin {<<"direct">>, <<"ended">>, <<"summary">>, <<"rmroot">>,
                          <<"prepare", "enable", "begin">>, <<"enable", "begin">>}
  <2>1. ~At("direct") /\ ~At("ended") /\ ~At("summary") /\ ~At("rmroot") /\ ~At("prepare")
        /\ ~At("enable")
    BY Places1 DEF DirectAt, DirectRun, Over, Setup
  <2>2. QED BY <2>1 DEF At
<1>3. runner.todo \in {<<>>, <<"begin">>, <<"stop", "load", "next">>,
                       <<"waiting", "stop", "load", "next">>, <<"load", "next">>, <<"next">>,
                       <<"child">>, <<"park">>, <<"disable", "rmroot">>} => Open \/ Settled
  BY DEF Tale, Reading
<1>4. runner.todo \in {<<"note", "unwait", "stop", "load", "next">>,
                       <<"note", "unwait", "stop", "advance", "next">>,
                       <<"unwait", "stop", "advance", "next">>, <<"unwait", "stop", "load", "next">>,
                       <<"unwait", "note", "stop", "advance", "next">>,
                       <<"note", "stop", "advance", "next">>,
                       <<"stop", "advance", "next">>, <<"advance", "next">>} => Open
  BY DEF Tale, ToClose
<1>5. QED BY <1>1, <1>2, <1>3, <1>4, BasicTypes DEF Plans

LEMMA MachineTale ==
  ASSUME Trusted, Types, Control, Tale, Shutdown \/ PowerLoss \/ Boot
  PROVE  Tale' /\ Refines
<1>1. CASE Shutdown \/ PowerLoss
  <2>1. /\ UNCHANGED <<tests, stops, told, verdict, tdir, tunit, result, unit>>
        /\ runner'.todo = <<>> /\ proc' = [t \in T |-> Idle] /\ T' = T /\ N' = N
    BY <1>1, HaltDoes, SameList DEF Off
  <2>2. ASSUME unit PROVE Open' \/ Settled'
    <3>1. Open \/ Settled
      BY <1>1, <2>2, StopsWhere, OpenOrSettled
    <3>2. \A w \in T : Noted(w) => Noted(w)'
      BY <2>1, SameTale, IdleType DEF Noted, Bad
    <3>3. CASE root' = root
      BY <2>1, <3>1, <3>2, <3>3, OpenStays, SameTale, BasicTypes
    <3>4. CASE (At("note") \/ At("park")) /\ root' = [root EXCEPT !.fails = Torn]
      <4>1. root'.fails = Torn /\ root'.index = root.index /\ root'.wait = root.wait
        BY <2>1, <3>4, RootKeeps
      <4>2. Open /\ (root.wait = 0 => Going)
        <5>1. At("park") => Open /\ root.wait # 0
          BY TaleAt, Places1 DEF Parked, Awaited
        <5>2. At("note") => Open
          BY Steps2, BasicTypes DEF Tale
        <5>3. At("note") /\ root.wait = 0 => runner.todo = <<"note", "stop", "advance", "next">>
          BY Places2, Steps2, BasicTypes DEF Judged, Awaited, Closing
        <5>4. QED BY <3>4, <5>1, <5>2, <5>3 DEF Tale
      <4>3. Counts' /\ verdict' = "none"
        BY <2>1, <4>1, <4>2 DEF Counts, Torn, Open
      <4>4. (Told(root.wait - 1)' <=> Told(root.wait - 1)) /\ (Placed(root.index)' <=> Placed(root.index))
            /\ (Going' <=> Going)
        BY <2>1, <4>1, SameTale DEF Told, Placed
      <4>5. CASE root.wait = 0
        <5>1. Placed(root.index)' /\ ~(stops' /\ Failed')
          BY <2>1, <4>2, <4>4, <4>5, SameTale DEF Open, Going
        <5>2. QED BY <4>1, <4>3, <4>5, <5>1 DEF Open
      <4>6. CASE root.wait # 0
        <5>1. Noted(root.wait) => Noted(root.wait)'
          BY <2>1, <3>2, <4>1, <4>6, BasicTypes DEF Noted, Told, Bad
        <5>2. QED BY <4>1, <4>2, <4>3, <4>4, <4>6, <5>1 DEF Open
      <4>7. QED BY <4>5, <4>6
    <3>5. QED BY <1>1, <3>3, <3>4, HaltDoes
  <2>3. QED BY <2>1, <2>2, TaleNext, Silent
<1>2. CASE Boot
  <2>1. /\ UNCHANGED <<tests, stops, told, verdict, tdir, tunit, result, unit, root>>
        /\ runner'.todo = IF unit THEN <<"begin">> ELSE <<>>
        /\ proc' = [t \in T |-> IF tunit[t] THEN [pc |-> "mkdir", mode |-> "resume", good |-> TRUE]
                                ELSE Idle]
        /\ power = "off"
    BY <1>2 DEF Boot, Off, disk, said
  <2>2. Over \/ Down
    BY <2>1 DEF Control, DirectAt, DirectRun, Over, Setup, Down, Booted, Judged, Placing, Looping,
           Marking, Awaiting, ShellRun, RebootRun, Parked, Closing, Calm, Running
  <2>3. CASE ~unit
    BY <2>1, <2>3, TaleNext, Silent
  <2>4. CASE unit
    <3>1. Open \/ Settled
      BY <2>2, <2>4 DEF Over, Down, Tale
    <3>2. \A w \in T : Noted(w) => Noted(w)'
      BY <2>1, SameTale, IdleType, SameList DEF Noted, Bad
    <3>3. Open' \/ Settled'
      BY <2>1, <3>1, <3>2, OpenStays, SameTale, BasicTypes
    <3>4. QED BY <2>1, <2>4, <3>3, TaleNext, Silent
  <2>5. QED BY <2>3, <2>4
<1>3. QED BY <1>1, <1>2

-----------------------------------------------------------------------------
(* What the run promises                                                    *)

LEMMA InitTale == Init => Tale /\ Sequence!Init
<1> SUFFICES ASSUME Init PROVE Tale /\ Sequence!Init
  OBVIOUS
<1>1. \A t \in T : told[t] = "none"
  BY DEF Init
<1>2. T = 1..N /\ N \in Nat
  BY InitInv, BasicTypes DEF Inv
<1>3. Told(0) /\ ~Failed /\ verdict = "none" /\ runner.idx = 0 /\ runner.fails = 0
  BY <1>1, <1>2 DEF Init, Told, Failed, Off
<1>4. runner.todo \in {<<"prepare", "enable", "begin">>, <<"direct">>}
  BY DEF Init, Off
<1>5. Tale
  <2>1. Direct /\ Told(runner.idx) /\ Going
    BY <1>3 DEF Direct, Going, Torn
  <2>2. CASE runner.todo = <<"prepare", "enable", "begin">>
    BY <1>3, <2>2 DEF Tale
  <2>3. CASE runner.todo = <<"direct">>
    BY <2>1, <2>3 DEF Tale
  <2>4. QED BY <1>4, <2>2, <2>3
<1>6. Sequence!Init
  BY <1>1 DEF Init, Sequence!Init, Sequence!Tests
<1>7. QED BY <1>5, <1>6

LEMMA NextTale ==
  ASSUME Trusted, Inv, Tale, [Next]_vars
  PROVE  Tale' /\ Refines
<1> USE DEF Inv
<1>1. ASSUME NEW t \in T, TestStep(t) PROVE Tale' /\ Refines
  BY <1>1, TestTale
<1>2. CASE RunnerStep
  BY <1>2, RunnerTale
<1>3. CASE DirectStep
  BY <1>3, DirectTale
<1>4. CASE Shutdown \/ PowerLoss \/ Boot
  BY <1>4, MachineTale
<1>5. CASE UNCHANGED vars
  <2>1. /\ UNCHANGED <<tests, stops, told, verdict, proc, tdir, tunit, result, root, runner, unit>>
        /\ T' = T /\ N' = N
    BY <1>5, SameList DEF vars, world, disk, said
  <2>2. Tale'
    BY <2>1, SMTT(20) DEF Tale, Open, Settled, Going, Failed, SameCount, OneMore, Counts, Placed, Noted, Told,
                Bad, Kind, Reading, Setting, ToClose, Direct
  <2>3. QED BY <2>1, <2>2, Silent
<1>6. QED BY <1>1, <1>2, <1>3, <1>4, <1>5 DEF Next

(* Whatever the list of tests, and however often the machine reboots or    *)
(* loses power (but in the steps that write the place): each test is told  *)
(* once and in its turn, none after the failure that stops the run, and    *)
(* the verdict [OK] means that every test came out well                    *)
(* (write_resume_automation, start_selected_test_scripts).                 *)
THEOREM RunImplementsSequence == ASSUME Trusted PROVE Spec => Implements
<1>1. Init => Inv /\ Tale /\ Sequence!Init
  BY InitInv, InitTale
<1>2. Inv /\ Tale /\ [Next]_vars => Inv' /\ Tale' /\ [Sequence!Next]_(Sequence!vars)
  BY NextInv, NextTale DEF Refines
<1>3. QED BY <1>1, <1>2, PTL DEF Spec, Implements, Sequence!Spec

(* After the verdict, with the runner done and the machine up, neither the *)
(* runner's unit nor that of a test is left for a later boot to start      *)
(* (cleanup_selected_runner, finish_reboot_case).                          *)
THEOREM CleansUp == ASSUME Trusted PROVE Spec => []NothingLeft
<1>1. Init => Inv /\ Tale
  BY InitInv, InitTale
<1>2. Inv /\ Tale /\ [Next]_vars => Inv' /\ Tale'
  BY NextInv, NextTale
<1>3. ASSUME Inv, Tale PROVE NothingLeft
  <2>1. SUFFICES ASSUME verdict # "none", runner.todo = <<>>, power # "off"
                 PROVE  ~unit /\ NoUnit
    BY DEF NothingLeft, NoUnit
  <2>2. Over \/ Parked
    BY <1>3, <2>1 DEF Inv, Control, DirectAt, DirectRun, Over, Setup, Down, Booted, Judged, Placing,
           Looping, Marking, Awaiting, ShellRun, RebootRun, Parked, Closing
  <2>3. ~Parked
    BY <1>3, <2>1 DEF Parked, Awaited, Tale, Open, Settled
  <2>4. QED BY <2>2, <2>3 DEF Over
<1>4. QED BY <1>1, <1>2, <1>3, PTL DEF Spec

-----------------------------------------------------------------------------
(* The count of the failures.  A test is counted again only when power was  *)
(* lost between its count and its place.                                    *)

Worth(n) == IF n = Torn THEN 0 ELSE n

Counted == {<<"unwait", "stop", "load", "next">>, <<"unwait", "stop", "advance", "next">>,
            <<"stop", "advance", "next">>, <<"advance", "next">>}
AtTest == {<<"mark", "await", "child">>, <<"await", "child">>, <<"child">>,
           <<"note", "unwait", "stop", "load", "next">>,
           <<"note", "unwait", "stop", "advance", "next">>,
           <<"unwait", "note", "stop", "advance", "next">>, <<"note", "stop", "advance", "next">>}
Between == {<<>>, <<"begin">>, <<"waiting", "stop", "load", "next">>, <<"stop", "load", "next">>,
            <<"load", "next">>, <<"next">>, <<"park">>}

(* How many tests may have been counted. *)
Allowed == IF verdict # "none" \/ ~unit THEN N
           ELSE IF runner.todo \in Counted THEN runner.idx + 1
           ELSE IF runner.todo \in AtTest THEN runner.idx
           ELSE IF runner.todo \in Between
                THEN IF root.wait = 0 THEN root.index ELSE root.index - 1
           ELSE N

Tally == Worth(root.fails) <= Allowed + losses

LEMMA Groups ==
  /\ Counted \cap AtTest = {} /\ Counted \cap Between = {} /\ AtTest \cap Between = {}
  /\ <<"disable", "rmroot">> \notin Counted \cup AtTest \cup Between
<1>1. \A p \in Counted : p \notin AtTest /\ p \notin Between
  BY DEF Counted, AtTest, Between
<1>2. \A p \in AtTest : p \notin Between
  BY DEF AtTest, Between
<1>3. <<"disable", "rmroot">> \notin Counted \cup AtTest \cup Between
  BY DEF Counted, AtTest, Between
<1>4. QED BY <1>1, <1>2, <1>3

LEMMA AllowedRange == Inv => Allowed \in 0..N
<1> SUFFICES ASSUME Types, Control PROVE Allowed \in 0..N
  BY DEF Inv
<1>1. CASE verdict = "none" /\ unit /\ runner.todo \in Counted
  <2>1. At("unwait") \/ At("advance") \/ (At("stop") /\ runner.todo = <<"stop", "advance", "next">>)
    BY <1>1 DEF Counted, At
  <2>2. At("unwait") => Judged
    BY Places2
  <2>3. At("advance") => Closing
    BY Places1
  <2>4. runner.todo = <<"stop", "advance", "next">> => Closing
    BY Places2 DEF At, Placing
  <2>5. runner.idx + 1 <= N
    BY <2>1, <2>2, <2>3, <2>4, BasicTypes DEF Judged, Closing
  <2>6. QED BY <1>1, <2>5, BasicTypes DEF Allowed
<1>2. CASE verdict = "none" /\ unit /\ runner.todo \in AtTest
  BY <1>2, Groups, BasicTypes DEF Allowed
<1>3. CASE verdict = "none" /\ unit /\ runner.todo \in Between
  <2>1. root.wait # 0 => root.index = root.wait
    BY <1>3 DEF Between, Control, DirectAt, DirectRun, Over, Setup, Down, Booted, Judged, Placing,
           Looping, Marking, Awaiting, ShellRun, RebootRun, Parked, Closing, Calm, Awaited
  <2>2. QED BY <1>3, <2>1, Groups, BasicTypes DEF Allowed
<1>4. CASE ~(verdict = "none" /\ unit /\ runner.todo \in Counted \cup AtTest \cup Between)
  BY <1>4, BasicTypes DEF Allowed
<1>5. QED BY <1>1, <1>2, <1>3, <1>4

LEMMA AllowedRangeNext == Inv' => (Allowed \in 0..N)'
<1>1. Inv => Allowed \in 0..N
  BY AllowedRange
<1>2. QED BY <1>1, PTL

LEMMA TallyTypes ==
  ASSUME Types, Types', N' = N
  PROVE  /\ losses \in Nat /\ losses' \in Nat
         /\ Worth(root.fails) \in Nat /\ Worth(root'.fails) \in Nat
<1>1. losses \in Nat /\ losses' \in Nat
  <2>1. MaxLosses \in Nat
    BY RunAssumption
  <2>2. losses \in 0..MaxLosses /\ losses' \in 0..MaxLosses
    BY DEF Types, TypeWorld
  <2>3. QED BY <2>1, <2>2
<1>2. root.fails \in Nat \cup {Torn} /\ root'.fails \in Nat \cup {Torn}
  BY DEF Types, TypeRoot
<1>3. QED BY <1>1, <1>2 DEF Worth

(* A step that counts nothing.                                              *)
LEMMA TallyKept ==
  ASSUME Inv, Inv', Tally, N' = N, Worth(root'.fails) <= Worth(root.fails),
         Allowed + losses <= Allowed' + losses'
  PROVE  Tally'
<1>1. Allowed \in Nat /\ Allowed' \in Nat
  <2>1. N \in Nat
    BY BasicTypes DEF Inv
  <2>2. QED BY <2>1, AllowedRange, AllowedRangeNext
<1>2. /\ losses \in Nat /\ losses' \in Nat
      /\ Worth(root.fails) \in Nat /\ Worth(root'.fails) \in Nat
  BY TallyTypes DEF Inv
<1>3. QED BY <1>1, <1>2 DEF Tally

LEMMA TallyDone ==
  ASSUME Inv, Inv', Tally, N' = N, Worth(root'.fails) <= Worth(root.fails), losses' >= losses,
         verdict' # "none" \/ ~unit'
  PROVE  Tally'
<1>1. Allowed' = N
  BY DEF Allowed
<1>2. Allowed \in 0..N /\ N \in Nat
  BY AllowedRange, BasicTypes DEF Inv
<1>3. losses \in Nat /\ losses' \in Nat
  BY TallyTypes DEF Inv
<1>4. Allowed + losses <= Allowed' + losses'
  <2>1. \A a, b, c, d \in Nat : a <= b /\ d >= c => a + c <= b + d
    OBVIOUS
  <2>2. Allowed \in Nat /\ Allowed' \in Nat /\ Allowed <= Allowed'
    BY <1>1, <1>2
  <2>3. QED BY <1>3, <2>1, <2>2
<1>5. QED BY <1>4, TallyKept

LEMMA TallyZero ==
  ASSUME Inv, Inv', N' = N, root'.fails = 0
  PROVE  Tally'
<1>1. Allowed' \in Nat /\ losses' \in Nat
  BY AllowedRangeNext, TallyTypes, BasicTypes DEF Inv
<1>2. Worth(root'.fails) = 0
  BY DEF Worth, Torn
<1>3. Tally' <=> Worth(root'.fails) <= Allowed' + losses'
  BY DEF Tally
<1>4. QED BY <1>1, <1>2, <1>3

LEMMA TallySame ==
  ASSUME Inv, Inv', Tally, N' = N, root'.fails = root.fails, losses' = losses,
         verdict' = "none" /\ unit' => Allowed <= Allowed'
  PROVE  Tally'
<1>1. /\ losses \in Nat /\ Worth(root.fails) \in Nat
  BY TallyTypes DEF Inv
<1>2. Worth(root'.fails) <= Worth(root.fails) /\ losses' >= losses
  BY <1>1
<1>3. CASE verdict' = "none" /\ unit'
  <2>1. Allowed \in Nat /\ Allowed' \in Nat
    BY AllowedRange, AllowedRangeNext, BasicTypes DEF Inv
  <2>2. QED BY <1>1, <1>2, <1>3, <2>1, TallyKept
<1>4. CASE ~(verdict' = "none" /\ unit')
  BY <1>2, <1>4, TallyDone
<1>5. QED BY <1>3, <1>4

(* How many tests may have been counted, at each kind of plan.              *)
LEMMA AllowedIs ==
  ASSUME verdict = "none", unit
  PROVE  /\ runner.todo \in Counted => Allowed = runner.idx + 1
         /\ runner.todo \in AtTest => Allowed = runner.idx
         /\ runner.todo \in Between =>
              Allowed = IF root.wait = 0 THEN root.index ELSE root.index - 1
  BY Groups DEF Allowed

LEMMA AllowedNext ==
  ASSUME verdict' = "none", unit'
  PROVE  /\ runner'.todo \in Counted => Allowed' = runner'.idx + 1
         /\ runner'.todo \in AtTest => Allowed' = runner'.idx
         /\ runner'.todo \in Between =>
              Allowed' = IF root'.wait = 0 THEN root'.index ELSE root'.index - 1
<1>1. Counted' = Counted /\ AtTest' = AtTest /\ Between' = Between
  BY DEF Counted, AtTest, Between
<1>2. QED BY <1>1, Groups DEF Allowed

LEMMA NoteTally ==
  ASSUME Inv, Inv', Tale, Tally, Note
  PROVE  Tally'
<1> USE DEF Inv
<1>1. /\ UNCHANGED <<tests, verdict, losses, unit>> /\ N' = N /\ Done /\ (At("note") \/ At("park"))
      /\ root' = [root EXCEPT !.fails = runner.fails]
  BY SameList DEF Note, world
<1>2. root'.fails = runner.fails /\ root'.index = root.index /\ root'.wait = root.wait
  BY <1>1, RootKeeps, BasicTypes
<1>3. runner'.todo = Left /\ runner'.idx = runner.idx
  BY <1>1, RestIsPlan, Continues
<1>4. CASE At("park")
  <2>1. SameCount /\ Open
    BY <1>4, TaleAt
  <2>2. unit /\ verdict = "none" /\ runner.todo = <<"park">>
    BY <1>4, <2>1, Steps1, Places1, BasicTypes DEF Parked, Open
  <2>3. runner'.todo = <<>>
    BY <1>3, <1>4, Rest
  <2>4. Allowed = Allowed'
    BY <1>1, <1>2, <2>2, <2>3, AllowedIs, AllowedNext DEF Between
  <2>5. Allowed <= Allowed'
    BY <2>4, AllowedRange, BasicTypes
  <2>6. QED BY <1>1, <1>2, <2>1, <2>5, TallySame DEF SameCount
<1>5. CASE At("note")
  <2>1. unit /\ Open /\ (SameCount \/ OneMore)
    BY <1>5, Places2, Steps2, BasicTypes DEF Tale, Judged, Closing, Calm
  <2>2. runner.todo \in AtTest /\ Left \in Counted
    BY <1>5, Rest DEF AtTest, Counted
  <2>3. Allowed = runner.idx /\ Allowed' = runner.idx + 1
    BY <1>1, <1>3, <2>1, <2>2, AllowedIs, AllowedNext DEF Open
  <2>4. root'.fails = root.fails \/ root'.fails = Worth(root.fails) + 1
    BY <1>2, <2>1 DEF SameCount, OneMore, PlusOne, Worth
  <2>5. losses \in Nat /\ Worth(root.fails) \in Nat /\ runner.idx \in Nat
    BY TallyTypes, BasicTypes, <1>1
  <2>6. Worth(root'.fails) <= Worth(root.fails) + 1
    BY <2>4, <2>5 DEF Worth, Torn
  <2>7. QED BY <1>1, <2>3, <2>5, <2>6, TallyTypes DEF Tally
<1>6. QED BY <1>1, <1>4, <1>5

LEMMA RunnerTally ==
  ASSUME Inv, Inv', Tale, Tally, RunnerStep
  PROVE  Tally'
<1> USE DEF Inv
<1>1. CASE Prepare \/ RemoveRoot
  <2>1. root' = Fresh /\ N' = N
    BY <1>1, SameList DEF Prepare, RemoveRoot, world
  <2>2. QED BY <2>1, TallyZero DEF Fresh
<1>2. CASE Enable
  <2>1. root' = Fresh /\ N' = N
    BY <1>2, SameList, Places1 DEF Enable, world, Setup
  <2>2. QED BY <2>1, TallyZero DEF Fresh
<1>3. CASE Begin
  <2>1. UNCHANGED <<root, losses, verdict, unit>> /\ N' = N /\ runner.todo = <<"begin">>
    BY <1>3, SameList, Steps1, BasicTypes DEF Begin, world, disk, said
  <2>2. runner'.todo \in Between
    <3>1. /\ <<"waiting">> \o <<"stop", "load", "next">> = <<"waiting", "stop", "load", "next">>
          /\ <<>> \o <<"stop", "load", "next">> = <<"stop", "load", "next">>
      BY Join0, Join1
    <3>2. tests' = tests
      BY <1>3 DEF Begin, world
    <3>3. runner'.todo \in {<<"waiting", "stop", "load", "next">>, <<"stop", "load", "next">>}
      BY <1>3, <3>1, <3>2, SomePlans, GoesOn DEF Begin
    <3>4. QED BY <3>3 DEF Between
  <2>3. verdict' = "none" /\ unit' => Allowed' = Allowed
    BY <2>1, <2>2, AllowedIs, AllowedNext DEF Between
  <2>4. QED BY <2>1, <2>3, AllowedRange, BasicTypes, TallySame
<1>4. CASE Waited
  <2>1. UNCHANGED <<root, losses, verdict, unit>> /\ N' = N /\ At("waiting")
    BY <1>4, SameList DEF Waited, world, said
  <2>2. runner.todo \in Between /\ root.wait # 0 /\ root.index = root.wait
    BY <2>1, Steps1, Places1, BasicTypes DEF Between, Booted, Awaited
  <2>3. runner'.todo \in AtTest /\ runner'.idx = root.index - 1
    BY <1>4, <2>2, WaitedDoes DEF AtTest
  <2>4. verdict' = "none" /\ unit' => Allowed' = Allowed
    BY <2>1, <2>2, <2>3, AllowedIs, AllowedNext
  <2>5. QED BY <2>1, <2>4, AllowedRange, BasicTypes, TallySame
<1>5. CASE Note
  BY <1>5, NoteTally
<1>6. CASE Unwait
  <2>1. /\ UNCHANGED <<losses, verdict, unit>> /\ N' = N /\ tests' = tests /\ At("unwait") /\ Done
        /\ root' = [root EXCEPT !.wait = 0]
    BY <1>6, SameList DEF Unwait, world
  <2>2. root'.fails = root.fails /\ root'.wait = 0 /\ root'.index = root.index
    BY <2>1, RootKeeps, BasicTypes
  <2>3. root.index = runner.idx + 1
    BY <2>1, Places2 DEF Judged, Awaited
  <2>4. runner'.todo = Left /\ runner'.idx = runner.idx
    BY <2>1, RestIsPlan, Continues
  <2>5. \/ runner.todo \in Counted /\ Left \in Counted \cup Between
        \/ runner.todo \in AtTest /\ Left \in AtTest
    BY <2>1, Rest DEF Counted, AtTest, Between
  <2>6. verdict' = "none" /\ unit' => Allowed' = Allowed
    BY <2>1, <2>2, <2>3, <2>4, <2>5, AllowedIs, AllowedNext
  <2>7. QED BY <2>1, <2>2, <2>6, AllowedRange, BasicTypes, TallySame
<1>7. CASE StopCheck
  <2>1. UNCHANGED <<root, losses, unit>> /\ N' = N /\ tests' = tests /\ At("stop")
    BY <1>7, SameList DEF StopCheck, world, disk
  <2>2. ASSUME verdict' = "none"
        PROVE  verdict = "none" /\ runner'.todo = Left /\ runner'.idx = runner.idx
    BY <1>7, <2>1, <2>2, RestIsPlan, Continues DEF StopCheck
  <2>3. \/ runner.todo \in Counted /\ Left \in Counted
        \/ runner.todo \in Between /\ Left \in Between
    BY <2>1, Rest DEF Counted, Between
  <2>4. verdict' = "none" /\ unit' => Allowed' = Allowed
    BY <2>1, <2>2, <2>3, AllowedIs, AllowedNext
  <2>5. QED BY <2>1, <2>4, AllowedRange, BasicTypes, TallySame
<1>8. CASE Load
  <2>1. UNCHANGED <<root, losses, verdict, unit>> /\ N' = N /\ At("load")
    BY <1>8, SameList DEF Load, world, disk, said
  <2>2. runner.todo \in Between /\ runner'.todo \in Between
    BY <1>8, <2>1, Steps1, BasicTypes, LoadDoes DEF Between
  <2>3. verdict' = "none" /\ unit' => Allowed' = Allowed
    BY <2>1, <2>2, AllowedIs, AllowedNext
  <2>4. QED BY <2>1, <2>3, AllowedRange, BasicTypes, TallySame
<1>9. CASE NextTest
  <2>1. UNCHANGED <<root, losses, verdict, unit>> /\ N' = N /\ At("next") /\ tests' = tests
    BY <1>9, SameList DEF NextTest, world, disk, said
  <2>2. runner.todo \in Between /\ root.wait = 0 /\ root.index = runner.idx
    BY <2>1, Steps1, Places1, BasicTypes DEF Between, Looping
  <2>3. runner'.todo \in AtTest /\ runner'.idx = runner.idx
    BY <1>9, <2>1, SomePlans, GoesOn DEF NextTest, AtTest
  <2>4. verdict' = "none" /\ unit' => Allowed' = Allowed
    BY <2>1, <2>2, <2>3, AllowedIs, AllowedNext
  <2>5. QED BY <2>1, <2>4, AllowedRange, BasicTypes, TallySame
<1>10. CASE Mark \/ Await
  <2>1. /\ UNCHANGED <<losses, verdict, unit>> /\ N' = N /\ tests' = tests
        /\ At("mark") \/ At("await")
    BY <1>10, SameList DEF Mark, Await, world, said
  <2>2. runner.idx + 1 \in 0..N
    BY <2>1, Places1, BasicTypes DEF Marking, Awaiting
  <2>3. root'.fails = root.fails
    BY <1>10, <2>1, <2>2, RootKeeps DEF Mark, Await
  <2>4. runner'.todo = Left /\ runner'.idx = runner.idx
    BY <1>10, <2>1, RestIsPlan, Continues DEF Mark, Await
  <2>5. runner.todo \in AtTest /\ Left \in AtTest
    BY <2>1, Steps1, Rest, BasicTypes DEF AtTest
  <2>6. verdict' = "none" /\ unit' => Allowed' = Allowed
    BY <2>1, <2>4, <2>5, AllowedIs, AllowedNext
  <2>7. QED BY <2>1, <2>3, <2>6, AllowedRange, BasicTypes, TallySame
<1>11. CASE Judge
  <2>1. UNCHANGED <<root, losses, verdict, unit>> /\ N' = N /\ At("child")
    BY <1>11, SameList DEF Judge, world, said
  <2>2. runner.todo \in AtTest
    BY <2>1, Steps1, BasicTypes DEF AtTest
  <2>3. runner'.idx = runner.idx
    BY <1>11, JudgeDoes
  <2>4. \/ runner'.todo \in AtTest \cup Counted
        \/ runner'.todo = <<"park">> /\ Kind(runner.idx + 1) = "reboot"
    BY <1>11, JudgedPlan DEF AtTest, Counted
  <2>5. Kind(runner.idx + 1) = "reboot" => root.wait # 0 /\ root.index = runner.idx + 1
    BY <2>1, Places1 DEF ShellRun, RebootRun, Awaited
  <2>6. ASSUME verdict' = "none", unit' PROVE Allowed <= Allowed'
    <3>1. Allowed = runner.idx /\ runner.idx \in Nat
      BY <2>1, <2>2, <2>6, AllowedIs, BasicTypes
    <3>2. CASE runner'.todo \in AtTest
      BY <2>3, <2>6, <3>1, <3>2, AllowedNext
    <3>3. CASE runner'.todo \in Counted
      BY <2>3, <2>6, <3>1, <3>3, AllowedNext
    <3>4. CASE runner'.todo = <<"park">> /\ Kind(runner.idx + 1) = "reboot"
      <4>1. runner'.todo \in Between
        BY <3>4 DEF Between
      <4>2. Allowed' = root.index - 1
        BY <2>1, <2>5, <2>6, <3>4, <4>1, AllowedNext
      <4>3. QED BY <2>5, <3>1, <3>4, <4>2
    <3>5. QED BY <2>4, <3>2, <3>3, <3>4
  <2>7. QED BY <2>1, <2>6, TallySame
<1>12. CASE Advance
  <2>1. UNCHANGED <<losses, verdict, unit>> /\ N' = N /\ At("advance")
    BY <1>12, SameList DEF Advance, world
  <2>2. runner.todo \in Counted /\ root.wait = 0
    BY <2>1, Steps1, Places1, BasicTypes DEF Counted, Closing
  <2>3. /\ runner'.todo \in Between /\ root'.index = runner.idx + 1 /\ root'.wait = 0
        /\ root'.fails = root.fails
    BY <1>12, <2>2, AdvanceDoes DEF Between
  <2>4. verdict' = "none" /\ unit' => Allowed' = Allowed
    BY <2>1, <2>2, <2>3, AllowedIs, AllowedNext
  <2>5. QED BY <2>1, <2>3, <2>4, AllowedRange, BasicTypes, TallySame
<1>13. CASE Conclude \/ Disable
  <2>1. /\ UNCHANGED <<root, losses>> /\ N' = N /\ (verdict' # "none" \/ ~unit')
    BY <1>13, SameList DEF Conclude, Disable, world, disk
  <2>2. QED BY <2>1, TallySame
<1>14. QED
  BY <1>1, <1>2, <1>3, <1>4, <1>5, <1>6, <1>7, <1>8, <1>9, <1>10, <1>11, <1>12, <1>13
  DEF RunnerStep

LEMMA MachineTally ==
  ASSUME Trusted, Inv, Inv', Tale, Tally, Shutdown \/ PowerLoss \/ Boot
  PROVE  Tally'
<1> USE DEF Inv
<1>1. CASE Shutdown \/ PowerLoss
  <2>1. /\ UNCHANGED <<tests, verdict, unit>> /\ N' = N /\ runner'.todo = <<>>
        /\ losses' >= losses
        /\ root' = root \/ root' = [root EXCEPT !.fails = Torn]
    BY <1>1, HaltDoes, SameList DEF Off
  <2>2. root'.index = root.index /\ root'.wait = root.wait
        /\ (root'.fails = root.fails \/ root'.fails = Torn)
    BY <2>1, RootKeeps
  <2>3. losses \in Nat /\ losses' \in Nat /\ Worth(root.fails) \in Nat
    BY <2>1, TallyTypes
  <2>4. Worth(root'.fails) <= Worth(root.fails)
    BY <2>2, <2>3 DEF Worth
  <2>5. CASE verdict = "none" /\ unit
    <3>1. Allowed' = IF root.wait = 0 THEN root.index ELSE root.index - 1
      BY <2>1, <2>2, <2>5, AllowedNext DEF Between
    <3>2. ~At("mark") /\ ~At("await")
      BY <1>1, StopsWhere
    <3>3. CASE runner.todo \in Counted
      <4>1. Judged \/ Closing
        <5>1. runner.todo \in {<<"stop", "advance", "next">>, <<"advance", "next">>} => ~Placing
          BY DEF Placing
        <5>2. At("unwait") \/ At("stop") \/ At("advance")
          BY <3>3 DEF Counted, At
        <5>3. ~At("unwait") => runner.todo \in {<<"stop", "advance", "next">>, <<"advance", "next">>}
          BY <3>3 DEF Counted, At
        <5>4. QED BY <5>1, <5>2, <5>3, Places1, Places2
      <4>2. power = "up"
        BY <4>1 DEF Judged, Closing, Calm
      <4>3. losses' = losses + 1
        BY <1>1, <4>2 DEF Shutdown, PowerLoss
      <4>4. Allowed = runner.idx + 1 /\ runner.idx <= Allowed'
        BY <2>5, <3>1, <3>3, <4>1, AllowedIs, BasicTypes DEF Judged, Awaited, Closing
      <4>5. Allowed + losses <= Allowed' + losses'
        BY <2>3, <4>3, <4>4, BasicTypes, <3>1, SMTT(20)
      <4>6. QED BY <2>1, <2>4, <4>5, TallyKept
    <3>4. CASE runner.todo \in AtTest
      <4>1. At("child") \/ At("note") \/ At("unwait")
        BY <3>2, <3>4 DEF AtTest, At
      <4>2. ShellRun \/ RebootRun \/ Judged \/ Closing
        BY <4>1, Places1, Places2
      <4>3. Allowed = runner.idx /\ runner.idx <= Allowed'
        BY <2>5, <3>1, <3>4, <4>2, AllowedIs, BasicTypes
        DEF ShellRun, RebootRun, Judged, Awaited, Closing
      <4>4. Allowed + losses <= Allowed' + losses'
        BY <2>1, <2>3, <3>1, <4>3, BasicTypes
      <4>5. QED BY <2>1, <2>4, <4>4, TallyKept
    <3>5. CASE runner.todo \in Between
      <4>1. Allowed' = Allowed /\ Allowed \in Nat
        BY <2>5, <3>1, <3>5, AllowedIs, AllowedRange, BasicTypes
      <4>2. QED BY <2>1, <2>3, <2>4, <4>1, TallyKept
    <3>6. runner.todo \in Counted \cup AtTest \cup Between
      <4>1. ~At("disable")
        BY <2>5, TaleAt DEF Settled
      <4>2. ~At("direct") /\ ~At("ended") /\ ~At("summary") /\ ~At("rmroot") /\ ~At("prepare")
            /\ ~At("enable")
        BY <2>5, Places1 DEF DirectAt, DirectRun, Over, Setup
      <4>3. runner.todo \notin {<<"direct">>, <<"ended">>, <<"summary">>, <<"rmroot">>,
                                <<"disable", "rmroot">>,
                                <<"prepare", "enable", "begin">>, <<"enable", "begin">>}
        BY <4>1, <4>2 DEF At
      <4>4. QED BY <4>3, BasicTypes DEF Plans, Counted, AtTest, Between
    <3>7. QED BY <3>3, <3>4, <3>5, <3>6
  <2>6. CASE ~(verdict = "none" /\ unit)
    BY <2>1, <2>4, <2>6, TallyDone
  <2>7. QED BY <2>5, <2>6
<1>2. CASE Boot
  <2>1. UNCHANGED <<root, losses, verdict, unit>> /\ N' = N /\ power = "off"
        /\ runner'.todo = IF unit THEN <<"begin">> ELSE <<>>
    BY <1>2, SameList DEF Boot, disk, said, Off
  <2>2. unit => Down
    BY <2>1 DEF Control, DirectAt, DirectRun, Over, Setup, Down, Booted, Judged, Placing, Looping,
           Marking, Awaiting, ShellRun, RebootRun, Parked, Closing, Calm, Running
  <2>3. verdict' = "none" /\ unit' => Allowed' = Allowed
    BY <2>1, <2>2, AllowedIs, AllowedNext DEF Between, Down
  <2>4. QED BY <2>1, <2>3, AllowedRange, BasicTypes, TallySame
<1>3. QED BY <1>1, <1>2

LEMMA NextTally ==
  ASSUME Trusted, Inv, Inv', Tale, Tally, [Next]_vars
  PROVE  Tally'
<1>1. ASSUME NEW t \in T, TestStep(t) PROVE Tally'
  <2>1. UNCHANGED <<root, losses, verdict, unit, runner>> /\ N' = N
    BY <1>1, TestEffect, SameList DEF Inv
  <2>2. QED BY <2>1 DEF Tally, Allowed, Counted, AtTest, Between
<1>2. CASE RunnerStep
  BY <1>2, RunnerTally
<1>3. CASE DirectStep
  <2>1. UNCHANGED <<root, losses>> /\ N' = N
    BY <1>3, SameList DEF DirectStep, DirectStart, DirectJudge, DirectSummary, world, disk
  <2>2. ~unit'
    BY <1>3, Places1 DEF DirectStep, DirectStart, DirectJudge, DirectSummary, disk, Inv, DirectAt,
                         DirectRun
  <2>3. QED BY <2>1, <2>2, TallySame
<1>4. CASE Shutdown \/ PowerLoss \/ Boot
  BY <1>4, MachineTally
<1>5. CASE UNCHANGED vars
  <2>1. UNCHANGED <<root, losses, verdict, unit, runner>> /\ N' = N
    BY <1>5, SameList DEF vars, world, disk, said
  <2>2. QED BY <2>1 DEF Tally, Allowed, Counted, AtTest, Between
<1>6. QED BY <1>1, <1>2, <1>3, <1>4, <1>5 DEF Next

LEMMA PlansAreSteps == Plans \subseteq Seq(Steps)
<1>1. /\ <<>> \in Seq(Steps)
  BY DEF Steps
<1>2. /\ <<"begin">> \in Seq(Steps)
      /\ <<"next">> \in Seq(Steps)
      /\ <<"child">> \in Seq(Steps)
      /\ <<"park">> \in Seq(Steps)
      /\ <<"rmroot">> \in Seq(Steps)
      /\ <<"direct">> \in Seq(Steps)
      /\ <<"ended">> \in Seq(Steps)
      /\ <<"summary">> \in Seq(Steps)
  BY DEF Steps
<1>3. /\ <<"enable", "begin">> \in Seq(Steps)
      /\ <<"load", "next">> \in Seq(Steps)
      /\ <<"await", "child">> \in Seq(Steps)
      /\ <<"advance", "next">> \in Seq(Steps)
      /\ <<"disable", "rmroot">> \in Seq(Steps)
  BY DEF Steps
<1>4. /\ <<"prepare", "enable", "begin">> \in Seq(Steps)
      /\ <<"stop", "load", "next">> \in Seq(Steps)
      /\ <<"mark", "await", "child">> \in Seq(Steps)
      /\ <<"stop", "advance", "next">> \in Seq(Steps)
  BY DEF Steps
<1>5. /\ <<"waiting", "stop", "load", "next">> \in Seq(Steps)
      /\ <<"unwait", "stop", "load", "next">> \in Seq(Steps)
      /\ <<"unwait", "stop", "advance", "next">> \in Seq(Steps)
      /\ <<"note", "stop", "advance", "next">> \in Seq(Steps)
  BY DEF Steps
<1>6. /\ <<"note", "unwait", "stop", "load", "next">> \in Seq(Steps)
      /\ <<"note", "unwait", "stop", "advance", "next">> \in Seq(Steps)
      /\ <<"unwait", "note", "stop", "advance", "next">> \in Seq(Steps)
  BY DEF Steps
<1>7. QED BY <1>1, <1>2, <1>3, <1>4, <1>5, <1>6 DEF Plans

LEMMA TallyType ==
  ASSUME Inv, Tally
  PROVE  TypeOK
<1>1. Types /\ N \in Nat /\ T = 1..N
  BY BasicTypes DEF Inv
<1>2. Allowed \in 0..N
  BY AllowedRange
<1>3. losses \in 0..MaxLosses /\ MaxLosses \in Nat
  BY <1>1, RunAssumption DEF Types, TypeWorld
<1>4. root.fails \in Nat \cup {Torn} /\ Worth(root.fails) <= Allowed + losses
  BY <1>1, BasicTypes DEF Tally
<1>5. root.fails \in (0..(N + MaxLosses)) \cup {Torn}
  BY <1>1, <1>2, <1>3, <1>4 DEF Worth
<1>6. root \in [index : (0..N) \cup {Torn}, fails : (0..(N + MaxLosses)) \cup {Torn}, wait : 0..N]
  BY <1>1, <1>5 DEF Types, TypeRoot
<1>7. runner.todo \in Seq(Steps) /\ runner.idx \in Nat \cup {Torn}
  BY <1>1, BasicTypes, PlansAreSteps
<1>8. QED BY <1>1, <1>3, <1>6, <1>7 DEF Types, TypeWorld, TypeTests, TypeOK

(* The types are kept, and the count of failures on disk stays within the  *)
(* number of the tests and the times power was lost, so that no test is    *)
(* counted twice but for a loss between its count and its place            *)
(* (write_failures, write_index).                                          *)
THEOREM RunTypes == ASSUME Trusted PROVE Spec => []TypeOK
<1>1. Init => Inv /\ Tale /\ Tally
  <2>1. Init => root.fails = 0 /\ losses = 0 /\ unit = FALSE
    BY DEF Init, Fresh
  <2>2. Init => Tally
    <3>1. SUFFICES ASSUME Init PROVE Tally
      OBVIOUS
    <3>2. Allowed \in 0..N /\ N \in Nat
      BY <3>1, InitInv, AllowedRange, BasicTypes DEF Inv
    <3>3. QED BY <2>1, <3>1, <3>2 DEF Tally, Worth, Torn
  <2>3. QED BY <2>2, InitInv, InitTale
<1>2. Inv /\ Tale /\ Tally /\ [Next]_vars => Inv' /\ Tale' /\ Tally'
  BY NextInv, NextTale, NextTally
<1>3. Inv /\ Tally => TypeOK
  BY TallyType
<1>4. QED BY <1>1, <1>2, <1>3, PTL DEF Spec
=============================================================================
