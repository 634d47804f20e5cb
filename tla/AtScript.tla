------------------------------ MODULE AtScript ------------------------------
(***************************************************************************)
(* The script of a test in autotest-assist-tui and what the builder makes  *)
(* of it (src/autotest-assist-tui/autotest_builder.c).  The same text is   *)
(* read by five scanners that were written apart: the syntax check, the    *)
(* generator of the shell code, the counter of its checks, the recogniser  *)
(* of reboots and the splitter into what runs before and after a reboot.   *)
(* A line is represented by what those scanners can tell of it.            *)
(***************************************************************************)
EXTENDS Naturals, Sequences, SequencesExt

CONSTANTS PhaseLines,   \* lines that fit the buffer of write_command_phase
          MaxScript     \* bound: length of the scripts compared below

ASSUME ScriptAssumption == PhaseLines \in Nat /\ MaxScript \in Nat

(* cmd: shell code.  mention: shell code with " reboot" in it that is not   *)
(* a reboot command, like an echo.  reboot: a reboot command.  call: any    *)
(* of @assert, @backup, @restore, @capture and the @evidence family, each   *)
(* one call in the generated code.  check: @check with its value in place,  *)
(* heredoc: with the value in the lines that follow, up to delim.  bare: a  *)
(* directive without its argument.  unknown: any other word with an @.      *)
(* send: an instruction for the program in a @tui block.                    *)
Line == {"cmd", "mention", "reboot", "rebootif", "call", "check", "heredoc",
         "delim", "bare", "unknown", "tui", "send", "end"}

-----------------------------------------------------------------------------
(* command_looks_like_reboot, and with it the kind of the test              *)
LooksLikeReboot(s) == \E i \in DOMAIN s : s[i] \in {"reboot", "rebootif", "mention"}

(* line_is_reboot_boundary *)
Boundary(l) == l \in {"reboot", "rebootif"}

Boundaries(s) == {i \in DOMAIN s : Boundary(s[i])}
FirstBoundary(s) == IF Boundaries(s) = {} THEN Len(s) + 1
                    ELSE CHOOSE i \in Boundaries(s) : \A j \in Boundaries(s) : i <= j

(* mutant: the boundary is told by what makes a test a reboot test *)
PhaseByMention(s, post) ==
  LET B == {i \in DOMAIN s : s[i] \in {"reboot", "rebootif", "mention"}}
      first == IF B = {} THEN Len(s) + 1 ELSE CHOOSE i \in B : \A j \in B : i <= j
  IN  IF post THEN SubSeq(s, first + 1, Len(s)) ELSE SubSeq(s, 1, first - 1)

(* write_command_phase: the lines before the first boundary, or those after *)
(* it without any further boundary, as far as the buffer goes.              *)
Phase(s, post) ==
  LET first == FirstBoundary(s)
      part == IF post THEN SelectSeq(SubSeq(s, first, Len(s)), LAMBDA l : ~Boundary(l))
              ELSE SubSeq(s, 1, first - 1)
  IN  SubSeq(part, 1, IF Len(part) > PhaseLines THEN PhaseLines ELSE Len(part))

(* write_reboot_command: a test that only mentions a reboot gets one.       *)
RebootCommand(s) == IF Boundaries(s) = {} THEN "reboot" ELSE s[FirstBoundary(s)]

-----------------------------------------------------------------------------
(* The scanners that keep a state from line to line                         *)

(* collect_check_heredoc: the value goes on until its delimiter             *)
Skips(l) == l # "delim"

(* write_tui_instruction, validate_tui_instruction                          *)
Written(l) == IF l = "send" THEN <<>> ELSE <<"ng">>
Instruction(l) == l = "send"

(* write_inline_check_capture, and parse_check_arg for where the value is   *)
Captured == <<"keep">>
Opens(l) == l = "heredoc"

(* write_command_expanded: "run" is code that is copied or a call, "keep"   *)
(* the capture of a check, "tui" a whole block, "ng" code that only ends    *)
(* the test with a complaint.                                               *)
ExpandLine(a, l) ==
  CASE a.doc -> [a EXCEPT !.doc = Skips(l)]
    [] ~a.doc /\ a.tui ->
         IF l = "end" THEN [a EXCEPT !.tui = FALSE, !.out = Append(@, "tui")]
         ELSE [a EXCEPT !.out = @ \o Written(l)]
    [] ~a.doc /\ ~a.tui /\ l = "tui" -> [a EXCEPT !.tui = TRUE]
    [] ~a.doc /\ ~a.tui /\ l \in {"check", "heredoc"} ->
         [a EXCEPT !.doc = Opens(l), !.out = @ \o Captured]
    [] OTHER -> [a EXCEPT !.out = Append(@, IF l = "end" THEN "ng" ELSE "run")]

Expand(s) ==
  LET a == FoldLeft(ExpandLine, [tui |-> FALSE, doc |-> FALSE, out |-> <<>>], s)
  IN  IF a.tui THEN a.out \o <<"ng", "tui">> ELSE a.out

(* trimmed_has_directive with the checks of each directive's argument      *)
WellFormed(l) == l \notin {"bare", "unknown"}

(* validate_custom_syntax; bash -n on the expanded code is a service that   *)
(* knows shell syntax only.                                                 *)
ValidateLine(a, l) ==
  CASE a.doc -> [a EXCEPT !.doc = Skips(l)]
    [] ~a.doc /\ a.tui ->
         [a EXCEPT !.tui = l # "end", !.ok = @ /\ (l = "end" \/ Instruction(l))]
    [] OTHER ->
         [a EXCEPT !.tui = l = "tui", !.doc = Opens(l),
                   !.ok = @ /\ l # "end" /\ WellFormed(l)]

ValidCustom(s) ==
  LET a == FoldLeft(ValidateLine, [tui |-> FALSE, doc |-> FALSE, ok |-> TRUE], s)
  IN  a.ok /\ ~a.tui /\ ~a.doc

(* mutant: the lines of a value are counted too *)
CountLineNoDoc(a, l) == [doc |-> FALSE, n |-> IF l \in {"check", "heredoc"} THEN a.n + 1 ELSE a.n]

(* next_check_directive, command_check_count: they know nothing of @tui     *)
CountLine(a, l) ==
  IF a.doc THEN [a EXCEPT !.doc = Skips(l)]
  ELSE [doc |-> Opens(l), n |-> IF l \in {"check", "heredoc"} THEN a.n + 1 ELSE a.n]

CheckCount(s) == FoldLeft(CountLine, [doc |-> FALSE, n |-> 0], s).n

-----------------------------------------------------------------------------
(* What the scanners owe each other *)

Scripts == UNION {[1..n -> Line] : n \in 0..MaxScript}
Kept(s) == Len(SelectSeq(Expand(s), LAMBDA x : x = "keep"))

(* A script that passes the syntax check contains no complaint once it is   *)
(* expanded, and captures as many checks as the judging part will look for. *)
Agrees(s) ==
  ValidCustom(s) => /\ "ng" \notin ToSet(Expand(s))
                    /\ Kept(s) = CheckCount(s)

(* Only the whole script is ever checked, and two parts of it are run.  As  *)
(* long as no reboot stands inside a block or a value, and the phases fit   *)
(* the buffer, both parts are valid, and no check is lost between them.     *)
Inside(s, i) == LET a == FoldLeft(ExpandLine, [tui |-> FALSE, doc |-> FALSE, out |-> <<>>],
                                  SubSeq(s, 1, i - 1))
                IN  a.tui \/ a.doc
Splits(s) ==
  ValidCustom(s) /\ (\A i \in Boundaries(s) : ~Inside(s, i)) /\ Len(s) <= PhaseLines =>
    /\ ValidCustom(Phase(s, FALSE)) /\ ValidCustom(Phase(s, TRUE))
    /\ Kept(Phase(s, FALSE)) + Kept(Phase(s, TRUE)) = CheckCount(s)
=============================================================================
