------------------------------ MODULE AtEditor ------------------------------
(***************************************************************************)
(* The text editor inside autotest-assist-tui                              *)
(* (src/autotest-assist-tui/autotest_builder.c): a small vi.  The whole    *)
(* editor is one record and every key maps a record to a record.  A line   *)
(* is a sequence of glyphs; what a completion puts in is one glyph too.    *)
(***************************************************************************)
EXTENDS Integers, Sequences, FiniteSets, SequencesExt, FiniteSetsExt

CONSTANTS EditorLines,  \* EDITOR_LINES
          UndoDepth,    \* EDITOR_UNDO_DEPTH
          PendSize,     \* size of editor_normal_command
          PatternSize,  \* size of editor_search
          Typed,        \* glyphs that are typed
          Templates,    \* REGEX_TEMPLATES: texts that a key can insert
          TemplateSize  \* the longest of them, in glyphs

(* letters, one of them wide, blanks, the beginnings of a directive and of  *)
(* a shell block, and the finished words: @tui, @end, another directive,    *)
(* the part several directives share, a block's head and foot, a @tui       *)
(* command.                                                                 *)
Letters == {"a", "b", "w", "@", "f"}
Blanks == {" ", "tab"}
Words == {"@tui", "@end", "@dir", "@shared", "for", "done", "send"}
Glyphs == Letters \cup Blanks \cup Words
Line == Seq(Glyphs)
Text == Seq(Line)

ASSUME EditorAssumption ==
  /\ EditorLines \in Nat \ {0} /\ UndoDepth \in Nat \ {0}
  /\ PendSize \in Nat \ {0} /\ PatternSize \in Nat \ {0}
  /\ Typed \subseteq Glyphs
  /\ TemplateSize \in Nat /\ \A t \in Templates : t \in Line /\ Len(t) \in 1..TemplateSize

Least(a, b) == IF a < b THEN a ELSE b
Upto(s, n) == SubSeq(s, 1, n)
From(s, n) == SubSeq(s, n + 1, Len(s))

-----------------------------------------------------------------------------
(* Cursor *)

Width(g) == CASE g = "tab" -> 4 [] g = "w" -> 2 [] OTHER -> 1    \* utf8_char_width_at
VisualCol(line, col) == FoldLeft(LAMBDA n, g : n + Width(g), 0, Upto(line, col))
IndexFor(line, target) ==                        \* editor_index_for_visual_col
  Max({i \in 0..Len(line) : i = 0 \/ VisualCol(line, i) <= target})

Cur(e) == e.lines[e.row]
Rows(e) == Len(e.lines)
Settle(e) == [e EXCEPT !.want = VisualCol(Cur(e), e.col)]      \* editor_update_desired_col
At(e, row, col) == [e EXCEPT !.row = row, !.col = col]
Clamp(e) == [e EXCEPT !.col = Least(@, Len(Cur(e)))]

MoveVertical(e, delta) ==
  IF e.row + delta \notin 1..Rows(e) THEN e
  ELSE At(e, e.row + delta, IndexFor(e.lines[e.row + delta], e.want))

GotoLine(e, row) ==
  LET r == IF row < 1 THEN 1 ELSE Least(row, Rows(e)) IN Settle(Clamp(At(e, r, e.col)))

Left(e) == IF e.col > 0 THEN Settle(At(e, e.row, e.col - 1)) ELSE e
Right(e) == IF e.col < Len(Cur(e)) THEN Settle(At(e, e.row, e.col + 1)) ELSE e
Home(e) == Settle(At(e, e.row, 0))
End(e) == Settle(At(e, e.row, Len(Cur(e))))

Occurs(pat, line) == {i \in 0..(Len(line) - Len(pat)) : SubSeq(line, i + 1, i + Len(pat)) = pat}

(* editor_search_next: line by line around the text, the own line last      *)
SearchNext(e, direction) ==
  LET RowAt(step) == ((e.row - 1 + direction * step) % Rows(e)) + 1
      hits == {s \in 1..Rows(e) : Occurs(e.pattern, e.lines[RowAt(s)]) # {}}
      row == RowAt(Min(hits))
  IN  IF e.pattern = <<>> \/ hits = {} THEN e
      ELSE Settle(At(e, row, Min(Occurs(e.pattern, e.lines[row]))))

-----------------------------------------------------------------------------
(* Undo *)

Snapshot(e) == [lines |-> e.lines, row |-> e.row, col |-> e.col]

(* mutant: a full stack drops the newest instead of the oldest              *)
SaveUndoFull(e) ==
  [e EXCEPT !.dirty = TRUE,
            !.undo = IF Len(@) >= UndoDepth THEN @ ELSE Append(@, Snapshot(e))]

SaveUndo(e) ==
  [e EXCEPT !.dirty = TRUE,
            !.undo = Append(IF Len(@) >= UndoDepth THEN Tail(@) ELSE @, Snapshot(e))]

Undo(e) ==
  IF e.undo = <<>> THEN e
  ELSE LET s == Last(e.undo)
           row == Least(s.row, Len(s.lines))
       IN  Settle(Clamp([At(e, row, s.col) EXCEPT !.lines = s.lines, !.undo = Front(@)]))

-----------------------------------------------------------------------------
(* Editing.  SaveUndo comes first, and only if something will be changed.   *)

SetLine(e, line) == [e EXCEPT !.lines[e.row] = line]
Splice(lines, at, gone, new) ==                  \* lines at.. replaced by new
  Upto(lines, at - 1) \o new \o From(lines, at + gone - 1)

(* editor_replace_range, and with an empty range editor_insert_char and     *)
(* editor_insert_bytes                                                      *)
ReplaceRange(e, start, end, text) ==
  Settle([SetLine(SaveUndo(e), Upto(Cur(e), start) \o text \o From(Cur(e), end))
            EXCEPT !.col = start + Len(text)])
InsertChar(e, g) == ReplaceRange(e, e.col, e.col, <<g>>)

(* editor_insert_text: one glyph after the other, each of which can be      *)
(* undone                                                                   *)
InsertText(e, text) ==
  LET after[n \in 0..Len(text)] == IF n = 0 THEN e ELSE InsertChar(after[n - 1], text[n])
  IN  after[Len(text)]

Indent(line) ==
  Upto(line, CHOOSE n \in 0..Len(line) : /\ \A i \in 1..n : line[i] \in Blanks
                                         /\ n < Len(line) => line[n + 1] \notin Blanks)

Newline(e) ==
  IF Rows(e) >= EditorLines THEN e
  ELSE LET indent == Indent(Cur(e))
       IN  Settle([At(SaveUndo(e), e.row + 1, Len(indent)) EXCEPT
             !.lines = Splice(@, e.row, 1, <<Upto(Cur(e), e.col), indent \o From(Cur(e), e.col)>>)])

Backspace(e) ==
  IF e.col > 0 THEN ReplaceRange(e, e.col - 1, e.col, <<>>)
  ELSE IF e.row > 1
  THEN LET prev == e.lines[e.row - 1]
       IN  Settle([At(SaveUndo(e), e.row - 1, Len(prev)) EXCEPT
             !.lines = Splice(@, e.row - 1, 2, <<prev \o Cur(e)>>)])
  ELSE e

DeleteChar(e) ==                                                \* x
  IF e.col < Len(Cur(e))
  THEN Settle(SetLine(SaveUndo(e), Upto(Cur(e), e.col) \o From(Cur(e), e.col + 1)))
  ELSE e

DeleteLines(e, count) ==
  LET n == Least(count, Rows(e) - e.row + 1)
      rest == Splice(e.lines, e.row, n, <<>>)
      left == IF rest = <<>> THEN << <<>> >> ELSE rest
  IN  IF Rows(e) <= 1 THEN [At(SaveUndo(e), 1, 0) EXCEPT !.lines = << <<>> >>]
      ELSE Settle(Clamp([SaveUndo(e) EXCEPT !.lines = left, !.row = Least(@, Len(left))]))

-----------------------------------------------------------------------------
(* Copy and paste.  There is one clipboard, of whole lines or of glyphs.    *)

CopyLines(e, first, last) ==          \* editor_copy_lines, editor_copy_line_range
  [e EXCEPT !.clip = [kind |-> "lines", text |-> SubSeq(e.lines, first, Least(last, Rows(e)))]]

(* editor_visual_char_range: from the first glyph to after the last one     *)
VisualRange(e) ==
  LET ahead == e.ar < e.row \/ (e.ar = e.row /\ e.ac <= e.col)
      er == IF ahead THEN e.row ELSE e.ar
      ec == IF ahead THEN e.col ELSE e.ac
  IN  [sr |-> IF ahead THEN e.ar ELSE e.row, sc |-> IF ahead THEN e.ac ELSE e.col,
       er |-> er, ec |-> Least(ec + 1, Len(e.lines[er]))]

CopyVisualChars(e) ==
  LET v == VisualRange(e)
      Part(r) == SubSeq(e.lines[r], IF r = v.sr THEN v.sc + 1 ELSE 1,
                        IF r = v.er THEN v.ec ELSE Len(e.lines[r]))
  IN  [e EXCEPT !.clip = [kind |-> "chars", text |-> [i \in 1..(v.er - v.sr + 1) |-> Part(v.sr + i - 1)]]]

DeleteVisualChars(e) ==
  LET v == VisualRange(e)
      joined == Upto(e.lines[v.sr], v.sc) \o From(e.lines[v.er], v.ec)
  IN  Settle(Clamp([At(SaveUndo(CopyVisualChars(e)), v.sr, v.sc) EXCEPT
                      !.lines = Splice(@, v.sr, v.er - v.sr + 1, <<joined>>)]))

PasteText(e, text) ==
  LET n == Len(text)
      before == Upto(Cur(e), e.col)
      after == From(Cur(e), e.col)
      new == [i \in 1..n |-> (IF i = 1 THEN before ELSE <<>>) \o text[i]
                               \o (IF i = n THEN after ELSE <<>>)]
  IN  IF text = << <<>> >> \/ Rows(e) + n - 1 > EditorLines THEN e
      ELSE Settle([At(SaveUndo(e), e.row + n - 1, Len(text[n]) + IF n = 1 THEN e.col ELSE 0)
                     EXCEPT !.lines = Splice(@, e.row, 1, new)])

(* mutant: pasted lines are not counted                                     *)
PasteLinesNoLimit(e, above) ==
  LET at == IF above THEN e.row ELSE e.row + 1
  IN  IF e.clip.kind # "lines" THEN e
      ELSE Settle([At(SaveUndo(e), at, 0) EXCEPT !.lines = Splice(@, at, 0, e.clip.text)])

PasteLines(e, above) ==
  LET at == IF above THEN e.row ELSE e.row + 1
      n == Least(Len(e.clip.text), EditorLines - Rows(e))
  IN  CASE e.clip.kind = "none" -> e
        [] e.clip.kind = "chars" ->
             PasteText(IF above THEN e ELSE At(e, e.row, Least(e.col + 1, Len(Cur(e)))), e.clip.text)
        [] e.clip.kind = "lines" ->
             IF n <= 0 THEN e
             ELSE Settle([At(SaveUndo(e), at, 0) EXCEPT
                            !.lines = Splice(@, at, 0, Upto(e.clip.text, n))])

-----------------------------------------------------------------------------
(* Completion *)

FirstWord(line) == IF Len(Indent(line)) < Len(line) THEN line[Len(Indent(line)) + 1] ELSE ""
InsideTui(e) ==
  /\ \E r \in 1..(e.row - 1) : /\ FirstWord(e.lines[r]) = "@tui"
                               /\ \A q \in r..(e.row - 1) : FirstWord(e.lines[q]) # "@end"
  /\ FirstWord(Cur(e)) # "@end"

Breaks == Blanks \cup Words               \* a finished word ends in a blank
TokenStart(e) == CHOOSE n \in 0..e.col : /\ \A i \in (n + 1)..e.col : Cur(e)[i] \notin Breaks
                                         /\ n > 0 => Cur(e)[n] \in Breaks

(* editor_build_completion: what fits the token before the cursor           *)
Items(e) ==
  LET token == SubSeq(Cur(e), TokenStart(e) + 1, e.col)
      alone == \A i \in 1..TokenStart(e) : Cur(e)[i] \in Blanks
  IN  CASE token = <<>> \/ e.target # "command" -> {}
        [] token # <<>> /\ e.target = "command" /\ InsideTui(e) -> IF token = <<"a">> THEN {"send", "a"} ELSE {}
        [] OTHER ->
             CASE token = <<"@">> -> {"@tui", "@dir"}
               [] token = <<"@", "a">> -> {"@shared", "@dir"}
               [] token = <<"f">> /\ alone -> {"for"}
               [] OTHER -> {}

CloseList(e) == [e EXCEPT !.list = {}]

(* editor_complete_tui_block, editor_complete_shell_block: the block's other *)
(* lines are put in if there is room for all of them.                       *)
CompleteBlock(e, start, end, head, rest) ==
  LET indent == Indent(Cur(e))
      line == Upto(Cur(e), start) \o <<head>> \o From(Cur(e), end)
  IN  IF Rows(e) + Len(rest) > EditorLines THEN ReplaceRange(e, start, end, <<head>>)
      ELSE Settle([SaveUndo(e) EXCEPT !.col = start + 1,
             !.lines = Splice(@, e.row, 1, <<line>> \o [i \in DOMAIN rest |-> indent \o rest[i]])])

Accept(e, item) ==
  LET start == TokenStart(e)
      closed == CloseList(e)
  IN  CASE item = "@tui" -> CompleteBlock(closed, start, e.col, item, << <<"@end">> >>)
        [] item = "for" -> CompleteBlock(closed, start, e.col, item, << <<" ", " ">>, <<"done">> >>)
        [] OTHER -> ReplaceRange(closed, start, e.col, <<item>>)

(* editor_try_tab_completion *)
TabKey(e) ==
  LET items == Items(e)
  IN  CASE items = {} -> InsertChar(CloseList(e), "tab")
        [] Cardinality(items) = 1 -> Accept(e, CHOOSE i \in items : TRUE)
        [] "@shared" \in items -> ReplaceRange(CloseList(e), TokenStart(e), e.col, <<"@shared">>)
        [] OTHER -> [e EXCEPT !.list = items]

-----------------------------------------------------------------------------
(* Keys.  A key has a set of outcomes: what is picked from a list, or how a *)
(* command line was worded, is left open.                                   *)

Closed(e) == [e EXCEPT !.mode = "normal"]
CancelRange(e) == [e EXCEPT !.op = "", !.anchor = 1, !.pend = <<>>]
CancelVisual(e) == [e EXCEPT !.vis = "", !.ar = 1, !.ac = 0]

Move(e, k) ==
  CASE k \in {"up", "k"} -> MoveVertical(e, -1)
    [] k \in {"down", "j"} -> MoveVertical(e, 1)
    [] k \in {"left", "h"} -> Left(e)
    [] k \in {"right", "l"} -> Right(e)
    [] k \in {"home", "0"} -> Home(e)
    [] k \in {"end", "$"} -> End(e)
    [] k = "G" -> GotoLine(e, Rows(e))
    [] k = "n" -> SearchNext(e, 1)
    [] k = "N" -> SearchNext(e, -1)

Arrows == {"up", "down", "left", "right", "home", "end"}
RangeMotions == {"up", "down", "j", "k", "G", "n", "N"}
VisualMotions == RangeMotions \cup {"left", "right", "home", "end", "h", "l", "0", "$"}

InsertKey(e, k) ==
  LET c == CloseList(e)
  IN  CASE e.list # {} /\ k \in {"tab", "up", "down"} -> {e}
        [] e.list # {} /\ k = "enter" -> {Accept(e, item) : item \in e.list}
        [] e.list # {} /\ k = "esc" -> {c}
        [] OTHER -> {CASE k = "esc" -> Closed(c)
                       [] k = "enter" -> Newline(c)
                       [] k = "back" -> Backspace(c)
                       [] k = "tab" -> TabKey(c)
                       [] k \in Arrows -> Move(c, k)
                       [] k \in Typed -> InsertChar(c, k)
                       [] OTHER -> c}

SearchKey(e, k) ==
  CASE k = "enter" -> SearchNext(Closed(e), 1)
    [] k = "back" -> IF e.pattern = <<>> THEN Closed(e) ELSE [e EXCEPT !.pattern = Front(@)]
    [] k = "esc" -> [Closed(e) EXCEPT !.pattern = <<>>]
    [] k \in Typed /\ Len(e.pattern) + 1 < PatternSize -> [e EXCEPT !.pattern = Append(@, k)]
    [] OTHER -> e

VisualKey(e, k) ==
  LET first == Least(e.ar, e.row)
      last == IF e.ar < e.row THEN e.row ELSE e.ar
      copied == CopyLines(e, first, last)
  IN  CASE k = "esc" -> CancelVisual(e)
        [] k = "y" -> CancelVisual(IF e.vis = "line" THEN copied ELSE CopyVisualChars(e))
        [] k \in {"d", "x"} ->
             CancelVisual(IF e.vis = "line" THEN DeleteLines(At(copied, first, 0), last - first + 1)
                          ELSE DeleteVisualChars(e))
        [] OTHER -> e

(* d or y again, with a motion in between: editor_apply_line_range          *)
ApplyRange(e) ==
  LET first == Least(e.anchor, e.row)
      last == IF e.anchor < e.row THEN e.row ELSE e.anchor
  IN  CancelRange(IF e.op = "y" THEN CopyLines(e, first, last)
                  ELSE DeleteLines(At(e, first, e.col), last - first + 1))

(* editor_handle_normal_sequence: dNd, yNy, gg, NG.  The only digit is 2.   *)
Digit(k) == k = "2"
Number(pend) == IF Len(SelectSeq(pend, Digit)) > 1 THEN 22 ELSE 2
Continues(pend, k) ==
  LET first == pend[1] IN
  \/ first \in {"d", "y"} /\ (Len(pend) = 1 \/ Digit(Last(pend))) /\ (Digit(k) \/ k = first)
  \/ first = "g" /\ Len(pend) = 1 /\ k = "g"
  \/ Digit(first) /\ (Digit(k) \/ k = "G")
Sequence(e, k) ==                                  \* <<whether it took the key, editor>>
  LET count == IF Len(e.pend) > 1 THEN Number(e.pend) ELSE 1
      more == [e EXCEPT !.pend = Append(@, k)]
      Took(x) == <<TRUE, x>>
  IN  IF e.pend = <<>> /\ k \notin {"d", "y", "g", "2"} THEN <<FALSE, e>>
      ELSE IF k \in Arrows \cup {"enter", "back", "tab"} THEN <<FALSE, CancelRange(e)>>
      ELSE IF k = "esc" \/ Len(e.pend) + 1 >= PendSize THEN Took(CancelRange(e))
      ELSE IF e.pend = <<>>
      THEN Took(IF k \in {"d", "y"} THEN [more EXCEPT !.op = k, !.anchor = e.row] ELSE more)
      ELSE IF ~Continues(e.pend, k) THEN <<FALSE, CancelRange(e)>>
      ELSE Took(CASE k = "d" -> CancelRange(DeleteLines(e, count))
                  [] k = "y" -> CancelRange(CopyLines(e, e.row, e.row + count - 1))
                  [] k = "g" -> CancelRange(GotoLine(e, 1))
                  [] k = "G" -> CancelRange(GotoLine(e, Number(e.pend)))
                  [] OTHER -> more)

PlainKey(e, k) ==
  LET c == [CancelVisual(e) EXCEPT !.pend = <<>>]
      Start(kind) == [CancelRange(e) EXCEPT !.vis = kind, !.ar = e.row, !.ac = e.col]
  IN  CASE k = "i" -> [c EXCEPT !.mode = "insert"]
        [] k = "v" -> Start("char")
        [] k = "V" -> Start("line")
        [] k = ":" -> [c EXCEPT !.mode = "line"]
        [] k = "/" -> [c EXCEPT !.mode = "search", !.pattern = <<>>]
        [] k = "u" -> Undo(e)
        [] k = "p" -> PasteLines(e, FALSE)
        [] k = "P" -> PasteLines(e, TRUE)
        [] k = "x" -> DeleteChar(e)
        [] k = "o" -> [Newline(At(e, e.row, Len(Cur(e)))) EXCEPT !.mode = "insert"]
        [] k \in VisualMotions -> Move(e, k)
        [] OTHER -> e

NormalKey(e, k) ==
  LET broken == e.op # "" /\ k \notin RangeMotions /\ ~Digit(k) /\ ~(k = e.op /\ Len(e.pend) > 1)
      r == IF broken THEN CancelRange(e) ELSE e
      s == IF e.vis = "" /\ ~(e.op # "" /\ k \in RangeMotions) THEN Sequence(r, k) ELSE <<FALSE, r>>
  IN  CASE e.vis # "" /\ k \notin VisualMotions -> VisualKey(e, k)
        [] e.vis = "" /\ e.op # "" /\ k = "esc" -> CancelRange(e)
        [] e.vis = "" /\ e.op # "" /\ k = e.op /\ Len(e.pend) = 1 -> ApplyRange(e)
        [] OTHER -> Clamp(IF s[1] THEN s[2] ELSE PlainKey(s[2], k))

(* handle_script_editor_key, save for what leaves or writes *)
Keyed(e, k) ==
  CASE e.mode = "insert" -> InsertKey(e, k)
    [] e.mode = "help" -> {IF k \in {"esc", "enter"} THEN Closed(e) ELSE e}
    [] e.mode = "line" ->
         CASE k = "esc" -> {Closed(e)}
           [] k = "back" -> {e, Closed(e)}
           [] k = "enter" -> {Closed(e), [e EXCEPT !.mode = "help", !.tmpl = FALSE],
                              [Closed(e) EXCEPT !.tmpl = e.target = "command" \/ @]}
           [] OTHER -> {e}
    [] e.mode = "search" -> {SearchKey(e, k)}
    [] e.mode = "normal" ->
         CASE e.tmpl /\ k = "esc" -> {[e EXCEPT !.tmpl = FALSE]}
           [] e.tmpl /\ k \in {"tab", "up", "down"} -> {e}
           [] e.tmpl /\ k = "enter" -> {InsertText(e, t) : t \in Templates}
           [] OTHER -> {NormalKey(e, k)}

(* How many changes a key makes, at most: one, save for the key that picks  *)
(* a template.                                                              *)
Picking(e) == e.mode = "normal" /\ e.tmpl
KeyChanges(e) == IF Picking(e) /\ TemplateSize > 1 THEN TemplateSize ELSE 1

(* load_editor_text: a text that is too long is cut.                        *)
Loaded(text, target) ==
  [lines |-> Upto(text, Least(Len(text), EditorLines)), row |-> 1, col |-> 0, want |-> 0,
   undo |-> <<>>, clip |-> [kind |-> "none", text |-> <<>>], mode |-> "normal",
   list |-> {}, pattern |-> <<>>, vis |-> "", ar |-> 1, ac |-> 0,
   op |-> "", anchor |-> 1, pend |-> <<>>, tmpl |-> FALSE, dirty |-> FALSE, target |-> target]

-----------------------------------------------------------------------------
(* Properties *)

(* The cursor, the anchor of a selection and that of a range are on the     *)
(* text, which has no more lines than fit.                                  *)
InText(e) ==
  /\ e.lines # <<>> /\ Rows(e) <= EditorLines
  /\ \A r \in 1..Rows(e) : e.lines[r] \in Line
  /\ e.row \in 1..Rows(e) /\ e.col \in 0..Len(Cur(e)) /\ e.want \in Nat
  /\ e.vis # "" => e.ar \in 1..Rows(e) /\ e.ac \in 0..Len(e.lines[e.ar])
  /\ e.op # "" => e.anchor \in 1..Rows(e)
  /\ Len(e.undo) <= UndoDepth /\ Len(e.pend) < PendSize
  /\ e.list # {} => e.mode = "insert"
=============================================================================
