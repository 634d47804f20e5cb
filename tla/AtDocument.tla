----------------------------- MODULE AtDocument -----------------------------
(***************************************************************************)
(* What the editor of autotest-assist-tui promises of a text: while it is  *)
(* open, every change can be taken back, newest first, as far as Depth     *)
(* changes, and nothing else brings an earlier text back.                  *)
(***************************************************************************)
EXTENDS Naturals, Sequences, SequencesExt

CONSTANT Depth

VARIABLES open, doc, past,
          burst    \* how many changes the next key makes, at most: the editor's mode

vars == <<open, doc, past>>

Init == ~open

Open == ~open /\ open' /\ past' = <<>>

Close == open /\ ~open'

(* The text before the change is remembered, and the k texts between if one *)
(* key makes several; the oldest are given up for want of room.             *)
Change ==
  /\ open /\ UNCHANGED open
  /\ \E k \in 0..(burst - 1) :
       LET n == IF Len(past') > k THEN Len(past') - k ELSE 0
           all == Append(past, doc)
       IN  /\ n <= Len(all)
           /\ SubSeq(past', 1, n) = SubSeq(all, Len(all) - n + 1, Len(all))
           /\ n = Len(all) \/ Len(past') = Depth

Undo ==
  /\ open /\ UNCHANGED open
  /\ past # <<>> /\ doc' = Last(past) /\ past' = Front(past)

Next == Open \/ Close \/ Change \/ Undo

Spec == Init /\ [][Next]_vars
=============================================================================
