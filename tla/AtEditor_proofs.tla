--------------------------- MODULE AtEditor_proofs ---------------------------
(***************************************************************************)
(* Proofs about AtEditor: whatever key is pressed, the cursor, the anchors *)
(* and the snapshots stay on the text, the text fits, and the undo stack   *)
(* remembers each change.                                                  *)
(***************************************************************************)
EXTENDS AtEditor, FiniteSetTheorems, SequenceTheorems, WellFoundedInduction, TLAPS

-----------------------------------------------------------------------------
(* Sets of numbers                                                          *)

(* Induction, for a set instead of a predicate. *)
LEMMA NatSet ==
  ASSUME NEW S, 0 \in S, \A n \in Nat : n \in S => n + 1 \in S
  PROVE  Nat \subseteq S
<1> DEFINE T == Nat \ S
<1> DEFINE Less == {ss \in Nat \X Nat : ss[1] < ss[2]}
<1>1. SUFFICES ASSUME T # {} PROVE FALSE
  OBVIOUS
<1>2. IsWellFoundedOn(Less, Nat)
  BY NatLessThanWellFounded DEF OpToRel
<1>3. PICK x \in T : \A y \in T : ~(<<y, x>> \in Less)
  <2>1. T \subseteq Nat
    OBVIOUS
  <2> HIDE DEF T, Less
  <2> QED
    BY <2>1, <1>1, <1>2, WFMin
<1>4. x \in Nat /\ x \notin S /\ x # 0
  OBVIOUS
<1>5. x - 1 \in Nat /\ x - 1 < x /\ x = (x - 1) + 1
  BY <1>4
<1>6. <<x - 1, x>> \in Less
  BY <1>4, <1>5
<1>7. x - 1 \in S
  <2>1. x - 1 \notin T
    BY <1>3, <1>6
  <2> QED
    BY <2>1, <1>5
<1> QED
  <2>1. (x - 1) + 1 \in S
    BY <1>7, <1>5
  <2> QED
    BY <2>1, <1>4, <1>5

LEMMA LeastExists ==
  ASSUME NEW S \in SUBSET Nat, S # {}
  PROVE  \E i \in S : \A j \in S : i <= j
<1> DEFINE Less == {ss \in Nat \X Nat : ss[1] < ss[2]}
<1>1. IsWellFoundedOn(Less, Nat)
  BY NatLessThanWellFounded DEF OpToRel
<1>2. PICK x \in S : \A y \in S : ~(<<y, x>> \in Less)
  <2> HIDE DEF Less
  <2> QED
    BY <1>1, WFMin
<1>3. ASSUME NEW y \in S PROVE x <= y
  <2>1. x \in Nat /\ y \in Nat
    OBVIOUS
  <2>2. ~(<<y, x>> \in Less)
    BY <1>2
  <2>3. ~(y < x)
    BY <2>1, <2>2
  <2> QED
    BY <2>1, <2>3
<1> QED
  BY <1>3

LEMMA GreatestExists ==
  ASSUME NEW n \in Nat, NEW S \in SUBSET (0..n), S # {}
  PROVE  \E i \in S : \A j \in S : j <= i
<1> DEFINE T == {m \in Nat : \A j \in S : j <= m}
<1>1. n \in T
  OBVIOUS
<1>2. PICK m \in T : \A k \in T : m <= k
  <2>1. T \in SUBSET Nat /\ T # {}
    BY <1>1
  <2> HIDE DEF T
  <2> QED
    BY <2>1, LeastExists
<1>3. m \in S
  <2>1. SUFFICES ASSUME m \notin S PROVE FALSE
    OBVIOUS
  <2>2. PICK j \in S : TRUE
    OBVIOUS
  <2>3. m > 0 /\ m - 1 \in Nat
    BY <2>1, <2>2
  <2>4. \A k \in S : k <= m - 1
    BY <2>1
  <2>5. m - 1 \in T
    BY <2>3, <2>4
  <2> QED
    BY <2>5, <1>2
<1> QED
  BY <1>2, <1>3

LEMMA MinIn ==
  ASSUME NEW S \in SUBSET Nat, S # {}
  PROVE  Min(S) \in S /\ \A j \in S : Min(S) <= j
BY LeastExists DEF Min

LEMMA MaxIn ==
  ASSUME NEW n \in Nat, NEW S \in SUBSET (0..n), S # {}
  PROVE  Max(S) \in S /\ \A j \in S : j <= Max(S)
<1>1. \E i \in S : \A j \in S : i >= j
  <2>1. PICK i \in S : \A j \in S : j <= i
    BY GreatestExists
  <2>2. \A j \in S : i >= j
    BY <2>1
  <2> QED
    BY <2>2
<1>2. Max(S) \in S /\ \A j \in S : Max(S) >= j
  BY <1>1 DEF Max
<1> QED
  BY <1>2

LEMMA LeastIs ==
  ASSUME NEW a \in Nat, NEW b \in Nat
  PROVE  /\ Least(a, b) \in Nat /\ Least(a, b) <= a /\ Least(a, b) <= b
         /\ Least(a, b) \in {a, b}
         /\ Least(a, b) \in 0..a /\ Least(a, b) \in 0..b
BY DEF Least

-----------------------------------------------------------------------------
(* Sequences                                                                *)

LEMMA OneIs ==
  ASSUME NEW A, NEW a \in A, NEW b \in A
  PROVE  <<a>> \in Seq(A) /\ Len(<<a>>) = 1 /\ <<a, b>> \in Seq(A)
OBVIOUS

LEMMA AppendIs ==
  ASSUME NEW A, NEW s \in Seq(A), NEW a \in A
  PROVE  Append(s, a) \in Seq(A) /\ Len(Append(s, a)) = Len(s) + 1 /\ Len(s) \in Nat
OBVIOUS

LEMMA UptoIs ==
  ASSUME NEW A, NEW s \in Seq(A), NEW n \in 0..Len(s)
  PROVE  /\ Upto(s, n) \in Seq(A) /\ Len(Upto(s, n)) = n
         /\ \A i \in 1..n : Upto(s, n)[i] = s[i]
BY DEF Upto

LEMMA FromIs ==
  ASSUME NEW A, NEW s \in Seq(A), NEW n \in 0..Len(s)
  PROVE  /\ From(s, n) \in Seq(A) /\ Len(From(s, n)) = Len(s) - n
         /\ \A i \in 1..(Len(s) - n) : From(s, n)[i] = s[n + i]
BY DEF From

LEMMA SpliceIs ==
  ASSUME NEW s \in Text, NEW new \in Text, NEW at \in Nat, NEW gone \in Nat,
         1 <= at, at + gone <= Len(s) + 1
  PROVE  /\ Splice(s, at, gone, new) \in Text
         /\ Len(Splice(s, at, gone, new)) = Len(s) - gone + Len(new)
         /\ \A i \in 1..(at - 1) : Splice(s, at, gone, new)[i] = s[i]
         /\ \A i \in 1..Len(new) : Splice(s, at, gone, new)[at - 1 + i] = new[i]
<1> DEFINE before == Upto(s, at - 1)
           after == From(s, at + gone - 1)
<1> DEFINE A == Line
<1>0. s \in Seq(A) /\ new \in Seq(A) /\ Len(s) \in Nat
  BY DEF Text
<1> HIDE DEF A
<1>1. at - 1 \in 0..Len(s) /\ at + gone - 1 \in 0..Len(s)
  BY <1>0
<1>2. /\ before \in Seq(A) /\ Len(before) = at - 1
      /\ \A i \in 1..(at - 1) : before[i] = s[i]
  BY <1>0, <1>1, UptoIs
<1>3. after \in Seq(A) /\ Len(after) = Len(s) - (at + gone - 1)
  BY <1>0, <1>1, FromIs
<1> HIDE DEF before, after
<1> DEFINE front == before \o new
<1>4. /\ front \in Seq(A) /\ Len(front) = at - 1 + Len(new)
      /\ \A i \in 1..(at - 1) : front[i] = before[i]
      /\ \A i \in 1..Len(new) : front[at - 1 + i] = new[i]
  <2>1. before \in Seq(A) /\ Len(before) = at - 1 /\ new \in Seq(A)
    BY <1>0, <1>2
  <2>2. /\ front \in Seq(A) /\ Len(front) = Len(before) + Len(new)
        /\ \A i \in 1..Len(before) : front[i] = before[i]
        /\ \A i \in 1..Len(new) : front[Len(before) + i] = new[i]
    BY <2>1
  <2> HIDE DEF front
  <2> QED
    BY <2>1, <2>2
<1> HIDE DEF front
<1>5. Len(new) \in Nat /\ Len(s) \in Nat /\ at \in Nat /\ gone \in Nat
  BY <1>0
<1>6. /\ front \o after \in Seq(A)
      /\ Len(front \o after) = (at - 1 + Len(new)) + Len(after)
      /\ \A i \in 1..(at - 1 + Len(new)) : (front \o after)[i] = front[i]
  <2>1. front \in Seq(A) /\ Len(front) = at - 1 + Len(new) /\ after \in Seq(A)
    BY <1>4, <1>3
  <2>2. /\ front \o after \in Seq(A) /\ Len(front \o after) = Len(front) + Len(after)
        /\ \A i \in 1..Len(front) : (front \o after)[i] = front[i]
    BY <2>1
  <2> DEFINE both == front \o after
  <2> HIDE DEF both
  <2>3. /\ both \in Seq(A) /\ Len(both) = Len(front) + Len(after)
        /\ \A i \in 1..Len(front) : both[i] = front[i]
    BY <2>2 DEF both
  <2>4. /\ both \in Seq(A) /\ Len(both) = (at - 1 + Len(new)) + Len(after)
        /\ \A i \in 1..(at - 1 + Len(new)) : both[i] = front[i]
    BY <2>1, <2>3
  <2> QED
    BY <2>4 DEF both
<1>7. Splice(s, at, gone, new) = front \o after
  BY DEF Splice, before, after, front
<1>8. Len(front \o after) = Len(s) - gone + Len(new)
  BY <1>6, <1>3, <1>5
<1>9. \A i \in 1..Len(new) : at - 1 + i \in 1..(at - 1 + Len(new))
  BY <1>5
<1>10. \A i \in 1..(at - 1) : i \in 1..(at - 1 + Len(new))
  BY <1>5
<1>11. \A i \in 1..(at - 1) : (front \o after)[i] = s[i]
  BY <1>2, <1>4, <1>6, <1>10
<1>12. \A i \in 1..Len(new) : (front \o after)[at - 1 + i] = new[i]
  BY <1>4, <1>6, <1>9
<1> QED
  BY <1>6, <1>7, <1>8, <1>11, <1>12 DEF A, Text

-----------------------------------------------------------------------------
(* Columns                                                                  *)

(* The columns of the glyphs of a line at the places in s, as FoldLeft      *)
(* counts them, where the places are among 1..k.                            *)
ColsStep(line, h, s) == IF s = {} THEN 0 ELSE h[s \ {Max(s)}] + Width(line[Max(s)])
Cols(line, k) == CHOOSE h : h = [s \in SUBSET (1..k) |-> ColsStep(line, h, s)]

LEMMA MaxOf ==
  ASSUME NEW k \in Nat, NEW s \in SUBSET (1..k), s # {}
  PROVE  Max(s) \in s /\ Max(s) \in 1..k /\ \A j \in s : j <= Max(s)
<1>1. s \in SUBSET (0..k)
  OBVIOUS
<1> QED
  BY <1>1, MaxIn

LEMMA ColsExist ==
  ASSUME NEW line, NEW k \in Nat
  PROVE  \E h : h = [s \in SUBSET (1..k) |-> ColsStep(line, h, s)]
<1> DEFINE Can == {n \in Nat : \E h : h = [s \in SUBSET (1..n) |-> ColsStep(line, h, s)]}
<1>1. 0 \in Can
  <2> DEFINE h == [s \in SUBSET (1..0) |-> 0]
  <2>1. \A s \in SUBSET (1..0) : s = {}
    OBVIOUS
  <2>2. h = [s \in SUBSET (1..0) |-> ColsStep(line, h, s)]
    BY <2>1 DEF ColsStep
  <2> QED
    BY <2>2
<1>2. ASSUME NEW n \in Nat, n \in Can PROVE n + 1 \in Can
  <2>1. PICK g : g = [s \in SUBSET (1..n) |-> ColsStep(line, g, s)]
    BY <1>2
  <2> DEFINE W == Width(line[n + 1])
             h == [s \in SUBSET (1..(n + 1)) |->
                     IF n + 1 \in s THEN g[s \ {n + 1}] + W ELSE g[s]]
  <2>2. ASSUME NEW s \in SUBSET (1..(n + 1)) PROVE h[s] = ColsStep(line, h, s)
    <3>1. CASE n + 1 \in s
      <4>1. Max(s) \in s /\ Max(s) \in 1..(n + 1) /\ \A j \in s : j <= Max(s)
        BY <3>1, MaxOf
      <4>2. Max(s) = n + 1
        BY <3>1, <4>1
      <4>3. s \ {n + 1} \in SUBSET (1..(n + 1)) /\ n + 1 \notin s \ {n + 1}
        OBVIOUS
      <4>4. h[s \ {n + 1}] = g[s \ {n + 1}]
        BY <4>3
      <4> QED
        BY <3>1, <4>2, <4>4 DEF ColsStep
    <3>2. CASE n + 1 \notin s
      <4>1. s \in SUBSET (1..n)
        BY <3>2
      <4>2. h[s] = ColsStep(line, g, s)
        BY <2>1, <3>2, <4>1
      <4>3. CASE s = {}
        BY <4>2, <4>3 DEF ColsStep
      <4>4. CASE s # {}
        <5>1. Max(s) \in s /\ n + 1 \notin s \ {Max(s)}
          BY <3>2, <4>1, <4>4, MaxOf
        <5>2. s \ {Max(s)} \in SUBSET (1..(n + 1))
          OBVIOUS
        <5>3. h[s \ {Max(s)}] = g[s \ {Max(s)}]
          BY <5>1, <5>2
        <5> QED
          BY <4>2, <4>4, <5>3 DEF ColsStep
      <4> QED
        BY <4>3, <4>4
    <3> QED
      BY <3>1, <3>2
  <2>3. h = [s \in SUBSET (1..(n + 1)) |-> ColsStep(line, h, s)]
    <3> HIDE DEF W
    <3>1. h = [s \in SUBSET (1..(n + 1)) |-> h[s]]
      OBVIOUS
    <3> HIDE DEF h
    <3> QED
      BY <2>2, <3>1
  <2>4. \E f : f = [s \in SUBSET (1..(n + 1)) |-> ColsStep(line, f, s)]
    <3> HIDE DEF h
    <3> QED
      BY <2>3
  <2> QED
    BY <2>4
<1>3. Nat \subseteq Can
  <2> HIDE DEF Can
  <2> QED
    BY <1>1, <1>2, NatSet
<1> QED
  BY <1>3

LEMMA WidthType == ASSUME NEW g PROVE Width(g) \in Nat
BY DEF Width

LEMMA ColsType ==
  ASSUME NEW line, NEW k \in Nat
  PROVE  Cols(line, k)[1..k] \in Nat
<1> DEFINE h == Cols(line, k)
<1>1. h = [s \in SUBSET (1..k) |-> ColsStep(line, h, s)]
  BY ColsExist DEF Cols
<1> HIDE DEF h
<1> DEFINE Good == {n \in Nat : \A s \in SUBSET (1..k) : s \subseteq 1..n => h[s] \in Nat}
<1>2. 0 \in Good
  <2>1. \A s \in SUBSET (1..k) : s \subseteq 1..0 => s = {}
    OBVIOUS
  <2>2. {} \in SUBSET (1..k) /\ ColsStep(line, h, {}) = 0
    BY DEF ColsStep
  <2>3. h[{}] = 0
    BY <1>1, <2>2
  <2>4. \A s \in SUBSET (1..k) : s \subseteq 1..0 => h[s] \in Nat
    <3> SUFFICES ASSUME NEW s \in SUBSET (1..k), s \subseteq 1..0 PROVE h[s] \in Nat
      OBVIOUS
    <3>1. s = {}
      BY <2>1
    <3> QED
      BY <2>3, <3>1
  <2> QED
    BY <2>4
<1>3. ASSUME NEW n \in Nat, n \in Good PROVE n + 1 \in Good
  <2> SUFFICES ASSUME NEW s \in SUBSET (1..k), s \subseteq 1..(n + 1) PROVE h[s] \in Nat
    OBVIOUS
  <2>1. h[s] = ColsStep(line, h, s)
    BY <1>1
  <2>2. CASE s = {}
    BY <2>1, <2>2 DEF ColsStep
  <2>3. CASE s # {}
    <3>1. Max(s) \in s /\ \A j \in s : j <= Max(s)
      BY <2>3, MaxOf
    <3>2. s \ {Max(s)} \subseteq 1..n
      <4> SUFFICES ASSUME NEW x \in s, x # Max(s) PROVE x \in 1..n
        OBVIOUS
      <4>1. x \in 1..(n + 1) /\ Max(s) \in 1..(n + 1) /\ x <= Max(s)
        BY <3>1
      <4> QED
        BY <4>1
    <3>3. h[s \ {Max(s)}] \in Nat
      BY <1>3, <3>2
    <3> QED
      BY <2>1, <2>3, <3>3, WidthType DEF ColsStep
  <2> QED
    BY <2>2, <2>3
<1>4. k \in Good
  <2>1. Nat \subseteq Good
    <3> HIDE DEF Good
    <3> QED
      BY <1>2, <1>3, NatSet
  <2> QED
    BY <2>1
<1> QED
  BY <1>4 DEF h

LEMMA VisualColType ==
  ASSUME NEW line \in Line, NEW col \in 0..Len(line)
  PROVE  VisualCol(line, col) \in Nat
<1> DEFINE part == Upto(line, col)
<1>1. part \in Line /\ Len(part) \in Nat /\ DOMAIN part = 1..Len(part)
  BY UptoIs DEF Line
<1>2. VisualCol(line, col) = Cols(part, Len(part))[1..Len(part)]
  BY <1>1 DEF VisualCol, Cols, ColsStep, FoldLeft, MapThenFoldSet
<1> HIDE DEF part
<1> QED
  BY <1>1, <1>2, ColsType

LEMMA IndexForIs ==
  ASSUME NEW line \in Line, NEW target
  PROVE  IndexFor(line, target) \in 0..Len(line)
<1> DEFINE S == {i \in 0..Len(line) : i = 0 \/ VisualCol(line, i) <= target}
<1>1. Len(line) \in Nat
  BY DEF Line
<1>2. S \in SUBSET (0..Len(line)) /\ 0 \in S
  BY <1>1
<1>3. Max(S) \in S
  <2> HIDE DEF S
  <2> QED
    BY <1>1, <1>2, MaxIn
<1> QED
  BY <1>2, <1>3 DEF IndexFor

(* The blanks at the beginning of a line. *)
LEMMA IndentIs ==
  ASSUME NEW line \in Line
  PROVE  /\ Indent(line) \in Line /\ Len(Indent(line)) \in 0..Len(line)
<1> DEFINE Is(n) == /\ \A i \in 1..n : line[i] \in Blanks
                    /\ n < Len(line) => line[n + 1] \notin Blanks
           Stops == {i \in 0..Len(line) : i < Len(line) => line[i + 1] \notin Blanks}
<1>1. Len(line) \in Nat
  BY DEF Line
<1>2. Stops \in SUBSET Nat /\ Len(line) \in Stops
  BY <1>1
<1>3. Min(Stops) \in Stops /\ \A j \in Stops : Min(Stops) <= j
  <2> HIDE DEF Stops
  <2> QED
    BY <1>2, MinIn
<1>4. PICK n \in Stops : \A j \in Stops : n <= j
  BY <1>3
<1>5. \A i \in 1..n : line[i] \in Blanks
  <2> SUFFICES ASSUME NEW i \in 1..n, line[i] \notin Blanks PROVE FALSE
    OBVIOUS
  <2>1. n \in Nat /\ i - 1 \in 0..Len(line) /\ i - 1 < n /\ (i - 1) + 1 = i
    BY <1>1
  <2>2. i - 1 \in Stops
    BY <2>1
  <2>3. n <= i - 1
    BY <1>4, <2>2
  <2> HIDE DEF Stops
  <2> QED
    BY <2>1, <2>3
<1>6. n \in 0..Len(line) /\ Is(n)
  BY <1>5
<1> HIDE DEF Is, Stops
<1> DEFINE m == CHOOSE n2 \in 0..Len(line) : Is(n2)
<1>7. m \in 0..Len(line)
  BY <1>6
<1>8. Indent(line) = Upto(line, m)
  BY DEF Indent, Is
<1> HIDE DEF m
<1> QED
  BY <1>7, <1>8, UptoIs DEF Line

(* The token before the cursor starts after a break or with the line. *)
LEMMA TokenStartIs ==
  ASSUME NEW e, Cur(e) \in Line, e.col \in 0..Len(Cur(e))
  PROVE  TokenStart(e) \in 0..e.col
<1> DEFINE Is(n) == /\ \A i \in (n + 1)..e.col : Cur(e)[i] \notin Breaks
                    /\ n > 0 => Cur(e)[n] \in Breaks
           Stops == {i \in 0..e.col : i > 0 => Cur(e)[i] \in Breaks}
<1>1. e.col \in Nat
  BY DEF Line
<1>2. Stops \in SUBSET (0..e.col) /\ 0 \in Stops
  BY <1>1
<1>3. PICK n \in Stops : \A j \in Stops : j <= n
  <2> HIDE DEF Stops
  <2> QED
    BY <1>1, <1>2, GreatestExists
<1>4. \A i \in (n + 1)..e.col : Cur(e)[i] \notin Breaks
  <2> SUFFICES ASSUME NEW i \in (n + 1)..e.col, Cur(e)[i] \in Breaks PROVE FALSE
    OBVIOUS
  <2>1. i \in 0..e.col /\ n < i
    BY <1>1, <1>2
  <2>2. i \in Stops
    BY <2>1
  <2> QED
    BY <1>3, <2>1, <2>2
<1>5. n \in 0..e.col /\ Is(n)
  BY <1>2, <1>4
<1> HIDE DEF Is, Stops
<1>6. (CHOOSE n2 \in 0..e.col : Is(n2)) \in 0..e.col
  BY <1>5
<1> QED
  BY <1>6 DEF TokenStart, Is

-----------------------------------------------------------------------------
(* A sound editor                                                           *)

Snaps == {s \in [lines : Text, row : Nat, col : Nat] :
            s.lines # <<>> /\ Len(s.lines) <= EditorLines /\ s.row > 0}
Clips == {c \in [kind : {"none", "lines", "chars"}, text : Text] :
            c.kind = "chars" => c.text # <<>>}
PendKeys == {"d", "y", "g", "2"}
Editors ==
  [lines : Text, row : Nat, col : Nat, want : Nat, undo : Seq(Snaps), clip : Clips,
   mode : {"normal", "insert", "line", "search", "help"}, list : SUBSET Glyphs,
   pattern : Line, vis : {"", "char", "line"}, ar : Nat, ac : Nat,
   op : {"", "d", "y"}, anchor : Nat, pend : Seq(PendKeys),
   tmpl : BOOLEAN, dirty : BOOLEAN, target : {"command", "description"}]

OnText(e) == /\ e.lines # <<>> /\ Rows(e) <= EditorLines
             /\ e.row \in 1..Rows(e) /\ e.col \in 0..Len(Cur(e))
Held(e) == /\ e \in Editors /\ OnText(e)
           /\ Len(e.undo) <= UndoDepth /\ Len(e.pend) < PendSize
           /\ e.list # {} => e.mode = "insert"

(* The row is on the text; the column is still to be clamped. *)
Loose(e) == /\ e \in Editors /\ e.lines # <<>> /\ Rows(e) <= EditorLines /\ e.row \in 1..Rows(e)
            /\ Len(e.undo) <= UndoDepth /\ Len(e.pend) < PendSize
            /\ e.list # {} => e.mode = "insert"

(* A selection and a range belong to the normal mode, and there is only one *)
(* of them at a time.                                                       *)
Anchored(e) == /\ e.vis # "" => /\ e.ar \in 1..Rows(e) /\ e.ac \in 0..Len(e.lines[e.ar])
                                /\ e.mode = "normal" /\ e.op = ""
               /\ e.op # "" => e.anchor \in 1..Rows(e) /\ e.mode = "normal"
Sound(e) == Held(e) /\ Anchored(e)
Free(e) == e.vis = "" /\ e.op = ""

(* What a key does to the text and to its past. *)
Pushed(u, s) == Append(IF Len(u) >= UndoDepth THEN Tail(u) ELSE u, s)
Keeps(e, x) == x.lines = e.lines /\ x.undo = e.undo
Changes(e, x) == \E s \in Snaps : s.lines = e.lines /\ x.undo = Pushed(e.undo, s)
TakesBack(e, x) == e.undo # <<>> /\ x.lines = Last(e.undo).lines /\ x.undo = Front(e.undo)
Edits(e, x) == Keeps(e, x) \/ Changes(e, x) \/ TakesBack(e, x)

(* A template is a change for each of its glyphs. *)
Chain(e, x, n) ==
  \E c : c[0] = e /\ c[n] = x /\ \A i \in 0..(n - 1) : Changes(c[i], c[i + 1])
Inserts(e, x) == Picking(e) /\ \E n \in 1..TemplateSize : Chain(e, x, n)

(* The same mode, list, selection and range. *)
Alike(e, x) == /\ x.mode = e.mode /\ x.list = e.list /\ x.vis = e.vis /\ x.ar = e.ar
               /\ x.ac = e.ac /\ x.op = e.op /\ x.anchor = e.anchor /\ x.pend = e.pend

(* Only the place on the text is new. *)
Moves(e, x) == Held(x) /\ Keeps(e, x) /\ Alike(e, x)

LEMMA HeldLines ==
  ASSUME NEW e, e \in Editors, OnText(e)
  PROVE  /\ e.lines \in Text /\ Rows(e) \in Nat /\ Rows(e) > 0 /\ e.row \in Nat /\ e.row > 0
         /\ \A r \in 1..Rows(e) : e.lines[r] \in Line /\ Len(e.lines[r]) \in Nat
         /\ Cur(e) \in Line /\ Len(Cur(e)) \in Nat /\ e.col \in Nat /\ e.col <= Len(Cur(e))
         /\ Cur(e) = e.lines[e.row]
<1>1. e.lines \in Seq(Line)
  BY DEF Editors, Text
<1>2. Rows(e) \in Nat /\ Rows(e) > 0
  BY <1>1 DEF Rows, OnText
<1>3. \A r \in 1..Rows(e) : e.lines[r] \in Line
  BY <1>1 DEF Rows
<1>4. \A l \in Line : Len(l) \in Nat
  BY DEF Line
<1>5. e.row \in 1..Rows(e) /\ e.col \in 0..Len(Cur(e))
  BY DEF OnText
<1> QED
  BY <1>1, <1>2, <1>3, <1>4, <1>5 DEF Cur, Text

LEMMA SettleIs ==
  ASSUME NEW e, e \in Editors, OnText(e)
  PROVE  \E w \in Nat : Settle(e) = [e EXCEPT !.want = w]
BY HeldLines, VisualColType DEF Settle

LEMMA SettleHolds ==
  ASSUME NEW e, Held(e)
  PROVE  Held(Settle(e)) /\ Moves(e, Settle(e))
<1>1. PICK w \in Nat : Settle(e) = [e EXCEPT !.want = w]
  BY SettleIs DEF Held
<1>2. [e EXCEPT !.want = w] \in Editors
  BY DEF Held, Editors
<1> DEFINE x == [e EXCEPT !.want = w]
<1>3. /\ x.lines = e.lines /\ x.row = e.row /\ x.col = e.col /\ x.undo = e.undo
      /\ Alike(e, x)
  BY DEF Held, Editors, Alike
<1> HIDE DEF x
<1>4. Held(x)
  BY <1>2, <1>3 DEF Held, OnText, Rows, Cur, Alike, x
<1> QED
  BY <1>1, <1>3, <1>4 DEF Moves, Keeps, x

(* A place on the text. *)
LEMMA AtHolds ==
  ASSUME NEW e, Held(e), NEW r \in 1..Rows(e), NEW c \in 0..Len(e.lines[r])
  PROVE  Held(At(e, r, c)) /\ Moves(e, At(e, r, c)) /\ Cur(At(e, r, c)) = e.lines[r]
<1> DEFINE x == At(e, r, c)
<1>1. r \in Nat /\ c \in Nat
  BY HeldLines DEF Held
<1>2. x \in Editors
  BY <1>1 DEF Held, Editors, At
<1>3. /\ x.lines = e.lines /\ x.row = r /\ x.col = c /\ x.undo = e.undo /\ Alike(e, x)
  BY DEF Held, Editors, Alike, At
<1> HIDE DEF x
<1>4. Held(x)
  BY <1>2, <1>3 DEF Held, OnText, Rows, Cur, Alike
<1> QED
  BY <1>3, <1>4 DEF Moves, Keeps, Cur, x

(* Moves preserve soundness. *)
LEMMA MovesSound ==
  ASSUME NEW e, Sound(e), NEW x, Moves(e, x)
  PROVE  Sound(x) /\ Edits(e, x)
BY DEF Sound, Moves, Keeps, Alike, Anchored, Edits, Rows

LEMMA MovesTwice ==
  ASSUME NEW e, NEW x, NEW y, Moves(e, x), Moves(x, y)
  PROVE  Moves(e, y)
BY DEF Moves, Keeps, Alike

LEMMA HeldLoose == ASSUME NEW e, Held(e) PROVE Loose(e)
BY DEF Held, OnText, Loose

LEMMA LooseLines ==
  ASSUME NEW e, Loose(e)
  PROVE  /\ e.lines \in Text /\ Rows(e) \in Nat /\ Rows(e) > 0 /\ Rows(e) = Len(e.lines)
         /\ e.row \in Nat /\ e.row > 0 /\ e.col \in Nat /\ e \in Editors
<1>1. e.lines \in Seq(Line) /\ e.col \in Nat
  BY DEF Loose, Editors, Text
<1>2. Rows(e) \in Nat /\ Rows(e) > 0
  BY <1>1 DEF Rows, Loose
<1> QED
  BY <1>1, <1>2 DEF Loose, Text, Rows

LEMMA SnapshotIs ==
  ASSUME NEW e, Loose(e)
  PROVE  Snapshot(e) \in Snaps /\ Snapshot(e).lines = e.lines
BY LooseLines DEF Loose, Snapshot, Snaps, Rows

LEMMA PushedIs ==
  ASSUME NEW u \in Seq(Snaps), Len(u) <= UndoDepth, NEW s \in Snaps
  PROVE  Pushed(u, s) \in Seq(Snaps) /\ Len(Pushed(u, s)) <= UndoDepth
<1>1. UndoDepth \in Nat /\ UndoDepth > 0
  BY EditorAssumption
<1>2. CASE Len(u) >= UndoDepth
  <2>1. u # <<>>
    BY <1>1, <1>2
  <2>2. Tail(u) \in Seq(Snaps) /\ Len(Tail(u)) = Len(u) - 1
    BY <2>1
  <2> QED
    BY <1>1, <1>2, <2>2 DEF Pushed
<1>3. CASE ~(Len(u) >= UndoDepth)
  BY <1>1, <1>3 DEF Pushed
<1> QED
  BY <1>2, <1>3

(* A new text with a place on it, and a snapshot of the old one. *)
LEMMA ChangeHolds ==
  ASSUME NEW e, Loose(e), NEW lines \in Text, lines # <<>>, Len(lines) <= EditorLines,
         NEW r \in 1..Len(lines), NEW c \in 0..Len(lines[r]),
         NEW s \in Snaps, s.lines = e.lines, NEW x \in Editors,
         x.lines = lines, x.row = r, x.col = c, x.undo = Pushed(e.undo, s), Alike(e, x)
  PROVE  Held(x) /\ Changes(e, x)
<1>1. Len(x.undo) <= UndoDepth
  BY PushedIs DEF Loose, Editors
<1>2. OnText(x)
  BY DEF OnText, Rows, Cur
<1> QED
  BY <1>1, <1>2 DEF Held, Loose, Alike, Changes

-----------------------------------------------------------------------------
(* The moves                                                                *)

LEMMA StaysPut == ASSUME NEW e, Held(e) PROVE Moves(e, e)
BY DEF Moves, Keeps, Alike

LEMMA SettleAtHolds ==
  ASSUME NEW e, Held(e), NEW r \in 1..Rows(e), NEW c \in 0..Len(e.lines[r])
  PROVE  Moves(e, Settle(At(e, r, c)))
<1>1. Held(At(e, r, c)) /\ Moves(e, At(e, r, c))
  BY AtHolds
<1>2. Moves(At(e, r, c), Settle(At(e, r, c)))
  BY <1>1, SettleHolds
<1> QED
  BY <1>1, <1>2, MovesTwice

LEMMA ClampAt ==
  ASSUME NEW e, e \in Editors, NEW r, NEW c
  PROVE  Clamp(At(e, r, c)) = At(e, r, Least(c, Len(e.lines[r])))
BY DEF Clamp, At, Cur, Editors

LEMMA ClampHolds ==
  ASSUME NEW e, Held(e)
  PROVE  Moves(e, Clamp(e))
<1>1. Clamp(e) = At(e, e.row, Least(e.col, Len(Cur(e))))
  BY DEF Clamp, At, Cur, Held, Editors
<1>2. e.row \in 1..Rows(e) /\ Cur(e) = e.lines[e.row]
  BY DEF Held, OnText, Cur
<1>3. Least(e.col, Len(Cur(e))) \in 0..Len(e.lines[e.row])
  <2>1. e.col \in Nat /\ Len(Cur(e)) \in Nat
    BY HeldLines DEF Held
  <2> QED
    BY <1>2, <2>1, LeastIs
<1> QED
  BY <1>1, <1>2, <1>3, AtHolds

LEMMA MoveVerticalMoves ==
  ASSUME NEW e, Held(e), NEW delta \in {-1, 1}
  PROVE  Moves(e, MoveVertical(e, delta))
<1>1. CASE e.row + delta \notin 1..Rows(e)
  BY <1>1, StaysPut DEF MoveVertical
<1>2. CASE e.row + delta \in 1..Rows(e)
  <2> DEFINE r == e.row + delta
  <2>1. e.lines[r] \in Line
    BY <1>2, HeldLines DEF Held
  <2>2. IndexFor(e.lines[r], e.want) \in 0..Len(e.lines[r])
    BY <2>1, IndexForIs
  <2> QED
    BY <1>2, <2>2, AtHolds DEF MoveVertical
<1> QED
  BY <1>1, <1>2

LEMMA GotoLineMoves ==
  ASSUME NEW e, Held(e), NEW row \in Int
  PROVE  Moves(e, GotoLine(e, row))
<1> DEFINE r == IF row < 1 THEN 1 ELSE Least(row, Rows(e))
<1>1. r \in 1..Rows(e)
  <2>1. Rows(e) \in Nat /\ Rows(e) > 0
    BY HeldLines DEF Held
  <2> QED
    BY <2>1 DEF Least
<1>2. e \in Editors /\ e.col \in Nat /\ Len(e.lines[r]) \in Nat
  BY <1>1, HeldLines DEF Held
<1> HIDE DEF r
<1>3. Least(e.col, Len(e.lines[r])) \in 0..Len(e.lines[r])
  BY <1>2, LeastIs
<1>4. GotoLine(e, row) = Settle(At(e, r, Least(e.col, Len(e.lines[r]))))
  BY <1>2, ClampAt DEF GotoLine, r
<1> QED
  BY <1>1, <1>3, <1>4, SettleAtHolds

LEMMA SidewaysMoves ==
  ASSUME NEW e, Held(e)
  PROVE  /\ Moves(e, Left(e)) /\ Moves(e, Right(e)) /\ Moves(e, Home(e)) /\ Moves(e, End(e))
<1>1. /\ e.row \in 1..Rows(e) /\ Cur(e) = e.lines[e.row] /\ Len(e.lines[e.row]) \in Nat
      /\ e.col \in 0..Len(e.lines[e.row])
  BY HeldLines DEF Held, OnText
<1>2. e.col > 0 => e.col - 1 \in 0..Len(e.lines[e.row])
  BY <1>1
<1>3. e.col < Len(Cur(e)) => e.col + 1 \in 0..Len(e.lines[e.row])
  BY <1>1
<1>4. 0 \in 0..Len(e.lines[e.row]) /\ Len(Cur(e)) \in 0..Len(e.lines[e.row])
  BY <1>1
<1>5. Moves(e, Left(e))
  BY <1>1, <1>2, SettleAtHolds, StaysPut DEF Left
<1>6. Moves(e, Right(e))
  BY <1>1, <1>3, SettleAtHolds, StaysPut DEF Right
<1>7. Moves(e, Home(e))
  BY <1>1, <1>4, SettleAtHolds DEF Home
<1>8. Moves(e, End(e))
  BY <1>1, <1>4, SettleAtHolds DEF End
<1> QED
  BY <1>5, <1>6, <1>7, <1>8

LEMMA SearchNextMoves ==
  ASSUME NEW e, Held(e), NEW direction \in {-1, 1}
  PROVE  Moves(e, SearchNext(e, direction))
<1> DEFINE RowAt(step) == ((e.row - 1 + direction * step) % Rows(e)) + 1
           hits == {s \in 1..Rows(e) : Occurs(e.pattern, e.lines[RowAt(s)]) # {}}
           row == RowAt(Min(hits))
           found == Occurs(e.pattern, e.lines[row])
<1>1. CASE e.pattern = <<>> \/ hits = {}
  BY <1>1, StaysPut DEF SearchNext
<1>2. CASE ~(e.pattern = <<>> \/ hits = {})
  <2>1. Rows(e) \in Nat /\ Rows(e) > 0 /\ e.row \in Nat
    BY HeldLines DEF Held
  <2>2. hits \in SUBSET Nat /\ hits # {}
    <3>1. hits \subseteq 1..Rows(e)
      OBVIOUS
    <3> HIDE DEF hits
    <3>2. hits # {}
      BY <1>2
    <3>3. 1..Rows(e) \subseteq Nat
      BY <2>1
    <3> QED
      BY <3>1, <3>2, <3>3
  <2>3. Min(hits) \in hits
    <3> HIDE DEF hits
    <3> QED
      BY <2>2, MinIn
  <2>4. Min(hits) \in Nat
    BY <2>3
  <2>5. \A m \in Nat : RowAt(m) \in 1..Rows(e)
    <3> SUFFICES ASSUME NEW m \in Nat PROVE RowAt(m) \in 1..Rows(e)
      OBVIOUS
    <3> DEFINE d == e.row - 1 + direction * m
    <3>1. d \in Int
      BY <2>1
    <3> HIDE DEF d
    <3>2. d % Rows(e) \in 0..(Rows(e) - 1)
      BY <2>1, <3>1
    <3>3. (d % Rows(e)) + 1 \in 1..Rows(e)
      BY <2>1, <3>2
    <3> QED
      BY <3>3 DEF d
  <2>6. row \in 1..Rows(e)
    <3> HIDE DEF hits
    <3> QED
      BY <2>4, <2>5
  <2>7. found # {}
    BY <2>3
  <2> HIDE DEF hits, row
  <2>8. e.lines[row] \in Line /\ Len(e.lines[row]) \in Nat /\ Len(e.pattern) \in Nat
    <3>1. e.lines[row] \in Line /\ Len(e.lines[row]) \in Nat
      BY <2>6, HeldLines DEF Held
    <3>2. e.pattern \in Line
      BY DEF Held, Editors
    <3> QED
      BY <3>1, <3>2 DEF Line
  <2>9. found \in SUBSET Nat
    <3>1. found \subseteq 0..(Len(e.lines[row]) - Len(e.pattern))
      BY DEF Occurs
    <3> HIDE DEF found
    <3>2. Len(e.lines[row]) - Len(e.pattern) \in Int
      BY <2>8
    <3>3. \A m \in Int : 0..m \subseteq Nat
      OBVIOUS
    <3> QED
      BY <3>1, <3>2, <3>3
  <2>10. Min(found) \in found
    <3> HIDE DEF found
    <3> QED
      BY <2>7, <2>9, MinIn
  <2>11. Min(found) \in 0..Len(e.lines[row])
    <3>1. found \subseteq 0..(Len(e.lines[row]) - Len(e.pattern))
      BY DEF Occurs
    <3> HIDE DEF found
    <3> DEFINE n == Len(e.lines[row])
               p == Len(e.pattern)
    <3>2. \A i \in 0..(n - p) : i \in 0..n
      <4>1. n \in Nat /\ p \in Nat
        BY <2>8
      <4> HIDE DEF n, p
      <4> QED
        BY <4>1
    <3>3. found \subseteq 0..(n - p)
      BY <3>1
    <3> HIDE DEF n, p
    <3>4. found \subseteq 0..n
      BY <3>2, <3>3
    <3>5. Min(found) \in 0..n
      BY <2>10, <3>4
    <3> QED
      BY <3>5 DEF n
  <2>12. SearchNext(e, direction) = Settle(At(e, row, Min(found)))
    BY <1>2 DEF SearchNext, hits, row
  <2> HIDE DEF found
  <2> QED
    BY <2>6, <2>11, <2>12, SettleAtHolds
<1> QED
  BY <1>1, <1>2

LEMMA MoveMoves ==
  ASSUME NEW e, Held(e), NEW k \in VisualMotions
  PROVE  Moves(e, Move(e, k))
<1>1. k \in {"up", "k"} \cup {"down", "j"} \cup {"left", "h"} \cup {"right", "l"}
           \cup {"home", "0"} \cup {"end", "$"} \cup {"G", "n", "N"}
  BY DEF VisualMotions, RangeMotions
<1>2. CASE k \in {"up", "k"}
  BY <1>2, MoveVerticalMoves DEF Move
<1>3. CASE k \in {"down", "j"}
  BY <1>3, MoveVerticalMoves DEF Move
<1>4. CASE k \in {"left", "h"} \cup {"right", "l"} \cup {"home", "0"} \cup {"end", "$"}
  BY <1>4, SidewaysMoves DEF Move
<1>5. CASE k = "G"
  <2>1. Rows(e) \in Int
    BY HeldLines DEF Held
  <2> QED
    BY <1>5, <2>1, GotoLineMoves DEF Move
<1>6. CASE k \in {"n", "N"}
  BY <1>6, SearchNextMoves DEF Move
<1> QED
  BY <1>1, <1>2, <1>3, <1>4, <1>5, <1>6


-----------------------------------------------------------------------------
(* Changes of the text                                                      *)

Alters(e, x) == Held(x) /\ Changes(e, x) /\ Alike(e, x)
NewText(e, lines, r, c) == [At(SaveUndo(e), r, c) EXCEPT !.lines = lines]

LEMMA MovesAlters ==
  ASSUME NEW e, NEW x, NEW y, Moves(e, x), Alters(x, y)
  PROVE  Alters(e, y)
BY DEF Moves, Alters, Keeps, Changes, Alike

LEMMA AltersMoves ==
  ASSUME NEW e, NEW x, NEW y, Alters(e, x), Moves(x, y)
  PROVE  Alters(e, y)
BY DEF Moves, Alters, Keeps, Changes, Alike

(* Whatever the new text and the place on it are: the old text is on top of *)
(* the stack.                                                               *)
LEMMA LooseNewText ==
  ASSUME NEW e, Loose(e), NEW lines \in Text, lines # <<>>, Len(lines) <= EditorLines,
         NEW r \in 1..Len(lines), NEW c \in 0..Len(lines[r])
  PROVE  Alters(e, NewText(e, lines, r, c)) /\ Alters(e, Settle(NewText(e, lines, r, c)))
<1> DEFINE x == NewText(e, lines, r, c)
           s == Snapshot(e)
           u == Pushed(e.undo, s)
<1>1. s \in Snaps /\ s.lines = e.lines
  BY SnapshotIs
<1>2. e.undo \in Seq(Snaps) /\ Len(e.undo) <= UndoDepth /\ e \in Editors
  BY DEF Loose, Editors
<1> HIDE DEF s
<1>3. u \in Seq(Snaps)
  BY <1>1, <1>2, PushedIs
<1>4. r \in Nat /\ c \in Nat
  <2>1. Len(lines) \in Nat /\ lines[r] \in Line
    BY DEF Text
  <2>2. Len(lines[r]) \in Nat
    BY <2>1 DEF Line
  <2> QED
    BY <2>1, <2>2
<1>5. x = [e EXCEPT !.dirty = TRUE, !.undo = u, !.row = r, !.col = c, !.lines = lines]
  BY <1>2 DEF NewText, At, SaveUndo, Pushed, s, Editors
<1> HIDE DEF x, u
<1>6. x \in Editors
  BY <1>2, <1>3, <1>4, <1>5 DEF Editors
<1>7. /\ x.lines = lines /\ x.row = r /\ x.col = c /\ x.undo = Pushed(e.undo, s)
      /\ Alike(e, x)
  BY <1>2, <1>5 DEF Editors, Alike, u
<1>8. Held(x) /\ Changes(e, x)
  BY <1>1, <1>6, <1>7, ChangeHolds
<1>9. Alters(e, x)
  BY <1>7, <1>8 DEF Alters
<1>10. Moves(x, Settle(x))
  BY <1>8, SettleHolds
<1> QED
  BY <1>9, <1>10, AltersMoves DEF x

LEMMA NewTextAlters ==
  ASSUME NEW e, Held(e), NEW lines \in Text, lines # <<>>, Len(lines) <= EditorLines,
         NEW r \in 1..Len(lines), NEW c \in 0..Len(lines[r])
  PROVE  Alters(e, NewText(e, lines, r, c)) /\ Alters(e, Settle(NewText(e, lines, r, c)))
BY HeldLoose, LooseNewText

(* A line put in place of a part of another. *)
LEMMA LineIs ==
  ASSUME NEW line \in Line, NEW start \in 0..Len(line), NEW end \in 0..Len(line), NEW text \in Line
  PROVE  /\ Upto(line, start) \o text \o From(line, end) \in Line
         /\ Len(Upto(line, start) \o text \o From(line, end)) = start + Len(text) + Len(line) - end
         /\ start + Len(text) \in 0..Len(Upto(line, start) \o text \o From(line, end))
<1> DEFINE a == Upto(line, start)
           b == From(line, end)
<1>1. a \in Seq(Glyphs) /\ Len(a) = start /\ b \in Seq(Glyphs) /\ Len(b) = Len(line) - end
  BY UptoIs, FromIs DEF Line
<1>2. text \in Seq(Glyphs) /\ Len(text) \in Nat /\ Len(line) \in Nat
  BY DEF Line
<1> HIDE DEF a, b
<1> DEFINE c == a \o text
<1>3. c \in Seq(Glyphs) /\ Len(c) = start + Len(text)
  BY <1>1, <1>2, SMTT(20)
<1> HIDE DEF c
<1> DEFINE d == c \o b
<1>4. d \in Seq(Glyphs) /\ Len(d) = start + Len(text) + Len(line) - end
  <2>1. d \in Seq(Glyphs) /\ Len(d) = Len(c) + Len(b)
    BY <1>1, <1>3
  <2> HIDE DEF d
  <2> QED
    BY <1>1, <1>2, <1>3, <2>1
<1>5. d = Upto(line, start) \o text \o From(line, end)
  BY DEF a, b, c
<1> HIDE DEF d
<1>6. start + Len(text) \in 0..Len(d)
  BY <1>2, <1>4
<1> QED
  BY <1>4, <1>5, <1>6 DEF Line

LEMMA SetLineIs ==
  ASSUME NEW lines \in Text, NEW r \in 1..Len(lines), NEW line \in Line
  PROVE  /\ [lines EXCEPT ![r] = line] \in Text
         /\ [lines EXCEPT ![r] = line] # <<>>
         /\ Len([lines EXCEPT ![r] = line]) = Len(lines)
         /\ [lines EXCEPT ![r] = line][r] = line
BY DEF Text

LEMMA SetLineAlters ==
  ASSUME NEW e, Held(e), NEW line \in Line, NEW c \in 0..Len(line)
  PROVE  /\ Alters(e, NewText(e, [e.lines EXCEPT ![e.row] = line], e.row, c))
         /\ Alters(e, Settle(NewText(e, [e.lines EXCEPT ![e.row] = line], e.row, c)))
<1>1. e.lines \in Text /\ e.row \in 1..Len(e.lines) /\ Len(e.lines) <= EditorLines
  BY DEF Held, Editors, OnText, Rows
<1> DEFINE lines == [e.lines EXCEPT ![e.row] = line]
<1>2. /\ lines \in Text /\ lines # <<>> /\ Len(lines) = Len(e.lines) /\ lines[e.row] = line
  BY <1>1, SetLineIs
<1> HIDE DEF lines
<1> QED
  BY <1>1, <1>2, NewTextAlters DEF lines

LEMMA ReplaceRangeAlters ==
  ASSUME NEW e, Held(e), NEW start \in 0..Len(Cur(e)), NEW end \in 0..Len(Cur(e)), NEW text \in Line
  PROVE  Alters(e, ReplaceRange(e, start, end, text))
<1> DEFINE line == Upto(Cur(e), start) \o text \o From(Cur(e), end)
<1>1. Cur(e) \in Line /\ e \in Editors
  BY HeldLines DEF Held
<1>2. line \in Line /\ start + Len(text) \in 0..Len(line)
  BY <1>1, LineIs
<1> HIDE DEF line
<1>3. ReplaceRange(e, start, end, text) =
        Settle(NewText(e, [e.lines EXCEPT ![e.row] = line], e.row, start + Len(text)))
  <2>1. [SetLine(SaveUndo(e), line) EXCEPT !.col = start + Len(text)]
          = NewText(e, [e.lines EXCEPT ![e.row] = line], e.row, start + Len(text))
    BY <1>1 DEF SetLine, SaveUndo, NewText, At, Editors
  <2> QED
    BY <2>1 DEF ReplaceRange, line
<1> QED
  BY <1>2, <1>3, SetLineAlters

LEMMA InsertCharAlters ==
  ASSUME NEW e, Held(e), NEW g \in Glyphs
  PROVE  Alters(e, InsertChar(e, g))
<1>1. e.col \in 0..Len(Cur(e)) /\ <<g>> \in Line
  BY DEF Held, OnText, Line
<1> QED
  BY <1>1, ReplaceRangeAlters DEF InsertChar

(* editor_insert_text puts in one glyph after the other. *)
InsStep(e, text, g, n) == IF n = 0 THEN e ELSE InsertChar(g[n - 1], text[n])

LEMMA InsertTextSteps ==
  ASSUME NEW e, NEW text \in Line
  PROVE  \E g : /\ InsertText(e, text) = g[Len(text)]
                /\ g = [n \in 0..Len(text) |-> InsStep(e, text, g, n)]
<1> DEFINE N == Len(text)
           after[n \in 0..N] == IF n = 0 THEN e ELSE InsertChar(after[n - 1], text[n])
           Is(g, k) == g = [n \in 0..k |-> InsStep(e, text, g, n)]
           S == {k \in Nat : \E g : Is(g, k)}
<1>1. InsertText(e, text) = after[N]
  BY DEF InsertText
<1>2. after = CHOOSE g : Is(g, N)
  BY DEF InsStep
<1>3. 0 \in S
  <2> DEFINE g == [n \in 0..0 |-> e]
  <2>1. g = [n \in 0..0 |-> InsStep(e, text, g, n)]
    BY DEF InsStep
  <2> HIDE DEF g
  <2> QED
    BY <2>1
<1>4. ASSUME NEW k \in Nat, k \in S PROVE k + 1 \in S
  <2>1. PICK g : Is(g, k)
    BY <1>4
  <2> DEFINE h == [n \in 0..(k + 1) |-> IF n = k + 1 THEN InsStep(e, text, g, k + 1) ELSE g[n]]
  <2>2. \A n \in 0..k : h[n] = g[n] /\ g[n] = InsStep(e, text, g, n)
    BY <2>1, SMTT(20)
  <2>3. ASSUME NEW n \in 0..(k + 1) PROVE InsStep(e, text, h, n) = InsStep(e, text, g, n)
    <3>1. n = 0 \/ n - 1 \in 0..k
      OBVIOUS
    <3> HIDE DEF h
    <3> QED
      BY <2>2, <3>1 DEF InsStep
  <2>4. \A n \in 0..(k + 1) : h[n] = InsStep(e, text, h, n)
    <3>1. h[k + 1] = InsStep(e, text, g, k + 1)
      OBVIOUS
    <3>2. \A n \in 0..(k + 1) : n = k + 1 \/ n \in 0..k
      OBVIOUS
    <3> HIDE DEF h
    <3> QED
      BY <2>2, <2>3, <3>1, <3>2
  <2>5. h = [n \in 0..(k + 1) |-> h[n]]
    OBVIOUS
  <2> HIDE DEF h
  <2>6. Is(h, k + 1)
    BY <2>4, <2>5
  <2> QED
    BY <2>6
<1>5. N \in Nat
  BY DEF Line
<1> HIDE DEF S
<1>6. N \in S
  BY <1>3, <1>4, <1>5, NatSet
<1>7. \E g : Is(g, N)
  BY <1>6 DEF S
<1> HIDE DEF Is, after
<1>8. Is(after, N)
  BY <1>2, <1>7
<1> QED
  BY <1>1, <1>8 DEF Is

LEMMA SpliceAlters ==
  ASSUME NEW e, Held(e), NEW new \in Text, NEW at \in 1..(Rows(e) + 1),
         NEW cut \in 0..(Rows(e) - at + 1), Rows(e) - cut + Len(new) <= EditorLines,
         NEW j \in 1..Len(new), NEW c \in 0..Len(new[j])
  PROVE  Alters(e, Settle(NewText(e, Splice(e.lines, at, cut, new), at - 1 + j, c)))
<1> DEFINE lines == Splice(e.lines, at, cut, new)
<1>1. e.lines \in Text /\ Rows(e) = Len(e.lines) /\ Rows(e) \in Nat /\ Len(new) \in Nat
  BY HeldLines DEF Held, Text, Rows
<1>2. /\ lines \in Text
      /\ Len(lines) = Rows(e) - cut + Len(new)
      /\ \A i \in 1..Len(new) : lines[at - 1 + i] = new[i]
  <2> DEFINE s == e.lines
  <2>1. s \in Text /\ at \in Nat /\ cut \in Nat /\ 1 <= at /\ at + cut <= Len(s) + 1
    BY <1>1
  <2> HIDE DEF s
  <2>2. /\ Splice(s, at, cut, new) \in Text
        /\ Len(Splice(s, at, cut, new)) = Len(s) - cut + Len(new)
        /\ \A i \in 1..Len(new) : Splice(s, at, cut, new)[at - 1 + i] = new[i]
    BY <2>1, SpliceIs
  <2>3. /\ lines \in Text
        /\ Len(lines) = Len(e.lines) - cut + Len(new)
        /\ \A i \in 1..Len(new) : lines[at - 1 + i] = new[i]
    BY <2>2 DEF s
  <2> HIDE DEF lines
  <2> QED
    BY <1>1, <2>3
<1> HIDE DEF lines
<1>3. Len(new) \in Nat
  BY <1>1
<1>4. at - 1 + j \in 1..Len(lines) /\ Len(lines) > 0
  <2> DEFINE rows == Rows(e)  added == Len(new)  all == Len(lines)
  <2>1. rows \in Nat /\ added \in Nat /\ all = rows - cut + added
    BY <1>1, <1>2
  <2>2. at \in 1..(rows + 1) /\ cut \in 0..(rows - at + 1) /\ j \in 1..added
    OBVIOUS
  <2> HIDE DEF rows, added, all
  <2>3. at - 1 + j \in 1..all /\ all > 0
    BY <2>1, <2>2
  <2> QED
    BY <2>3 DEF all
<1>5. lines # <<>> /\ Len(lines) <= EditorLines /\ lines \in Text
  BY <1>2, <1>4 DEF Text
<1>6. c \in 0..Len(lines[at - 1 + j])
  BY <1>2
<1> QED
  BY <1>4, <1>5, <1>6, NewTextAlters DEF lines

LEMMA NewlineAlters ==
  ASSUME NEW e, Held(e)
  PROVE  IF Rows(e) >= EditorLines THEN Newline(e) = e ELSE Alters(e, Newline(e))
<1>1. CASE Rows(e) >= EditorLines
  BY <1>1 DEF Newline
<1>2. CASE ~(Rows(e) >= EditorLines)
  <2> DEFINE indent == Indent(Cur(e))
             a == Upto(Cur(e), e.col)
             f == From(Cur(e), e.col)
             b == indent \o f
             new == <<a, b>>
  <2>1. /\ Cur(e) \in Line /\ e \in Editors /\ e.row \in 1..Rows(e) /\ e.col \in 0..Len(Cur(e))
        /\ Rows(e) \in Nat
    BY HeldLines DEF Held, OnText
  <2>2. indent \in Seq(Glyphs) /\ a \in Seq(Glyphs) /\ f \in Seq(Glyphs)
    BY <2>1, IndentIs, UptoIs, FromIs DEF Line
  <2>3. Newline(e) = Settle(NewText(e, Splice(e.lines, e.row, 1, new), e.row - 1 + 2, Len(indent)))
    <3>1. [At(SaveUndo(e), e.row + 1, Len(indent)) EXCEPT !.lines = Splice(@, e.row, 1, new)]
            = NewText(e, Splice(e.lines, e.row, 1, new), e.row + 1, Len(indent))
      <4> HIDE DEF new, indent
      <4> QED
        BY <2>1 DEF NewText, At, SaveUndo, Editors
    <3>2. e.row - 1 + 2 = e.row + 1
      BY <2>1
    <3> HIDE DEF indent
    <3>3. Newline(e) = Settle([At(SaveUndo(e), e.row + 1, Len(indent)) EXCEPT
                                 !.lines = Splice(@, e.row, 1, new)])
      BY <1>2 DEF Newline, indent
    <3> QED
      BY <3>1, <3>2, <3>3
  <2> HIDE DEF indent, a, f
  <2>4. b \in Seq(Glyphs) /\ Len(b) = Len(indent) + Len(f) /\ Len(indent) \in Nat /\ Len(f) \in Nat
    BY <2>2
  <2> HIDE DEF b
  <2>5. new \in Text /\ Len(new) = 2 /\ new[2] = b
    BY <2>2, <2>4 DEF Text, Line
  <2>6. Len(indent) \in 0..Len(new[2])
    BY <2>4, <2>5
  <2>7. Rows(e) - 1 + Len(new) <= EditorLines
    BY <1>2, <2>1, <2>5, EditorAssumption
  <2>8. 1 \in 0..(Rows(e) - e.row + 1) /\ e.row \in 1..(Rows(e) + 1) /\ 2 \in 1..Len(new)
    BY <2>1, <2>5
  <2> HIDE DEF new
  <2> QED
    BY <1>2, <2>3, <2>5, <2>6, <2>7, <2>8, SpliceAlters
<1> QED
  BY <1>1, <1>2

LEMMA BackspaceIs ==
  ASSUME NEW e, Held(e)
  PROVE  Backspace(e) = e \/ Alters(e, Backspace(e))
<1>1. /\ Cur(e) \in Line /\ e \in Editors /\ e.row \in 1..Rows(e) /\ e.col \in 0..Len(Cur(e))
      /\ Rows(e) \in Nat /\ Rows(e) <= EditorLines /\ Len(Cur(e)) \in Nat
  BY HeldLines DEF Held, OnText
<1>2. CASE e.col > 0
  <2>1. e.col - 1 \in 0..Len(Cur(e)) /\ <<>> \in Line
    BY <1>1, <1>2 DEF Line
  <2> QED
    BY <1>1, <1>2, <2>1, ReplaceRangeAlters DEF Backspace
<1>3. CASE ~(e.col > 0) /\ e.row > 1
  <2> DEFINE prev == e.lines[e.row - 1]
             cur == Cur(e)
             b == prev \o cur
             new == <<b>>
  <2>1. e.row - 1 \in 1..Rows(e)
    BY <1>1, <1>3
  <2>2. prev \in Seq(Glyphs) /\ cur \in Seq(Glyphs)
    BY <1>1, <2>1, HeldLines DEF Held, Line
  <2>3. Backspace(e) = Settle(NewText(e, Splice(e.lines, e.row - 1, 2, new), (e.row - 1) - 1 + 1, Len(prev)))
    <3>1. [At(SaveUndo(e), e.row - 1, Len(prev)) EXCEPT !.lines = Splice(@, e.row - 1, 2, new)]
            = NewText(e, Splice(e.lines, e.row - 1, 2, new), e.row - 1, Len(prev))
      <4> HIDE DEF new, prev
      <4> QED
        BY <1>1 DEF NewText, At, SaveUndo, Editors
    <3>2. (e.row - 1) - 1 + 1 = e.row - 1
      BY <1>1
    <3>3. Backspace(e) = Settle([At(SaveUndo(e), e.row - 1, Len(prev)) EXCEPT
                                   !.lines = Splice(@, e.row - 1, 2, new)])
      BY <1>3 DEF Backspace
    <3> QED
      BY <3>1, <3>2, <3>3
  <2> HIDE DEF prev, cur
  <2>4. b \in Seq(Glyphs) /\ Len(b) = Len(prev) + Len(cur) /\ Len(prev) \in Nat /\ Len(cur) \in Nat
    BY <2>2
  <2> HIDE DEF b
  <2>5. new \in Text /\ Len(new) = 1 /\ new[1] = b
    BY <2>4 DEF Text, Line
  <2>6. Len(prev) \in 0..Len(new[1])
    BY <2>4, <2>5
  <2>7. Rows(e) - 2 + Len(new) <= EditorLines
    BY <1>1, <2>5, EditorAssumption
  <2>8. /\ 2 \in 0..(Rows(e) - (e.row - 1) + 1) /\ e.row - 1 \in 1..(Rows(e) + 1)
        /\ 1 \in 1..Len(new)
    BY <1>1, <1>3, <2>5
  <2> HIDE DEF new
  <2> QED
    BY <2>3, <2>5, <2>6, <2>7, <2>8, SpliceAlters
<1>4. CASE ~(e.col > 0) /\ ~(e.row > 1)
  BY <1>4 DEF Backspace
<1> QED
  BY <1>2, <1>3, <1>4

LEMMA DeleteCharIs ==
  ASSUME NEW e, Held(e)
  PROVE  DeleteChar(e) = e \/ Alters(e, DeleteChar(e))
<1>1. /\ Cur(e) \in Line /\ e \in Editors /\ e.col \in 0..Len(Cur(e)) /\ Len(Cur(e)) \in Nat
  BY HeldLines DEF Held, OnText
<1>2. CASE e.col < Len(Cur(e))
  <2> DEFINE a == Upto(Cur(e), e.col)
             b == From(Cur(e), e.col + 1)
             line == a \o b
  <2>1. e.col + 1 \in 0..Len(Cur(e))
    BY <1>1, <1>2
  <2>2. a \in Seq(Glyphs) /\ Len(a) = e.col /\ b \in Seq(Glyphs)
    BY <1>1, <2>1, UptoIs, FromIs DEF Line
  <2>3. DeleteChar(e) = Settle(NewText(e, [e.lines EXCEPT ![e.row] = line], e.row, e.col))
    <3> HIDE DEF line
    <3>1. SetLine(SaveUndo(e), line) = NewText(e, [e.lines EXCEPT ![e.row] = line], e.row, e.col)
      BY <1>1 DEF SetLine, SaveUndo, NewText, At, Editors
    <3> QED
      BY <1>2, <3>1 DEF DeleteChar, line
  <2> HIDE DEF a, b
  <2>4. line \in Seq(Glyphs) /\ e.col \in 0..Len(line)
    <3>1. line \in Seq(Glyphs) /\ Len(line) = Len(a) + Len(b) /\ Len(b) \in Nat
      BY <2>2
    <3> HIDE DEF line
    <3> QED
      BY <1>1, <2>2, <3>1
  <2> HIDE DEF line
  <2> QED
    BY <2>3, <2>4, SetLineAlters DEF Line
<1>3. CASE ~(e.col < Len(Cur(e)))
  BY <1>3 DEF DeleteChar
<1> QED
  BY <1>2, <1>3

LEMMA DeleteLinesAlters ==
  ASSUME NEW e, Loose(e), NEW count \in Nat
  PROVE  Alters(e, DeleteLines(e, count))
<1>1. /\ e \in Editors /\ e.row \in 1..Rows(e) /\ e.col \in Nat
      /\ Rows(e) \in Nat /\ Rows(e) <= EditorLines /\ Rows(e) > 0
      /\ e.lines \in Seq(Line) /\ Rows(e) = Len(e.lines)
  BY LooseLines DEF Loose, Rows, Text
<1>2. /\ << <<>> >> \in Text /\ << <<>> >> # <<>> /\ Len(<< <<>> >>) = 1
      /\ << <<>> >>[1] = <<>> /\ Len(<<>>) = 0
  BY DEF Text, Line
<1>3. 1 <= EditorLines /\ EditorLines \in Nat
  BY EditorAssumption
<1>4. CASE Rows(e) <= 1
  <2>1. DeleteLines(e, count) = NewText(e, << <<>> >>, 1, 0)
    BY <1>4 DEF DeleteLines, NewText
  <2>2. 1 \in 1..Len(<< <<>> >>) /\ 0 \in 0..Len(<< <<>> >>[1])
    BY <1>2
  <2> DEFINE lines == << <<>> >>
  <2>3. /\ lines \in Text /\ lines # <<>> /\ Len(lines) <= EditorLines
        /\ 1 \in 1..Len(lines) /\ 0 \in 0..Len(lines[1])
    BY <1>2, <1>3
  <2>4. DeleteLines(e, count) = NewText(e, lines, 1, 0)
    BY <2>1
  <2> HIDE DEF lines
  <2> QED
    BY <2>3, <2>4, LooseNewText
<1>5. CASE ~(Rows(e) <= 1)
  <2> DEFINE n == Least(count, Rows(e) - e.row + 1)
             rest == Splice(e.lines, e.row, n, <<>>)
             left == IF rest = <<>> THEN << <<>> >> ELSE rest
             r == Least(e.row, Len(left))
             c == Least(e.col, Len(left[r]))
  <2>1. n \in 0..(Rows(e) - e.row + 1)
    <3>1. Rows(e) - e.row + 1 \in Nat
      BY <1>1
    <3> QED
      BY <3>1, LeastIs
  <2>2. DeleteLines(e, count) = Settle(NewText(e, left, r, c))
    <3> HIDE DEF left
    <3>1. Clamp([SaveUndo(e) EXCEPT !.lines = left, !.row = Least(@, Len(left))])
            = NewText(e, left, r, c)
      BY <1>1 DEF Clamp, Cur, SaveUndo, NewText, At, Editors
    <3> QED
      BY <1>5, <3>1 DEF DeleteLines, left
  <2> HIDE DEF n
  <2>3. rest \in Text /\ Len(rest) = Rows(e) - n + 0
    <3>1. <<>> \in Text /\ Len(<<>>) = 0
      BY DEF Text
    <3>2. e.row \in Nat /\ n \in Nat /\ 1 <= e.row /\ e.row + n <= Len(e.lines) + 1
      BY <1>1, <2>1
    <3> DEFINE none == <<>>
    <3>3. none \in Text /\ Len(none) = 0
      BY <3>1
    <3> HIDE DEF none
    <3> DEFINE s == e.lines
               at == e.row
    <3>4. s \in Text /\ at \in Nat /\ n \in Nat /\ 1 <= at /\ at + n <= Len(s) + 1
      BY <1>1, <3>2 DEF Text
    <3> HIDE DEF s, at
    <3>5. Splice(s, at, n, none) \in Text /\ Len(Splice(s, at, n, none)) = Len(s) - n + Len(none)
      BY <3>3, <3>4, SpliceIs
    <3> QED
      BY <1>1, <3>3, <3>5 DEF none, s, at, rest
  <2> HIDE DEF rest
  <2>4. left \in Text /\ left # <<>> /\ Len(left) \in Nat /\ Len(left) > 0 /\ Len(left) <= EditorLines
    <3>1. CASE rest = <<>>
      <4>1. left = << <<>> >>
        BY <3>1
      <4> DEFINE one == << <<>> >>
      <4>2. one \in Text /\ one # <<>> /\ Len(one) = 1
        BY <1>2
      <4> HIDE DEF one, left
      <4>3. left = one
        BY <4>1 DEF one
      <4> QED
        <5>1. left \in Text /\ left # <<>> /\ Len(left) = 1
          BY <4>2, <4>3
        <5>2. Len(left) \in Nat /\ Len(left) > 0 /\ Len(left) <= EditorLines
          BY <1>3, <5>1
        <5> QED
          BY <5>1, <5>2
    <3>2. CASE rest # <<>>
      <4>1. left = rest
        BY <3>2
      <4> HIDE DEF left
      <4>2. Len(rest) <= EditorLines
        <5>1. n \in Nat
          BY <1>1, <2>1
        <5> QED
          BY <1>1, <2>3, <5>1, EditorAssumption
      <4>3. Len(rest) \in Nat /\ Len(rest) > 0
        BY <2>3, <3>2 DEF Text
      <4> QED
        BY <2>3, <3>2, <4>1, <4>2, <4>3 DEF Text
    <3> QED
      BY <3>1, <3>2
  <2> HIDE DEF left
  <2>5. r \in 1..Len(left)
    BY <1>1, <2>4 DEF Least
  <2> HIDE DEF r
  <2>6. Len(left[r]) \in Nat
    <3>1. left[r] \in Line
      BY <2>4, <2>5 DEF Text
    <3> QED
      BY <3>1 DEF Line
  <2>7. c \in 0..Len(left[r])
    BY <1>1, <2>6, LeastIs
  <2> HIDE DEF c
  <2> QED
    BY <2>2, <2>4, <2>5, <2>7, LooseNewText
<1> QED
  BY <1>4, <1>5

-----------------------------------------------------------------------------
(* Copies and pastes                                                        *)

LEMMA SubSeqIs ==
  ASSUME NEW A, NEW s \in Seq(A), NEW m \in Nat, NEW n \in Nat, 1 <= m, n <= Len(s)
  PROVE  SubSeq(s, m, n) \in Seq(A)
OBVIOUS

LEMMA SubText ==
  ASSUME NEW s \in Text, NEW m \in Nat, NEW n \in Nat, 1 <= m, n <= Len(s)
  PROVE  SubSeq(s, m, n) \in Text
BY SubSeqIs DEF Text

LEMMA ClipMoves ==
  ASSUME NEW e, Held(e), NEW clip \in Clips
  PROVE  Moves(e, [e EXCEPT !.clip = clip])
<1> DEFINE x == [e EXCEPT !.clip = clip]
<1>1. x \in Editors
  BY DEF Held, Editors
<1>2. /\ x.lines = e.lines /\ x.row = e.row /\ x.col = e.col /\ x.undo = e.undo
      /\ Alike(e, x)
  BY DEF Held, Editors, Alike
<1> HIDE DEF x
<1>3. Held(x)
  BY <1>1, <1>2 DEF Held, OnText, Rows, Cur, Alike
<1> QED
  BY <1>2, <1>3 DEF Moves, Keeps, x

LEMMA CopyLinesMoves ==
  ASSUME NEW e, Held(e), NEW first \in Nat, first >= 1, NEW last \in Nat
  PROVE  Moves(e, CopyLines(e, first, last))
<1> DEFINE n == Least(last, Rows(e))
           text == SubSeq(e.lines, first, n)
           clip == [kind |-> "lines", text |-> text]
<1>1. e.lines \in Text /\ Rows(e) \in Nat /\ Rows(e) = Len(e.lines)
  BY HeldLines DEF Held, Rows
<1>2. n \in Nat /\ n <= Len(e.lines)
  BY <1>1, LeastIs, ZenonT(40)
<1> HIDE DEF n
<1>3. text \in Text
  BY <1>1, <1>2, SubText
<1> HIDE DEF text
<1>4. clip \in Clips
  BY <1>3 DEF Clips
<1>5. CopyLines(e, first, last) = [e EXCEPT !.clip = clip]
  BY DEF CopyLines, text, n
<1> HIDE DEF clip
<1> QED
  BY <1>4, <1>5, ClipMoves

(* A selection goes forward from its first place to its last. *)
LEMMA VisualRangeIs ==
  ASSUME NEW e, Held(e), e.ar \in 1..Rows(e), e.ac \in 0..Len(e.lines[e.ar]),
         NEW v, v = VisualRange(e)
  PROVE  /\ v.sr \in 1..Rows(e) /\ v.er \in 1..Rows(e) /\ v.sr <= v.er
         /\ v.sc \in 0..Len(e.lines[v.sr]) /\ v.ec \in 0..Len(e.lines[v.er])
<1> DEFINE ahead == e.ar < e.row \/ (e.ar = e.row /\ e.ac <= e.col)
           er == IF ahead THEN e.row ELSE e.ar
           ec == IF ahead THEN e.col ELSE e.ac
<1>1. /\ e.row \in 1..Rows(e) /\ e.col \in 0..Len(e.lines[e.row]) /\ Rows(e) \in Nat
      /\ \A r \in 1..Rows(e) : Len(e.lines[r]) \in Nat
  BY HeldLines DEF Held, OnText, Cur
<1>2. er \in 1..Rows(e) /\ ec \in Nat
  BY <1>1
<1>3. /\ v.sr = IF ahead THEN e.ar ELSE e.row
      /\ v.sc = IF ahead THEN e.ac ELSE e.col
      /\ v.er = er /\ v.ec = Least(ec + 1, Len(e.lines[er]))
  BY DEF VisualRange
<1>4. v.sr \in 1..Rows(e) /\ v.sr <= v.er
  BY <1>1, <1>3
<1>5. v.sc \in 0..Len(e.lines[v.sr])
  BY <1>1, <1>3
<1>6. v.ec \in 0..Len(e.lines[v.er])
  <2>1. ec + 1 \in Nat /\ Len(e.lines[er]) \in Nat
    BY <1>1, <1>2
  <2> HIDE DEF er, ec
  <2>2. Least(ec + 1, Len(e.lines[er])) \in 0..Len(e.lines[er])
    BY <2>1, LeastIs
  <2>3. v.er = er /\ v.ec = Least(ec + 1, Len(e.lines[er]))
    BY <1>3
  <2> QED
    BY <2>2, <2>3
<1> QED
  BY <1>2, <1>3, <1>4, <1>5, <1>6

LEMMA CopyVisualCharsMoves ==
  ASSUME NEW e, Held(e), e.ar \in 1..Rows(e), e.ac \in 0..Len(e.lines[e.ar])
  PROVE  Moves(e, CopyVisualChars(e))
<1> DEFINE v == VisualRange(e)
<1>1. /\ v.sr \in 1..Rows(e) /\ v.er \in 1..Rows(e) /\ v.sr <= v.er
      /\ v.sc \in 0..Len(e.lines[v.sr]) /\ v.ec \in 0..Len(e.lines[v.er])
  BY VisualRangeIs
<1>2. /\ Rows(e) \in Nat
      /\ \A r \in 1..Rows(e) : e.lines[r] \in Line /\ Len(e.lines[r]) \in Nat
  BY HeldLines DEF Held
<1> HIDE DEF v
<1> DEFINE Part(r) == SubSeq(e.lines[r], IF r = v.sr THEN v.sc + 1 ELSE 1,
                             IF r = v.er THEN v.ec ELSE Len(e.lines[r]))
           n == v.er - v.sr + 1
           text == [i \in 1..n |-> Part(v.sr + i - 1)]
           clip == [kind |-> "chars", text |-> text]
<1>3. ASSUME NEW r \in 1..Rows(e) PROVE Part(r) \in Line
  <2> DEFINE m == IF r = v.sr THEN v.sc + 1 ELSE 1
             k == IF r = v.er THEN v.ec ELSE Len(e.lines[r])
  <2>1. m \in Nat /\ k \in Nat /\ 1 <= m /\ k <= Len(e.lines[r])
    BY <1>1, <1>2
  <2>2. e.lines[r] \in Seq(Glyphs)
    BY <1>2 DEF Line
  <2> HIDE DEF m, k
  <2>3. SubSeq(e.lines[r], m, k) \in Seq(Glyphs)
    BY <2>1, <2>2, SubSeqIs
  <2> QED
    BY <2>3 DEF m, k, Line
<1> HIDE DEF Part
<1>4. n \in Nat /\ n > 0 /\ \A i \in 1..n : v.sr + i - 1 \in 1..Rows(e)
  BY <1>1, <1>2, SMTT(20)
<1> HIDE DEF n
<1>5. text \in Text /\ text # <<>>
  <2>1. \A i \in 1..n : Part(v.sr + i - 1) \in Line
    BY <1>3, <1>4
  <2>2. text \in Seq(Line) /\ Len(text) = n
    BY <1>4, <2>1
  <2> HIDE DEF text
  <2> QED
    BY <1>4, <2>2 DEF Text
<1> HIDE DEF text
<1>6. clip \in Clips
  BY <1>5 DEF Clips
<1>7. CopyVisualChars(e) = [e EXCEPT !.clip = clip]
  BY DEF CopyVisualChars, text, n, Part, v
<1> HIDE DEF clip
<1> QED
  BY <1>6, <1>7, ClipMoves

LEMMA DeleteVisualCharsAlters ==
  ASSUME NEW e, Held(e), e.ar \in 1..Rows(e), e.ac \in 0..Len(e.lines[e.ar])
  PROVE  Alters(e, DeleteVisualChars(e))
<1> DEFINE v == VisualRange(e)
           x == CopyVisualChars(e)
           a == Upto(e.lines[v.sr], v.sc)
           b == From(e.lines[v.er], v.ec)
           joined == a \o b
           new == <<joined>>
           lines == Splice(e.lines, v.sr, v.er - v.sr + 1, new)
           c == Least(v.sc, Len(lines[v.sr]))
<1>1. /\ v.sr \in 1..Rows(e) /\ v.er \in 1..Rows(e) /\ v.sr <= v.er
      /\ v.sc \in 0..Len(e.lines[v.sr]) /\ v.ec \in 0..Len(e.lines[v.er])
  BY VisualRangeIs
<1>2. Moves(e, x)
  BY CopyVisualCharsMoves
<1> HIDE DEF v, x
<1>3. Held(x) /\ x.lines = e.lines /\ x \in Editors /\ Rows(x) = Rows(e)
  BY <1>2 DEF Moves, Keeps, Held, Rows
<1>4. /\ Rows(e) \in Nat /\ Rows(e) <= EditorLines /\ Rows(e) = Len(e.lines) /\ e.lines \in Text
      /\ \A r \in 1..Rows(e) : e.lines[r] \in Line /\ Len(e.lines[r]) \in Nat
  BY HeldLines DEF Held, OnText, Rows
<1>5. a \in Seq(Glyphs) /\ b \in Seq(Glyphs)
  <2>1. e.lines[v.sr] \in Seq(Glyphs) /\ e.lines[v.er] \in Seq(Glyphs)
    BY <1>1, <1>4 DEF Line
  <2> QED
    BY <1>1, <2>1, UptoIs, FromIs
<1>6. DeleteVisualChars(e) = Settle(NewText(x, lines, v.sr, c))
  <2>1. DeleteVisualChars(e)
          = Settle(Clamp([At(SaveUndo(x), v.sr, v.sc) EXCEPT
                            !.lines = Splice(@, v.sr, v.er - v.sr + 1, new)]))
    BY DEF DeleteVisualChars, v, x
  <2> HIDE DEF new
  <2>2. [At(SaveUndo(x), v.sr, v.sc) EXCEPT !.lines = Splice(@, v.sr, v.er - v.sr + 1, new)]
          = NewText(x, lines, v.sr, v.sc)
    BY <1>3 DEF NewText, At, SaveUndo, Editors
  <2> HIDE DEF lines
  <2>3. Clamp(NewText(x, lines, v.sr, v.sc)) = NewText(x, lines, v.sr, c)
    BY <1>3 DEF Clamp, Cur, NewText, At, SaveUndo, Editors
  <2> QED
    BY <2>1, <2>2, <2>3
<1> HIDE DEF a, b
<1>7. joined \in Line
  BY <1>5 DEF Line
<1> HIDE DEF joined
<1>8. new \in Text /\ Len(new) = 1
  BY <1>7 DEF Text
<1> HIDE DEF new
<1> DEFINE s == e.lines
           at == v.sr
           cut == v.er - v.sr + 1
<1>9. /\ s \in Text /\ at \in Nat /\ cut \in Nat /\ 1 <= at /\ at + cut <= Len(s) + 1
      /\ cut > 0
  <2>1. \A n \in Nat : \A p, q \in 1..n :
          p <= q => /\ p \in Nat /\ q - p + 1 \in Nat /\ 1 <= p /\ q - p + 1 > 0
                    /\ p + (q - p + 1) <= n + 1
    OBVIOUS
  <2>2. s \in Text /\ Len(s) = Rows(e)
    BY <1>4
  <2> HIDE DEF s
  <2>3. at \in Nat /\ cut \in Nat /\ 1 <= at /\ cut > 0 /\ at + cut <= Rows(e) + 1
    BY <1>1, <1>4, <2>1
  <2> HIDE DEF at, cut
  <2> QED
    BY <2>2, <2>3
<1> HIDE DEF s, at, cut
<1>10. Splice(s, at, cut, new) \in Text /\ Len(Splice(s, at, cut, new)) = Len(s) - cut + Len(new)
  BY <1>8, <1>9, SpliceIs
<1>11. lines = Splice(s, at, cut, new) /\ Len(s) = Rows(e) /\ cut = v.er - v.sr + 1
  BY <1>4 DEF s, at, cut
<1> HIDE DEF lines
<1>12. lines \in Text /\ Len(lines) = Rows(e) - cut + 1
  BY <1>8, <1>10, <1>11
<1>13. v.sr \in 1..Len(lines) /\ lines # <<>> /\ Len(lines) <= EditorLines
  <2>1. Len(lines) \in Nat /\ v.sr <= Len(lines) /\ Len(lines) <= Rows(e)
    <3>1. \A n \in Nat : \A p, q \in 1..n :
            p <= q => /\ n - (q - p + 1) + 1 \in Nat /\ p <= n - (q - p + 1) + 1
                      /\ n - (q - p + 1) + 1 <= n
      OBVIOUS
    <3>2. Len(lines) = Rows(e) - (v.er - v.sr + 1) + 1
      BY <1>11, <1>12
    <3> QED
      BY <1>1, <1>4, <3>1, <3>2
  <2>2. v.sr \in 1..Len(lines) /\ Len(lines) <= EditorLines
    BY <1>1, <1>4, <2>1, EditorAssumption
  <2> QED
    BY <1>12, <2>2
<1>14. Len(lines[v.sr]) \in Nat
  <2>1. lines[v.sr] \in Line
    BY <1>12, <1>13 DEF Text
  <2> QED
    BY <2>1 DEF Line
<1>15. c \in 0..Len(lines[v.sr])
  <2>1. v.sc \in Nat
    BY <1>1, <1>4
  <2> QED
    BY <1>14, <2>1, LeastIs
<1> HIDE DEF c
<1>16. Alters(x, Settle(NewText(x, lines, v.sr, c)))
  BY <1>3, <1>12, <1>13, <1>15, NewTextAlters
<1> QED
  BY <1>2, <1>6, <1>16, MovesAlters

Touches(e, x) == Moves(e, x) \/ Alters(e, x)

LEMMA MovesTouches ==
  ASSUME NEW e, NEW x, NEW y, Moves(e, x), Touches(x, y)
  PROVE  Touches(e, y)
BY MovesTwice, MovesAlters DEF Touches

LEMMA PasteTextIs ==
  ASSUME NEW e, Held(e), NEW text \in Text, text # <<>>
  PROVE  Touches(e, PasteText(e, text))
<1> DEFINE n == Len(text)
           before == Upto(Cur(e), e.col)
           after == From(Cur(e), e.col)
           Piece(i) == (IF i = 1 THEN before ELSE <<>>) \o text[i] \o (IF i = n THEN after ELSE <<>>)
           new == [i \in 1..n |-> Piece(i)]
           c == Len(text[n]) + IF n = 1 THEN e.col ELSE 0
           out == text = << <<>> >> \/ Rows(e) + n - 1 > EditorLines
<1>1. CASE out
  BY <1>1, StaysPut DEF PasteText, Touches
<1>2. CASE ~out
  <2>1. /\ Cur(e) \in Line /\ e \in Editors /\ e.row \in 1..Rows(e) /\ e.col \in 0..Len(Cur(e))
        /\ Rows(e) \in Nat /\ Rows(e) <= EditorLines
    BY HeldLines DEF Held, OnText
  <2>2. n \in Nat /\ n > 0 /\ \A i \in 1..n : text[i] \in Seq(Glyphs)
    BY DEF Text, Line
  <2>3. before \in Seq(Glyphs) /\ Len(before) = e.col /\ after \in Seq(Glyphs)
    BY <2>1, UptoIs, FromIs DEF Line
  <2> DEFINE lines == Splice(e.lines, e.row, 1, new)
  <2>4. PasteText(e, text) = Settle(NewText(e, lines, e.row - 1 + n, c))
    <3>1. PasteText(e, text) = Settle([At(SaveUndo(e), e.row + n - 1, c) EXCEPT
                                         !.lines = Splice(@, e.row, 1, new)])
      BY <1>2 DEF PasteText
    <3>2. e.row + n - 1 = e.row - 1 + n
      BY <2>1, <2>2
    <3> HIDE DEF new, c, n
    <3>3. [At(SaveUndo(e), e.row + n - 1, c) EXCEPT !.lines = Splice(@, e.row, 1, new)]
            = NewText(e, lines, e.row + n - 1, c)
      BY <2>1 DEF NewText, At, SaveUndo, Editors
    <3> QED
      BY <3>1, <3>2, <3>3
  <2> HIDE DEF before, after, n
  <2>5. ASSUME NEW i \in 1..n
        PROVE  /\ Piece(i) \in Seq(Glyphs)
               /\ i = n => Len(text[n]) + (IF n = 1 THEN e.col ELSE 0) \in 0..Len(Piece(n))
    <3> DEFINE a == IF i = 1 THEN before ELSE <<>>
               b == IF i = n THEN after ELSE <<>>
               t == text[i]
    <3>1. a \in Seq(Glyphs) /\ b \in Seq(Glyphs) /\ t \in Seq(Glyphs)
      BY <2>2, <2>3
    <3>2. Len(a) = IF i = 1 THEN e.col ELSE 0
      BY <2>3
    <3>3. Piece(i) = a \o t \o b
      OBVIOUS
    <3> HIDE DEF a, b
    <3>4. t = text[i]
      OBVIOUS
    <3> HIDE DEF t, Piece
    <3> DEFINE d == a \o t
    <3>5. d \in Seq(Glyphs) /\ Len(d) = Len(a) + Len(t)
      BY <3>1
    <3> HIDE DEF d
    <3> DEFINE f == d \o b
    <3>6. f \in Seq(Glyphs) /\ Len(f) = Len(d) + Len(b)
      BY <3>1, <3>5
    <3>7. Piece(i) = f
      BY <3>3 DEF d
    <3> HIDE DEF f
    <3>8. Len(a) \in Nat /\ Len(b) \in Nat /\ Len(t) \in Nat
      BY <3>1
    <3>9. Len(t) + Len(a) \in 0..Len(f)
      BY <3>5, <3>6, <3>8
    <3>10. CASE i = n
      <4>1. Len(text[n]) + (IF n = 1 THEN e.col ELSE 0) = Len(t) + Len(a)
        BY <3>2, <3>4, <3>10
      <4> QED
        BY <3>6, <3>7, <3>9, <3>10, <4>1
    <3>11. CASE i # n
      BY <3>6, <3>7, <3>11
    <3> QED
      BY <3>10, <3>11
  <2>6. n \in 1..n
    BY <2>2
  <2>7. c \in 0..Len(Piece(n))
    BY <2>5, <2>6
  <2> HIDE DEF Piece, c
  <2>8. new \in Text /\ Len(new) = n /\ new[n] = Piece(n)
    <3>1. \A i \in 1..n : Piece(i) \in Line
      BY <2>5 DEF Line
    <3>2. new \in Seq(Line) /\ Len(new) = n
      BY <2>2, <3>1
    <3> QED
      BY <2>6, <3>2 DEF Text
  <2>9. Rows(e) - 1 + n <= EditorLines
    BY <1>2, <2>1, <2>2, EditorAssumption DEF n
  <2>10. 1 \in 0..(Rows(e) - e.row + 1) /\ e.row \in 1..(Rows(e) + 1)
    BY <2>1
  <2> HIDE DEF new
  <2>11. Alters(e, Settle(NewText(e, lines, e.row - 1 + n, c)))
    BY <2>6, <2>7, <2>8, <2>9, <2>10, SpliceAlters
  <2> QED
    BY <2>4, <2>11 DEF Touches
<1> QED
  BY <1>1, <1>2

LEMMA PasteLinesIs ==
  ASSUME NEW e, Held(e), NEW above \in BOOLEAN
  PROVE  Touches(e, PasteLines(e, above))
<1>1. /\ e \in Editors /\ e.row \in 1..Rows(e) /\ e.col \in Nat /\ Len(Cur(e)) \in Nat
      /\ Rows(e) \in Nat /\ Rows(e) <= EditorLines /\ Cur(e) = e.lines[e.row]
  BY HeldLines DEF Held, OnText
<1>2. /\ e.clip.kind \in {"none", "lines", "chars"} /\ e.clip.text \in Text
      /\ e.clip.kind = "chars" => e.clip.text # <<>>
  BY <1>1 DEF Editors, Clips
<1>3. CASE e.clip.kind = "none"
  BY <1>3, StaysPut DEF PasteLines, Touches
<1>4. CASE e.clip.kind = "chars"
  <2> DEFINE x == IF above THEN e ELSE At(e, e.row, Least(e.col + 1, Len(Cur(e))))
  <2>1. Moves(e, x)
    <3>1. Least(e.col + 1, Len(Cur(e))) \in 0..Len(e.lines[e.row])
      <4>1. e.col + 1 \in Nat
        BY <1>1
      <4> QED
        BY <1>1, <4>1, LeastIs
    <3> QED
      BY <1>1, <3>1, StaysPut, AtHolds
  <2>2. PasteLines(e, above) = PasteText(x, e.clip.text)
    BY <1>4 DEF PasteLines
  <2> HIDE DEF x
  <2>3. Held(x)
    BY <2>1 DEF Moves
  <2>4. Touches(x, PasteText(x, e.clip.text))
    BY <1>2, <1>4, <2>3, PasteTextIs
  <2> QED
    BY <2>1, <2>2, <2>4, MovesTouches
<1>5. CASE e.clip.kind = "lines"
  <2> DEFINE at == IF above THEN e.row ELSE e.row + 1
             text == e.clip.text
             n == Least(Len(text), EditorLines - Rows(e))
             new == Upto(text, n)
  <2>1. EditorLines - Rows(e) \in Nat /\ EditorLines \in Nat
    BY <1>1, EditorAssumption
  <2>2. Len(text) \in Nat
    BY <1>2 DEF Text
  <2>3. n \in 0..Len(text) /\ n \in Nat /\ n <= EditorLines - Rows(e)
    BY <2>1, <2>2, LeastIs
  <2>4. CASE n <= 0
    <3>1. PasteLines(e, above) = e
      BY <1>5, <2>4 DEF PasteLines
    <3> QED
      BY <3>1, StaysPut DEF Touches
  <2>5. CASE ~(n <= 0)
    <3>1. PasteLines(e, above) = Settle(NewText(e, Splice(e.lines, at, 0, new), at - 1 + 1, 0))
      <4>1. PasteLines(e, above) = Settle([At(SaveUndo(e), at, 0) EXCEPT
                                             !.lines = Splice(@, at, 0, new)])
        BY <1>5, <2>5 DEF PasteLines
      <4>2. at - 1 + 1 = at
        BY <1>1
      <4> HIDE DEF new, at
      <4>3. [At(SaveUndo(e), at, 0) EXCEPT !.lines = Splice(@, at, 0, new)]
              = NewText(e, Splice(e.lines, at, 0, new), at, 0)
        BY <1>1 DEF NewText, At, SaveUndo, Editors
      <4> QED
        BY <4>1, <4>2, <4>3
    <3>2. at \in 1..(Rows(e) + 1) /\ 0 \in 0..(Rows(e) - at + 1)
      BY <1>1
    <3> HIDE DEF n, at
    <3>3. new \in Text /\ Len(new) = n
      <4>1. text \in Seq(Line)
        BY <1>2 DEF Text
      <4> HIDE DEF text
      <4> QED
        BY <2>3, <4>1, UptoIs DEF Text
    <3> HIDE DEF new
    <3>4. 1 \in 1..Len(new)
      BY <2>3, <2>5, <3>3
    <3>5. 0 \in 0..Len(new[1])
      <4>1. new[1] \in Line
        BY <3>3, <3>4 DEF Text
      <4>2. Len(new[1]) \in Nat
        BY <4>1 DEF Line
      <4> QED
        BY <4>2
    <3>6. Rows(e) - 0 + Len(new) <= EditorLines
      BY <1>1, <2>1, <2>3, <3>3
    <3>7. Alters(e, Settle(NewText(e, Splice(e.lines, at, 0, new), at - 1 + 1, 0)))
      BY <3>2, <3>3, <3>4, <3>5, <3>6, SpliceAlters
    <3> QED
      BY <3>1, <3>7 DEF Touches
  <2> QED
    BY <2>4, <2>5
<1> QED
  BY <1>2, <1>3, <1>4, <1>5

LEMMA LastIs ==
  ASSUME NEW A, NEW s \in Seq(A), s # <<>>
  PROVE  Last(s) \in A /\ Front(s) \in Seq(A) /\ Len(Front(s)) = Len(s) - 1
<1>1. Len(s) \in Nat /\ Len(s) > 0
  OBVIOUS
<1>2. s[Len(s)] \in A
  BY <1>1
<1> DEFINE n == Len(s) - 1
<1>3. n \in 0..Len(s)
  BY <1>1
<1> HIDE DEF n
<1>4. Upto(s, n) \in Seq(A) /\ Len(Upto(s, n)) = n
  BY <1>3, UptoIs
<1> QED
  BY <1>2, <1>4 DEF Last, Front, Upto, n

LEMMA UndoIs ==
  ASSUME NEW e, Held(e)
  PROVE  Held(Undo(e)) /\ Alike(e, Undo(e)) /\ Edits(e, Undo(e))
<1>1. /\ e \in Editors /\ e.undo \in Seq(Snaps) /\ Len(e.undo) <= UndoDepth
      /\ UndoDepth \in Nat
  BY EditorAssumption DEF Held, Editors
<1>2. CASE e.undo = <<>>
  BY <1>2 DEF Undo, Alike, Edits, Keeps
<1>3. CASE e.undo # <<>>
  <2> DEFINE s == Last(e.undo)
             u == Front(e.undo)
             lines == s.lines
             r == Least(s.row, Len(lines))
             c == Least(s.col, Len(lines[r]))
             y == [e EXCEPT !.row = r, !.col = c, !.lines = lines, !.undo = u]
  <2>1. s \in Snaps /\ u \in Seq(Snaps) /\ Len(u) = Len(e.undo) - 1
    BY <1>1, <1>3, LastIs
  <2>2. Undo(e) = Settle(y)
    <3> HIDE DEF s, u
    <3>1. Clamp([At(e, r, s.col) EXCEPT !.lines = s.lines, !.undo = u]) = y
      <4> HIDE DEF r
      <4> QED
        BY <1>1 DEF Clamp, At, Cur, Editors
    <3>2. At(e, r, s.col).undo = e.undo
      BY <1>1 DEF At, Editors
    <3>3. Undo(e) = Settle(Clamp([At(e, r, s.col) EXCEPT !.lines = s.lines,
                                                         !.undo = Front(At(e, r, s.col).undo)]))
      BY <1>3 DEF Undo, s
    <3> HIDE DEF y, r
    <3> QED
      BY <3>1, <3>2, <3>3 DEF u
  <2> HIDE DEF u, s
  <2>3. /\ lines \in Text /\ lines # <<>> /\ Len(lines) <= EditorLines /\ Len(lines) \in Nat
        /\ s.row \in Nat /\ s.row > 0 /\ s.col \in Nat
    BY <2>1 DEF Snaps, Text
  <2> HIDE DEF lines
  <2>4. r \in 1..Len(lines)
    <3>1. Len(lines) > 0
      BY <2>3 DEF Text
    <3> QED
      BY <2>3, <3>1 DEF Least
  <2> HIDE DEF r
  <2>5. Len(lines[r]) \in Nat
    <3>1. lines[r] \in Line
      BY <2>3, <2>4 DEF Text
    <3> QED
      BY <3>1 DEF Line
  <2>6. c \in 0..Len(lines[r])
    BY <2>3, <2>5, LeastIs
  <2> HIDE DEF c
  <2>7. r \in Nat /\ c \in Nat
    BY <2>3, <2>4, <2>5, <2>6
  <2>8. y \in Editors
    BY <1>1, <2>1, <2>3, <2>7 DEF Editors
  <2>9. /\ y.lines = lines /\ y.row = r /\ y.col = c /\ y.undo = u /\ Alike(e, y)
    BY <1>1 DEF Editors, Alike
  <2> HIDE DEF y
  <2>10. OnText(y)
    BY <2>3, <2>4, <2>6, <2>9 DEF OnText, Rows, Cur
  <2>11. Held(y)
    <3>1. Len(y.undo) <= UndoDepth
      <4>1. Len(e.undo) \in Nat
        BY <1>1
      <4> QED
        BY <1>1, <2>1, <2>9, <4>1
    <3> QED
      BY <2>8, <2>9, <2>10, <3>1 DEF Held, Alike
  <2>12. Moves(y, Settle(y))
    BY <2>11, SettleHolds
  <2>13. TakesBack(e, Settle(y)) /\ Alike(e, Settle(y)) /\ Held(Settle(y))
    BY <1>3, <2>9, <2>12 DEF Moves, Keeps, Alike, TakesBack, lines, u, s
  <2> QED
    BY <2>2, <2>13 DEF Edits
<1> QED
  BY <1>2, <1>3

-----------------------------------------------------------------------------
(* Completion                                                               *)

LEMMA ListHolds ==
  ASSUME NEW e, Held(e), NEW items \in SUBSET Glyphs, items # {} => e.mode = "insert",
         NEW x, x = [e EXCEPT !.list = items]
  PROVE  /\ Held(x) /\ Keeps(e, x) /\ Cur(x) = Cur(e) /\ x.row = e.row /\ x.col = e.col
         /\ x.mode = e.mode /\ x.list = items /\ x.vis = e.vis /\ x.ar = e.ar /\ x.ac = e.ac
         /\ x.op = e.op /\ x.anchor = e.anchor /\ x.pend = e.pend /\ x.pattern = e.pattern
<1>1. x \in Editors
  BY DEF Held, Editors
<1>2. /\ x.lines = e.lines /\ x.undo = e.undo /\ x.row = e.row /\ x.col = e.col
      /\ x.mode = e.mode /\ x.list = items /\ x.vis = e.vis /\ x.ar = e.ar /\ x.ac = e.ac
      /\ x.op = e.op /\ x.anchor = e.anchor /\ x.pend = e.pend /\ x.pattern = e.pattern
  BY DEF Held, Editors
<1>3. OnText(x)
  BY <1>2 DEF Held, OnText, Rows, Cur
<1> QED
  BY <1>1, <1>2, <1>3 DEF Held, Keeps, Cur

LEMMA CloseListHolds ==
  ASSUME NEW e, Held(e), NEW x, x = CloseList(e)
  PROVE  /\ Held(x) /\ Keeps(e, x) /\ Cur(x) = Cur(e) /\ x.row = e.row /\ x.col = e.col
         /\ x.mode = e.mode /\ x.list = {} /\ x.vis = e.vis /\ x.ar = e.ar /\ x.ac = e.ac
         /\ x.op = e.op /\ x.anchor = e.anchor /\ x.pend = e.pend /\ x.pattern = e.pattern
<1> DEFINE none == {}
<1>1. x = [e EXCEPT !.list = none] /\ none \in SUBSET Glyphs /\ (none # {} => e.mode = "insert")
  BY DEF CloseList
<1> HIDE DEF none
<1>2. /\ Held(x) /\ Keeps(e, x) /\ Cur(x) = Cur(e) /\ x.row = e.row /\ x.col = e.col
      /\ x.mode = e.mode /\ x.list = none /\ x.vis = e.vis /\ x.ar = e.ar /\ x.ac = e.ac
      /\ x.op = e.op /\ x.anchor = e.anchor /\ x.pend = e.pend /\ x.pattern = e.pattern
  BY <1>1, ListHolds
<1> QED
  BY <1>2 DEF none

LEMMA ItemsAreGlyphs == ASSUME NEW e PROVE Items(e) \in SUBSET Glyphs
<1>1. {"send", "a", "@tui", "@dir", "@shared", "for"} \subseteq Glyphs
  BY DEF Glyphs, Letters, Words
<1>2. Items(e) \in {{}, {"send", "a"}, {"@tui", "@dir"}, {"@shared", "@dir"}, {"for"}}
  BY DEF Items
<1> QED
  BY <1>1, <1>2

LEMMA CompleteBlockAlters ==
  ASSUME NEW e, Held(e), NEW start \in 0..Len(Cur(e)), NEW end \in 0..Len(Cur(e)),
         NEW head \in Glyphs, NEW rest \in Text
  PROVE  Alters(e, CompleteBlock(e, start, end, head, rest))
<1> DEFINE indent == Indent(Cur(e))
           word == <<head>>
           line == Upto(Cur(e), start) \o word \o From(Cur(e), end)
           more == [i \in DOMAIN rest |-> indent \o rest[i]]
           first == <<line>>
           new == first \o more
<1>1. /\ Cur(e) \in Line /\ e \in Editors /\ e.row \in 1..Rows(e) /\ Rows(e) \in Nat
  BY HeldLines DEF Held, OnText
<1>2. word \in Line /\ Len(word) = 1
  BY DEF Line
<1>3. CASE Rows(e) + Len(rest) > EditorLines
  BY <1>2, <1>3, ReplaceRangeAlters DEF CompleteBlock
<1>4. CASE ~(Rows(e) + Len(rest) > EditorLines)
  <2>1. CompleteBlock(e, start, end, head, rest)
          = Settle(NewText(e, Splice(e.lines, e.row, 1, new), e.row - 1 + 1, start + 1))
    <3>1. CompleteBlock(e, start, end, head, rest)
            = Settle([SaveUndo(e) EXCEPT !.col = start + 1, !.lines = Splice(@, e.row, 1, new)])
      BY <1>4 DEF CompleteBlock
    <3>2. e.row - 1 + 1 = e.row
      BY <1>1
    <3> HIDE DEF new
    <3>3. [SaveUndo(e) EXCEPT !.col = start + 1, !.lines = Splice(@, e.row, 1, new)]
            = NewText(e, Splice(e.lines, e.row, 1, new), e.row, start + 1)
      BY <1>1 DEF NewText, At, SaveUndo, Editors
    <3> QED
      BY <3>1, <3>2, <3>3
  <2> HIDE DEF word
  <2>2. line \in Line /\ start + 1 \in 0..Len(line)
    BY <1>1, <1>2, LineIs
  <2>3. indent \in Seq(Glyphs)
    BY <1>1, IndentIs DEF Line
  <2> HIDE DEF line, indent
  <2>4. more \in Seq(Line) /\ Len(more) = Len(rest)
    <3>1. rest \in Seq(Line) /\ \A i \in DOMAIN rest : rest[i] \in Seq(Glyphs)
      BY DEF Text, Line
    <3>2. \A i \in DOMAIN rest : indent \o rest[i] \in Seq(Glyphs)
      BY <2>3, <3>1
    <3>3. DOMAIN rest = 1..Len(rest) /\ Len(rest) \in Nat
      BY <3>1
    <3>4. \A i \in 1..Len(rest) : more[i] \in Line
      BY <3>2, <3>3 DEF Line
    <3>5. more = [i \in 1..Len(rest) |-> more[i]]
      BY <3>3
    <3> HIDE DEF more
    <3> QED
      BY <3>3, <3>4, <3>5
  <2>5. first \in Seq(Line) /\ Len(first) = 1 /\ first[1] = line
    BY <2>2
  <2> HIDE DEF more, first
  <2>6. new \in Seq(Line) /\ Len(new) = 1 + Len(rest) /\ new[1] = line
    <3> DEFINE A == Line
    <3>0. first \in Seq(A) /\ more \in Seq(A) /\ Len(first) = 1
      BY <2>4, <2>5
    <3> HIDE DEF A
    <3>a. new \in Seq(A)
      BY <3>0
    <3>b. Len(new) = Len(first) + Len(more)
      BY <3>0, ConcatProperties
    <3>1. new \in Seq(Line) /\ Len(new) = Len(first) + Len(more)
      BY <3>a, <3>b DEF A
    <3>2. new[1] = first[1]
      BY <3>0, ConcatProperties
    <3> HIDE DEF new
    <3> QED
      BY <2>4, <2>5, <3>1, <3>2
  <2> HIDE DEF new
  <2>7. Len(rest) \in Nat
    BY DEF Text
  <2>8. /\ 1 \in 1..Len(new) /\ start + 1 \in 0..Len(new[1])
        /\ Rows(e) - 1 + Len(new) <= EditorLines
        /\ 1 \in 0..(Rows(e) - e.row + 1) /\ e.row \in 1..(Rows(e) + 1)
    BY <1>1, <1>4, <2>2, <2>6, <2>7, EditorAssumption, SMTT(20)
  <2> QED
    BY <2>1, <2>6, <2>8, SpliceAlters DEF Text
<1> QED
  BY <1>3, <1>4

LEMMA AcceptAlters ==
  ASSUME NEW e, Held(e), NEW item \in Glyphs
  PROVE  Alters(CloseList(e), Accept(e, item))
<1> DEFINE closed == CloseList(e)
           start == TokenStart(e)
<1>1. Held(closed) /\ Cur(closed) = Cur(e)
  BY CloseListHolds
<1>2. Cur(e) \in Line /\ e.col \in 0..Len(Cur(e))
  BY HeldLines DEF Held, OnText
<1>3. start \in 0..e.col
  BY <1>2, TokenStartIs
<1> HIDE DEF closed, start
<1>4. start \in 0..Len(Cur(closed)) /\ e.col \in 0..Len(Cur(closed))
  <2>1. Len(Cur(e)) \in Nat /\ e.col \in Nat
    BY <1>2 DEF Line
  <2> QED
    BY <1>1, <1>2, <1>3, <2>1
<1>5. <<item>> \in Line
  BY DEF Line
<1>6. << <<"@end">> >> \in Text /\ << <<" ", " ">>, <<"done">> >> \in Text
  <2>1. {"@end", " ", "done"} \subseteq Glyphs
    BY DEF Glyphs, Blanks, Words
  <2> DEFINE a == <<"@end">>
             b == <<" ", " ">>
             c == <<"done">>
  <2>2. a \in Line /\ b \in Line /\ c \in Line
    <3>1. \A g \in Glyphs : <<g>> \in Seq(Glyphs) /\ <<g, g>> \in Seq(Glyphs)
      BY OneIs
    <3> QED
      BY <2>1, <3>1 DEF Line
  <2> HIDE DEF a, b, c
  <2>3. <<a>> \in Seq(Line) /\ <<b, c>> \in Seq(Line)
    BY <2>2, OneIs
  <2> QED
    BY <2>3 DEF Text, a, b, c
<1>7. CASE item = "@tui"
  BY <1>1, <1>4, <1>6, <1>7, CompleteBlockAlters DEF Accept, closed, start
<1>8. CASE item = "for"
  BY <1>1, <1>4, <1>6, <1>8, CompleteBlockAlters DEF Accept, closed, start
<1>9. CASE item # "@tui" /\ item # "for"
  BY <1>1, <1>4, <1>5, <1>9, ReplaceRangeAlters DEF Accept, closed, start
<1> QED
  BY <1>7, <1>8, <1>9

LEMMA TabKeyIs ==
  ASSUME NEW e, Held(e), e.mode = "insert"
  PROVE  \/ Alters(CloseList(e), TabKey(e))
         \/ TabKey(e) = [e EXCEPT !.list = Items(e)]
<1> DEFINE items == Items(e)
           closed == CloseList(e)
<1>1. items \in SUBSET Glyphs
  BY ItemsAreGlyphs
<1>2. Held(closed) /\ Cur(closed) = Cur(e)
  BY CloseListHolds
<1> HIDE DEF items, closed
<1>4. CASE items = {}
  <2>1. "tab" \in Glyphs
    BY DEF Glyphs, Blanks
  <2>2. TabKey(e) = InsertChar(closed, "tab")
    <3>1. Cardinality(items) = 0 /\ "@shared" \notin items
      BY <1>4, FS_EmptySet
    <3> QED
      BY <1>4, <3>1 DEF TabKey, items, closed
  <2> QED
    BY <1>2, <2>1, <2>2, InsertCharAlters DEF closed
<1>5. CASE items # {}
  <2>1. (CHOOSE i \in items : TRUE) \in Glyphs
    BY <1>1, <1>5
  <2>2. Alters(closed, Accept(e, CHOOSE i \in items : TRUE))
    BY <2>1, AcceptAlters DEF closed
  <2>3. Alters(closed, ReplaceRange(closed, TokenStart(e), e.col, <<"@shared">>))
    <3>1. Cur(e) \in Line /\ e.col \in 0..Len(Cur(e)) /\ Len(Cur(e)) \in Nat /\ e.col \in Nat
      BY HeldLines DEF Held, OnText
    <3>2. TokenStart(e) \in 0..e.col
      BY <3>1, TokenStartIs
    <3>3. TokenStart(e) \in 0..Len(Cur(e))
      BY <3>1, <3>2
    <3>4. <<"@shared">> \in Line
      BY DEF Line, Glyphs, Words
    <3> QED
      BY <1>2, <3>1, <3>3, <3>4, ReplaceRangeAlters
  <2>4. \/ TabKey(e) = Accept(e, CHOOSE i \in items : TRUE)
        \/ TabKey(e) = ReplaceRange(closed, TokenStart(e), e.col, <<"@shared">>)
        \/ TabKey(e) = [e EXCEPT !.list = items]
    BY <1>5 DEF TabKey, items, closed
  <2> QED
    BY <2>2, <2>3, <2>4 DEF closed, items
<1> QED
  BY <1>4, <1>5

-----------------------------------------------------------------------------
(* Keys                                                                     *)

Fine(e, x) == Sound(x) /\ Edits(e, x)
Selecting(e) == e.vis # ""
Ranging(e) == e.op # ""

LEMMA AnchorsIs ==
  ASSUME NEW e, Sound(e)
  PROVE  /\ Selecting(e) => /\ e.ar \in 1..Rows(e) /\ e.ac \in 0..Len(e.lines[e.ar])
                            /\ e.mode = "normal" /\ ~Ranging(e)
         /\ Ranging(e) => e.anchor \in 1..Rows(e) /\ e.mode = "normal"
         /\ ~Selecting(e) /\ ~Ranging(e) <=> Free(e)
BY DEF Sound, Anchored, Selecting, Ranging, Free

LEMMA SoundHeld == ASSUME NEW e, Sound(e) PROVE Held(e) /\ Loose(e) /\ e \in Editors
BY HeldLoose DEF Sound, Held

LEMMA KeepsEdits ==
  ASSUME NEW e, NEW x, NEW y, Keeps(e, x), Edits(x, y)
  PROVE  Edits(e, y)
BY DEF Keeps, Edits, Changes, TakesBack

LEMMA EditsKeeps ==
  ASSUME NEW e, NEW x, NEW y, Edits(e, x), Keeps(x, y)
  PROVE  Edits(e, y)
BY DEF Keeps, Edits, Changes, TakesBack

LEMMA TouchesIs ==
  ASSUME NEW e, NEW x, Touches(e, x)
  PROVE  Held(x) /\ Alike(e, x) /\ Edits(e, x)
BY DEF Touches, Moves, Alters, Edits

LEMMA FreeSound == ASSUME NEW x, Held(x), Free(x) PROVE Sound(x)
BY DEF Sound, Free, Anchored

(* Fields beside the text, the cursor and the stack. *)
LEMMA FieldsHold ==
  ASSUME NEW e, Held(e), NEW x \in Editors, x.lines = e.lines, x.row = e.row, x.col = e.col,
         x.undo = e.undo, Len(x.pend) < PendSize, x.list # {} => x.mode = "insert"
  PROVE  Held(x) /\ Keeps(e, x)
BY DEF Held, OnText, Rows, Cur, Keeps

LEMMA CancelVisualIs ==
  ASSUME NEW e, Held(e), NEW x, x = CancelVisual(e)
  PROVE  /\ Held(x) /\ Keeps(e, x) /\ x.vis = "" /\ x.op = e.op /\ x.mode = e.mode
         /\ x.anchor = e.anchor /\ x.list = e.list
<1>1. x \in Editors
  BY DEF Held, Editors, CancelVisual
<1>2. /\ x.lines = e.lines /\ x.row = e.row /\ x.col = e.col /\ x.undo = e.undo
      /\ x.pend = e.pend /\ x.list = e.list /\ x.mode = e.mode
      /\ x.vis = "" /\ x.op = e.op /\ x.anchor = e.anchor
  BY DEF Held, Editors, CancelVisual
<1>3. Len(x.pend) < PendSize /\ (x.list # {} => x.mode = "insert")
  BY <1>2 DEF Held
<1> QED
  BY <1>1, <1>2, <1>3, FieldsHold

LEMMA NoPend == <<>> \in Seq(PendKeys) /\ Len(<<>>) < PendSize
<1>1. <<>> \in Seq(PendKeys) /\ Len(<<>>) = 0
  OBVIOUS
<1>2. 0 < PendSize
  BY EditorAssumption
<1> QED
  BY <1>1, <1>2

LEMMA CancelRangeIs ==
  ASSUME NEW e, Held(e), NEW x, x = CancelRange(e)
  PROVE  /\ Held(x) /\ Keeps(e, x) /\ x.op = "" /\ x.pend = <<>> /\ x.mode = e.mode
         /\ x.vis = e.vis /\ x.ar = e.ar /\ x.ac = e.ac /\ x.list = e.list
         /\ x.row = e.row /\ x.col = e.col
<1> DEFINE none == <<>>
<1>0. none \in Seq(PendKeys) /\ Len(none) < PendSize
  BY NoPend
<1>a. x = [e EXCEPT !.op = "", !.anchor = 1, !.pend = none] /\ e \in Editors
  BY DEF Held, CancelRange
<1> HIDE DEF none
<1>b. e \in Editors /\ none \in Seq(PendKeys)
  BY <1>0, <1>a
<1>c. [e EXCEPT !.op = "", !.anchor = 1, !.pend = none] \in Editors
  BY <1>b DEF Editors
<1>1. x \in Editors
  BY <1>a, <1>c
<1>2. /\ x.lines = e.lines /\ x.row = e.row /\ x.col = e.col /\ x.undo = e.undo
      /\ x.pend = none /\ x.list = e.list /\ x.mode = e.mode
      /\ x.vis = e.vis /\ x.ar = e.ar /\ x.ac = e.ac /\ x.op = ""
  BY <1>a DEF Editors
<1>3. Len(x.pend) < PendSize /\ (x.list # {} => x.mode = "insert")
  BY <1>0, <1>2 DEF Held
<1>4. Held(x) /\ Keeps(e, x)
  BY <1>1, <1>2, <1>3, FieldsHold
<1> QED
  BY <1>2, <1>4 DEF none

(* Whatever was made of the text, a range or a selection ends well. *)
LEMMA CancelRangeFine ==
  ASSUME NEW e, NEW y, Held(y), Edits(e, y), y.vis = ""
  PROVE  Fine(e, CancelRange(y)) /\ Free(CancelRange(y)) /\ CancelRange(y).mode = y.mode
<1> DEFINE x == CancelRange(y)
<1>1. Held(x) /\ Keeps(y, x) /\ x.op = "" /\ x.vis = "" /\ x.mode = y.mode
  BY CancelRangeIs
<1> HIDE DEF x
<1>2. Free(x)
  BY <1>1 DEF Free
<1>3. Fine(e, x)
  BY <1>1, <1>2, FreeSound, EditsKeeps DEF Fine
<1> QED
  BY <1>1, <1>2, <1>3 DEF x

LEMMA CancelVisualFine ==
  ASSUME NEW e, NEW y, Held(y), Edits(e, y), y.op = ""
  PROVE  Fine(e, CancelVisual(y))
<1> DEFINE x == CancelVisual(y)
<1>1. Held(x) /\ Keeps(y, x) /\ x.op = "" /\ x.vis = ""
  BY CancelVisualIs
<1> HIDE DEF x
<1>2. Free(x)
  BY <1>1 DEF Free
<1> QED
  BY <1>1, <1>2, FreeSound, EditsKeeps DEF Fine, x

(* A new mode, when nothing is selected. *)
LEMMA ModeFine ==
  ASSUME NEW e, Held(e), Free(e), e.list = {}, NEW x \in Editors,
         x.lines = e.lines, x.row = e.row, x.col = e.col, x.undo = e.undo,
         x.vis = "", x.op = "", x.pend = e.pend \/ x.pend = <<>>, x.list = {}
  PROVE  Fine(e, x)
<1>1. Len(x.pend) < PendSize
  <2>1. Len(e.pend) < PendSize /\ Len(<<>>) < PendSize
    BY NoPend DEF Held
  <2> QED
    BY <2>1
<1>2. Held(x) /\ Keeps(e, x)
  BY <1>1, FieldsHold
<1>3. Free(x)
  BY DEF Free
<1> QED
  BY <1>2, <1>3, FreeSound DEF Fine, Edits

LEMMA FreeFine ==
  ASSUME NEW e, NEW c, Keeps(e, c), Free(c), NEW x, Touches(c, x)
  PROVE  Fine(e, x)
<1>1. Held(x) /\ Alike(c, x) /\ Edits(c, x)
  BY TouchesIs
<1>2. Free(x)
  BY <1>1 DEF Free, Alike
<1> QED
  BY <1>1, <1>2, FreeSound, KeepsEdits DEF Fine

LEMMA NewlineTouches == ASSUME NEW e, Held(e) PROVE Touches(e, Newline(e))
BY NewlineAlters, StaysPut DEF Touches

LEMMA BackspaceTouches == ASSUME NEW e, Held(e) PROVE Touches(e, Backspace(e))
BY BackspaceIs, StaysPut DEF Touches

LEMMA DeleteCharTouches == ASSUME NEW e, Held(e) PROVE Touches(e, DeleteChar(e))
BY DeleteCharIs, StaysPut DEF Touches

LEMMA InsertKeyFine ==
  ASSUME NEW e, Sound(e), e.mode = "insert", NEW k, NEW x \in InsertKey(e, k)
  PROVE  Fine(e, x)
<1> DEFINE c == CloseList(e)
<1>1. Held(e) /\ Free(e) /\ e \in Editors
  BY DEF Sound, Anchored, Free, Held
<1>2. Held(c) /\ Keeps(e, c) /\ Free(c) /\ c.mode = "insert" /\ c.list = {}
  BY <1>1, CloseListHolds DEF Free
<1>3. CloseList(c) = c
  BY <1>1 DEF CloseList, Editors
<1>4. \/ x = e
      \/ \E item \in e.list : x = Accept(e, item)
      \/ x = c \/ x = Closed(c) \/ x = Newline(c) \/ x = Backspace(c) \/ x = TabKey(c)
      \/ k \in Arrows /\ x = Move(c, k)
      \/ k \in Typed /\ x = InsertChar(c, k)
  BY DEF InsertKey
<1> HIDE DEF c
<1>5. CASE x = e
  BY <1>5 DEF Fine, Edits, Keeps
<1>6. ASSUME NEW item \in e.list, x = Accept(e, item) PROVE Fine(e, x)
  <2>1. item \in Glyphs
    BY <1>1 DEF Editors
  <2>2. Touches(c, x)
    BY <1>1, <1>6, <2>1, AcceptAlters DEF Touches, c
  <2> QED
    BY <1>2, <2>2, FreeFine
<1>7. CASE x = c
  BY <1>2, <1>7, FreeFine, StaysPut DEF Touches
<1>8. CASE x = Closed(c)
  <2>1. c \in Editors
    BY <1>2 DEF Held
  <2>2. x \in Editors /\ x.lines = c.lines /\ x.row = c.row /\ x.col = c.col /\ x.undo = c.undo
        /\ x.vis = c.vis /\ x.op = c.op /\ x.pend = c.pend /\ x.list = c.list
    BY <1>8, <2>1 DEF Closed, Editors
  <2>3. Fine(c, x)
    BY <1>2, <2>2, ModeFine DEF Free
  <2> QED
    BY <1>2, <2>3, KeepsEdits DEF Fine
<1>9. CASE x = Newline(c) \/ x = Backspace(c)
  BY <1>2, <1>9, FreeFine, NewlineTouches, BackspaceTouches
<1>10. CASE x = TabKey(c)
  <2>1. CASE Alters(c, x)
    BY <1>2, <2>1, FreeFine DEF Touches
  <2>2. CASE x = [c EXCEPT !.list = Items(c)]
    <3>1. Items(c) \in SUBSET Glyphs
      BY ItemsAreGlyphs
    <3>2. Held(x) /\ Keeps(c, x) /\ x.vis = c.vis /\ x.op = c.op
      BY <1>2, <2>2, <3>1, ListHolds
    <3>3. Free(x) /\ Edits(c, x)
      BY <1>2, <3>2 DEF Free, Edits
    <3> QED
      BY <1>2, <3>2, <3>3, FreeSound, KeepsEdits DEF Fine
  <2>3. Alters(CloseList(c), TabKey(c)) \/ TabKey(c) = [c EXCEPT !.list = Items(c)]
    BY <1>2, TabKeyIs
  <2> QED
    BY <1>3, <1>10, <2>1, <2>2, <2>3
<1>11. CASE k \in Arrows /\ x = Move(c, k)
  <2>1. k \in VisualMotions
    BY <1>11 DEF Arrows, VisualMotions, RangeMotions
  <2> QED
    BY <1>2, <1>11, <2>1, FreeFine, MoveMoves DEF Touches
<1>12. CASE k \in Typed /\ x = InsertChar(c, k)
  <2>1. k \in Glyphs
    BY <1>12, EditorAssumption
  <2> QED
    BY <1>2, <1>12, <2>1, FreeFine, InsertCharAlters DEF Touches
<1> QED
  BY <1>4, <1>5, <1>6, <1>7, <1>8, <1>9, <1>10, <1>11, <1>12

(* Nothing is selected outside the normal mode, and no list is shown       *)
(* outside the insert mode.                                                *)
LEMMA ElsewhereFree ==
  ASSUME NEW e, Sound(e)
  PROVE  /\ e.mode # "normal" => Free(e)
         /\ e.mode # "insert" => e.list = {}
BY DEF Sound, Held, Anchored, Free

LEMMA ClosedFine ==
  ASSUME NEW e, Held(e), Free(e), e.list = {}
  PROVE  Fine(e, Closed(e)) /\ Held(Closed(e)) /\ Free(Closed(e)) /\ Keeps(e, Closed(e))
<1> DEFINE x == Closed(e)
<1>1. e \in Editors
  BY DEF Held
<1>2. x \in Editors /\ x.lines = e.lines /\ x.row = e.row /\ x.col = e.col /\ x.undo = e.undo
      /\ x.vis = e.vis /\ x.op = e.op /\ x.pend = e.pend /\ x.list = e.list
  BY <1>1 DEF Closed, Editors
<1> HIDE DEF x
<1>3. Fine(e, x)
  BY <1>2, ModeFine DEF Free
<1> QED
  BY <1>2, <1>3 DEF Fine, Sound, Free, Keeps, x

LEMMA SearchKeyFine ==
  ASSUME NEW e, Sound(e), e.mode = "search", NEW k, NEW x, x = SearchKey(e, k)
  PROVE  Fine(e, x)
<1>1. Held(e) /\ Free(e) /\ e.list = {} /\ e \in Editors /\ e.pattern \in Line
  BY ElsewhereFree DEF Sound, Held, Editors
<1>2. Fine(e, Closed(e)) /\ Held(Closed(e)) /\ Free(Closed(e)) /\ Keeps(e, Closed(e))
  BY <1>1, ClosedFine
<1>3. \/ x = SearchNext(Closed(e), 1)
      \/ x = Closed(e)
      \/ e.pattern # <<>> /\ x = [e EXCEPT !.pattern = Front(e.pattern)]
      \/ x = [Closed(e) EXCEPT !.pattern = <<>>]
      \/ k \in Typed /\ x = [e EXCEPT !.pattern = Append(e.pattern, k)]
      \/ x = e
  BY DEF SearchKey
<1>4. CASE x = SearchNext(Closed(e), 1)
  <2>1. Moves(Closed(e), x)
    BY <1>2, <1>4, SearchNextMoves
  <2> QED
    BY <1>2, <2>1, FreeFine DEF Touches
<1>5. CASE x = Closed(e)
  BY <1>2, <1>5
<1>6. CASE \E p \in Line : x = [e EXCEPT !.pattern = p] \/ x = [Closed(e) EXCEPT !.pattern = p]
  <2>1. PICK p \in Line : x = [e EXCEPT !.pattern = p] \/ x = [Closed(e) EXCEPT !.pattern = p]
    BY <1>6
  <2>2. x \in Editors /\ x.lines = e.lines /\ x.row = e.row /\ x.col = e.col /\ x.undo = e.undo
        /\ x.vis = e.vis /\ x.op = e.op /\ x.pend = e.pend /\ x.list = e.list
    BY <1>1, <2>1, ZenonT(40) DEF Closed, Editors
  <2> QED
    BY <1>1, <2>2, ModeFine DEF Free
<1>7. <<>> \in Line
  BY DEF Line
<1>8. e.pattern # <<>> => Front(e.pattern) \in Line
  BY <1>1, LastIs DEF Line
<1>9. k \in Typed => Append(e.pattern, k) \in Line
  BY <1>1, EditorAssumption DEF Line
<1>10. CASE x = e
  BY <1>10 DEF Fine, Edits, Keeps
<1> QED
  BY <1>3, <1>4, <1>5, <1>6, <1>7, <1>8, <1>9, <1>10

LEMMA VisualKeyFine ==
  ASSUME NEW e, Sound(e), Selecting(e), NEW k
  PROVE  Fine(e, VisualKey(e, k))
<1> DEFINE first == Least(e.ar, e.row)
           last == IF e.ar < e.row THEN e.row ELSE e.ar
           copied == CopyLines(e, first, last)
           y == IF e.vis = "line" THEN copied ELSE CopyVisualChars(e)
           z == IF e.vis = "line" THEN DeleteLines(At(copied, first, 0), last - first + 1)
                ELSE DeleteVisualChars(e)
<1>1. /\ Held(e) /\ e.ar \in 1..Rows(e) /\ e.ac \in 0..Len(e.lines[e.ar]) /\ ~Ranging(e)
      /\ e.row \in 1..Rows(e) /\ Rows(e) \in Nat
  BY LooseLines, SoundHeld, AnchorsIs DEF Loose
<1>2. first \in 1..Rows(e) /\ last \in Nat /\ last - first + 1 \in Nat
  BY <1>1 DEF Least
<1> HIDE DEF first, last
<1>3. Moves(e, copied)
  BY <1>1, <1>2, CopyLinesMoves
<1>4. Touches(e, y) /\ ~Ranging(y)
  <2>1. Moves(e, y)
    BY <1>1, <1>3, CopyVisualCharsMoves
  <2> HIDE DEF y
  <2> QED
    BY <1>1, <2>1 DEF Touches, Moves, Alike, Ranging
<1>5. Touches(e, z) /\ ~Ranging(z)
  <2>1. CASE e.vis = "line"
    <3> DEFINE a == At(copied, first, 0)
    <3>1. Held(copied) /\ copied.lines = e.lines /\ Rows(copied) = Rows(e)
      BY <1>3 DEF Moves, Keeps, Rows
    <3>2. 0 \in 0..Len(copied.lines[first])
      <4>1. Len(copied.lines[first]) \in Nat
        BY <1>2, <3>1, HeldLines DEF Held
      <4> QED
        BY <4>1
    <3> HIDE DEF copied
    <3>3. Moves(copied, a) /\ Held(a)
      BY <1>2, <3>1, <3>2, AtHolds
    <3> HIDE DEF a
    <3>4. Alters(a, DeleteLines(a, last - first + 1))
      BY <1>2, <3>3, HeldLoose, DeleteLinesAlters
    <3>5. z = DeleteLines(a, last - first + 1)
      BY <2>1 DEF a, copied
    <3> HIDE DEF z
    <3>6. Alters(e, z)
      BY <1>3, <3>3, <3>4, <3>5, MovesTwice, MovesAlters DEF copied
    <3> QED
      BY <1>1, <3>6 DEF Touches, Alters, Alike, Ranging
  <2>2. CASE e.vis # "line"
    <3>1. Alters(e, z)
      BY <1>1, <2>2, DeleteVisualCharsAlters
    <3> HIDE DEF z
    <3> QED
      BY <1>1, <3>1 DEF Touches, Alters, Alike, Ranging
  <2> QED
    BY <2>1, <2>2
<1>6. VisualKey(e, k) \in {CancelVisual(e), CancelVisual(y), CancelVisual(z), e}
  BY DEF VisualKey, first, last
<1> HIDE DEF y, z
<1>7. Fine(e, CancelVisual(y)) /\ Fine(e, CancelVisual(z))
  BY <1>4, <1>5, TouchesIs, CancelVisualFine DEF Ranging
<1>8. Fine(e, CancelVisual(e)) /\ Fine(e, e)
  <2>1. Edits(e, e)
    BY DEF Edits, Keeps
  <2> QED
    BY <1>1, <2>1, CancelVisualFine DEF Fine, Ranging
<1> QED
  BY <1>6, <1>7, <1>8

LEMMA ApplyRangeFine ==
  ASSUME NEW e, Sound(e), Ranging(e), ~Selecting(e)
  PROVE  Fine(e, ApplyRange(e)) /\ Free(ApplyRange(e))
<1> DEFINE first == Least(e.anchor, e.row)
           last == IF e.anchor < e.row THEN e.row ELSE e.anchor
           a == At(e, first, e.col)
           y == CopyLines(e, first, last)
           z == DeleteLines(a, last - first + 1)
<1>1. /\ Held(e) /\ e \in Editors /\ e.anchor \in 1..Rows(e) /\ e.row \in 1..Rows(e)
      /\ Rows(e) \in Nat /\ e.col \in Nat
  BY LooseLines, SoundHeld, AnchorsIs DEF Loose
<1>2. /\ first \in 1..Rows(e) /\ first \in Nat /\ first >= 1 /\ last \in Nat
      /\ last - first + 1 \in Nat
  BY <1>1 DEF Least
<1> HIDE DEF first, last
<1>3. Moves(e, y)
  BY <1>1, <1>2, CopyLinesMoves
<1>4. Loose(a) /\ Keeps(e, a) /\ Alike(e, a)
  <2>1. a \in Editors
    BY <1>1, <1>2 DEF At, Editors
  <2>2. /\ a.lines = e.lines /\ a.row = first /\ a.undo = e.undo /\ Alike(e, a)
    BY <1>1 DEF At, Editors, Alike
  <2> HIDE DEF a
  <2>3. Loose(a)
    BY <1>1, <1>2, <2>1, <2>2, HeldLoose DEF Loose, Rows, Alike
  <2> QED
    BY <2>2, <2>3 DEF Keeps
<1> HIDE DEF a
<1>5. Alters(a, z)
  BY <1>2, <1>4, DeleteLinesAlters
<1> HIDE DEF y, z
<1>6. Touches(e, y) /\ Touches(e, z)
  BY <1>3, <1>4, <1>5 DEF Touches, Alters, Alike, Keeps, Changes
<1>7. ApplyRange(e) \in {CancelRange(y), CancelRange(z)}
  BY DEF ApplyRange, y, z, a, first, last
<1>8. /\ Held(y) /\ Edits(e, y) /\ ~Selecting(y)
      /\ Held(z) /\ Edits(e, z) /\ ~Selecting(z)
  BY <1>6, TouchesIs DEF Alike, Selecting
<1> QED
  BY <1>7, <1>8, CancelRangeFine DEF Selecting

Unbroken(e, k) == e.op # "" => k \notin RangeMotions /\ (Digit(k) \/ k = e.op)

LEMMA PendIs == ASSUME NEW e \in Editors PROVE e.pend \in Seq(PendKeys)
BY DEF Editors

(* After a key that belongs to no command, nothing is selected. *)
LEMMA SequenceFine ==
  ASSUME NEW e, Sound(e), ~Selecting(e), e.mode = "normal", NEW k, Unbroken(e, k),
         NEW s, s = Sequence(e, k)
  PROVE  \E y : /\ Fine(e, y) /\ y.mode = "normal"
                /\ s = <<TRUE, y>> \/ (s = <<FALSE, y>> /\ Free(y) /\ Keeps(e, y))
<1> DEFINE count == IF Len(e.pend) > 1 THEN Number(e.pend) ELSE 1
           more == [e EXCEPT !.pend = Append(@, k)]
           Took(x) == <<TRUE, x>>
           other == CancelRange(e)
<1>0. /\ e.pend \in Seq(PendKeys) /\ Len(e.pend) \in Nat
      /\ \A p \in PendKeys : /\ Append(e.pend, p) \in Seq(PendKeys)
                             /\ Len(Append(e.pend, p)) = Len(e.pend) + 1
  <2>1. e.pend \in Seq(PendKeys)
    BY SoundHeld, PendIs
  <2> QED
    BY <2>1, AppendIs
<1>1. Held(e) /\ e \in Editors /\ e.pend \in Seq(PendKeys) /\ e.list = {} /\ Fine(e, e)
  <2>1. Held(e) /\ e \in Editors /\ e.list = {}
    BY SoundHeld, ElsewhereFree
  <2>2. Fine(e, e)
    BY DEF Fine, Edits, Keeps
  <2> QED
    BY <1>0, <2>1, <2>2
<1>2. Fine(e, other) /\ Free(other) /\ other.mode = "normal" /\ Keeps(e, other)
  <2>1. Keeps(e, other)
    BY <1>1, CancelRangeIs
  <2> QED
    BY <1>1, <2>1, CancelRangeFine DEF Fine, Selecting
<1>3. ASSUME NEW y, Touches(e, y)
      PROVE  Fine(e, CancelRange(y)) /\ CancelRange(y).mode = "normal"
  <2>1. Held(y) /\ Alike(e, y) /\ Edits(e, y)
    BY <1>3, TouchesIs
  <2>2. ~Selecting(y) /\ y.mode = "normal"
    BY <2>1 DEF Alike, Selecting
  <2> QED
    BY <2>1, <2>2, CancelRangeFine DEF Selecting
<1>4. count \in Nat /\ Number(e.pend) \in Nat
  BY DEF Number
<1> HIDE DEF count
<1>5. /\ Touches(e, DeleteLines(e, count)) /\ Touches(e, CopyLines(e, e.row, e.row + count - 1))
      /\ Touches(e, GotoLine(e, 1)) /\ Touches(e, GotoLine(e, Number(e.pend)))
  <2>1. e.row \in Nat /\ e.row >= 1 /\ e.row + count - 1 \in Nat
    <3>1. e.row \in Nat /\ e.row > 0
      BY <1>1, HeldLines DEF Held
    <3>2. \A a, b \in Nat : a > 0 => a >= 1 /\ a + b - 1 \in Nat
      OBVIOUS
    <3> QED
      BY <1>4, <3>1, <3>2
  <2>2. Touches(e, DeleteLines(e, count))
    BY <1>1, <1>4, HeldLoose, DeleteLinesAlters DEF Touches
  <2>3. Touches(e, CopyLines(e, e.row, e.row + count - 1))
    BY <1>1, <2>1, CopyLinesMoves DEF Touches
  <2>4. Touches(e, GotoLine(e, 1)) /\ Touches(e, GotoLine(e, Number(e.pend)))
    <3>1. 1 \in Int /\ Number(e.pend) \in Int
      BY <1>4
    <3> QED
      BY <1>1, <3>1, GotoLineMoves DEF Touches
  <2> QED
    BY <2>2, <2>3, <2>4
<1>6. ASSUME k \in PendKeys, Len(e.pend) + 1 < PendSize, NEW x \in Editors,
             x.lines = e.lines, x.row = e.row, x.col = e.col, x.undo = e.undo,
             x.pend = Append(e.pend, k), x.mode = e.mode, x.list = e.list, x.vis = e.vis,
             \/ x.op = e.op /\ x.anchor = e.anchor
             \/ x.anchor = e.row
      PROVE  Fine(e, x) /\ x.mode = "normal"
  <2>1. Len(x.pend) < PendSize
    <3>1. Len(Append(e.pend, k)) = Len(e.pend) + 1
      BY <1>0, <1>6
    <3> QED
      BY <1>6, <3>1
  <2>2. Held(x) /\ Keeps(e, x)
    BY <1>1, <1>6, <2>1, FieldsHold DEF Held
  <2>3. Anchored(x)
    <3>1. Rows(x) = Rows(e) /\ e.row \in 1..Rows(e)
      BY <1>6, <1>1 DEF Rows, Held, OnText
    <3> QED
      BY <1>6, <3>1 DEF Anchored, Sound, Selecting
  <2> QED
    BY <1>6, <2>2, <2>3 DEF Fine, Sound, Edits
<1>7. ASSUME k \in PendKeys, Len(e.pend) + 1 < PendSize
      PROVE  Fine(e, more) /\ more.mode = "normal"
  <2>1. more \in Editors
    <3>1. Append(e.pend, k) \in Seq(PendKeys)
      BY <1>0, <1>7
    <3> QED
      BY <1>1, <3>1 DEF Editors
  <2>2. /\ more.lines = e.lines /\ more.row = e.row /\ more.col = e.col /\ more.undo = e.undo
        /\ more.pend = Append(e.pend, k) /\ more.mode = e.mode /\ more.list = e.list
        /\ more.vis = e.vis /\ more.op = e.op /\ more.anchor = e.anchor
    BY <1>1 DEF Editors
  <2> HIDE DEF more
  <2> QED
    BY <1>6, <1>7, <2>1, <2>2
<1>8. ASSUME k \in {"d", "y"}, Len(e.pend) + 1 < PendSize
      PROVE  /\ Fine(e, [more EXCEPT !.op = k, !.anchor = e.row])
             /\ [more EXCEPT !.op = k, !.anchor = e.row].mode = "normal"
  <2> DEFINE x == [more EXCEPT !.op = k, !.anchor = e.row]
  <2>0. k \in PendKeys /\ e.row \in Nat
    BY <1>1, <1>8, HeldLines DEF PendKeys, Held
  <2>1. x \in Editors
    <3>1. Append(e.pend, k) \in Seq(PendKeys)
      BY <1>0, <2>0
    <3> QED
      BY <1>1, <1>8, <2>0, <3>1 DEF Editors
  <2>2. /\ x.lines = e.lines /\ x.row = e.row /\ x.col = e.col /\ x.undo = e.undo
        /\ x.pend = Append(e.pend, k) /\ x.mode = e.mode /\ x.list = e.list
        /\ x.vis = e.vis /\ x.anchor = e.row
    BY <1>1 DEF Editors
  <2> HIDE DEF x, more
  <2>3. Fine(e, x) /\ x.mode = "normal"
    BY <1>6, <1>8, <2>0, <2>1, <2>2
  <2> QED
    BY <2>3 DEF x
<1> HIDE DEF more, other, Took
<1>9. CASE e.pend = <<>> /\ k \notin {"d", "y", "g", "2"}
  <2>1. s = <<FALSE, e>>
    BY <1>9 DEF Sequence
  <2>2. ~Ranging(e)
    <3>1. ~Digit(k)
      BY <1>9 DEF Digit
    <3>2. e.op \in {"", "d", "y"}
      BY <1>1 DEF Editors
    <3> QED
      BY <1>9, <3>1, <3>2 DEF Unbroken, Ranging
  <2> QED
    BY <1>1, <2>1, <2>2, AnchorsIs DEF Keeps
<1>10. CASE /\ ~(e.pend = <<>> /\ k \notin {"d", "y", "g", "2"})
            /\ k \in Arrows \cup {"enter", "back", "tab"}
  <2>1. s = <<FALSE, other>>
    BY <1>10 DEF Sequence, other
  <2> QED
    BY <1>2, <2>1
<1>11. CASE /\ ~(e.pend = <<>> /\ k \notin {"d", "y", "g", "2"})
            /\ k \notin Arrows \cup {"enter", "back", "tab"}
            /\ k = "esc" \/ Len(e.pend) + 1 >= PendSize
  <2>1. s = <<TRUE, other>>
    BY <1>11 DEF Sequence, other
  <2> QED
    BY <1>2, <2>1
<1>12. CASE /\ ~(e.pend = <<>> /\ k \notin {"d", "y", "g", "2"})
            /\ k \notin Arrows \cup {"enter", "back", "tab"}
            /\ ~(k = "esc" \/ Len(e.pend) + 1 >= PendSize)
  <2>0. Len(e.pend) + 1 < PendSize
    <3>1. Len(e.pend) \in Nat /\ PendSize \in Nat
      BY <1>0, EditorAssumption
    <3> QED
      BY <1>12, <3>1
  <2>1. CASE e.pend = <<>>
    <3> DEFINE both == [more EXCEPT !.op = k, !.anchor = e.row]
    <3>1. s = <<TRUE, IF k \in {"d", "y"} THEN both ELSE more>>
      BY <1>12, <2>1 DEF Sequence, more, Took
    <3>2. k \in PendKeys
      BY <1>12, <2>1 DEF PendKeys
    <3>3. CASE k \in {"d", "y"}
      <4>1. s = <<TRUE, both>> /\ Fine(e, both) /\ both.mode = "normal"
        BY <1>8, <2>0, <3>1, <3>3
      <4> HIDE DEF both
      <4> QED
        BY <4>1
    <3>4. CASE k \notin {"d", "y"}
      <4>1. s = <<TRUE, more>> /\ Fine(e, more) /\ more.mode = "normal"
        BY <1>7, <2>0, <3>1, <3>2, <3>4
      <4> QED
        BY <4>1
    <3> QED
      BY <3>3, <3>4
  <2>2. CASE e.pend # <<>> /\ ~Continues(e.pend, k)
    <3>1. s = <<FALSE, other>>
      BY <1>12, <2>2 DEF Sequence, other
    <3> QED
      BY <1>2, <3>1
  <2>3. CASE e.pend # <<>> /\ Continues(e.pend, k)
    <3> DEFINE result == CASE k = "d" -> CancelRange(DeleteLines(e, count))
                           [] k = "y" -> CancelRange(CopyLines(e, e.row, e.row + count - 1))
                           [] k = "g" -> CancelRange(GotoLine(e, 1))
                           [] k = "G" -> CancelRange(GotoLine(e, Number(e.pend)))
                           [] OTHER -> more
    <3>1. s = <<TRUE, result>>
      BY <1>12, <2>3 DEF Sequence, more, count
    <3>2. k \in {"d", "y", "g", "G", "2"}
      BY <2>3 DEF Continues, Digit
    <3>3. Fine(e, result) /\ result.mode = "normal"
      <4>1. CASE k \in {"d", "y", "g", "G"}
        BY <1>3, <1>5, <4>1
      <4>2. CASE k = "2"
        <5>1. k \in PendKeys
          BY <4>2 DEF PendKeys
        <5>2. result = more
          BY <4>2
        <5> QED
          BY <1>7, <2>0, <5>1, <5>2
      <4> QED
        BY <3>2, <4>1, <4>2
    <3> HIDE DEF result
    <3> QED
      BY <3>1, <3>3
  <2> QED
    BY <2>1, <2>2, <2>3
<1> QED
  BY <1>9, <1>10, <1>11, <1>12

LEMMA EditsItself == ASSUME NEW e PROVE Edits(e, e) /\ Keeps(e, e)
BY DEF Edits, Keeps

LEMMA PlainKeyFine ==
  ASSUME NEW e, Sound(e), e.mode = "normal", NEW k, k \in VisualMotions \/ Free(e),
         NEW x, x = PlainKey(e, k)
  PROVE  Fine(e, x)
<1> DEFINE v == CancelVisual(e)
           none == <<>>
           c == [v EXCEPT !.pend = none]
           b == CancelRange(e)
           Start(kind) == [b EXCEPT !.vis = kind, !.ar = e.row, !.ac = e.col]
           far == At(e, e.row, Len(Cur(e)))
<1>1. /\ Held(e) /\ e \in Editors /\ e.list = {} /\ Edits(e, e) /\ Keeps(e, e)
      /\ e.row \in 1..Rows(e) /\ e.col \in 0..Len(e.lines[e.row]) /\ e.row \in Nat /\ e.col \in Nat
      /\ Cur(e) = e.lines[e.row] /\ Len(Cur(e)) \in Nat
  BY SoundHeld, ElsewhereFree, EditsItself, HeldLines DEF Held, OnText
<1>2. /\ v \in Editors /\ v.lines = e.lines /\ v.row = e.row /\ v.col = e.col /\ v.undo = e.undo
      /\ v.vis = "" /\ v.op = e.op /\ v.list = e.list
  BY <1>1 DEF CancelVisual, Editors
<1>3. none \in Seq(PendKeys)
  BY NoPend
<1> HIDE DEF none, v
<1>4. ASSUME Free(e), NEW m \in {"insert", "line"}
      PROVE  Fine(e, [c EXCEPT !.mode = m])
  <2> DEFINE y == [c EXCEPT !.mode = m]
  <2>1. /\ y \in Editors /\ y.lines = e.lines /\ y.row = e.row /\ y.col = e.col
        /\ y.undo = e.undo /\ y.vis = "" /\ y.op = e.op /\ y.list = e.list /\ y.pend = none
    BY <1>2, <1>3, <1>4 DEF Editors
  <2> HIDE DEF y
  <2> QED
    BY <1>1, <1>4, <2>1, ModeFine DEF Free, y, none
<1>5. ASSUME Free(e)
      PROVE  Fine(e, [c EXCEPT !.mode = "search", !.pattern = <<>>])
  <2> DEFINE p == <<>>
             y == [c EXCEPT !.mode = "search", !.pattern = p]
  <2>0. p \in Line
    BY DEF Line
  <2> HIDE DEF p
  <2>1. /\ y \in Editors /\ y.lines = e.lines /\ y.row = e.row /\ y.col = e.col
        /\ y.undo = e.undo /\ y.vis = "" /\ y.op = e.op /\ y.list = e.list /\ y.pend = none
    BY <1>2, <1>3, <2>0 DEF Editors
  <2> HIDE DEF y
  <2>2. Fine(e, y)
    BY <1>1, <1>5, <2>1, ModeFine DEF Free, none
  <2> QED
    BY <2>2 DEF y, p
<1>6. ASSUME Free(e), NEW kind \in {"char", "line"}
      PROVE  Fine(e, Start(kind))
  <2> DEFINE y == Start(kind)
  <2>1. /\ Held(b) /\ Keeps(e, b) /\ b.op = "" /\ b.pend = <<>> /\ b.mode = e.mode
        /\ b.row = e.row /\ b.col = e.col /\ b.list = e.list
    BY <1>1, CancelRangeIs
  <2> HIDE DEF b
  <2>2. /\ y \in Editors /\ y.lines = b.lines /\ y.row = b.row /\ y.col = b.col /\ y.undo = b.undo
        /\ y.vis = kind /\ y.op = b.op /\ y.list = b.list /\ y.pend = b.pend /\ y.mode = b.mode
        /\ y.ar = e.row /\ y.ac = e.col
    BY <1>1, <1>6, <2>1 DEF Editors, Held
  <2> HIDE DEF y
  <2>3. Len(y.pend) < PendSize
    BY <2>1, <2>2, NoPend
  <2>4. Held(y) /\ Keeps(b, y)
    BY <1>1, <2>1, <2>2, <2>3, FieldsHold
  <2>5. y.ar \in 1..Rows(y) /\ y.ac \in 0..Len(y.lines[y.ar])
    BY <1>1, <2>1, <2>2 DEF Keeps, Rows
  <2>6. Anchored(y)
    BY <2>1, <2>2, <2>5 DEF Anchored
  <2>7. Edits(e, y)
    BY <2>1, <2>4 DEF Edits, Keeps
  <2> QED
    BY <2>4, <2>6, <2>7 DEF Fine, Sound, y
<1>7. ASSUME Free(e), NEW y, Held(y), Alike(e, y), Edits(e, y)
      PROVE  Fine(e, y)
  <2>1. Free(y)
    BY <1>7 DEF Free, Alike
  <2> QED
    BY <1>7, <2>1, FreeSound DEF Fine
<1>8. ASSUME Free(e), NEW y, Touches(e, y) PROVE Fine(e, y)
  BY <1>7, <1>8, TouchesIs
<1>9. ASSUME Free(e) PROVE Fine(e, [Newline(far) EXCEPT !.mode = "insert"])
  <2> DEFINE n == Newline(far)
             y == [n EXCEPT !.mode = "insert"]
  <2>1. Moves(e, far) /\ Held(far)
    <3>1. Len(Cur(e)) \in 0..Len(e.lines[e.row])
      BY <1>1
    <3> QED
      BY <1>1, <3>1, AtHolds
  <2> HIDE DEF far
  <2>2. Touches(e, n)
    BY <2>1, NewlineTouches, MovesTouches
  <2> HIDE DEF n
  <2>3. Held(n) /\ Alike(e, n) /\ Edits(e, n)
    BY <2>2, TouchesIs
  <2>4. n \in Editors /\ Free(n) /\ n.list = {}
    BY <1>1, <1>9, <2>3 DEF Held, Free, Alike
  <2>5. /\ y \in Editors /\ y.lines = n.lines /\ y.row = n.row /\ y.col = n.col
        /\ y.undo = n.undo /\ y.vis = n.vis /\ y.op = n.op /\ y.list = n.list /\ y.pend = n.pend
    BY <2>4 DEF Editors
  <2> HIDE DEF y
  <2>6. Fine(n, y) /\ Keeps(n, y)
    BY <2>3, <2>4, <2>5, ModeFine DEF Free, Keeps
  <2>7. Fine(e, y)
    BY <2>3, <2>6, EditsKeeps DEF Fine
  <2> QED
    BY <2>7 DEF y, n
<1>10. CASE k \in VisualMotions
  <2>1. Moves(e, Move(e, k))
    BY <1>1, <1>10, MoveMoves
  <2>2. x = Move(e, k)
    BY <1>10 DEF PlainKey, VisualMotions, RangeMotions
  <2> QED
    BY <2>1, <2>2, MovesSound DEF Fine
<1>11. CASE k \notin VisualMotions
  <2>1. \/ x = [c EXCEPT !.mode = "insert"]
        \/ x = Start("char")
        \/ x = Start("line")
        \/ x = [c EXCEPT !.mode = "line"]
        \/ x = [c EXCEPT !.mode = "search", !.pattern = <<>>]
        \/ x = Undo(e)
        \/ x = PasteLines(e, FALSE)
        \/ x = PasteLines(e, TRUE)
        \/ x = DeleteChar(e)
        \/ x = [Newline(far) EXCEPT !.mode = "insert"]
        \/ x = e
    BY <1>11 DEF PlainKey, v, none
  <2>2. Free(e)
    BY <1>11
  <2>3. Fine(e, Undo(e))
    BY <1>1, <1>7, <2>2, UndoIs
  <2>4. Fine(e, PasteLines(e, FALSE)) /\ Fine(e, PasteLines(e, TRUE)) /\ Fine(e, DeleteChar(e))
    BY <1>1, <1>8, <2>2, PasteLinesIs, DeleteCharTouches
  <2>5. Fine(e, e)
    BY <1>1 DEF Fine
  <2>6. /\ Fine(e, [c EXCEPT !.mode = "insert"]) /\ Fine(e, [c EXCEPT !.mode = "line"])
        /\ Fine(e, Start("char")) /\ Fine(e, Start("line"))
    BY <1>4, <1>6, <2>2
  <2> QED
    BY <1>5, <1>9, <2>1, <2>2, <2>3, <2>4, <2>5, <2>6
<1> QED
  BY <1>10, <1>11

LEMMA ClampIs == ASSUME NEW e, Held(e) PROVE Clamp(e) = e
<1>1. e \in Editors /\ e.col \in Nat /\ Len(Cur(e)) \in Nat /\ e.col <= Len(Cur(e))
  BY HeldLines DEF Held
<1>2. Least(e.col, Len(Cur(e))) = e.col
  BY <1>1 DEF Least
<1>3. [e EXCEPT !.col = e.col] = e
  BY <1>1 DEF Editors
<1> QED
  BY <1>2, <1>3 DEF Clamp

LEMMA NormalKeyFine ==
  ASSUME NEW e, Sound(e), e.mode = "normal", NEW k, NEW x, x = NormalKey(e, k)
  PROVE  Fine(e, x)
<1> DEFINE broken == e.op # "" /\ k \notin RangeMotions /\ ~Digit(k) /\ ~(k = e.op /\ Len(e.pend) > 1)
           r == IF broken THEN CancelRange(e) ELSE e
           inRange == e.op # "" /\ k \in RangeMotions
           s == IF e.vis = "" /\ ~inRange THEN Sequence(r, k) ELSE <<FALSE, r>>
           last == Clamp(IF s[1] THEN s[2] ELSE PlainKey(s[2], k))
<1>1. Held(e) /\ e \in Editors /\ Edits(e, e) /\ Keeps(e, e)
  BY SoundHeld, EditsItself
<1>2. CASE Selecting(e) /\ k \notin VisualMotions
  <2>1. x = VisualKey(e, k)
    BY <1>2 DEF NormalKey, Selecting
  <2> QED
    BY <1>2, <2>1, VisualKeyFine
<1>3. CASE ~Selecting(e) /\ Ranging(e) /\ k = "esc"
  <2>1. x = CancelRange(e)
    <3>1. k # e.op
      BY <1>1, <1>3 DEF Editors
    <3> QED
      BY <1>3, <3>1 DEF NormalKey, Selecting, Ranging
  <2> QED
    BY <1>1, <1>3, <2>1, CancelRangeFine DEF Selecting
<1>4. CASE ~Selecting(e) /\ Ranging(e) /\ k # "esc" /\ k = e.op /\ Len(e.pend) = 1
  <2>1. x = ApplyRange(e)
    BY <1>4 DEF NormalKey, Selecting, Ranging
  <2> QED
    BY <1>4, <2>1, ApplyRangeFine
<1>5. CASE /\ ~(Selecting(e) /\ k \notin VisualMotions)
           /\ ~(~Selecting(e) /\ Ranging(e) /\ k = "esc")
           /\ ~(~Selecting(e) /\ Ranging(e) /\ k # "esc" /\ k = e.op /\ Len(e.pend) = 1)
  <2>1. x = last
    BY <1>5 DEF NormalKey, Selecting, Ranging
  <2>2. ASSUME NEW y, Fine(e, y), y.mode = "normal", s = <<TRUE, y>> PROVE Fine(e, x)
    <3> HIDE DEF s
    <3>1. last = Clamp(y)
      BY <2>2
    <3>2. Clamp(y) = y
      BY <2>2, ClampIs DEF Fine, Sound
    <3> QED
      BY <2>1, <2>2, <3>1, <3>2
  <2>3. ASSUME NEW y, Sound(y), Keeps(e, y), y.mode = "normal", s = <<FALSE, y>>,
               k \in VisualMotions \/ Free(y)
        PROVE  Fine(e, x)
    <3> HIDE DEF s
    <3> DEFINE z == PlainKey(y, k)
    <3>1. last = Clamp(z)
      BY <2>3
    <3>2. Fine(y, z)
      BY <2>3, PlainKeyFine
    <3> HIDE DEF z
    <3>3. Clamp(z) = z
      BY <3>2, ClampIs DEF Fine, Sound
    <3>4. Fine(e, z)
      BY <2>3, <3>2, KeepsEdits DEF Fine
    <3> QED
      BY <2>1, <3>1, <3>3, <3>4
  <2>4. CASE Selecting(e)
    <3>1. ~Ranging(e) /\ k \in VisualMotions
      BY <1>5, <2>4, AnchorsIs
    <3>2. s = <<FALSE, e>>
      BY <2>4, <3>1 DEF Selecting, Ranging
    <3> HIDE DEF s
    <3> QED
      BY <1>1, <2>3, <3>1, <3>2
  <2>5. CASE ~Selecting(e) /\ Ranging(e) /\ k \in RangeMotions
    <3>1. s = <<FALSE, e>>
      BY <2>5 DEF Selecting, Ranging
    <3>2. k \in VisualMotions
      BY <2>5 DEF VisualMotions
    <3> HIDE DEF s
    <3> QED
      BY <1>1, <2>3, <3>1, <3>2
  <2>6. CASE ~Selecting(e) /\ ~(Ranging(e) /\ k \in RangeMotions)
    <3>1. s = Sequence(r, k)
      BY <2>6 DEF Selecting, Ranging
    <3>2. Sound(r) /\ Keeps(e, r) /\ ~Selecting(r) /\ r.mode = "normal" /\ Unbroken(r, k)
      <4>1. CASE broken
        <5>1. r = CancelRange(e)
          BY <4>1
        <5>2. Fine(e, r) /\ Free(r) /\ r.mode = "normal" /\ Keeps(e, r)
          BY <1>1, <2>6, <5>1, CancelRangeFine, CancelRangeIs DEF Selecting
        <5> HIDE DEF r
        <5> QED
          BY <5>2 DEF Fine, Free, Selecting, Unbroken
      <4>2. CASE ~broken
        <5>1. r = e
          BY <4>2
        <5>2. Unbroken(e, k)
          BY <2>6, <4>2 DEF Unbroken, Ranging
        <5> QED
          BY <1>1, <2>6, <5>1, <5>2
      <4> QED
        BY <4>1, <4>2
    <3> HIDE DEF r, s
    <3>3. PICK y : /\ Fine(r, y) /\ y.mode = "normal"
                   /\ s = <<TRUE, y>> \/ (s = <<FALSE, y>> /\ Free(y) /\ Keeps(r, y))
      BY <3>1, <3>2, SequenceFine
    <3>4. Fine(e, y)
      BY <3>2, <3>3, KeepsEdits DEF Fine
    <3>5. CASE s = <<TRUE, y>>
      BY <2>2, <3>3, <3>4, <3>5
    <3>6. CASE s = <<FALSE, y>> /\ Free(y) /\ Keeps(r, y)
      <4>1. Keeps(e, y) /\ Sound(y)
        BY <3>2, <3>3, <3>6 DEF Keeps, Fine
      <4> QED
        BY <2>3, <3>3, <3>6, <4>1
    <3> QED
      BY <3>3, <3>5, <3>6
  <2> QED
    BY <2>4, <2>5, <2>6
<1> QED
  BY <1>2, <1>3, <1>4, <1>5

(* A text that only grows: what was a place on it still is one. *)
Grows(e, x) == /\ Rows(x) = Rows(e)
               /\ \A r \in 1..Rows(e) : Len(e.lines[r]) <= Len(x.lines[r])

LEMMA InsertCharGrows ==
  ASSUME NEW e, Held(e), NEW g \in Glyphs
  PROVE  Grows(e, InsertChar(e, g))
<1> DEFINE line == Upto(Cur(e), e.col) \o <<g>> \o From(Cur(e), e.col)
           lines == [e.lines EXCEPT ![e.row] = line]
           z == [SetLine(SaveUndo(e), line) EXCEPT !.col = e.col + Len(<<g>>)]
           x == InsertChar(e, g)
<1>1. /\ Cur(e) \in Line /\ e \in Editors /\ e.col \in 0..Len(Cur(e)) /\ <<g>> \in Line
      /\ Len(<<g>>) = 1 /\ Len(Cur(e)) \in Nat /\ e.col \in Nat /\ Cur(e) = e.lines[e.row]
      /\ e.lines \in Text /\ e.row \in 1..Rows(e) /\ Rows(e) = Len(e.lines)
      /\ \A r \in 1..Rows(e) : Len(e.lines[r]) \in Nat
  BY HeldLines DEF Held, OnText, Line, Rows
<1>2. line \in Line /\ Len(line) = Len(Cur(e)) + 1
  <2>1. line \in Line /\ Len(line) = e.col + Len(<<g>>) + Len(Cur(e)) - e.col
    BY <1>1, LineIs
  <2> HIDE DEF line
  <2> QED
    BY <1>1, <2>1
<1> HIDE DEF line
<1>3. lines \in Text /\ lines # <<>> /\ Len(lines) = Len(e.lines) /\ lines[e.row] = line
  BY <1>1, <1>2, SetLineIs
<1>4. z.lines = lines
  BY <1>1 DEF SetLine, SaveUndo, Editors
<1>5. x = Settle(z)
  BY <1>1 DEF InsertChar, ReplaceRange, line
<1>6. Settle(z).lines = z.lines
  BY <1>1 DEF Settle, SetLine, SaveUndo, Editors
<1>7. x.lines = lines
  BY <1>4, <1>5, <1>6
<1>8. \A r \in 1..Rows(e) : r # e.row => lines[r] = e.lines[r]
  BY <1>1 DEF Text
<1> HIDE DEF x, lines, z
<1>9. ASSUME NEW r \in 1..Rows(e) PROVE Len(e.lines[r]) <= Len(x.lines[r])
  <2>1. CASE r = e.row
    BY <1>1, <1>2, <1>3, <1>7, <2>1
  <2>2. CASE r # e.row
    BY <1>1, <1>7, <1>8, <2>2
  <2> QED
    BY <2>1, <2>2
<1> QED
  BY <1>1, <1>3, <1>7, <1>9 DEF Grows, Rows, x

LEMMA GrowsSound ==
  ASSUME NEW e, Sound(e), NEW x, Held(x), Alike(e, x), Grows(e, x)
  PROVE  Sound(x)
<1>1. /\ \A r \in 1..Rows(e) : Len(e.lines[r]) \in Nat /\ Len(x.lines[r]) \in Nat
      /\ Rows(e) = Rows(x)
  BY SoundHeld, HeldLines DEF Grows, Held
<1>2. /\ x.mode = e.mode /\ x.vis = e.vis /\ x.op = e.op /\ x.ar = e.ar /\ x.ac = e.ac
      /\ x.anchor = e.anchor
  BY DEF Alike
<1>3. ASSUME Selecting(e) PROVE x.ar \in 1..Rows(x) /\ x.ac \in 0..Len(x.lines[x.ar])
  <2>1. e.ar \in 1..Rows(e) /\ e.ac \in 0..Len(e.lines[e.ar])
    BY <1>3, AnchorsIs
  <2> QED
    BY <1>1, <1>2, <2>1 DEF Grows
<1> QED
  BY <1>1, <1>2, <1>3 DEF Sound, Anchored, Selecting

LEMMA InsertCharSound ==
  ASSUME NEW e, Sound(e), NEW g \in Glyphs, NEW x, x = InsertChar(e, g)
  PROVE  Sound(x) /\ Changes(e, x)
<1>1. Held(e)
  BY SoundHeld
<1>2. Alters(e, x) /\ Grows(e, x)
  BY <1>1, InsertCharAlters, InsertCharGrows
<1> QED
  BY <1>2, GrowsSound DEF Alters

LEMMA InsertTextFine ==
  ASSUME NEW e, Sound(e), NEW t \in Templates, NEW x, x = InsertText(e, t)
  PROVE  Sound(x) /\ \E n \in 1..TemplateSize : Chain(e, x, n)
<1> DEFINE N == Len(t)
<1>1. t \in Line /\ N \in 1..TemplateSize /\ N \in Nat /\ \A n \in 1..N : t[n] \in Glyphs
  <2>1. t \in Line /\ N \in 1..TemplateSize
    BY EditorAssumption
  <2> QED
    BY <2>1 DEF Line
<1>2. PICK g : x = g[N] /\ g = [n \in 0..N |-> InsStep(e, t, g, n)]
  BY <1>1, InsertTextSteps
<1>3. \A n \in 0..N : g[n] = InsStep(e, t, g, n)
  BY <1>2
<1> DEFINE S == {n \in Nat : n <= N => Sound(g[n])}
<1>4. g[0] = e
  BY <1>1, <1>3 DEF InsStep
<1>5. ASSUME NEW n \in Nat, n + 1 <= N, Sound(g[n])
      PROVE  Sound(g[n + 1]) /\ Changes(g[n], g[n + 1])
  <2>1. n + 1 \in 0..N /\ n + 1 # 0 /\ (n + 1) - 1 = n /\ t[n + 1] \in Glyphs
    BY <1>1, <1>5
  <2>2. g[n + 1] = InsertChar(g[n], t[n + 1])
    BY <1>3, <2>1 DEF InsStep
  <2> QED
    BY <1>5, <2>1, <2>2, InsertCharSound
<1>6. 0 \in S
  BY <1>4
<1>7. ASSUME NEW n \in Nat, n \in S PROVE n + 1 \in S
  <2>1. SUFFICES ASSUME n + 1 <= N PROVE Sound(g[n + 1])
    OBVIOUS
  <2>2. n <= N
    BY <1>1, <2>1
  <2> QED
    BY <1>5, <1>7, <2>1, <2>2
<1> HIDE DEF S
<1>8. \A n \in Nat : n \in S
  BY <1>6, <1>7, NatSet
<1>9. \A n \in 0..N : Sound(g[n])
  BY <1>1, <1>8 DEF S
<1>10. \A i \in 0..(N - 1) : Changes(g[i], g[i + 1])
  BY <1>1, <1>5, <1>9
<1>11. Chain(e, x, N)
  BY <1>2, <1>4, <1>10 DEF Chain
<1> QED
  BY <1>1, <1>2, <1>9, <1>11

(* Every key leaves a sound editor, and what it did to the text can be taken *)
(* back: it is one change, or one for each glyph of a template              *)
(* (handle_script_editor_key, editor_insert_text).                          *)
THEOREM KeysAreSound ==
  ASSUME NEW e, Sound(e), NEW k, NEW x \in Keyed(e, k)
  PROVE  Sound(x) /\ (Edits(e, x) \/ Inserts(e, x))
<1>1. Held(e) /\ e \in Editors /\ Edits(e, e) /\ Keeps(e, e)
  BY SoundHeld, EditsItself
<1>2. ASSUME NEW y \in Editors, e.mode # "insert", e.list = {} => y.list = {},
             y.lines = e.lines, y.row = e.row, y.col = e.col, y.undo = e.undo,
             y.vis = e.vis, y.op = e.op, y.pend = e.pend, Free(e)
      PROVE  Fine(e, y)
  <2>1. e.list = {} /\ y.vis = "" /\ y.op = ""
    BY <1>2, ElsewhereFree DEF Free
  <2> QED
    BY <1>1, <1>2, <2>1, ModeFine
<1>3. CASE e.mode = "insert"
  <2>1. x \in InsertKey(e, k)
    BY <1>3 DEF Keyed
  <2> QED
    BY <1>3, <2>1, InsertKeyFine DEF Fine
<1>4. CASE e.mode = "search"
  <2>1. x = SearchKey(e, k)
    BY <1>4 DEF Keyed
  <2> QED
    BY <1>4, <2>1, SearchKeyFine DEF Fine
<1>5. CASE e.mode \in {"help", "line"}
  <2>1. Free(e) /\ e.list = {}
    BY <1>5, ElsewhereFree
  <2>2. \/ x = e \/ x = Closed(e) \/ x = [e EXCEPT !.mode = "help", !.tmpl = FALSE]
        \/ x = [Closed(e) EXCEPT !.tmpl = e.target = "command" \/ @]
    BY <1>5 DEF Keyed
  <2>3. x \in Editors
    <3>1. e.tmpl \in BOOLEAN /\ Closed(e) \in Editors /\ Closed(e).tmpl \in BOOLEAN
      BY <1>1 DEF Closed, Editors
    <3>2. [e EXCEPT !.mode = "help", !.tmpl = FALSE] \in Editors
      BY <1>1 DEF Editors
    <3>3. [Closed(e) EXCEPT !.tmpl = e.target = "command" \/ @] \in Editors
      BY <3>1 DEF Editors
    <3> QED
      BY <1>1, <2>2, <3>1, <3>2, <3>3
  <2>4. /\ x.lines = e.lines /\ x.row = e.row /\ x.col = e.col /\ x.undo = e.undo
        /\ x.vis = e.vis /\ x.op = e.op /\ x.pend = e.pend /\ x.list = e.list
    BY <1>1, <2>2 DEF Closed, Editors
  <2> QED
    BY <1>2, <1>5, <2>1, <2>3, <2>4 DEF Fine
<1>6. CASE e.mode = "normal"
  <2>1. \/ x = [e EXCEPT !.tmpl = FALSE]
        \/ x = e
        \/ e.tmpl /\ \E t \in Templates : x = InsertText(e, t)
        \/ x = NormalKey(e, k)
    BY <1>6 DEF Keyed
  <2>2. CASE x = [e EXCEPT !.tmpl = FALSE]
    <3>1. /\ x \in Editors /\ x.lines = e.lines /\ x.row = e.row /\ x.col = e.col
          /\ x.undo = e.undo /\ Alike(e, x)
      BY <1>1, <2>2 DEF Editors, Alike
    <3>2. Held(x) /\ Keeps(e, x)
      BY <1>1, <3>1, FieldsHold DEF Held, Alike
    <3> QED
      BY <3>1, <3>2, MovesSound DEF Moves
  <2>3. ASSUME e.tmpl, NEW t \in Templates, x = InsertText(e, t)
        PROVE  Sound(x) /\ Inserts(e, x)
    BY <1>6, <2>3, InsertTextFine DEF Inserts, Picking
  <2>4. CASE x = NormalKey(e, k)
    BY <1>6, <2>4, NormalKeyFine DEF Fine
  <2> QED
    BY <1>1, <2>1, <2>2, <2>3, <2>4 DEF Fine
<1>7. e.mode \in {"insert", "help", "line", "search", "normal"}
  BY <1>1 DEF Editors
<1> QED
  BY <1>3, <1>4, <1>5, <1>6, <1>7

LEMMA SoundInText == ASSUME NEW e, Sound(e) PROVE InText(e)
<1>1. Held(e) /\ e \in Editors
  BY SoundHeld
<1>3. e.want \in Nat
  BY <1>1 DEF Editors
<1>2. \A r \in 1..Rows(e) : e.lines[r] \in Line
  BY <1>1, HeldLines DEF Held
<1> QED
  BY <1>1, <1>2, <1>3 DEF InText, Sound, Anchored, Held, OnText

(* The editor on a text that was just read. *)
LEMMA LoadedSound ==
  ASSUME NEW text \in Text, text # <<>>, NEW target \in {"command", "description"}
  PROVE  Sound(Loaded(text, target)) /\ Loaded(text, target).undo = <<>>
<1> DEFINE n == Least(Len(text), EditorLines)
           lines == Upto(text, n)
           none == <<>>
           nobody == {}
           clip == [kind |-> "none", text |-> none]
           e == Loaded(text, target)
<1>1. Len(text) \in Nat /\ Len(text) > 0 /\ EditorLines \in Nat /\ EditorLines > 0
  BY EditorAssumption DEF Text
<1>2. n \in 0..Len(text) /\ n > 0 /\ n <= EditorLines
  BY <1>1 DEF Least
<1> HIDE DEF n
<1>3. lines \in Text /\ Len(lines) = n
  BY <1>2, UptoIs DEF Text
<1>4. lines # <<>> /\ 1 \in 1..Len(lines) /\ lines[1] \in Line /\ Len(lines[1]) \in Nat
  <2>1. Len(lines) \in Nat /\ Len(lines) > 0
    BY <1>2, <1>3
  <2>2. lines[1] \in Line
    BY <1>3, <2>1 DEF Text
  <2> HIDE DEF lines
  <2> QED
    BY <1>3, <2>1, <2>2 DEF Line
<1>5. /\ none \in Seq(Snaps) /\ none \in Text /\ none \in Line /\ none \in Seq(PendKeys)
      /\ Len(none) = 0
  BY DEF Text, Line
<1>6. e = [lines |-> lines, row |-> 1, col |-> 0, want |-> 0, undo |-> none, clip |-> clip,
           mode |-> "normal", list |-> nobody, pattern |-> none, vis |-> "", ar |-> 1, ac |-> 0,
           op |-> "", anchor |-> 1, pend |-> none, tmpl |-> FALSE, dirty |-> FALSE, target |-> target]
  BY DEF Loaded, n
<1>7. nobody = {} /\ none = <<>>
  OBVIOUS
<1> HIDE DEF none, lines, nobody, e
<1>8. clip \in Clips
  BY <1>5 DEF Clips
<1> HIDE DEF clip
<1>9. nobody \in SUBSET Glyphs
  BY <1>7
<1>10. 1 \in Nat /\ 0 \in Nat
  OBVIOUS
<1>11. e \in Editors
  BY <1>3, <1>5, <1>6, <1>8, <1>9, <1>10 DEF Editors
<1>12. /\ e.lines = lines /\ e.row = 1 /\ e.col = 0 /\ e.undo = none /\ e.pend = none
       /\ e.list = nobody
  BY <1>6
<1>13. OnText(e)
  BY <1>1, <1>2, <1>3, <1>4, <1>12 DEF OnText, Rows, Cur
<1>14. Len(e.undo) <= UndoDepth /\ Len(e.pend) < PendSize
  BY <1>5, <1>12, EditorAssumption
<1>15. Held(e)
  BY <1>7, <1>11, <1>12, <1>13, <1>14 DEF Held
<1> QED
  <2>1. Free(e)
    BY <1>6 DEF Free
  <2> QED
    BY <1>7, <1>12, <1>15, <2>1, FreeSound DEF e
=============================================================================
