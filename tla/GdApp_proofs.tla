----------------------------- MODULE GdApp_proofs -----------------------------
(***************************************************************************)
(* Theorems about gd's session and main loop, for every set of lines and   *)
(* every bound.                                                            *)
(***************************************************************************)
EXTENDS GdApp, FiniteSetTheorems, SequenceTheorems, WellFoundedInduction, TLAPS

-----------------------------------------------------------------------------
(* The parts of the state                                                   *)

States == {"none", "running", "stopped", "exited"}
Nows == [at : Nat, frame : {0, 1}, mem : Nat, src : BOOLEAN]
Points == [n : Nat, line : Lines \cup {0}, on : BOOLEAN]
Gdbs == [run : States \cup {"killed", "gone"}, async : BOOLEAN, at : Nat, frame : {0, 1}, mem : Nat, src : BOOLEAN,
         bps : SUBSET Points, next : Nat, cut : BOOLEAN, prints : Nat, libs : Nat]
(* The commands and local steps; news are about none. *)
Silent == ""
Dos == {"select", "context", "invalidate", "rerun", "exec", "run", "eval", "assign", "return", "typed", "read",
        "var", "vardelete", "children", "expanded", "reexpanded", "collapsed", "insert", "delete", "toggle",
        "breaks", "complete", "scope", "candidates", "inspect", "address", "detail", "expansions", "frameShown",
        "functions", "ranges", "modules", "sources", "catalogue", "nocode", "disassemble", "around", "assembly",
        "novars", "args", "locals", "vars", "noregs", "names", "regs", "revise", "frame", "placed", "variables",
        "noframes", "frames", "registers", "listing", "changed", "draw", "interrupt", "settle", "settled",
        "detach", "exit", "closed", "set", "attach", "attached", "ready", "located"}
Records == [k : {"result", "running", "stopped", "exited", "killed", "library", "group"}, tok : Nat, do : Dos \cup {Silent}, ok : BOOLEAN,
            cut : BOOLEAN, now : Nows, bps : SUBSET Points, libs : Nat]
Arguments == Nat \cup BOOLEAN \cup {"pointer", "value", "nowhere"} \cup Lines
Ops == [kind : {"request", "local"}, do : Dos, x : Arguments, bad : Nat, lost : Nat]
Commands == [tok : Nat, do : Dos, x : Arguments]
Caches == [rev : Nat, address : SUBSET Nows, detail : SUBSET Nows]
Gs == [attached : BOOLEAN, state : States, token : Nat, rev : Nat, symbols : Nat, framesValid : BOOLEAN,
       names : BOOLEAN, changed : BOOLEAN, defer : BOOLEAN, sel : {0, 1}, source : BOOLEAN, pc : SUBSET Nows,
       args : SUBSET Nows, locals : SUBSET Nows, varsRev : Nat, frames : SUBSET Nat, regs : SUBSET Nows,
       code : BOOLEAN, breaks : SUBSET Points, info : SUBSET Nows, list : SUBSET Nat, cache : Caches,
       modules : SUBSET Nat, modulesRev : Nat, sources : SUBSET Nat, sourcesRev : Nat]
Uis == [view : {"main", "variable", "register", "return", "breaks"}, code : {"source", "assembly"},
        expanded : SUBSET [val : SUBSET Nows, rev : Nat], drawn : BOOLEAN,
        before : [state : States, pc : SUBSET Nows]]

Types ==
    /\ gdb \in Gdbs /\ g \in Gs /\ ui \in Uis
    /\ cmds \in Seq(Commands) /\ pipe \in Seq(Records) /\ buf \in Seq(Records) /\ todo \in Seq(Ops)
    /\ want \in Nat /\ late \in Nat /\ keys \in Nat
    /\ phase \in {"start", "loop", "quit", "end"}

(***************************************************************************)
(* The parts of the invariant are about a struct Gdb s, what the user sees *)
(* u and the records q that GDB has written and gd has not handled: g, ui  *)
(* and the stream of all that is read or not read yet, or what these are   *)
(* when the first records of an answer are handled.                        *)
(***************************************************************************)
Stream == buf \o pipe

(* An argument is of the kind that its command takes.                       *)
Fits(c) ==
    /\ c.do = "select" => c.x \in {0, 1}
    /\ c.do = "insert" => c.x \in Lines \cup {0}
    /\ c.do \in {"context", "located", "revise"} => c.x \in BOOLEAN
    /\ c.do = "expanded" => c.x \in Nat
    /\ c.do = "inspect" => c.x \in {"pointer", "value", "nowhere"}
Kinds(c) ==
    /\ c.do \in {"settle", "settled", "context", "revise", "ready", "closed", "draw"} => c.kind = "local"
    /\ c.do \in {"select", "insert", "delete", "toggle", "breaks"} => c.kind = "request"
Fitting(s) ==
    /\ \A i \in 1..Len(todo) : Fits(todo[i]) /\ Kinds(todo[i]) /\ (todo[i].do = "expanded" => todo[i].x <= s.rev)
    /\ \A i \in 1..Len(cmds) : Fits(cmds[i])

(* What is kept is kept under a revision that has been.                     *)
Revisions(s, u) ==
    /\ s.varsRev <= s.rev /\ s.cache.rev <= s.rev /\ \A e \in u.expanded : e.rev <= s.rev
    /\ s.modulesRev <= s.symbols /\ s.sourcesRev <= s.symbols
    /\ \A v, w \in s.args : v = w
    /\ \A v, w \in s.cache.address : v = w

-----------------------------------------------------------------------------
(* Commands and answers                                                     *)

Result(r) == r.k = "result"

(* Commands are served, and answers come, in the order of their tokens; the *)
(* list of breakpoints is never refused.                                    *)
Commanded ==
    /\ want # 0 => want = g.token /\ todo # <<>> /\ todo[1].kind = "request"
    /\ Len(cmds) <= g.token
    /\ \A i \in 1..Len(cmds) : cmds[i].tok = g.token - Len(cmds) + i
Tokens(q) ==
    \A i \in 1..Len(q) : Result(q[i]) =>
      /\ q[i].tok > 0 /\ q[i].tok <= g.token - Len(cmds) /\ ~q[i].cut /\ (q[i].do = "breaks" => q[i].ok)
      /\ \A j \in 1..Len(q) : Result(q[j]) /\ i < j => q[i].tok < q[j].tok

(* The command that is waited for is the head's, and so is its answer.      *)
Answer(r) == Result(r) /\ r.tok = g.token
Asked(q) ==
    want # 0 =>
      /\ \A i \in 1..Len(cmds) : cmds[i].tok = want => cmds[i].do = todo[1].do /\ cmds[i].x = todo[1].x
      /\ \A i \in 1..Len(q) : Answer(q[i]) => q[i].do = todo[1].do

(* Unless a request was given up, what is asked is waited for.              *)
Waited(q) ==
    late = 0 =>
      /\ \A i \in 1..Len(cmds) : want # 0 /\ cmds[i].tok = want
      /\ \A i \in 1..Len(q) : Result(q[i]) => want # 0 /\ q[i].tok = want

(* A session is left by a call of its own.                                  *)
Leaving == {"detach", "exit", "closed"}
Phases ==
    /\ \A i \in 1..Len(todo) : /\ todo[i].do = "ready" => phase = "start" /\ i = Len(todo)
                               /\ todo[i].do \in Leaving => phase \in {"quit", "end"}
    /\ \A i \in 1..Len(cmds) : cmds[i].do \in Leaving => phase \in {"quit", "end"}
    /\ gdb.run = "gone" => phase \in {"quit", "end"}

-----------------------------------------------------------------------------
(* News                                                                     *)

StateNews(r) == r.k \in {"running", "stopped", "exited", "killed"}
(* A program that has stopped or was killed does nothing any more.          *)
Halted(d) == d.run \in {"stopped", "killed"}
LibNews(r) == r.k = "library" /\ ~r.cut
NoState(q, n) == \A i \in 1..Len(q) : i > n => ~StateNews(q[i])
NoLib(q, n) == \A i \in 1..Len(q) : i > n => ~LibNews(q[i])

(* The last news of the program is what it does, a program that was started *)
(* is told of, and only the program's text cuts news.                       *)
Tidings(q) ==
    /\ gdb.run # "gone" => \A i \in 1..Len(q) : StateNews(q[i]) /\ NoState(q, i) => q[i].k = gdb.run
    /\ \A i \in 1..Len(q) : /\ Result(q[i]) /\ q[i].do \in {"exec", "run"} /\ q[i].ok => ~NoState(q, i)
                            /\ q[i].cut => gdb.prints > 0
    /\ gdb.cut => gdb.prints > 0 /\ gdb.run = "running" /\ ~gdb.async

(* What gd believes and keeps is true unless there is news to come.         *)
Alike(v) == v.at = gdb.at /\ v.mem = gdb.mem /\ v.src = gdb.src
KeptTrue(s, u) == (\A v \in Current(s, u) : Alike(v)) /\ (s.framesValid => s.frames \subseteq {gdb.at})
SymbolsTrue(s) == /\ s.modulesRev = s.symbols => s.modules \subseteq {gdb.libs}
                  /\ s.sourcesRev = s.symbols => s.sources \subseteq {gdb.libs}
Believes(s, u, q) ==
    /\ NoState(q, 0) /\ gdb.run # "gone" => s.state = Reported(gdb.run)
    /\ NoState(q, 0) => KeptTrue(s, u)
    /\ NoLib(q, 0) /\ gdb.prints = 0 => SymbolsTrue(s)

-----------------------------------------------------------------------------
(* What may be kept next                                                    *)

(* The answer to the newest command, if it needed a halted program, is      *)
(* what GDB has now, and nothing has happened since.                        *)
Asks == {"args", "locals", "frame", "frames", "names", "regs", "var", "children", "address"}
Fresh(q) ==
    /\ \A i \in 1..Len(q) : Answer(q[i]) /\ q[i].ok /\ q[i].do \in Asks =>
         Halted(gdb) /\ q[i].now = Now(gdb) /\ NoState(q, i)
    /\ \A i \in 1..Len(q) : Answer(q[i]) /\ q[i].do \in {"functions", "modules", "sources"}
                            /\ NoLib(q, i) /\ gdb.prints = 0 => q[i].libs = gdb.libs

(* Nothing has happened and nothing is asked that could change anything.    *)
Writes == {"assign", "eval", "return"}
Changers == Writes \cup {"exec", "run", "attach", "select", "detach", "exit"}
Calm(q) ==
    /\ Halted(gdb) /\ NoState(q, 0)
    /\ \A i \in 1..Len(cmds) : cmds[i].do \notin Changers
VarsFresh(s, q) == \A v \in s.args \cup s.locals : v = Now(gdb) /\ Calm(q)
InfoFresh(s, q) == \A v \in s.info : v = Now(gdb) /\ Calm(q)
ListTrue(s, q) == NoLib(q, 0) /\ gdb.prints = 0 => s.list \subseteq {gdb.libs}
NothingKept(s, u) == Current(s, u) = {} /\ ~s.framesValid

(* Before a command that changes the program nothing is current any more.   *)
Unsettled(s, u) == (\E i \in 1..Len(cmds) : cmds[i].do \in Writes) => NothingKept(s, u)

-----------------------------------------------------------------------------
(* The steps of a call                                                      *)

(* What the step at i of c expects of the steps before it.                  *)
NeedsInfo(c, i) ==
    \/ c[i].do \in {"children", "vardelete", "expanded", "reexpanded", "detail"}
    \/ c[i].do \in {"address", "read"} /\ i < Len(c) /\ c[i + 1].do = "detail"
NeedsVars(c, i) == c[i].do \in {"args", "locals", "vars"}
NeedsInvalid(c, i) == c[i].do \in Writes \cup {"typed"}
NeedsList(c, i) == c[i].kind = "local" /\ c[i].do \in {"modules", "sources"}
HeadOnly(c, i) == c[i].do = "revise" \/ (c[i].kind = "request" /\ c[i].do = "address")
Plain(c, i) == ~NeedsInfo(c, i) /\ ~NeedsVars(c, i) /\ ~NeedsInvalid(c, i) /\ ~NeedsList(c, i) /\ ~HeadOnly(c, i)

(* The step at i + 1 follows the one at i: because that is done, or because *)
(* it was refused or given up without dropping anything.                    *)
Follows(c, i) ==
    /\ NeedsInfo(c, i + 1) => (c[i].kind = "request" /\ c[i].do = "var") \/ NeedsInfo(c, i)
    /\ NeedsVars(c, i + 1) => (c[i].kind = "local" /\ c[i].do = "novars") \/ (c[i].kind = "request" /\ NeedsVars(c, i))
    /\ NeedsInvalid(c, i + 1) => \/ c[i].kind = "local" /\ c[i].do = "invalidate"
                                 \/ c[i].kind = "request" /\ c[i].do = "typed"
    /\ NeedsList(c, i + 1) => c[i].kind = "request" /\ c[i].do \in {"modules", "sources"}
    /\ ~HeadOnly(c, i + 1)
Fails(c, i, n) ==
    n # All =>
      /\ i + n <= Len(c)
      /\ n > 0 /\ i + n < Len(c) => Plain(c, i + 1 + n)
      /\ n = 0 => c[i].do \notin {"var", "modules", "sources"}
Flow(c) ==
    \A i \in 1..Len(c) : /\ i < Len(c) => Follows(c, i)
                         /\ c[i].kind = "request" => Fails(c, i, c[i].bad) /\ Fails(c, i, c[i].lost)

(* What the first step of c expects is so.                                  *)
Ready(s, u, q, c) ==
    c # <<>> =>
      /\ NeedsInfo(c, 1) => InfoFresh(s, q)
      /\ NeedsVars(c, 1) => VarsFresh(s, q)
      /\ NeedsInvalid(c, 1) => NothingKept(s, u)
      /\ NeedsList(c, 1) => ListTrue(s, q)
      /\ c[1].kind = "local" /\ c[1].do = "revise" /\ c[1].x => s.framesValid
      /\ c[1].kind = "request" /\ c[1].do = "address" => s.cache.address = {}

(* A frame that is selected is looked at, and breakpoints that are changed  *)
(* are listed.                                                              *)
Alters == {"insert", "delete", "toggle"}
NoAlters(c) == \A i \in 1..Len(c) : c[i].do \notin Alters
Paired(c) == \A i \in 1..Len(c) : c[i].do = "select" => i < Len(c) /\ c[i + 1].do = "context" /\ c[i].bad = All
Listed(c) ==
    \A i \in 1..Len(c) : c[i].do \in Alters => c[i].bad = All /\ i < Len(c) /\ c[i + 1].do = "breaks"

-----------------------------------------------------------------------------
(* The selected frame and the breakpoints, unless a request was given up    *)

Served == want # 0 /\ cmds = <<>>
AllOk(q) == \A i \in 1..Len(q) : Answer(q[i]) => q[i].ok
AllBad(q) == \A i \in 1..Len(q) : Answer(q[i]) => ~q[i].ok

FrameOwed(q) == /\ todo # <<>>
                /\ \/ todo[1].do \in {"context", "revise"}
                   \/ todo[1].do = "select" /\ Served /\ AllOk(q)
FrameTrue(s, u, q) == late = 0 /\ NoState(q, 0) => FrameOwed(q) \/ \A v \in Current(s, u) : v.frame = gdb.frame

BreaksOwed(q) == /\ todo # <<>>
                 /\ \/ todo[1].do = "breaks"
                    \/ todo[1].do \in Alters /\ Served /\ AllOk(q)
BreaksTrue(s, q) ==
    late = 0 /\ phase = "loop" =>
      /\ BreaksOwed(q) \/ s.breaks = gdb.bps
      /\ \A i \in 1..Len(q) : Answer(q[i]) /\ q[i].do = "breaks" => q[i].bps = gdb.bps

(* The temporary breakpoint that a launched session sets at the beginning:  *)
(* before it is inserted, and until it is deleted.                          *)
Inserting(i) ==
    /\ i < Len(todo) /\ todo[i].do = "insert" /\ todo[i].bad = 1
    /\ todo[i + 1].do = "delete" /\ todo[i + 1].x = 1 /\ todo[i + 1].bad = 0
    /\ \A j \in 1..Len(todo) : /\ todo[j].do \in Alters => j \in {i, i + 1}
                               /\ j <= i + 1 => todo[j].kind = "request"
                               /\ j < i => todo[j].bad \in {0, All}
Deleting ==
    /\ todo # <<>> /\ todo[1].do = "delete" /\ todo[1].x = 1 /\ todo[1].bad = 0 /\ todo[1].kind = "request"
    /\ \A j \in 1..Len(todo) : todo[j].do \in Alters => j = 1
Single == gdb.bps # {} /\ \A b \in gdb.bps : b.n = 1
Temporary(q) ==
    \/ NoAlters(todo) /\ gdb.bps = {}
    \/ \E i \in 1..Len(todo) :
         /\ Inserting(i)
         /\ \/ gdb.bps = {} /\ (i = 1 /\ Served => AllBad(q)) /\ ((i = 1 /\ Served) \/ gdb.next = 1)
            \/ Single /\ i = 1 /\ Served /\ AllOk(q)
    \/ Deleting /\ IF Served THEN gdb.bps = {} ELSE Single
Launch(s, q) ==
    late = 0 /\ phase = "start" =>
      /\ s.breaks = {} /\ Temporary(q)
      /\ \A i \in 1..Len(todo) : todo[i].do = "breaks" => NoAlters(todo)
      /\ \A i \in 1..Len(q) : Answer(q[i]) /\ q[i].do = "breaks" => q[i].bps = {}

-----------------------------------------------------------------------------
(* The invariant                                                            *)

(* What reading and handling records must keep. *)
Told(s, u, q) ==
    /\ Fitting(s) /\ Revisions(s, u) /\ Tokens(q) /\ Asked(q) /\ Waited(q) /\ Tidings(q) /\ Believes(s, u, q)
    /\ Fresh(q) /\ Unsettled(s, u) /\ Ready(s, u, q, todo) /\ FrameTrue(s, u, q) /\ BreaksTrue(s, q) /\ Launch(s, q)

(* What only the steps of a call change. *)
Stepping == Flow(todo) /\ Paired(todo) /\ (phase # "start" => Listed(todo))

Inv == Types /\ Commanded /\ Phases /\ Stepping /\ Told(g, ui, Stream)

-----------------------------------------------------------------------------
(* Sets of numbers                                                          *)

(* Induction, for a set instead of a predicate. *)
LEMMA NatSet ==
  ASSUME NEW S, 0 \in S, \A n \in Nat : n \in S => n + 1 \in S
  PROVE  Nat \subseteq S
<1> DEFINE T == Nat \ S
<1> DEFINE Less == {ss \in Nat \X Nat : ss[1] < ss[2]}
<1>1. SUFFICES ASSUME T # {} PROVE FALSE
  OBVIOUS
<1>2. IsWellFoundedOn(Less, Nat)
  BY NatLessThanWellFounded DEF OpToRel
<1>3. PICK x \in T : \A y \in T : ~(<<y, x>> \in Less)
  <2>1. T \subseteq Nat
    OBVIOUS
  <2> HIDE DEF T, Less
  <2> QED
    BY <2>1, <1>1, <1>2, WFMin
<1>4. x \in Nat /\ x \notin S /\ x # 0
  OBVIOUS
<1>5. x - 1 \in Nat /\ x - 1 < x /\ x = (x - 1) + 1
  BY <1>4
<1>6. <<x - 1, x>> \in Less
  BY <1>4, <1>5
<1>7. x - 1 \in S
  <2>1. x - 1 \notin T
    BY <1>3, <1>6
  <2> QED
    BY <2>1, <1>5
<1> QED
  <2>1. (x - 1) + 1 \in S
    BY <1>7, <1>5
  <2> QED
    BY <2>1, <1>4, <1>5

LEMMA LeastExists ==
  ASSUME NEW S \in SUBSET Nat, S # {}
  PROVE  \E i \in S : \A j \in S : i <= j
<1> DEFINE Less == {ss \in Nat \X Nat : ss[1] < ss[2]}
<1>1. IsWellFoundedOn(Less, Nat)
  BY NatLessThanWellFounded DEF OpToRel
<1>2. PICK x \in S : \A y \in S : ~(<<y, x>> \in Less)
  <2> HIDE DEF Less
  <2> QED
    BY <1>1, WFMin
<1>3. ASSUME NEW y \in S PROVE x <= y
  <2>1. x \in Nat /\ y \in Nat
    OBVIOUS
  <2>2. ~(<<y, x>> \in Less)
    BY <1>2
  <2>3. ~(y < x)
    BY <2>1, <2>2
  <2> QED
    BY <2>1, <2>3
<1> QED
  BY <1>3

LEMMA GreatestExists ==
  ASSUME NEW n \in Nat, NEW S \in SUBSET (0..n), S # {}
  PROVE  \E i \in S : \A j \in S : j <= i
<1> DEFINE T == {m \in Nat : \A j \in S : j <= m}
<1>1. n \in T
  OBVIOUS
<1>2. PICK m \in T : \A k \in T : m <= k
  <2>1. T \in SUBSET Nat /\ T # {}
    BY <1>1
  <2> HIDE DEF T
  <2> QED
    BY <2>1, LeastExists
<1>3. m \in S
  <2>1. SUFFICES ASSUME m \notin S PROVE FALSE
    OBVIOUS
  <2>2. PICK j \in S : TRUE
    OBVIOUS
  <2>3. m > 0 /\ m - 1 \in Nat
    BY <2>1, <2>2
  <2>4. \A k \in S : k <= m - 1
    BY <2>1
  <2>5. m - 1 \in T
    BY <2>3, <2>4
  <2> QED
    BY <2>5, <1>2
<1> QED
  BY <1>2, <1>3

LEMMA MinIn ==
  ASSUME NEW S \in SUBSET Nat, S # {}
  PROVE  Min(S) \in S /\ \A j \in S : Min(S) <= j
BY LeastExists DEF Min

LEMMA MaxIn ==
  ASSUME NEW n \in Nat, NEW S \in SUBSET (0..n), S # {}
  PROVE  Max(S) \in S /\ \A j \in S : j <= Max(S)
<1>1. \E i \in S : \A j \in S : i >= j
  <2>1. PICK i \in S : \A j \in S : j <= i
    BY GreatestExists
  <2>2. \A j \in S : i >= j
    BY <2>1
  <2> QED
    BY <2>2
<1>2. Max(S) \in S /\ \A j \in S : Max(S) >= j
  BY <1>1 DEF Max
<1> QED
  BY <1>2

LEMMA MaxOf ==
  ASSUME NEW k \in Nat, NEW s \in SUBSET (1..k), s # {}
  PROVE  Max(s) \in s /\ Max(s) \in 1..k /\ \A j \in s : j <= Max(s)
<1>1. s \in SUBSET (0..k)
  OBVIOUS
<1> QED
  BY <1>1, MaxIn

-----------------------------------------------------------------------------
(* Handling records                                                         *)

(* What a record leaves alone. *)
Same(s, t) ==
    /\ t.token = s.token /\ t.args = s.args /\ t.locals = s.locals /\ t.varsRev = s.varsRev /\ t.frames = s.frames
    /\ t.info = s.info /\ t.list = s.list /\ t.cache = s.cache /\ t.breaks = s.breaks /\ t.modules = s.modules
    /\ t.modulesRev = s.modulesRev /\ t.sources = s.sources /\ t.sourcesRev = s.sourcesRev

(* t is what the first n records of q make of s. *)
Handled(s, t, q, n) ==
    /\ t \in Gs /\ Same(s, t) /\ t.rev >= s.rev /\ t.symbols >= s.symbols
    /\ (\A i \in 1..n : ~StateNews(q[i])) => t.rev = s.rev /\ t.state = s.state /\ t.framesValid = s.framesValid
    /\ \A i \in 1..n : StateNews(q[i]) =>
         /\ t.rev > s.rev /\ ~t.framesValid
         /\ (\A j \in 1..n : j > i => ~StateNews(q[j])) => t.state = Reported(q[i].k)
    /\ \A i \in 1..n : LibNews(q[i]) => t.symbols > s.symbols

(* What news does not change either, if they are neither of the program nor *)
(* of its symbols.                                                          *)
Still(s, t) == t.rev = s.rev /\ t.symbols = s.symbols /\ t.state = s.state /\ t.framesValid = s.framesValid

LEMMA PutNames ==
  ASSUME NEW s \in Gs, NEW b \in BOOLEAN, NEW t, t = [s EXCEPT !.names = b]
  PROVE  t \in Gs /\ Same(s, t) /\ Still(s, t)
BY DEF Gs, Same, Still

LEMMA Invalidated ==
  ASSUME NEW s \in Gs, NEW t, t = InvalidateValues(s)
  PROVE  /\ t \in Gs /\ Same(s, t) /\ t.rev = s.rev + 1 /\ t.symbols = s.symbols /\ t.state = s.state
         /\ ~t.framesValid
<1>1. PICK no \in BOOLEAN : no = FALSE
  OBVIOUS
<1>2. PICK r \in Nat : r = s.rev + 1
  BY DEF Gs
<1>3. t = [s EXCEPT !.rev = r, !.framesValid = no]
  BY <1>1, <1>2 DEF InvalidateValues
<1>4. t \in Gs
  <2>1. PICK u \in Gs : u = [s EXCEPT !.rev = r]
    BY DEF Gs
  <2>2. t = [u EXCEPT !.framesValid = no]
    BY <1>3, <2>1
  <2> QED
    BY <2>2 DEF Gs
<1>5. Same(s, t)
  BY <1>3 DEF Gs, Same
<1>6. t.rev = r /\ t.symbols = s.symbols /\ t.state = s.state
  BY <1>3 DEF Gs
<1>7. t.framesValid = no
  BY <1>3 DEF Gs
<1> QED
  BY <1>1, <1>2, <1>4, <1>5, <1>6, <1>7

LEMMA SymbolsInvalidated ==
  ASSUME NEW s \in Gs, NEW t, t = InvalidateSymbols(s)
  PROVE  /\ t \in Gs /\ Same(s, t) /\ t.rev = s.rev /\ t.symbols = s.symbols + 1 /\ t.state = s.state
         /\ t.framesValid = s.framesValid
<1>1. t = [s EXCEPT !.symbols = s.symbols + 1]
  BY DEF InvalidateSymbols
<1> QED
  BY <1>1 DEF Gs, Same

LEMMA HandleOne ==
  ASSUME NEW s \in Gs, NEW r \in Records, NEW t, t = HandleAsync(s, r)
  PROVE  /\ t \in Gs /\ Same(s, t) /\ t.rev >= s.rev /\ t.symbols >= s.symbols
         /\ ~StateNews(r) => t.rev = s.rev /\ t.state = s.state /\ t.framesValid = s.framesValid
         /\ StateNews(r) => t.rev > s.rev /\ ~t.framesValid /\ t.state = Reported(r.k)
         /\ LibNews(r) => t.symbols > s.symbols
<1> DEFINE src == r.k = "stopped" /\ HasSource(r.now)
           m == InvalidateValues(s)
           l == InvalidateSymbols(s)
<1>1. r.cut \in BOOLEAN /\ r.now \in Nows
  BY DEF Records
<1>2. src \in BOOLEAN
  BY <1>1 DEF HasSource, Nows
<1>3. s.rev \in Nat /\ s.symbols \in Nat
  BY DEF Gs
<1>4. /\ m \in Gs /\ Same(s, m) /\ m.rev = s.rev + 1 /\ m.symbols = s.symbols /\ m.state = s.state
      /\ ~m.framesValid
  BY Invalidated
<1>5. /\ l \in Gs /\ Same(s, l) /\ l.rev = s.rev /\ l.symbols = s.symbols + 1 /\ l.state = s.state
      /\ l.framesValid = s.framesValid
  BY SymbolsInvalidated
<1> DEFINE stopped == [m EXCEPT !.state = "stopped", !.changed = TRUE, !.sel = 0, !.source = src]
<1>6. t = CASE r.k = "library" /\ ~r.cut -> l
            [] r.k = "group" /\ ~r.cut -> [l EXCEPT !.names = FALSE]
            [] r.k = "running" -> [m EXCEPT !.state = "running", !.changed = TRUE]
            [] r.k = "exited" -> [m EXCEPT !.state = "exited", !.changed = TRUE]
            [] r.k \in {"stopped", "killed"} -> stopped
            [] OTHER -> s
  BY DEF HandleAsync
<1>7. stopped \in Gs /\ Same(m, stopped) /\ stopped.rev = m.rev /\ stopped.symbols = m.symbols
      /\ stopped.state = "stopped" /\ stopped.framesValid = m.framesValid
  <2> HIDE DEF src, m
  <2> QED
    BY <1>2, <1>4 DEF Gs, Same, States
<1> HIDE DEF src, m, l, stopped
<1>8. CASE r.k = "library" /\ ~r.cut
  <2>1. t = l
    BY <1>6, <1>8
  <2> QED
    BY <1>3, <1>5, <1>8, <2>1 DEF StateNews, LibNews
<1>9. CASE r.k = "group" /\ ~r.cut
  <2>1. t = [l EXCEPT !.names = FALSE]
    BY <1>6, <1>9
  <2>2. t \in Gs /\ Same(l, t) /\ t.rev = l.rev /\ t.symbols = l.symbols /\ t.state = l.state
        /\ t.framesValid = l.framesValid
    BY <1>5, <2>1, PutNames DEF Still
  <2>3. Same(s, t)
    BY <1>5, <2>2 DEF Same
  <2> QED
    BY <1>3, <1>5, <1>9, <2>2, <2>3 DEF StateNews, LibNews
<1>10. CASE r.k \in {"running", "exited"}
  <2>0. PICK yes \in BOOLEAN : yes = TRUE
    OBVIOUS
  <2>1. t = [m EXCEPT !.state = r.k, !.changed = yes]
    BY <1>6, <1>10, <2>0
  <2>2. t \in Gs /\ Same(m, t) /\ t.rev = m.rev /\ t.symbols = m.symbols /\ t.state = r.k
        /\ t.framesValid = m.framesValid
    <3>1. PICK st \in States : st = r.k
      BY <1>10 DEF States
    <3>2. t = [m EXCEPT !.state = st, !.changed = yes]
      BY <2>1, <3>1
    <3>3. t \in Gs
      <4>1. PICK u \in Gs : u = [m EXCEPT !.state = st]
        BY <1>4 DEF Gs
      <4>2. t = [u EXCEPT !.changed = yes]
        BY <3>2, <4>1
      <4> QED
        BY <4>2 DEF Gs
    <3>4. Same(m, t)
      BY <1>4, <3>2 DEF Gs, Same
    <3>5. t.rev = m.rev /\ t.symbols = m.symbols /\ t.state = st
      BY <1>4, <3>2 DEF Gs
    <3>6. t.framesValid = m.framesValid
      BY <1>4, <3>2 DEF Gs
    <3> QED
      BY <3>1, <3>3, <3>4, <3>5, <3>6
  <2>3. Same(s, t)
    BY <1>4, <2>2 DEF Same
  <2> QED
    BY <1>3, <1>4, <1>10, <2>2, <2>3 DEF StateNews, LibNews, Reported
<1>11. CASE r.k \in {"stopped", "killed"}
  <2>1. t = stopped
    BY <1>6, <1>11
  <2>2. Same(s, t)
    BY <1>4, <1>7, <2>1 DEF Same
  <2> QED
    BY <1>3, <1>4, <1>7, <1>11, <2>1, <2>2 DEF StateNews, LibNews, Reported
<1>12. CASE /\ ~(r.k = "library" /\ ~r.cut) /\ ~(r.k = "group" /\ ~r.cut)
            /\ r.k # "running" /\ r.k # "exited" /\ r.k # "stopped" /\ r.k # "killed"
  <2>1. t = s
    BY <1>6, <1>12
  <2> QED
    BY <1>3, <1>12, <2>1 DEF Same, StateNews, LibNews
<1> QED
  BY <1>8, <1>9, <1>10, <1>11, <1>12

LEMMA HandledMore ==
  ASSUME NEW s \in Gs, NEW t \in Gs, NEW q, NEW n \in Nat, q[n + 1] \in Records, Handled(s, t, q, n),
         NEW u, u = HandleAsync(t, q[n + 1])
  PROVE  Handled(s, u, q, n + 1)
<1> DEFINE r == q[n + 1]
<1>1. /\ u \in Gs /\ Same(t, u) /\ u.rev >= t.rev /\ u.symbols >= t.symbols
      /\ ~StateNews(r) => u.rev = t.rev /\ u.state = t.state /\ u.framesValid = t.framesValid
      /\ StateNews(r) => u.rev > t.rev /\ ~u.framesValid /\ u.state = Reported(r.k)
      /\ LibNews(r) => u.symbols > t.symbols
  BY HandleOne
<1>2. /\ s.rev \in Nat /\ t.rev \in Nat /\ u.rev \in Nat
      /\ s.symbols \in Nat /\ t.symbols \in Nat /\ u.symbols \in Nat
  BY <1>1 DEF Gs
<1>3. Same(s, u)
  BY <1>1 DEF Handled, Same
<1>4. u.rev >= s.rev /\ u.symbols >= s.symbols
  BY <1>1, <1>2 DEF Handled
<1>5. \A i \in 1..(n + 1) : i \in 1..n \/ i = n + 1
  OBVIOUS
<1>6. (\A i \in 1..(n + 1) : ~StateNews(q[i])) => u.rev = s.rev /\ u.state = s.state /\ u.framesValid = s.framesValid
  BY <1>1 DEF Handled
<1>7. ASSUME NEW i \in 1..(n + 1), StateNews(q[i])
      PROVE  /\ u.rev > s.rev /\ ~u.framesValid
             /\ (\A j \in 1..(n + 1) : j > i => ~StateNews(q[j])) => u.state = Reported(q[i].k)
  <2>1. CASE i = n + 1
    <3>1. t.rev >= s.rev
      BY DEF Handled
    <3> QED
      BY <1>1, <1>2, <1>7, <2>1, <3>1
  <2>2. CASE i \in 1..n
    <3>1. /\ t.rev > s.rev /\ ~t.framesValid
          /\ (\A j \in 1..n : j > i => ~StateNews(q[j])) => t.state = Reported(q[i].k)
      BY <1>7, <2>2 DEF Handled
    <3>2. CASE StateNews(r)
      <4>1. n + 1 \in 1..(n + 1) /\ n + 1 > i
        BY <2>2
      <4> QED
        BY <1>1, <1>2, <3>1, <3>2, <4>1
    <3>3. CASE ~StateNews(r)
      <4>1. \A j \in 1..n : j \in 1..(n + 1)
        OBVIOUS
      <4> QED
        BY <1>1, <1>2, <3>1, <3>3, <4>1
    <3> QED
      BY <3>2, <3>3
  <2> QED
    BY <1>5, <2>1, <2>2
<1>8. ASSUME NEW i \in 1..(n + 1), LibNews(q[i]) PROVE u.symbols > s.symbols
  <2>1. CASE i = n + 1
    <3>1. t.symbols >= s.symbols
      BY DEF Handled
    <3> QED
      BY <1>1, <1>2, <1>8, <2>1, <3>1
  <2>2. CASE i \in 1..n
    <3>1. t.symbols > s.symbols
      BY <1>8, <2>2 DEF Handled
    <3> QED
      BY <1>1, <1>2, <3>1
  <2> QED
    BY <1>5, <2>1, <2>2
<1> QED
  BY <1>1, <1>3, <1>4, <1>6, <1>7, <1>8 DEF Handled

(* HandleAll as FoldLeft makes it, where the records are among the first k. *)
Heed(q, s, h, ns) == IF ns = {} THEN s ELSE HandleAsync(h[ns \ {Max(ns)}], q[Max(ns)])
Heard(q, s, k) == CHOOSE h : h = [ns \in SUBSET (1..k) |-> Heed(q, s, h, ns)]

LEMMA HeardExists ==
  ASSUME NEW q, NEW s, NEW k \in Nat
  PROVE  \E h : h = [ns \in SUBSET (1..k) |-> Heed(q, s, h, ns)]
<1> DEFINE Can == {n \in Nat : \E h : h = [ns \in SUBSET (1..n) |-> Heed(q, s, h, ns)]}
<1>1. 0 \in Can
  <2> DEFINE h == [ns \in SUBSET (1..0) |-> s]
  <2>1. \A ns \in SUBSET (1..0) : ns = {}
    OBVIOUS
  <2>2. h = [ns \in SUBSET (1..0) |-> Heed(q, s, h, ns)]
    BY <2>1 DEF Heed
  <2> QED
    BY <2>2
<1>2. ASSUME NEW n \in Nat, n \in Can PROVE n + 1 \in Can
  <2>1. PICK f : f = [ns \in SUBSET (1..n) |-> Heed(q, s, f, ns)]
    BY <1>2
  <2> DEFINE h == [ns \in SUBSET (1..(n + 1)) |->
                     IF n + 1 \in ns THEN HandleAsync(f[ns \ {n + 1}], q[n + 1]) ELSE f[ns]]
  <2>2. ASSUME NEW ns \in SUBSET (1..(n + 1)) PROVE h[ns] = Heed(q, s, h, ns)
    <3>1. CASE n + 1 \in ns
      <4>1. Max(ns) \in ns /\ Max(ns) \in 1..(n + 1) /\ \A j \in ns : j <= Max(ns)
        BY <3>1, MaxOf
      <4>2. Max(ns) = n + 1
        BY <3>1, <4>1
      <4>3. ns \ {n + 1} \in SUBSET (1..(n + 1)) /\ n + 1 \notin ns \ {n + 1}
        OBVIOUS
      <4>4. h[ns \ {n + 1}] = f[ns \ {n + 1}]
        BY <4>3
      <4> QED
        BY <3>1, <4>2, <4>4 DEF Heed
    <3>2. CASE n + 1 \notin ns
      <4>1. ns \in SUBSET (1..n)
        BY <3>2
      <4>2. h[ns] = Heed(q, s, f, ns)
        BY <2>1, <3>2, <4>1
      <4>3. CASE ns = {}
        BY <4>2, <4>3 DEF Heed
      <4>4. CASE ns # {}
        <5>1. Max(ns) \in ns /\ n + 1 \notin ns \ {Max(ns)}
          BY <3>2, <4>1, <4>4, MaxOf
        <5>2. ns \ {Max(ns)} \in SUBSET (1..(n + 1))
          OBVIOUS
        <5>3. h[ns \ {Max(ns)}] = f[ns \ {Max(ns)}]
          BY <5>1, <5>2
        <5> QED
          BY <4>2, <4>4, <5>3 DEF Heed
      <4> QED
        BY <4>3, <4>4
    <3> QED
      BY <3>1, <3>2
  <2>3. h = [ns \in SUBSET (1..(n + 1)) |-> Heed(q, s, h, ns)]
    <3>1. h = [ns \in SUBSET (1..(n + 1)) |-> h[ns]]
      OBVIOUS
    <3> HIDE DEF h
    <3> QED
      BY <2>2, <3>1
  <2>4. \E e : e = [ns \in SUBSET (1..(n + 1)) |-> Heed(q, s, e, ns)]
    <3> HIDE DEF h
    <3> QED
      BY <2>3
  <2> QED
    BY <2>4
<1>3. Nat \subseteq Can
  <2> HIDE DEF Can
  <2> QED
    BY <1>1, <1>2, NatSet
<1> QED
  BY <1>3

LEMMA HandleAllHandles ==
  ASSUME NEW s \in Gs, NEW q \in Seq(Records)
  PROVE  Handled(s, HandleAll(s, q), q, Len(q))
<1> DEFINE k == Len(q)
           h == Heard(q, s, k)
<1>1. k \in Nat /\ DOMAIN q = 1..k
  OBVIOUS
<1>2. h = [ns \in SUBSET (1..k) |-> Heed(q, s, h, ns)]
  BY <1>1, HeardExists DEF Heard
<1>3. HandleAll(s, q) = h[1..k]
  BY <1>1 DEF HandleAll, Heard, Heed, FoldLeft, MapThenFoldSet
<1> HIDE DEF h
<1> DEFINE Good == {n \in Nat : n <= k => h[1..n] \in Gs /\ Handled(s, h[1..n], q, n)}
<1>4. 0 \in Good
  <2>1. {} \in SUBSET (1..k) /\ 1..0 = {} /\ Heed(q, s, h, {}) = s
    BY DEF Heed
  <2>2. h[1..0] = s
    BY <1>2, <2>1
  <2>3. Handled(s, s, q, 0)
    <3>1. s.rev \in Nat /\ s.symbols \in Nat
      BY DEF Gs
    <3>2. \A i \in 1..0 : FALSE
      OBVIOUS
    <3> QED
      BY <3>1, <3>2 DEF Handled, Same
  <2> QED
    BY <2>2, <2>3
<1>5. ASSUME NEW n \in Nat, n \in Good PROVE n + 1 \in Good
  <2> SUFFICES ASSUME n + 1 <= k PROVE h[1..(n + 1)] \in Gs /\ Handled(s, h[1..(n + 1)], q, n + 1)
    OBVIOUS
  <2>1. h[1..n] \in Gs /\ Handled(s, h[1..n], q, n)
    <3>1. n <= k
      BY <1>1
    <3> QED
      BY <1>5, <3>1
  <2> DEFINE ns == 1..(n + 1)
  <2>2. ns \in SUBSET (1..k) /\ ns # {} /\ ns \in SUBSET (1..(n + 1)) /\ n + 1 \in ns
    <3>1. \A i \in ns : i \in 1..k
      BY <1>1
    <3>2. n + 1 \in ns
      OBVIOUS
    <3> QED
      BY <3>1, <3>2
  <2>3. Max(ns) = n + 1
    <3>1. Max(ns) \in ns /\ \A j \in ns : j <= Max(ns)
      <4> HIDE DEF ns
      <4> QED
        BY <2>2, MaxOf
    <3> QED
      BY <2>2, <3>1
  <2>4. ns \ {n + 1} = 1..n
    OBVIOUS
  <2>5. h[ns] = HandleAsync(h[1..n], q[n + 1])
    <3> HIDE DEF ns
    <3>1. h[ns] = Heed(q, s, h, ns)
      BY <1>2, <2>2
    <3> QED
      BY <3>1, <2>2, <2>3, <2>4 DEF Heed
  <2>6. q[n + 1] \in Records
    BY <1>1
  <2>7. Handled(s, h[ns], q, n + 1)
    BY <2>1, <2>5, <2>6, HandledMore
  <2> QED
    BY <2>7 DEF Handled
<1>6. k \in Good
  <2>1. Nat \subseteq Good
    <3> HIDE DEF Good
    <3> QED
      BY <1>4, <1>5, NatSet
  <2> QED
    BY <1>1, <2>1
<1> QED
  BY <1>1, <1>3, <1>6

-----------------------------------------------------------------------------
(* Reading                                                                  *)

LEMMA AtMost == \A a, b, c \in Nat : a <= b /\ b <= c => a <= c
OBVIOUS

LEMMA More == \A a, b, c \in Nat : a <= b /\ c > b => a # c
OBVIOUS

(* r is q without its first n records. *)
Drops(q, r, n) == Len(r) = Len(q) - n /\ \A i \in 1..Len(r) : r[i] = q[i + n]

LEMMA DropsNews ==
  ASSUME NEW q \in Seq(Records), NEW r \in Seq(Records), NEW n \in 0..Len(q), Drops(q, r, n)
  PROVE  /\ \A i \in 0..Len(r) : (NoState(r, i) <=> NoState(q, i + n)) /\ (NoLib(r, i) <=> NoLib(q, i + n))
         /\ NoState(r, 0) /\ ~NoState(q, 0) => \E j \in 1..n : StateNews(q[j]) /\ NoState(q, j)
         /\ NoState(r, 0) /\ (\A j \in 1..n : ~StateNews(q[j])) => NoState(q, 0)
         /\ NoLib(r, 0) /\ (\A j \in 1..n : ~LibNews(q[j])) => NoLib(q, 0)
<1>1. Len(q) \in Nat /\ Len(r) \in Nat /\ n \in Nat /\ Len(r) = Len(q) - n
  BY DEF Drops
<1>2. \A i \in 1..Len(r) : i + n \in 1..Len(q) /\ r[i] = q[i + n]
  BY <1>1 DEF Drops
<1>3. ASSUME NEW j \in 1..Len(q), j > n PROVE j - n \in 1..Len(r) /\ r[j - n] = q[j]
  <2>1. j - n \in 1..Len(r) /\ (j - n) + n = j
    BY <1>1, <1>3
  <2> QED
    BY <1>2, <2>1
<1>4. ASSUME NEW i \in 0..Len(r) PROVE (NoState(r, i) <=> NoState(q, i + n)) /\ (NoLib(r, i) <=> NoLib(q, i + n))
  <2>1. ASSUME NEW j \in 1..Len(r), j > i PROVE j + n > i + n
    BY <1>1, <2>1
  <2>2. ASSUME NEW j \in 1..Len(q), j > i + n PROVE j > n /\ j - n > i
    BY <1>1, <2>2
  <2>3. NoState(r, i) => NoState(q, i + n)
    BY <1>3, <2>2 DEF NoState
  <2>4. NoState(q, i + n) => NoState(r, i)
    BY <1>2, <2>1 DEF NoState
  <2>5. NoLib(r, i) => NoLib(q, i + n)
    BY <1>3, <2>2 DEF NoLib
  <2>6. NoLib(q, i + n) => NoLib(r, i)
    BY <1>2, <2>1 DEF NoLib
  <2> QED
    BY <2>3, <2>4, <2>5, <2>6
<1>5. ASSUME NoState(r, 0), NEW i \in 1..Len(q), StateNews(q[i]) PROVE i \in 1..n
  <2>1. CASE i > n
    <3>1. i - n \in 1..Len(r) /\ r[i - n] = q[i] /\ i - n > 0
      BY <1>1, <1>3, <2>1
    <3> QED
      BY <1>5, <3>1 DEF NoState
  <2> QED
    BY <1>1, <2>1
<1>6. ASSUME NoLib(r, 0), NEW i \in 1..Len(q), LibNews(q[i]) PROVE i \in 1..n
  <2>1. CASE i > n
    <3>1. i - n \in 1..Len(r) /\ r[i - n] = q[i] /\ i - n > 0
      BY <1>1, <1>3, <2>1
    <3> QED
      BY <1>6, <3>1 DEF NoLib
  <2> QED
    BY <1>1, <2>1
<1>7. ASSUME NoState(r, 0), ~NoState(q, 0) PROVE \E j \in 1..n : StateNews(q[j]) /\ NoState(q, j)
  <2> DEFINE S == {i \in 1..n : StateNews(q[i])}
  <2>1. PICK i \in 1..Len(q) : StateNews(q[i])
    BY <1>7 DEF NoState
  <2>2. S # {}
    BY <1>5, <1>7, <2>1
  <2>3. S \in SUBSET (0..n)
    BY <1>1
  <2>4. PICK j \in S : \A k \in S : k <= j
    <3> HIDE DEF S
    <3> QED
      BY <1>1, <2>2, <2>3, GreatestExists
  <2>5. j \in 1..n /\ StateNews(q[j])
    BY <2>4
  <2>6. \A k \in 1..Len(q) : k > j => ~StateNews(q[k])
    <3> SUFFICES ASSUME NEW k \in 1..Len(q), k > j, StateNews(q[k]) PROVE FALSE
      OBVIOUS
    <3>1. k \in S
      BY <1>5, <1>7
    <3>2. k <= j
      BY <2>4, <3>1
    <3> QED
      BY <1>1, <2>5, <3>2
  <2> QED
    BY <2>5, <2>6 DEF NoState
<1>8. ASSUME NoState(r, 0), \A j \in 1..n : ~StateNews(q[j]) PROVE NoState(q, 0)
  BY <1>5, <1>8 DEF NoState
<1>9. ASSUME NoLib(r, 0), \A j \in 1..n : ~LibNews(q[j]) PROVE NoLib(q, 0)
  BY <1>6, <1>9 DEF NoLib
<1> QED
  BY <1>4, <1>7, <1>8, <1>9

(* What is current, part by part. *)
Kept(v, s, u) ==
    \/ s.varsRev = s.rev /\ (v \in s.args \/ v \in s.locals)
    \/ \E e \in u.expanded : e.rev = s.rev /\ v \in e.val
    \/ s.cache.rev = s.rev /\ (v \in s.cache.address \/ v \in s.cache.detail)

LEMMA CurrentIs ==
  ASSUME NEW s, NEW u, NEW v
  PROVE  v \in Current(s, u) <=> Kept(v, s, u)
<1>1. v \in CurrentMembers(s, u) <=> \E e \in u.expanded : e.rev = s.rev /\ v \in e.val
  BY DEF CurrentMembers
<1>2. v \in CurrentVariables(s) <=> s.varsRev = s.rev /\ (v \in s.args \/ v \in s.locals)
  BY DEF CurrentVariables
<1>3. v \in CurrentAnswers(s) <=> s.cache.rev = s.rev /\ (v \in s.cache.address \/ v \in s.cache.detail)
  BY DEF CurrentAnswers
<1>4. v \in Current(s, u) <=> v \in CurrentVariables(s) \/ v \in CurrentMembers(s, u) \/ v \in CurrentAnswers(s)
  BY DEF Current
<1> QED
  BY <1>1, <1>2, <1>3, <1>4 DEF Kept

(* What is current is current as long as no news of the program is heard, *)
(* and nothing is when it is.                                              *)
LEMMA CurrentKept ==
  ASSUME NEW s \in Gs, NEW t \in Gs, NEW u \in Uis, Revisions(s, u), Same(s, t), t.rev >= s.rev
  PROVE  /\ t.rev = s.rev => Current(t, u) = Current(s, u)
         /\ t.rev > s.rev => Current(t, u) = {}
<1>1. /\ s.rev \in Nat /\ t.rev \in Nat /\ s.varsRev \in Nat /\ s.cache.rev \in Nat
      /\ \A e \in u.expanded : e.rev \in Nat /\ e.rev <= s.rev
  BY DEF Gs, Caches, Uis, Revisions
<1>2. t.varsRev = s.varsRev /\ t.cache = s.cache /\ t.args = s.args /\ t.locals = s.locals
  BY DEF Same
<1>3. CASE t.rev = s.rev
  <2>1. \A v : Kept(v, t, u) <=> Kept(v, s, u)
    BY <1>2, <1>3 DEF Kept
  <2>2. \A v : v \in Current(t, u) <=> v \in Current(s, u)
    BY <2>1, CurrentIs
  <2>3. Current(t, u) = Current(s, u)
    BY <2>2
  <2> QED
    BY <1>1, <1>3, <2>3
<1>4. CASE t.rev > s.rev
  <2>1. t.varsRev # t.rev /\ t.cache.rev # t.rev
    BY <1>1, <1>2, <1>4 DEF Revisions
  <2>2. \A e \in u.expanded : e.rev # t.rev
    BY <1>1, <1>4
  <2>3. \A v : ~Kept(v, t, u)
    BY <2>1, <2>2 DEF Kept
  <2> QED
    BY <1>1, <1>4, <2>3, CurrentIs
<1> QED
  BY <1>1, <1>3, <1>4

(* gd reads between calls, or while it waits for an answer or for news. *)
Listening == todo # <<>> => todo[1].kind = "request" \/ todo[1].do \in {"settle", "settled"}

(* Handling the first records keeps what the invariant says of the rest. *)
LEMMA HandlingKeeps ==
  ASSUME Inv, NEW s \in Gs, NEW n \in 0..Len(Stream), NEW r \in Seq(Records), Stream \in Seq(Records),
         Handled(g, s, Stream, n), Drops(Stream, r, n), Listening
  PROVE  Told(s, ui, r) /\ Commanded /\ s.token = g.token
<1> DEFINE q == Stream
<1>1. Told(g, ui, q) /\ g \in Gs /\ ui \in Uis /\ Commanded /\ Phases
  BY DEF Inv, Types
<1>2. Same(g, s) /\ s.rev >= g.rev /\ s.symbols >= g.symbols
  BY DEF Handled
<1>3. Len(q) \in Nat /\ Len(r) \in Nat /\ n \in Nat /\ Len(r) = Len(q) - n
  BY DEF Drops
<1>4. \A i \in 1..Len(r) : i + n \in 1..Len(q) /\ r[i] = q[i + n]
  BY <1>3 DEF Drops
<1>5. /\ \A i \in 0..Len(r) : (NoState(r, i) <=> NoState(q, i + n)) /\ (NoLib(r, i) <=> NoLib(q, i + n))
      /\ NoState(r, 0) /\ ~NoState(q, 0) => \E j \in 1..n : StateNews(q[j]) /\ NoState(q, j)
      /\ NoState(r, 0) /\ (\A j \in 1..n : ~StateNews(q[j])) => NoState(q, 0)
      /\ NoLib(r, 0) /\ (\A j \in 1..n : ~LibNews(q[j])) => NoLib(q, 0)
  BY DropsNews
<1>6. /\ g.rev \in Nat /\ s.rev \in Nat /\ g.symbols \in Nat /\ s.symbols \in Nat /\ g.varsRev \in Nat
      /\ g.cache.rev \in Nat /\ g.modulesRev \in Nat /\ g.sourcesRev \in Nat
  BY <1>1 DEF Gs, Caches
<1>18. \A e \in ui.expanded : e.rev \in Nat
  BY <1>1 DEF Uis
<1>19. g.rev <= s.rev /\ g.symbols <= s.symbols
  BY <1>2, <1>6
<1>7. /\ s.rev = g.rev => Current(s, ui) = Current(g, ui)
      /\ s.rev > g.rev => Current(s, ui) = {}
  BY <1>1, <1>2, CurrentKept DEF Told
<1>8. (\A j \in 1..n : ~StateNews(q[j])) => s.rev = g.rev /\ s.state = g.state /\ s.framesValid = g.framesValid
  BY DEF Handled
<1>9. ASSUME NEW j \in 1..n, StateNews(q[j]) PROVE s.rev > g.rev /\ ~s.framesValid /\ Current(s, ui) = {}
  BY <1>7, <1>9 DEF Handled
<1>10. ASSUME NEW j \in 1..n, StateNews(q[j]), NoState(q, j) PROVE s.state = Reported(q[j].k)
  <2>1. \A i \in 1..n : i \in 1..Len(q)
    BY <1>3
  <2>2. \A i \in 1..n : i > j => ~StateNews(q[i])
    BY <1>10, <2>1 DEF NoState
  <2> QED
    BY <1>10, <2>2 DEF Handled
<1>11. ASSUME NEW j \in 1..n, LibNews(q[j]) PROVE s.symbols > g.symbols
  BY <1>11 DEF Handled
<1>12. NoState(q, 0) => \A j \in 1..n : ~StateNews(q[j])
  BY <1>3 DEF NoState
<1>13. NoState(q, 0) => NoState(r, 0)
  BY <1>4, <1>3 DEF NoState
<1>14. NoLib(q, 0) => NoLib(r, 0)
  BY <1>4, <1>3 DEF NoLib
<1>15. s.token = g.token
  BY <1>2 DEF Same
<1>16. NothingKept(g, ui) => NothingKept(s, ui)
  <2>1. CASE \A j \in 1..n : ~StateNews(q[j])
    BY <1>7, <1>8, <2>1 DEF NothingKept
  <2>2. CASE \E j \in 1..n : StateNews(q[j])
    BY <1>9, <2>2 DEF NothingKept
  <2> QED
    BY <2>1, <2>2
<1>17. s.symbols > g.symbols => s.modulesRev # s.symbols /\ s.sourcesRev # s.symbols
  <2>1. g.modulesRev <= g.symbols /\ g.sourcesRev <= g.symbols
    BY <1>1 DEF Told, Revisions
  <2>2. s.symbols > g.symbols => g.modulesRev # s.symbols /\ g.sourcesRev # s.symbols
    BY <1>6, <2>1, More, Zenon
  <2>3. s.modulesRev = g.modulesRev /\ s.sourcesRev = g.sourcesRev
    BY <1>2 DEF Same
  <2> QED
    BY <2>2, <2>3
<1> HIDE DEF q
<1>20. Fitting(s)
  <2>1. Fitting(g)
    BY <1>1 DEF Told
  <2>2. \A i \in 1..Len(todo) : Fits(todo[i]) /\ (todo[i].do = "expanded" => todo[i].x \in Nat)
    BY <2>1 DEF Fitting, Fits
  <2>3. \A i \in 1..Len(todo) : todo[i].do = "expanded" => todo[i].x <= s.rev
    <3> SUFFICES ASSUME NEW i \in 1..Len(todo), todo[i].do = "expanded" PROVE todo[i].x <= s.rev
      OBVIOUS
    <3>1. PICK x \in Nat : x = todo[i].x
      BY <2>2
    <3>2. x <= g.rev
      BY <2>1, <3>1 DEF Fitting
    <3>3. x <= s.rev
      BY <1>19, <1>6, <3>2, AtMost, Zenon
    <3> QED
      BY <3>1, <3>3
  <2> QED
    BY <2>1, <2>3 DEF Fitting
<1>21. Revisions(s, ui)
  <2>1. Revisions(g, ui)
    BY <1>1 DEF Told
  <2>2. /\ s.varsRev = g.varsRev /\ s.cache = g.cache /\ s.modulesRev = g.modulesRev
        /\ s.sourcesRev = g.sourcesRev /\ s.args = g.args
    BY <1>2 DEF Same
  <2>3. s.varsRev <= s.rev /\ s.cache.rev <= s.rev
    <3>1. g.varsRev <= g.rev /\ g.cache.rev <= g.rev
      BY <2>1 DEF Revisions
    <3>2. g.varsRev <= s.rev /\ g.cache.rev <= s.rev
      BY <1>19, <1>6, <3>1, AtMost, Zenon
    <3> QED
      BY <2>2, <3>2
  <2>4. s.modulesRev <= s.symbols /\ s.sourcesRev <= s.symbols
    <3>1. g.modulesRev <= g.symbols /\ g.sourcesRev <= g.symbols
      BY <2>1 DEF Revisions
    <3>2. g.modulesRev <= s.symbols /\ g.sourcesRev <= s.symbols
      BY <1>19, <1>6, <3>1, AtMost, Zenon
    <3> QED
      BY <2>2, <3>2
  <2>5. \A e \in ui.expanded : e.rev <= s.rev
    <3>1. \A e \in ui.expanded : e.rev <= g.rev
      BY <2>1 DEF Revisions
    <3> QED
      BY <1>18, <1>19, <1>6, <3>1, AtMost, Zenon
  <2>6. (\A v, w \in s.args : v = w) /\ \A v, w \in s.cache.address : v = w
    BY <2>1, <2>2 DEF Revisions
  <2> QED
    BY <2>3, <2>4, <2>5, <2>6 DEF Revisions
<1>22. Tokens(r)
  <2>1. Tokens(q)
    BY <1>1 DEF Told
  <2>2. \A i, j \in 1..Len(r) : i < j => i + n < j + n
    BY <1>3
  <2> QED
    BY <1>4, <2>1, <2>2 DEF Tokens
<1>23. Asked(r)
  <2>1. Asked(q)
    BY <1>1 DEF Told
  <2> QED
    BY <1>4, <2>1 DEF Asked
<1>24. Waited(r)
  <2>1. Waited(q)
    BY <1>1 DEF Told
  <2> QED
    BY <1>4, <2>1 DEF Waited
<1>25. Tidings(r)
  <2>1. Tidings(q)
    BY <1>1 DEF Told
  <2>2. \A i \in 1..Len(r) : NoState(r, i) <=> NoState(q, i + n)
    BY <1>5, <1>3
  <2> QED
    BY <1>4, <2>1, <2>2 DEF Tidings
<1>26. Believes(s, ui, r)
  <2>1. Believes(g, ui, q) /\ Tidings(q) /\ Revisions(g, ui)
    BY <1>1 DEF Told
  <2>2. ASSUME NoState(r, 0), gdb.run # "gone" PROVE s.state = Reported(gdb.run)
    <3>1. CASE NoState(q, 0)
      BY <1>8, <1>12, <2>1, <2>2, <3>1 DEF Believes
    <3>2. CASE ~NoState(q, 0)
      <4>1. PICK j \in 1..n : StateNews(q[j]) /\ NoState(q, j)
        BY <1>5, <2>2, <3>2
      <4>2. j \in 1..Len(q)
        BY <1>3
      <4>3. q[j].k = gdb.run
        BY <2>1, <2>2, <4>1, <4>2 DEF Tidings
      <4> QED
        BY <1>10, <4>1, <4>3
    <3> QED
      BY <3>1, <3>2
  <2>3. ASSUME NoState(r, 0) PROVE KeptTrue(s, ui)
    <3>1. CASE NoState(q, 0)
      <4>1. KeptTrue(g, ui)
        BY <2>1, <3>1 DEF Believes
      <4>2. Current(s, ui) = Current(g, ui) /\ s.framesValid = g.framesValid /\ s.frames = g.frames
        BY <1>2, <1>7, <1>8, <1>12, <3>1 DEF Same
      <4> QED
        BY <4>1, <4>2 DEF KeptTrue
    <3>2. CASE ~NoState(q, 0)
      <4>1. PICK j \in 1..n : StateNews(q[j]) /\ NoState(q, j)
        BY <1>5, <2>3, <3>2
      <4>2. Current(s, ui) = {} /\ ~s.framesValid
        BY <1>9, <4>1
      <4> QED
        BY <4>2 DEF KeptTrue
    <3> QED
      BY <3>1, <3>2
  <2>4. ASSUME NoLib(r, 0), gdb.prints = 0 PROVE SymbolsTrue(s)
    <3>1. CASE \A j \in 1..n : ~LibNews(q[j])
      <4>1. SymbolsTrue(g)
        BY <1>5, <2>1, <2>4, <3>1 DEF Believes
      <4>2. CASE s.symbols = g.symbols
        BY <1>2, <4>1, <4>2 DEF SymbolsTrue, Same
      <4>3. CASE s.symbols > g.symbols
        <5>1. s.modulesRev # s.symbols /\ s.sourcesRev # s.symbols
          BY <1>17, <4>3
        <5> QED
          BY <5>1 DEF SymbolsTrue
      <4> QED
        BY <1>2, <1>6, <4>2, <4>3
    <3>2. CASE \E j \in 1..n : LibNews(q[j])
      <4>1. s.symbols > g.symbols
        BY <1>11, <3>2
      <4>2. s.modulesRev # s.symbols /\ s.sourcesRev # s.symbols
        BY <1>17, <4>1
      <4> QED
        BY <4>2 DEF SymbolsTrue
    <3> QED
      BY <3>1, <3>2
  <2> QED
    BY <2>2, <2>3, <2>4 DEF Believes
<1>27. Fresh(r)
  <2>1. Fresh(q)
    BY <1>1 DEF Told
  <2>2. \A i \in 1..Len(r) : (NoState(r, i) <=> NoState(q, i + n)) /\ (NoLib(r, i) <=> NoLib(q, i + n))
    BY <1>5, <1>3
  <2> QED
    BY <1>4, <2>1, <2>2 DEF Fresh
<1>28. Unsettled(s, ui)
  BY <1>1, <1>16 DEF Told, Unsettled
<1>29. Ready(s, ui, r, todo)
  <2>1. Ready(g, ui, q, todo)
    BY <1>1 DEF Told
  <2>2. Calm(q) => Calm(r)
    BY <1>13 DEF Calm
  <2>3. InfoFresh(g, q) => InfoFresh(s, r)
    BY <1>2, <2>2 DEF InfoFresh, Same
  <2>4. VarsFresh(g, q) => VarsFresh(s, r)
    BY <1>2, <2>2 DEF VarsFresh, Same
  <2>5. todo # <<>> => ~NeedsList(todo, 1) /\ ~(todo[1].kind = "local" /\ todo[1].do = "revise")
    BY DEF Listening, NeedsList
  <2>6. s.cache = g.cache
    BY <1>2 DEF Same
  <2> QED
    BY <1>16, <2>1, <2>3, <2>4, <2>5, <2>6 DEF Ready
<1>30. FrameTrue(s, ui, r)
  <2>1. FrameTrue(g, ui, q)
    BY <1>1 DEF Told
  <2>2. AllOk(q) => AllOk(r)
    BY <1>4 DEF AllOk
  <2>3. FrameOwed(q) => FrameOwed(r)
    BY <2>2 DEF FrameOwed
  <2>4. CASE \A j \in 1..n : ~StateNews(q[j])
    <3>1. NoState(r, 0) => NoState(q, 0)
      BY <1>5, <2>4
    <3>2. Current(s, ui) = Current(g, ui)
      BY <1>7, <1>8, <2>4
    <3> QED
      BY <2>1, <2>3, <3>1, <3>2 DEF FrameTrue
  <2>5. CASE \E j \in 1..n : StateNews(q[j])
    <3>1. Current(s, ui) = {}
      BY <1>9, <2>5
    <3> QED
      BY <3>1 DEF FrameTrue
  <2> QED
    BY <2>4, <2>5
<1>31. BreaksTrue(s, r)
  <2>1. BreaksTrue(g, q)
    BY <1>1 DEF Told
  <2>2. AllOk(q) => AllOk(r)
    BY <1>4 DEF AllOk
  <2>3. BreaksOwed(q) => BreaksOwed(r)
    BY <2>2 DEF BreaksOwed
  <2>4. s.breaks = g.breaks
    BY <1>2 DEF Same
  <2>5. (\A i \in 1..Len(q) : Answer(q[i]) /\ q[i].do = "breaks" => q[i].bps = gdb.bps)
        => \A i \in 1..Len(r) : Answer(r[i]) /\ r[i].do = "breaks" => r[i].bps = gdb.bps
    BY <1>4
  <2> QED
    BY <2>1, <2>3, <2>4, <2>5 DEF BreaksTrue
<1>32. Launch(s, r)
  <2>1. Launch(g, q)
    BY <1>1 DEF Told
  <2>2. (AllOk(q) => AllOk(r)) /\ (AllBad(q) => AllBad(r))
    BY <1>4 DEF AllOk, AllBad
  <2>3. Temporary(q) => Temporary(r)
    BY <2>2 DEF Temporary
  <2>4. s.breaks = g.breaks
    BY <1>2 DEF Same
  <2>5. (\A i \in 1..Len(q) : Answer(q[i]) /\ q[i].do = "breaks" => q[i].bps = {})
        => \A i \in 1..Len(r) : Answer(r[i]) /\ r[i].do = "breaks" => r[i].bps = {}
    BY <1>4
  <2> QED
    BY <2>1, <2>3, <2>4, <2>5 DEF Launch
<1> QED
  BY <1>1, <1>15, <1>20, <1>21, <1>22, <1>23, <1>24, <1>25, <1>26, <1>27, <1>28, <1>29, <1>30, <1>31, <1>32 DEF Told
(* One after the other. *)
Joins(a, b, q) == q = a \o b
JoinedAs(a, b, q) ==
    /\ Len(q) = Len(a) + Len(b)
    /\ \A i \in 1..Len(a) : q[i] = a[i]
    /\ \A i \in 1..Len(b) : q[Len(a) + i] = b[i]

LEMMA Joined ==
  ASSUME NEW S, NEW a \in Seq(S), NEW b \in Seq(S), NEW q, Joins(a, b, q)
  PROVE  q \in Seq(S) /\ JoinedAs(a, b, q)
<1>1. Len(a) \in Nat /\ Len(b) \in Nat
  OBVIOUS
<1>2. /\ q \in Seq(S) /\ Len(q) = Len(a) + Len(b)
      /\ \A i \in 1..(Len(a) + Len(b)) : q[i] = IF i <= Len(a) THEN a[i] ELSE b[i - Len(a)]
  <2>1. q = a \o b
    BY DEF Joins
  <2> QED
    BY <2>1, ConcatProperties
<1>3. \A m, n \in Nat : \A i \in 1..m : i \in 1..(m + n) /\ i <= m
  OBVIOUS
<1>4. \A m, n \in Nat : \A i \in 1..n : m + i \in 1..(m + n) /\ ~(m + i <= m) /\ (m + i) - m = i
  OBVIOUS
<1>5. \A i \in 1..Len(a) : q[i] = a[i]
  BY <1>1, <1>2, <1>3, Zenon
<1>6. \A i \in 1..Len(b) : q[Len(a) + i] = b[i]
  <2> SUFFICES ASSUME NEW i \in 1..Len(b) PROVE q[Len(a) + i] = b[i]
    OBVIOUS
  <2>1. Len(a) + i \in 1..(Len(a) + Len(b)) /\ ~(Len(a) + i <= Len(a)) /\ (Len(a) + i) - Len(a) = i
    BY <1>1, <1>4, Zenon
  <2>2. q[Len(a) + i] = IF Len(a) + i <= Len(a) THEN a[Len(a) + i] ELSE b[(Len(a) + i) - Len(a)]
    BY <1>2, <2>1, Zenon
  <2> QED
    BY <2>1, <2>2, Zenon
<1> QED
  BY <1>2, <1>5, <1>6 DEF JoinedAs

(* The first n of p, and the others. *)
Splits(p, n, first, rest) == first = SubSeq(p, 1, n) /\ rest = SubSeq(p, n + 1, Len(p))

LEMMA Split ==
  ASSUME NEW S, NEW p \in Seq(S), NEW n \in 0..Len(p), NEW first, NEW rest, Splits(p, n, first, rest)
  PROVE  first \in Seq(S) /\ rest \in Seq(S) /\ Len(first) = n /\ JoinedAs(first, rest, p)
<1>1. Len(p) \in Nat /\ n \in Nat /\ n <= Len(p)
  OBVIOUS
<1>2. \A i \in 1..Len(p) : p[i] \in S
  OBVIOUS
<1>3. first \in Seq(S) /\ Len(first) = n /\ \A i \in 1..n : first[i] = p[i]
  <2>1. \A i \in 1..n : p[i] \in S
    BY <1>1, <1>2
  <2> QED
    BY <1>1, <2>1, SubSeqProperties DEF Splits
<1>4. rest \in Seq(S) /\ Len(rest) = Len(p) - n /\ \A i \in 1..Len(rest) : rest[i] = p[n + i]
  <2>1. \A i \in (n + 1)..Len(p) : p[i] \in S
    BY <1>1, <1>2
  <2>2. rest \in Seq(S)
    BY <1>1, <2>1, SubSeqProperties DEF Splits
  <2>3. Len(rest) = Len(p) - n
    BY <1>1, <2>1, SubSeqProperties DEF Splits
  <2>4. \A i \in 1..Len(rest) : rest[i] = p[n + i]
    BY <1>1, <2>3 DEF Splits
  <2> QED
    BY <2>2, <2>3, <2>4
<1>5. Len(p) = Len(first) + Len(rest)
  BY <1>1, <1>3, <1>4
<1> QED
  BY <1>3, <1>4, <1>5 DEF JoinedAs

LEMMA JoinedDrops ==
  ASSUME NEW S, NEW a \in Seq(S), NEW b \in Seq(S), NEW q \in Seq(S), JoinedAs(a, b, q)
  PROVE  Len(a) \in 0..Len(q) /\ Drops(q, b, Len(a))
<1>1. Len(a) \in Nat /\ Len(b) \in Nat /\ Len(q) \in Nat /\ Len(q) = Len(a) + Len(b)
  BY DEF JoinedAs
<1>2. Len(a) \in 0..Len(q) /\ Len(b) = Len(q) - Len(a)
  BY <1>1
<1>3. \A m, i \in Nat : m + i = i + m
  OBVIOUS
<1>4. \A i \in 1..Len(b) : b[i] = q[i + Len(a)]
  <2> SUFFICES ASSUME NEW i \in 1..Len(b) PROVE b[i] = q[i + Len(a)]
    OBVIOUS
  <2>1. i \in Nat
    OBVIOUS
  <2>2. Len(a) + i = i + Len(a)
    BY <1>1, <1>3, <2>1, Zenon
  <2>3. q[Len(a) + i] = b[i]
    BY DEF JoinedAs
  <2> QED
    BY <2>2, <2>3
<1> QED
  BY <1>2, <1>4 DEF Drops

(* Of a sequence of three parts. *)
LEMMA ThreeParts ==
  ASSUME NEW S, NEW a \in Seq(S), NEW b \in Seq(S), NEW c \in Seq(S), NEW ab \in Seq(S), NEW bc \in Seq(S),
         NEW q \in Seq(S), JoinedAs(a, b, ab), JoinedAs(b, c, bc)
  PROVE  JoinedAs(ab, c, q) <=> JoinedAs(a, bc, q)
<1> DEFINE la == Len(a)  lb == Len(b)  lc == Len(c)
<1>1. la \in Nat /\ lb \in Nat /\ lc \in Nat
  OBVIOUS
<1>2. Len(ab) = la + lb /\ Len(bc) = lb + lc
  BY DEF JoinedAs
<1>3. /\ \A i \in 1..la : ab[i] = a[i]
      /\ \A i \in 1..lb : ab[la + i] = b[i]
      /\ \A i \in 1..lb : bc[i] = b[i]
      /\ \A i \in 1..lc : bc[lb + i] = c[i]
  BY DEF JoinedAs
<1> DEFINE Whole == /\ Len(q) = la + lb + lc
                    /\ \A i \in 1..la : q[i] = a[i]
                    /\ \A i \in 1..lb : q[la + i] = b[i]
                    /\ \A i \in 1..lc : q[la + lb + i] = c[i]
<1>4. JoinedAs(ab, c, q) <=> Whole
  <2>1. JoinedAs(ab, c, q) <=> /\ Len(q) = la + lb + lc
                               /\ \A i \in 1..(la + lb) : q[i] = ab[i]
                               /\ \A i \in 1..lc : q[la + lb + i] = c[i]
    BY <1>2 DEF JoinedAs
  <2> HIDE DEF la, lb, lc
  <2>2. \A i \in 1..la : i \in 1..(la + lb)
    BY <1>1
  <2>3. \A i \in 1..lb : la + i \in 1..(la + lb)
    BY <1>1
  <2>4. \A i \in 1..(la + lb) : i \in 1..la \/ \E j \in 1..lb : i = la + j
    <3> SUFFICES ASSUME NEW i \in 1..(la + lb), i \notin 1..la PROVE \E j \in 1..lb : i = la + j
      OBVIOUS
    <3>1. i - la \in 1..lb /\ i = la + (i - la)
      BY <1>1
    <3> QED
      BY <3>1
  <2>5. (\A i \in 1..(la + lb) : q[i] = ab[i]) <=> (\A i \in 1..la : q[i] = a[i]) /\ (\A i \in 1..lb : q[la + i] = b[i])
    <3>1. ASSUME \A i \in 1..(la + lb) : q[i] = ab[i] PROVE \A i \in 1..la : q[i] = a[i]
      BY <1>3, <2>2, <3>1, Zenon
    <3>2. ASSUME \A i \in 1..(la + lb) : q[i] = ab[i] PROVE \A i \in 1..lb : q[la + i] = b[i]
      <4> SUFFICES ASSUME NEW i \in 1..lb PROVE q[la + i] = b[i]
        OBVIOUS
      <4>1. la + i \in 1..(la + lb)
        BY <2>3
      <4>2. q[la + i] = ab[la + i] /\ ab[la + i] = b[i]
        BY <1>3, <3>2, <4>1
      <4> QED
        BY <4>2
    <3>3. ASSUME \A i \in 1..la : q[i] = a[i], \A i \in 1..lb : q[la + i] = b[i]
          PROVE \A i \in 1..(la + lb) : q[i] = ab[i]
      <4> SUFFICES ASSUME NEW i \in 1..(la + lb) PROVE q[i] = ab[i]
        OBVIOUS
      <4>1. CASE i \in 1..la
        BY <1>3, <3>3, <4>1
      <4>2. CASE \E j \in 1..lb : i = la + j
        BY <1>3, <3>3, <4>2
      <4> QED
        BY <2>4, <4>1, <4>2
    <3> QED
      BY <3>1, <3>2, <3>3, Zenon
  <2> QED
    BY <2>1, <2>5
<1>5. JoinedAs(a, bc, q) <=> Whole
  <2>1. JoinedAs(a, bc, q) <=> /\ Len(q) = la + (lb + lc)
                               /\ \A i \in 1..la : q[i] = a[i]
                               /\ \A i \in 1..(lb + lc) : q[la + i] = bc[i]
    BY <1>2 DEF JoinedAs
  <2> HIDE DEF la, lb, lc
  <2>2. \A i \in 1..lb : i \in 1..(lb + lc)
    BY <1>1
  <2>3. \A i \in 1..lc : lb + i \in 1..(lb + lc) /\ la + (lb + i) = la + lb + i
    BY <1>1
  <2>4. \A i \in 1..(lb + lc) : i \in 1..lb \/ \E j \in 1..lc : i = lb + j
    <3> SUFFICES ASSUME NEW i \in 1..(lb + lc), i \notin 1..lb PROVE \E j \in 1..lc : i = lb + j
      OBVIOUS
    <3>1. i - lb \in 1..lc /\ i = lb + (i - lb)
      BY <1>1
    <3> QED
      BY <3>1
  <2>5. (\A i \in 1..(lb + lc) : q[la + i] = bc[i])
        <=> (\A i \in 1..lb : q[la + i] = b[i]) /\ (\A i \in 1..lc : q[la + lb + i] = c[i])
    BY <1>3, <2>2, <2>3, <2>4
  <2>6. la + (lb + lc) = la + lb + lc
    BY <1>1
  <2> QED
    BY <2>1, <2>5, <2>6
<1> QED
  BY <1>4, <1>5

LEMMA HandledAlike ==
  ASSUME NEW s, NEW t, NEW n, NEW q, NEW r, \A i \in 1..n : r[i] = q[i], Handled(s, t, r, n)
  PROVE  Handled(s, t, q, n)
BY DEF Handled

LEMMA DropsOne ==
  ASSUME NEW q \in Seq(Records), NEW n \in 1..Len(q), NEW r \in Seq(Records), Drops(q, r, n)
  PROVE  \E m \in Seq(Records) : /\ Drops(q, m, n - 1) /\ m # <<>> /\ Len(m) >= 1 /\ m[1] = q[n]
                                 /\ Drops(m, r, 1)
<1> DEFINE m == SubSeq(q, n, Len(q))
<1>1. Len(q) \in Nat /\ n \in Nat /\ n >= 1 /\ n <= Len(q)
  OBVIOUS
<1>2. \A i \in n..Len(q) : q[i] \in Records
  BY <1>1
<1>3. m \in Seq(Records) /\ Len(m) = Len(q) - n + 1
  BY <1>1, <1>2, SubSeqProperties
<1>4. \A i \in 1..Len(m) : m[i] = q[n + i - 1]
  BY <1>1, <1>3
<1> HIDE DEF m
<1>5. Len(m) = Len(q) - (n - 1) /\ Len(m) >= 1 /\ m # <<>>
  BY <1>1, <1>3
<1>6. \A i \in 1..Len(m) : m[i] = q[i + (n - 1)]
  <2>1. \A i \in 1..Len(m) : n + i - 1 = i + (n - 1)
    BY <1>1, <1>3
  <2> QED
    BY <1>4, <2>1
<1>7. m[1] = q[n]
  <2>1. 1 \in 1..Len(m) /\ n + 1 - 1 = n
    BY <1>1, <1>5
  <2> QED
    BY <1>4, <2>1
<1>8. Drops(m, r, 1)
  <2>1. Len(r) = Len(m) - 1
    BY <1>1, <1>5 DEF Drops
  <2>2. \A i \in 1..Len(r) : r[i] = q[i + n]
    BY DEF Drops
  <2>3. \A i \in 1..Len(r) : i + 1 \in 1..Len(m) /\ (i + 1) + (n - 1) = i + n
    BY <1>1, <1>5, <2>1
  <2> QED
    BY <1>6, <2>1, <2>2, <2>3 DEF Drops
<1> QED
  BY <1>3, <1>5, <1>6, <1>7, <1>8 DEF Drops

LEMMA SelectedOwn ==
  ASSUME NEW read \in Seq(Records), NEW own, own = SelectInSeq(read, Own)
  PROVE  /\ own = 0 => \A i \in 1..Len(read) : ~Own(read[i])
         /\ own # 0 => own \in 1..Len(read) /\ Own(read[own])
<1> DEFINE I == {i \in 1..Len(read) : Own(read[i])}
<1>1. own = IF I # {} THEN Min(I) ELSE 0
  BY DEF SelectInSeq
<1>2. I \in SUBSET Nat
  OBVIOUS
<1>3. I # {} => Min(I) \in I
  <2> HIDE DEF I
  <2> QED
    BY <1>2, MinIn
<1> QED
  BY <1>1, <1>3


(* Handling everything that is read, `changed' having been reset or not. *)
LEMMA ReadingKeeps ==
  ASSUME Inv, Listening, NEW read \in Seq(Records), NEW rest \in Seq(Records), Stream \in Seq(Records),
         JoinedAs(read, rest, Stream), NEW h \in Gs, Same(g, h), Still(g, h), NEW s, s = HandleAll(h, read)
  PROVE  s \in Gs /\ Told(s, ui, rest) /\ s.token = g.token /\ s.rev >= g.rev
<1>1. Len(read) \in 0..Len(Stream) /\ Drops(Stream, rest, Len(read))
  BY JoinedDrops
<1>2. Handled(h, s, read, Len(read))
  BY HandleAllHandles
<1>3. Handled(g, s, read, Len(read))
  BY <1>2 DEF Handled, Same, Still
<1>4. \A i \in 1..Len(read) : read[i] = Stream[i]
  BY DEF JoinedAs
<1>5. Handled(g, s, Stream, Len(read))
  BY <1>3, <1>4 DEF Handled
<1>6. s \in Gs /\ s.rev >= g.rev
  BY <1>3 DEF Handled
<1> QED
  BY <1>1, <1>5, <1>6, HandlingKeeps

(* What is in the buffer, the first n records of the pipe, and the others. *)
LEMMA Pieces ==
  ASSUME Types, NEW n \in 0..Len(pipe), NEW first, NEW rest, Splits(pipe, n, first, rest),
         NEW read, Joins(buf, first, read)
  PROVE  /\ Stream \in Seq(Records) /\ read \in Seq(Records) /\ rest \in Seq(Records)
         /\ JoinedAs(read, rest, Stream) /\ JoinedAs(buf, pipe, Stream)
<1>1. buf \in Seq(Records) /\ pipe \in Seq(Records)
  BY DEF Types
<1>2. first \in Seq(Records) /\ rest \in Seq(Records) /\ JoinedAs(first, rest, pipe)
  BY <1>1, Split
<1>3. read \in Seq(Records) /\ JoinedAs(buf, first, read)
  BY <1>1, <1>2, Joined
<1>4. Joins(buf, pipe, Stream)
  BY DEF Joins, Stream
<1>5. Stream \in Seq(Records) /\ JoinedAs(buf, pipe, Stream)
  BY <1>1, <1>4, Joined
<1>6. JoinedAs(read, rest, Stream)
  BY <1>1, <1>2, <1>3, <1>5, ThreeParts
<1> QED
  BY <1>2, <1>3, <1>5, <1>6

(* What the session believes carries over when only records were read. *)
LEMMA Carried ==
  ASSUME Told(g', ui', Stream'), UNCHANGED <<gdb, cmds, todo, want, phase, late>>, g'.token = g.token
  PROVE  Told(g, ui, Stream)'
<1>1. /\ Fitting(g') /\ Revisions(g', ui') /\ Tokens(Stream') /\ Asked(Stream') /\ Waited(Stream') /\ Tidings(Stream')
      /\ Believes(g', ui', Stream') /\ Fresh(Stream') /\ Unsettled(g', ui') /\ Ready(g', ui', Stream', todo)
      /\ FrameTrue(g', ui', Stream') /\ BreaksTrue(g', Stream') /\ Launch(g', Stream')
  BY DEF Told
<1>2. Fitting(g)' /\ Revisions(g, ui)'
  BY <1>1 DEF Fitting, Revisions
<1>3. Tokens(Stream)'
  BY <1>1 DEF Tokens
<1>4. \A r : Answer(r)' <=> Answer(r)
  BY DEF Answer
<1>5. Asked(Stream)'
  BY <1>1, <1>4 DEF Asked
<1>6. Waited(Stream)'
  BY <1>1 DEF Waited
<1>7. Tidings(Stream)'
  BY <1>1 DEF Tidings
<1>8. Believes(g, ui, Stream)'
  BY <1>1 DEF Believes, KeptTrue, SymbolsTrue, Alike
<1>9. Now(gdb') = Now(gdb)
  OBVIOUS
<1>10. Fresh(Stream)'
  BY <1>1, <1>4, <1>9 DEF Fresh
<1>11. Unsettled(g, ui)'
  BY <1>1 DEF Unsettled
<1>12. Ready(g, ui, Stream, todo)'
  <2>1. Calm(Stream)' <=> Calm(Stream')
    BY DEF Calm
  <2>2. /\ InfoFresh(g, Stream)' <=> InfoFresh(g', Stream')
        /\ VarsFresh(g, Stream)' <=> VarsFresh(g', Stream')
        /\ ListTrue(g, Stream)' <=> ListTrue(g', Stream')
    BY <1>9, <2>1 DEF InfoFresh, VarsFresh, ListTrue
  <2> QED
    BY <1>1, <2>2 DEF Ready
<1>13. (Served' <=> Served) /\ (AllOk(Stream)' <=> AllOk(Stream')) /\ (AllBad(Stream)' <=> AllBad(Stream'))
  BY <1>4 DEF Served, AllOk, AllBad
<1>14. FrameTrue(g, ui, Stream)'
  BY <1>1, <1>13 DEF FrameTrue, FrameOwed
<1>15. BreaksTrue(g, Stream)'
  BY <1>1, <1>4, <1>13 DEF BreaksTrue, BreaksOwed
<1>16. Launch(g, Stream)'
  <2>1. \A i : Inserting(i)' <=> Inserting(i)
    BY DEF Inserting
  <2>2. Temporary(Stream)' <=> Temporary(Stream')
    BY <1>13, <2>1 DEF Temporary, Deleting, Single
  <2> QED
    BY <1>1, <1>4, <2>2 DEF Launch
<1> QED
  BY <1>2, <1>3, <1>5, <1>6, <1>7, <1>8, <1>10, <1>11, <1>12, <1>14, <1>15, <1>16 DEF Told

-----------------------------------------------------------------------------
(* The steps of calls, taken apart and put together                         *)

(* What a step expects depends on it and the one that follows. *)
Alike2(c, i, d, j) == c[i] = d[j] /\ (i < Len(c) <=> j < Len(d)) /\ (i < Len(c) => c[i + 1] = d[j + 1])

LEMMA NeedsAlike ==
  ASSUME NEW c, NEW d, NEW i, NEW j, Alike2(c, i, d, j)
  PROVE  /\ NeedsInfo(c, i) <=> NeedsInfo(d, j)
         /\ NeedsVars(c, i) <=> NeedsVars(d, j)
         /\ NeedsInvalid(c, i) <=> NeedsInvalid(d, j)
         /\ NeedsList(c, i) <=> NeedsList(d, j)
         /\ HeadOnly(c, i) <=> HeadOnly(d, j)
         /\ Plain(c, i) <=> Plain(d, j)
<1>1. /\ NeedsInfo(c, i) <=> NeedsInfo(d, j)
      /\ NeedsVars(c, i) <=> NeedsVars(d, j)
      /\ NeedsInvalid(c, i) <=> NeedsInvalid(d, j)
      /\ NeedsList(c, i) <=> NeedsList(d, j)
      /\ HeadOnly(c, i) <=> HeadOnly(d, j)
  BY DEF Alike2, NeedsInfo, NeedsVars, NeedsInvalid, NeedsList, HeadOnly
<1> QED
  BY <1>1 DEF Plain

(* t is c without its first n steps. *)
LEMMA SuffixSteps ==
  ASSUME NEW c \in Seq(Ops), NEW t \in Seq(Ops), NEW n \in 0..Len(c), Drops(c, t, n)
  PROVE  /\ \A i \in 1..Len(t) : i + n \in 1..Len(c) /\ Alike2(t, i, c, i + n)
         /\ Flow(c) => Flow(t)
         /\ Paired(c) => Paired(t)
         /\ Listed(c) => Listed(t)
         /\ NoAlters(c) => NoAlters(t)
<1>1. Len(c) \in Nat /\ Len(t) \in Nat /\ n \in Nat /\ Len(t) = Len(c) - n
  BY DEF Drops
<1>2. \A i \in 1..Len(t) : i + n \in 1..Len(c) /\ t[i] = c[i + n] /\ (i < Len(t) <=> i + n < Len(c))
  BY <1>1 DEF Drops
<1>3. \A i \in 1..Len(t) : i < Len(t) => i + 1 \in 1..Len(t) /\ (i + 1) + n = (i + n) + 1
  BY <1>1
<1>4. \A i \in 1..Len(t) : i < Len(t) => t[i + 1] = c[(i + n) + 1]
  BY <1>2, <1>3
<1>5. \A i \in 1..Len(t) : i + n \in 1..Len(c) /\ Alike2(t, i, c, i + n)
  BY <1>2, <1>4 DEF Alike2
<1>6. \A i \in 1..Len(t) : /\ NeedsInfo(t, i) <=> NeedsInfo(c, i + n)
                           /\ NeedsVars(t, i) <=> NeedsVars(c, i + n)
                           /\ NeedsInvalid(t, i) <=> NeedsInvalid(c, i + n)
                           /\ NeedsList(t, i) <=> NeedsList(c, i + n)
                           /\ HeadOnly(t, i) <=> HeadOnly(c, i + n)
                           /\ Plain(t, i) <=> Plain(c, i + n)
  BY <1>5, NeedsAlike
<1>7. ASSUME Flow(c), NEW i \in 1..Len(t) PROVE i < Len(t) => Follows(t, i)
  <2> SUFFICES ASSUME i < Len(t) PROVE Follows(t, i)
    OBVIOUS
  <2>1. Follows(c, i + n)
    BY <1>2, <1>7 DEF Flow
  <2>2. i + 1 \in 1..Len(t) /\ (i + 1) + n = (i + n) + 1
    BY <1>3
  <2>3. /\ NeedsInfo(t, i + 1) <=> NeedsInfo(c, (i + n) + 1)
        /\ NeedsVars(t, i + 1) <=> NeedsVars(c, (i + n) + 1)
        /\ NeedsInvalid(t, i + 1) <=> NeedsInvalid(c, (i + n) + 1)
        /\ NeedsList(t, i + 1) <=> NeedsList(c, (i + n) + 1)
        /\ HeadOnly(t, i + 1) <=> HeadOnly(c, (i + n) + 1)
    BY <1>6, <2>2
  <2>4. t[i] = c[i + n] /\ (NeedsInfo(t, i) <=> NeedsInfo(c, i + n)) /\ (NeedsVars(t, i) <=> NeedsVars(c, i + n))
    BY <1>2, <1>6
  <2> QED
    BY <2>1, <2>3, <2>4 DEF Follows
<1>8. ASSUME NEW i \in 1..Len(t), NEW m \in Nat, Fails(c, i + n, m) PROVE Fails(t, i, m)
  <2> SUFFICES ASSUME m # All PROVE Fails(t, i, m)
    BY DEF Fails
  <2>1. (i + n) + m <= Len(c) /\ (m > 0 /\ (i + n) + m < Len(c) => Plain(c, (i + n) + 1 + m))
        /\ (m = 0 => c[i + n].do \notin {"var", "modules", "sources"})
    BY <1>8 DEF Fails
  <2>2. i + m <= Len(t) /\ ((i + n) + m < Len(c) <=> i + m < Len(t))
    BY <1>1, <2>1
  <2>3. m > 0 /\ i + m < Len(t) => i + 1 + m \in 1..Len(t) /\ (i + 1 + m) + n = (i + n) + 1 + m
    BY <1>1
  <2>4. m > 0 /\ i + m < Len(t) => Plain(t, i + 1 + m)
    BY <1>6, <2>1, <2>2, <2>3
  <2> QED
    BY <1>2, <2>1, <2>2, <2>4 DEF Fails
<1>9. \A i \in 1..Len(t) : t[i].bad \in Nat /\ t[i].lost \in Nat
  <2>1. \A i \in 1..Len(t) : t[i] \in Ops
    OBVIOUS
  <2> QED
    BY <2>1 DEF Ops
<1>10. Flow(c) => Flow(t)
  BY <1>2, <1>7, <1>8, <1>9 DEF Flow
<1>11. (Paired(c) => Paired(t)) /\ (Listed(c) => Listed(t)) /\ (NoAlters(c) => NoAlters(t))
  BY <1>2, <1>4 DEF Paired, Listed, NoAlters
<1> QED
  BY <1>5, <1>10, <1>11

(* One call's steps followed by others that expect nothing of them. *)
LEMMA JoinSteps ==
  ASSUME NEW a \in Seq(Ops), NEW b \in Seq(Ops), NEW c \in Seq(Ops), JoinedAs(a, b, c), b # <<>> => Plain(b, 1)
  PROVE  /\ \A i \in 1..Len(a) : /\ NeedsInfo(c, i) <=> NeedsInfo(a, i)
                                 /\ NeedsVars(c, i) <=> NeedsVars(a, i)
                                 /\ NeedsInvalid(c, i) <=> NeedsInvalid(a, i)
                                 /\ NeedsList(c, i) <=> NeedsList(a, i)
                                 /\ HeadOnly(c, i) <=> HeadOnly(a, i)
                                 /\ Plain(c, i) <=> Plain(a, i)
         /\ \A i \in 1..Len(b) : /\ NeedsInfo(c, Len(a) + i) <=> NeedsInfo(b, i)
                                 /\ NeedsVars(c, Len(a) + i) <=> NeedsVars(b, i)
                                 /\ NeedsInvalid(c, Len(a) + i) <=> NeedsInvalid(b, i)
                                 /\ NeedsList(c, Len(a) + i) <=> NeedsList(b, i)
                                 /\ HeadOnly(c, Len(a) + i) <=> HeadOnly(b, i)
                                 /\ Plain(c, Len(a) + i) <=> Plain(b, i)
         /\ Flow(a) /\ Flow(b) => Flow(c)
<1> DEFINE la == Len(a)  lb == Len(b)
<1>1. la \in Nat /\ lb \in Nat /\ Len(c) = la + lb
  BY DEF JoinedAs
<1>2. /\ \A i \in 1..la : c[i] = a[i]
      /\ \A i \in 1..lb : c[la + i] = b[i]
  BY DEF JoinedAs
<1>0. lb > 0 => b # <<>>
  OBVIOUS
<1> HIDE DEF la, lb
<1>3. \A i \in 1..la : i \in 1..Len(c) /\ (i < la => i + 1 \in 1..la /\ i < Len(c)) /\ (i = la => (i < Len(c) <=> lb > 0))
  BY <1>1
<1>4. \A i \in 1..lb : /\ la + i \in 1..Len(c) /\ (i < lb <=> la + i < Len(c))
                       /\ i < lb => i + 1 \in 1..lb /\ la + (i + 1) = (la + i) + 1
  BY <1>1
<1>5. lb > 0 => 1 \in 1..lb
  BY <1>1
<1>6. \A i \in 1..la : i < la => Alike2(c, i, a, i)
  <2> SUFFICES ASSUME NEW i \in 1..la, i < la PROVE Alike2(c, i, a, i)
    OBVIOUS
  <2>1. c[i] = a[i] /\ c[i + 1] = a[i + 1] /\ i < Len(c)
    BY <1>2, <1>3
  <2> QED
    BY <2>1 DEF Alike2, la
<1>7. \A i \in 1..lb : Alike2(c, la + i, b, i)
  <2> SUFFICES ASSUME NEW i \in 1..lb PROVE Alike2(c, la + i, b, i)
    OBVIOUS
  <2>1. c[la + i] = b[i] /\ (i < lb <=> la + i < Len(c))
    BY <1>2, <1>4
  <2>2. i < lb => c[(la + i) + 1] = b[i + 1]
    BY <1>2, <1>4
  <2> QED
    BY <2>1, <2>2 DEF Alike2, lb
<1>8. la > 0 /\ lb > 0 => c[la + 1] = b[1] /\ Plain(b, 1)
  BY <1>0, <1>2, <1>5
<1>9. la > 0 /\ lb > 0 => b[1].do # "detail"
  BY <1>8 DEF Plain, NeedsInfo
<1>10. \A i \in 1..la : /\ NeedsInfo(c, i) <=> NeedsInfo(a, i)
                        /\ NeedsVars(c, i) <=> NeedsVars(a, i)
                        /\ NeedsInvalid(c, i) <=> NeedsInvalid(a, i)
                        /\ NeedsList(c, i) <=> NeedsList(a, i)
                        /\ HeadOnly(c, i) <=> HeadOnly(a, i)
  <2> SUFFICES ASSUME NEW i \in 1..la
               PROVE  /\ NeedsInfo(c, i) <=> NeedsInfo(a, i)
                      /\ NeedsVars(c, i) <=> NeedsVars(a, i)
                      /\ NeedsInvalid(c, i) <=> NeedsInvalid(a, i)
                      /\ NeedsList(c, i) <=> NeedsList(a, i)
                      /\ HeadOnly(c, i) <=> HeadOnly(a, i)
    OBVIOUS
  <2>1. CASE i < la
    BY <1>6, <2>1, NeedsAlike
  <2>2. CASE i = la
    <3>1. c[i] = a[i] /\ ~(i < Len(a)) /\ (i < Len(c) => c[i + 1].do # "detail")
      BY <1>1, <1>2, <1>3, <1>8, <1>9, <2>2 DEF la
    <3> QED
      BY <3>1 DEF NeedsInfo, NeedsVars, NeedsInvalid, NeedsList, HeadOnly
  <2> QED
    BY <1>1, <2>1, <2>2
<1>11. \A i \in 1..la : Plain(c, i) <=> Plain(a, i)
  BY <1>10 DEF Plain
<1>12. \A i \in 1..lb : /\ NeedsInfo(c, la + i) <=> NeedsInfo(b, i)
                        /\ NeedsVars(c, la + i) <=> NeedsVars(b, i)
                        /\ NeedsInvalid(c, la + i) <=> NeedsInvalid(b, i)
                        /\ NeedsList(c, la + i) <=> NeedsList(b, i)
                        /\ HeadOnly(c, la + i) <=> HeadOnly(b, i)
                        /\ Plain(c, la + i) <=> Plain(b, i)
  BY <1>7, NeedsAlike
<1>13. \A i \in 1..Len(c) : i \in 1..la \/ \E j \in 1..lb : i = la + j
  <2> SUFFICES ASSUME NEW i \in 1..Len(c), i \notin 1..la PROVE \E j \in 1..lb : i = la + j
    OBVIOUS
  <2>1. i - la \in 1..lb /\ i = la + (i - la)
    BY <1>1
  <2> QED
    BY <2>1
<1>14. ASSUME Flow(a), Flow(b), NEW i \in 1..la
       PROVE  (i < Len(c) => Follows(c, i)) /\ (c[i].kind = "request" => Fails(c, i, c[i].bad) /\ Fails(c, i, c[i].lost))
  <2>1. i < la => Follows(c, i)
    <3> SUFFICES ASSUME i < la PROVE Follows(c, i)
      OBVIOUS
    <3>1. Follows(a, i)
      BY <1>14 DEF Flow, la
    <3>2. i + 1 \in 1..la
      BY <1>3
    <3> QED
      BY <1>2, <1>10, <3>1, <3>2 DEF Follows
  <2>2. i = la /\ i < Len(c) => Follows(c, i)
    <3> SUFFICES ASSUME i = la, i < Len(c) PROVE Follows(c, i)
      OBVIOUS
    <3>1. lb > 0 /\ 1 \in 1..lb
      BY <1>1, <1>5
    <3>2. Plain(c, i + 1)
      BY <1>0, <1>12, <3>1
    <3> QED
      BY <3>2 DEF Follows, Plain
  <2>3. ASSUME NEW m \in Nat, Fails(a, i, m) PROVE Fails(c, i, m)
    <3> SUFFICES ASSUME m # All PROVE Fails(c, i, m)
      BY DEF Fails
    <3>1. i + m <= la /\ (m > 0 /\ i + m < la => Plain(a, i + 1 + m)) /\ (m = 0 => a[i].do \notin {"var", "modules", "sources"})
      BY <2>3 DEF Fails, la
    <3>2. i + m <= Len(c)
      BY <1>1, <3>1
    <3>3. m > 0 /\ i + m < la => i + 1 + m \in 1..la
      BY <1>1
    <3>4. i + m = la /\ i + m < Len(c) => lb > 0 /\ 1 \in 1..lb /\ i + 1 + m = la + 1
      BY <1>1
    <3>5. m > 0 /\ i + m < Len(c) => Plain(c, i + 1 + m)
      <4>1. CASE i + m < la
        BY <1>11, <3>1, <3>3, <4>1
      <4>2. CASE i + m = la
        BY <1>0, <1>12, <3>4, <4>2
      <4> QED
        BY <1>1, <3>1, <4>1, <4>2
    <3> QED
      BY <1>2, <3>1, <3>2, <3>5 DEF Fails
  <2>4. a[i].bad \in Nat /\ a[i].lost \in Nat
    <3>1. a[i] \in Ops
      BY DEF la
    <3> QED
      BY <3>1 DEF Ops
  <2>5. c[i].kind = "request" => Fails(a, i, a[i].bad) /\ Fails(a, i, a[i].lost)
    BY <1>2, <1>14 DEF Flow, la
  <2> QED
    BY <1>1, <1>2, <2>1, <2>2, <2>3, <2>4, <2>5
<1>15. ASSUME Flow(a), Flow(b), NEW j \in 1..lb
       PROVE  /\ la + j < Len(c) => Follows(c, la + j)
              /\ c[la + j].kind = "request" => Fails(c, la + j, c[la + j].bad) /\ Fails(c, la + j, c[la + j].lost)
  <2>1. la + j < Len(c) => Follows(c, la + j)
    <3> SUFFICES ASSUME la + j < Len(c) PROVE Follows(c, la + j)
      OBVIOUS
    <3>1. j < lb /\ j + 1 \in 1..lb /\ la + (j + 1) = (la + j) + 1
      BY <1>4
    <3>2. Follows(b, j)
      BY <1>15, <3>1 DEF Flow, lb
    <3>3. /\ NeedsInfo(c, (la + j) + 1) <=> NeedsInfo(b, j + 1)
          /\ NeedsVars(c, (la + j) + 1) <=> NeedsVars(b, j + 1)
          /\ NeedsInvalid(c, (la + j) + 1) <=> NeedsInvalid(b, j + 1)
          /\ NeedsList(c, (la + j) + 1) <=> NeedsList(b, j + 1)
          /\ HeadOnly(c, (la + j) + 1) <=> HeadOnly(b, j + 1)
      BY <1>12, <3>1
    <3>4. c[la + j] = b[j] /\ (NeedsInfo(c, la + j) <=> NeedsInfo(b, j)) /\ (NeedsVars(c, la + j) <=> NeedsVars(b, j))
      BY <1>2, <1>12
    <3> QED
      BY <3>2, <3>3, <3>4 DEF Follows
  <2>3. ASSUME NEW m \in Nat, Fails(b, j, m) PROVE Fails(c, la + j, m)
    <3> SUFFICES ASSUME m # All PROVE Fails(c, la + j, m)
      BY DEF Fails
    <3>1. j + m <= lb /\ (m > 0 /\ j + m < lb => Plain(b, j + 1 + m)) /\ (m = 0 => b[j].do \notin {"var", "modules", "sources"})
      BY <2>3 DEF Fails, lb
    <3>2. (la + j) + m <= Len(c) /\ ((la + j) + m < Len(c) <=> j + m < lb)
      BY <1>1, <3>1
    <3>3. m > 0 /\ j + m < lb => j + 1 + m \in 1..lb /\ la + (j + 1 + m) = (la + j) + 1 + m
      BY <1>1
    <3>5. m > 0 /\ (la + j) + m < Len(c) => Plain(c, (la + j) + 1 + m)
      BY <1>12, <3>1, <3>2, <3>3
    <3> QED
      BY <1>2, <3>1, <3>2, <3>5 DEF Fails
  <2>4. b[j].bad \in Nat /\ b[j].lost \in Nat
    <3>1. b[j] \in Ops
      BY DEF lb
    <3> QED
      BY <3>1 DEF Ops
  <2>5. b[j].kind = "request" => Fails(b, j, b[j].bad) /\ Fails(b, j, b[j].lost)
    BY <1>15 DEF Flow, lb
  <2> QED
    BY <1>2, <2>1, <2>3, <2>4, <2>5
<1>16. Flow(a) /\ Flow(b) => Flow(c)
  BY <1>13, <1>14, <1>15 DEF Flow
<1> QED
  BY <1>10, <1>11, <1>12, <1>16 DEF la, lb

(* The steps of whole calls: they expect nothing of what comes before. *)
Reserved == Leaving \cup {"ready"}
Fitted(c) == \A i \in 1..Len(c) : Fits(c[i]) /\ Kinds(c[i]) /\ (c[i].do = "expanded" => c[i].x <= g.rev)
Sound(c) ==
    /\ c \in Seq(Ops) /\ Flow(c) /\ Paired(c) /\ Listed(c) /\ Fitted(c)
    /\ \A i \in 1..Len(c) : c[i].do \notin Reserved
Whole(c) == Sound(c) /\ (c # <<>> => Plain(c, 1))
(* Nor do they alter breakpoints. *)
Mild(c) == Whole(c) /\ NoAlters(c)

LEMMA EmptyMild == Mild(<<>>)
BY DEF Mild, Whole, Sound, Flow, Paired, Listed, Fitted, NoAlters

LEMMA JoinsKeep ==
  ASSUME NEW a \in Seq(Ops), NEW b \in Seq(Ops), NEW c \in Seq(Ops), JoinedAs(a, b, c), b # <<>> => Plain(b, 1)
  PROVE  /\ Flow(a) /\ Flow(b) => Flow(c)
         /\ Paired(a) /\ Paired(b) => Paired(c)
         /\ Listed(a) /\ Listed(b) => Listed(c)
         /\ Fitted(a) /\ Fitted(b) => Fitted(c)
         /\ NoAlters(a) /\ NoAlters(b) => NoAlters(c)
         /\ a # <<>> => c # <<>> /\ c[1] = a[1] /\ (NeedsInfo(c, 1) <=> NeedsInfo(a, 1)) /\ (Plain(c, 1) <=> Plain(a, 1))
         /\ a = <<>> => c = b
         /\ \A i \in 1..Len(c) : (\E j \in 1..Len(a) : c[i] = a[j]) \/ (\E j \in 1..Len(b) : c[i] = b[j] /\ i = Len(a) + j)
<1>3. Len(a) \in Nat /\ Len(b) \in Nat /\ Len(c) = Len(a) + Len(b)
  BY DEF JoinedAs
<1>4. /\ \A i \in 1..Len(a) : c[i] = a[i]
      /\ \A i \in 1..Len(b) : c[Len(a) + i] = b[i]
  BY DEF JoinedAs
<1>6. /\ \A i \in 1..Len(a) : (Plain(c, i) <=> Plain(a, i)) /\ (NeedsInfo(c, i) <=> NeedsInfo(a, i))
      /\ \A i \in 1..Len(b) : Plain(c, Len(a) + i) <=> Plain(b, i)
      /\ Flow(a) /\ Flow(b) => Flow(c)
  BY JoinSteps
<1>7. \A i \in 1..Len(c) : i \in 1..Len(a) \/ \E j \in 1..Len(b) : i = Len(a) + j
  <2> SUFFICES ASSUME NEW i \in 1..Len(c), i \notin 1..Len(a) PROVE \E j \in 1..Len(b) : i = Len(a) + j
    OBVIOUS
  <2>1. i - Len(a) \in 1..Len(b) /\ i = Len(a) + (i - Len(a))
    BY <1>3
  <2> QED
    BY <2>1
<1>8. ASSUME NEW i \in 1..Len(c)
      PROVE  /\ Fitted(a) /\ Fitted(b) => Fits(c[i]) /\ Kinds(c[i]) /\ (c[i].do = "expanded" => c[i].x <= g.rev)
             /\ Paired(a) /\ Paired(b) =>
                  (c[i].do = "select" => i < Len(c) /\ c[i + 1].do = "context" /\ c[i].bad = All)
             /\ Listed(a) /\ Listed(b) =>
                  (c[i].do \in Alters => c[i].bad = All /\ i < Len(c) /\ c[i + 1].do = "breaks")
             /\ NoAlters(a) /\ NoAlters(b) => c[i].do \notin Alters
  <2>1. CASE i \in 1..Len(a)
    <3>1. c[i] = a[i] /\ (i < Len(a) => i < Len(c) /\ i + 1 \in 1..Len(a) /\ c[i + 1] = a[i + 1])
      BY <1>3, <1>4, <2>1
    <3> QED
      BY <2>1, <3>1 DEF Fitted, Paired, Listed, NoAlters
  <2>2. CASE \E j \in 1..Len(b) : i = Len(a) + j
    <3>1. PICK j \in 1..Len(b) : i = Len(a) + j
      BY <2>2
    <3>2. j < Len(b) => i < Len(c) /\ j + 1 \in 1..Len(b) /\ i + 1 = Len(a) + (j + 1)
      BY <1>3, <3>1
    <3>3. c[i] = b[j] /\ (j < Len(b) => i < Len(c) /\ c[i + 1] = b[j + 1])
      BY <1>4, <3>1, <3>2
    <3> QED
      BY <3>3 DEF Fitted, Paired, Listed, NoAlters
  <2> QED
    BY <1>7, <2>1, <2>2
<1>9. a # <<>> => c # <<>> /\ c[1] = a[1] /\ (NeedsInfo(c, 1) <=> NeedsInfo(a, 1)) /\ (Plain(c, 1) <=> Plain(a, 1))
  <2> SUFFICES ASSUME a # <<>>
               PROVE  c # <<>> /\ c[1] = a[1] /\ (NeedsInfo(c, 1) <=> NeedsInfo(a, 1)) /\ (Plain(c, 1) <=> Plain(a, 1))
    OBVIOUS
  <2>1. 1 \in 1..Len(a)
    OBVIOUS
  <2>2. c # <<>>
    BY <1>3, <2>1
  <2> QED
    BY <1>4, <1>6, <2>1, <2>2
<1>10. a = <<>> => c = b
  <2> SUFFICES ASSUME a = <<>> PROVE c = b
    OBVIOUS
  <2>1. Len(a) = 0 /\ \A i \in 1..Len(b) : Len(a) + i = i
    OBVIOUS
  <2>2. Len(c) = Len(b) /\ \A i \in 1..Len(b) : c[i] = b[i]
    BY <1>3, <1>4, <2>1
  <2> QED
    BY <2>2, SeqEqual
<1>11. \A i \in 1..Len(c) : (\E j \in 1..Len(a) : c[i] = a[j]) \/ (\E j \in 1..Len(b) : c[i] = b[j] /\ i = Len(a) + j)
  BY <1>4, <1>7
<1>12. Fitted(a) /\ Fitted(b) => Fitted(c)
  BY <1>8 DEF Fitted
<1>13. Paired(a) /\ Paired(b) => Paired(c)
  BY <1>8 DEF Paired
<1>14. Listed(a) /\ Listed(b) => Listed(c)
  BY <1>8 DEF Listed
<1>15. NoAlters(a) /\ NoAlters(b) => NoAlters(c)
  BY <1>8 DEF NoAlters
<1> QED
  BY <1>6, <1>9, <1>10, <1>11, <1>12, <1>13, <1>14, <1>15

LEMMA SoundJoins ==
  ASSUME NEW a, NEW b, Sound(a), Whole(b), NEW c, Joins(a, b, c)
  PROVE  /\ Sound(c) /\ (NoAlters(a) /\ NoAlters(b) => NoAlters(c))
         /\ a # <<>> => c # <<>> /\ c[1] = a[1] /\ (NeedsInfo(c, 1) <=> NeedsInfo(a, 1)) /\ (Plain(c, 1) <=> Plain(a, 1))
         /\ a = <<>> => c = b
<1>1. a \in Seq(Ops) /\ b \in Seq(Ops) /\ (b # <<>> => Plain(b, 1))
  BY DEF Whole, Sound
<1>2. c \in Seq(Ops) /\ JoinedAs(a, b, c)
  BY <1>1, Joined
<1>3. /\ Flow(c) /\ Paired(c) /\ Listed(c) /\ Fitted(c) /\ (NoAlters(a) /\ NoAlters(b) => NoAlters(c))
      /\ a # <<>> => c # <<>> /\ c[1] = a[1] /\ (NeedsInfo(c, 1) <=> NeedsInfo(a, 1)) /\ (Plain(c, 1) <=> Plain(a, 1))
      /\ a = <<>> => c = b
      /\ \A i \in 1..Len(c) : (\E j \in 1..Len(a) : c[i] = a[j]) \/ (\E j \in 1..Len(b) : c[i] = b[j] /\ i = Len(a) + j)
  BY <1>1, <1>2, JoinsKeep DEF Whole, Sound
<1>4. \A i \in 1..Len(c) : c[i].do \notin Reserved
  BY <1>3 DEF Whole, Sound
<1> QED
  BY <1>2, <1>3, <1>4 DEF Sound

LEMMA WholeJoins ==
  ASSUME NEW a, NEW b, Whole(a), Whole(b)
  PROVE  Whole(a \o b)
<1> DEFINE c == a \o b
<1>1. Joins(a, b, c)
  BY DEF Joins
<1> HIDE DEF c
<1>2. Whole(c)
  BY <1>1, SoundJoins DEF Whole
<1> QED
  BY <1>2 DEF c

LEMMA MildJoins ==
  ASSUME NEW a, NEW b, Mild(a), Mild(b)
  PROVE  Mild(a \o b)
<1> DEFINE c == a \o b
<1>1. Joins(a, b, c)
  BY DEF Joins
<1> HIDE DEF c
<1>2. Mild(c)
  BY <1>1, SoundJoins DEF Whole, Mild
<1> QED
  BY <1>2 DEF c

(* A call of one step. *)
Lone == {"expanded", "children", "vardelete", "reexpanded", "detail", "args", "locals", "vars", "assign", "eval", "return",
         "typed", "revise", "select", "insert", "delete", "toggle", "detach", "exit", "closed", "ready"}
LEMMA WholeOne ==
  ASSUME NEW a \in Ops, Fits(a), Kinds(a), a.do \notin Lone, a.bad \in {0, All}, a.lost \in {0, All},
         a.kind = "request" => a.do \notin {"address", "var"},
         a.do \notin {"modules", "sources"}
  PROVE  Mild(<<a>>)
<1>1. <<a>> \in Seq(Ops) /\ Len(<<a>>) = 1 /\ <<a>>[1] = a
  OBVIOUS
<1> DEFINE c == <<a>>
<1> HIDE DEF c
<1>2. c \in Seq(Ops) /\ Len(c) = 1 /\ c[1] = a
  BY <1>1 DEF c
<1>3. \A i \in 1..Len(c) : i = 1
  BY <1>2
<1>4. Plain(c, 1)
  BY <1>2 DEF Plain, NeedsInfo, NeedsVars, NeedsInvalid, NeedsList, HeadOnly, Lone, Writes
<1>5. c[1].kind = "request" => Fails(c, 1, c[1].bad) /\ Fails(c, 1, c[1].lost)
  BY <1>2 DEF Fails, All
<1>6. Flow(c)
  BY <1>2, <1>3, <1>5 DEF Flow
<1>7. Paired(c) /\ Listed(c) /\ Fitted(c)
  BY <1>2, <1>3 DEF Paired, Listed, Fitted, Lone, Alters
<1>8. \A i \in 1..Len(c) : c[i].do \notin Reserved
  BY <1>2, <1>3 DEF Reserved, Leaving, Lone
<1>10. NoAlters(c)
  BY <1>2, <1>3 DEF NoAlters, Lone, Alters
<1>9. Mild(c)
  BY <1>2, <1>4, <1>6, <1>7, <1>8, <1>10 DEF Mild, Whole, Sound
<1> QED
  BY <1>9 DEF c

LEMMA DosAre ==
  /\ "select" \in Dos /\ "context" \in Dos /\ "invalidate" \in Dos /\ "rerun" \in Dos /\ "exec" \in Dos
  /\ "run" \in Dos /\ "eval" \in Dos /\ "assign" \in Dos /\ "return" \in Dos /\ "typed" \in Dos
  /\ "read" \in Dos /\ "var" \in Dos /\ "vardelete" \in Dos /\ "children" \in Dos /\ "expanded" \in Dos
  /\ "reexpanded" \in Dos /\ "collapsed" \in Dos /\ "insert" \in Dos /\ "delete" \in Dos /\ "toggle" \in Dos
  /\ "breaks" \in Dos /\ "complete" \in Dos /\ "scope" \in Dos /\ "candidates" \in Dos /\ "inspect" \in Dos
  /\ "address" \in Dos /\ "detail" \in Dos /\ "expansions" \in Dos /\ "frameShown" \in Dos /\ "functions" \in Dos
  /\ "ranges" \in Dos /\ "modules" \in Dos /\ "sources" \in Dos /\ "catalogue" \in Dos /\ "nocode" \in Dos
  /\ "disassemble" \in Dos /\ "around" \in Dos /\ "assembly" \in Dos /\ "novars" \in Dos /\ "args" \in Dos
  /\ "locals" \in Dos /\ "vars" \in Dos /\ "noregs" \in Dos /\ "names" \in Dos /\ "regs" \in Dos
  /\ "revise" \in Dos /\ "frame" \in Dos /\ "placed" \in Dos /\ "variables" \in Dos /\ "noframes" \in Dos
  /\ "frames" \in Dos /\ "registers" \in Dos /\ "listing" \in Dos /\ "changed" \in Dos /\ "draw" \in Dos
  /\ "interrupt" \in Dos /\ "settle" \in Dos /\ "settled" \in Dos /\ "detach" \in Dos /\ "exit" \in Dos
  /\ "closed" \in Dos /\ "set" \in Dos /\ "attach" \in Dos /\ "attached" \in Dos /\ "ready" \in Dos
  /\ "located" \in Dos
BY DEF Dos

LEMMA ArgumentsAre ==
  /\ \A x \in Nat : x \in Arguments
  /\ \A x \in Lines : x \in Arguments
  /\ \A x \in BOOLEAN : x \in Arguments
  /\ "pointer" \in Arguments /\ "value" \in Arguments /\ "nowhere" \in Arguments
  /\ TRUE \in Arguments /\ FALSE \in Arguments /\ 0 \in Arguments /\ 1 \in Arguments
  /\ All \in Nat /\ 0 \in Nat /\ 1 \in Nat /\ 2 \in Nat /\ 3 \in Nat
<1>1. All \in Nat /\ 0 \in Nat /\ 1 \in Nat /\ 2 \in Nat /\ 3 \in Nat
  BY DEF All
<1> QED
  BY <1>1, Zenon DEF Arguments

(* A request and a local step. *)
IsR(a, do, x, bad) == a \in Ops /\ a.kind = "request" /\ a.do = do /\ a.x = x /\ a.bad = bad /\ a.lost = bad
IsL(a, do, x) == a \in Ops /\ a.kind = "local" /\ a.do = do /\ a.x = x /\ a.bad = 0 /\ a.lost = 0

LEMMA Request ==
  ASSUME NEW do \in Dos, NEW x \in Arguments, NEW bad \in Nat
  PROVE  IsR(R(do, x, bad), do, x, bad)
BY DEF R, IsR, Ops

LEMMA Local ==
  ASSUME NEW do \in Dos, NEW x \in Arguments
  PROVE  IsL(L(do, x), do, x)
BY DEF L, IsL, Ops

LEMMA LostSet ==
  ASSUME NEW f \in Ops, NEW n \in Nat
  PROVE  \E b : /\ b = [f EXCEPT !.lost = n] /\ b \in Ops /\ b.kind = f.kind /\ b.do = f.do /\ b.x = f.x
                /\ b.bad = f.bad /\ b.lost = n
<1> DEFINE b == [f EXCEPT !.lost = n]
<1>1. b \in Ops
  BY DEF Ops
<1>2. b.kind = f.kind /\ b.do = f.do /\ b.x = f.x /\ b.bad = f.bad /\ b.lost = n
  BY DEF Ops
<1> QED
  BY <1>1, <1>2

LEMMA TwoOps ==
  ASSUME NEW a \in Ops, NEW b \in Ops
  PROVE  \E c : /\ c = <<a, b>> /\ c \in Seq(Ops) /\ c # <<>> /\ Len(c) = 2
                /\ c[1] = a /\ c[2] = b
<1> DEFINE c == <<a, b>>
<1>1. /\ c \in Seq(Ops) /\ c # <<>> /\ Len(c) = 2
      /\ c[1] = a /\ c[2] = b
  OBVIOUS
<1> QED
  BY <1>1

LEMMA ThreeOps ==
  ASSUME NEW a \in Ops, NEW b \in Ops, NEW d \in Ops
  PROVE  \E c : /\ c = <<a, b, d>> /\ c \in Seq(Ops) /\ c # <<>> /\ Len(c) = 3
                /\ c[1] = a /\ c[2] = b /\ c[3] = d
<1> DEFINE c == <<a, b, d>>
<1>1. /\ c \in Seq(Ops) /\ c # <<>> /\ Len(c) = 3
      /\ c[1] = a /\ c[2] = b /\ c[3] = d
  OBVIOUS
<1> QED
  BY <1>1

LEMMA FourOps ==
  ASSUME NEW a \in Ops, NEW b \in Ops, NEW d \in Ops, NEW e \in Ops
  PROVE  \E c : /\ c = <<a, b, d, e>> /\ c \in Seq(Ops) /\ c # <<>> /\ Len(c) = 4
                /\ c[1] = a /\ c[2] = b /\ c[3] = d /\ c[4] = e
<1> DEFINE c == <<a, b, d, e>>
<1>1. /\ c \in Seq(Ops) /\ c # <<>> /\ Len(c) = 4
      /\ c[1] = a /\ c[2] = b /\ c[3] = d /\ c[4] = e
  OBVIOUS
<1> QED
  BY <1>1

(* Two or more steps of a call, of which each expects those before it. *)
LEMMA SelectWhole ==
  ASSUME NEW x \in {0, 1}
  PROVE  Mild(<<R("select", x, All), L("context", FALSE)>>)
<1>1. PICK a : a = R("select", x, All) /\ IsR(a, "select", x, All)
  BY Request, DosAre, ArgumentsAre, Zenon
<1>2. PICK b : b = L("context", FALSE) /\ IsL(b, "context", FALSE)
  BY Local, DosAre, ArgumentsAre, Zenon
<1>3. a \in Ops /\ b \in Ops
  BY <1>1, <1>2 DEF IsR, IsL
<1>4. PICK c : /\ c = <<a, b>> /\ c \in Seq(Ops) /\ c # <<>> /\ Len(c) = 2
             /\ c[1] = a /\ c[2] = b
  BY <1>3, TwoOps
<1>5. /\ c[1].kind = "request" /\ c[1].do = "select" /\ c[1].bad = All /\ c[1].lost = All /\ c[1].x = x
      /\ c[2].kind = "local" /\ c[2].do = "context" /\ c[2].x = FALSE
  BY <1>1, <1>2, <1>4 DEF IsR, IsL
<1>6. \A i \in 1..Len(c) : i = 1 \/ i = 2
  BY <1>4
<1>7. /\ ~NeedsInfo(c, 1) /\ ~NeedsVars(c, 1) /\ ~NeedsInvalid(c, 1) /\ ~NeedsList(c, 1) /\ ~HeadOnly(c, 1)
      /\ ~NeedsInfo(c, 2) /\ ~NeedsVars(c, 2) /\ ~NeedsInvalid(c, 2) /\ ~NeedsList(c, 2) /\ ~HeadOnly(c, 2)
  BY <1>4, <1>5 DEF NeedsInfo, NeedsVars, NeedsInvalid, NeedsList, HeadOnly, Writes
<1>8. Plain(c, 1)
  BY <1>7 DEF Plain
<1>9. Follows(c, 1)
  BY <1>5, <1>7 DEF Follows
<1>10. Fails(c, 1, All)
  BY <1>4, <1>5 DEF Fails
<1>11. Flow(c)
  BY <1>9, <1>10, <1>6, <1>5, <1>4 DEF Flow
<1>12. Paired(c) /\ Listed(c)
  BY <1>4, <1>5, <1>6 DEF Paired, Listed, Alters
<1>13. Fitted(c)
  BY <1>4, <1>5, <1>6 DEF Fitted, Fits, Kinds
<1>14. \A i \in 1..Len(c) : c[i].do \notin Reserved
  BY <1>5, <1>6 DEF Reserved, Leaving
<1>15. NoAlters(c)
  BY <1>4, <1>5, <1>6 DEF NoAlters, Alters
<1>16. Mild(c)
  BY <1>4, <1>8, <1>11, <1>12, <1>13, <1>14, <1>15 DEF Mild, Whole, Sound
<1> QED
  BY <1>1, <1>2, <1>4, <1>16

LEMMA InsertWhole ==
  ASSUME NEW x \in Lines \cup {0}
  PROVE  Whole(<<R("insert", x, All), R("breaks", 0, 0)>>)
<1>1. PICK a : a = R("insert", x, All) /\ IsR(a, "insert", x, All)
  BY Request, DosAre, ArgumentsAre, Zenon
<1>2. PICK b : b = R("breaks", 0, 0) /\ IsR(b, "breaks", 0, 0)
  BY Request, DosAre, ArgumentsAre, Zenon
<1>3. a \in Ops /\ b \in Ops
  BY <1>1, <1>2 DEF IsR, IsL
<1>4. PICK c : /\ c = <<a, b>> /\ c \in Seq(Ops) /\ c # <<>> /\ Len(c) = 2
             /\ c[1] = a /\ c[2] = b
  BY <1>3, TwoOps
<1>5. /\ c[1].kind = "request" /\ c[1].do = "insert" /\ c[1].bad = All /\ c[1].lost = All /\ c[1].x = x
      /\ c[2].kind = "request" /\ c[2].do = "breaks" /\ c[2].bad = 0 /\ c[2].lost = 0
  BY <1>1, <1>2, <1>4 DEF IsR, IsL
<1>6. \A i \in 1..Len(c) : i = 1 \/ i = 2
  BY <1>4
<1>7. /\ ~NeedsInfo(c, 1) /\ ~NeedsVars(c, 1) /\ ~NeedsInvalid(c, 1) /\ ~NeedsList(c, 1) /\ ~HeadOnly(c, 1)
      /\ ~NeedsInfo(c, 2) /\ ~NeedsVars(c, 2) /\ ~NeedsInvalid(c, 2) /\ ~NeedsList(c, 2) /\ ~HeadOnly(c, 2)
  BY <1>4, <1>5 DEF NeedsInfo, NeedsVars, NeedsInvalid, NeedsList, HeadOnly, Writes
<1>8. Plain(c, 1)
  BY <1>7 DEF Plain
<1>9. Follows(c, 1)
  BY <1>5, <1>7 DEF Follows
<1>10. Fails(c, 1, All) /\ Fails(c, 2, 0)
  BY <1>4, <1>5 DEF Fails
<1>11. Flow(c)
  BY <1>9, <1>10, <1>6, <1>5, <1>4 DEF Flow
<1>12. Paired(c) /\ Listed(c)
  BY <1>4, <1>5, <1>6 DEF Paired, Listed, Alters
<1>13. Fitted(c)
  BY <1>4, <1>5, <1>6 DEF Fitted, Fits, Kinds
<1>14. \A i \in 1..Len(c) : c[i].do \notin Reserved
  BY <1>5, <1>6 DEF Reserved, Leaving
<1>15. Whole(c)
  BY <1>4, <1>8, <1>11, <1>12, <1>13, <1>14 DEF Whole, Sound
<1> QED
  BY <1>1, <1>2, <1>4, <1>15

LEMMA DeleteWhole ==
  ASSUME NEW x \in Nat
  PROVE  Whole(<<R("delete", x, All), R("breaks", 0, 0)>>)
<1>1. PICK a : a = R("delete", x, All) /\ IsR(a, "delete", x, All)
  BY Request, DosAre, ArgumentsAre, Zenon
<1>2. PICK b : b = R("breaks", 0, 0) /\ IsR(b, "breaks", 0, 0)
  BY Request, DosAre, ArgumentsAre, Zenon
<1>3. a \in Ops /\ b \in Ops
  BY <1>1, <1>2 DEF IsR, IsL
<1>4. PICK c : /\ c = <<a, b>> /\ c \in Seq(Ops) /\ c # <<>> /\ Len(c) = 2
             /\ c[1] = a /\ c[2] = b
  BY <1>3, TwoOps
<1>5. /\ c[1].kind = "request" /\ c[1].do = "delete" /\ c[1].bad = All /\ c[1].lost = All
      /\ c[2].kind = "request" /\ c[2].do = "breaks" /\ c[2].bad = 0 /\ c[2].lost = 0
  BY <1>1, <1>2, <1>4 DEF IsR, IsL
<1>6. \A i \in 1..Len(c) : i = 1 \/ i = 2
  BY <1>4
<1>7. /\ ~NeedsInfo(c, 1) /\ ~NeedsVars(c, 1) /\ ~NeedsInvalid(c, 1) /\ ~NeedsList(c, 1) /\ ~HeadOnly(c, 1)
      /\ ~NeedsInfo(c, 2) /\ ~NeedsVars(c, 2) /\ ~NeedsInvalid(c, 2) /\ ~NeedsList(c, 2) /\ ~HeadOnly(c, 2)
  BY <1>4, <1>5 DEF NeedsInfo, NeedsVars, NeedsInvalid, NeedsList, HeadOnly, Writes
<1>8. Plain(c, 1)
  BY <1>7 DEF Plain
<1>9. Follows(c, 1)
  BY <1>5, <1>7 DEF Follows
<1>10. Fails(c, 1, All) /\ Fails(c, 2, 0)
  BY <1>4, <1>5 DEF Fails
<1>11. Flow(c)
  BY <1>9, <1>10, <1>6, <1>5, <1>4 DEF Flow
<1>12. Paired(c) /\ Listed(c)
  BY <1>4, <1>5, <1>6 DEF Paired, Listed, Alters
<1>13. Fitted(c)
  BY <1>4, <1>5, <1>6 DEF Fitted, Fits, Kinds
<1>14. \A i \in 1..Len(c) : c[i].do \notin Reserved
  BY <1>5, <1>6 DEF Reserved, Leaving
<1>15. Whole(c)
  BY <1>4, <1>8, <1>11, <1>12, <1>13, <1>14 DEF Whole, Sound
<1> QED
  BY <1>1, <1>2, <1>4, <1>15

LEMMA ToggleWhole ==
  ASSUME NEW x \in Nat
  PROVE  Whole(<<R("toggle", x, All), R("breaks", 0, 0)>>)
<1>1. PICK a : a = R("toggle", x, All) /\ IsR(a, "toggle", x, All)
  BY Request, DosAre, ArgumentsAre, Zenon
<1>2. PICK b : b = R("breaks", 0, 0) /\ IsR(b, "breaks", 0, 0)
  BY Request, DosAre, ArgumentsAre, Zenon
<1>3. a \in Ops /\ b \in Ops
  BY <1>1, <1>2 DEF IsR, IsL
<1>4. PICK c : /\ c = <<a, b>> /\ c \in Seq(Ops) /\ c # <<>> /\ Len(c) = 2
             /\ c[1] = a /\ c[2] = b
  BY <1>3, TwoOps
<1>5. /\ c[1].kind = "request" /\ c[1].do = "toggle" /\ c[1].bad = All /\ c[1].lost = All
      /\ c[2].kind = "request" /\ c[2].do = "breaks" /\ c[2].bad = 0 /\ c[2].lost = 0
  BY <1>1, <1>2, <1>4 DEF IsR, IsL
<1>6. \A i \in 1..Len(c) : i = 1 \/ i = 2
  BY <1>4
<1>7. /\ ~NeedsInfo(c, 1) /\ ~NeedsVars(c, 1) /\ ~NeedsInvalid(c, 1) /\ ~NeedsList(c, 1) /\ ~HeadOnly(c, 1)
      /\ ~NeedsInfo(c, 2) /\ ~NeedsVars(c, 2) /\ ~NeedsInvalid(c, 2) /\ ~NeedsList(c, 2) /\ ~HeadOnly(c, 2)
  BY <1>4, <1>5 DEF NeedsInfo, NeedsVars, NeedsInvalid, NeedsList, HeadOnly, Writes
<1>8. Plain(c, 1)
  BY <1>7 DEF Plain
<1>9. Follows(c, 1)
  BY <1>5, <1>7 DEF Follows
<1>10. Fails(c, 1, All) /\ Fails(c, 2, 0)
  BY <1>4, <1>5 DEF Fails
<1>11. Flow(c)
  BY <1>9, <1>10, <1>6, <1>5, <1>4 DEF Flow
<1>12. Paired(c) /\ Listed(c)
  BY <1>4, <1>5, <1>6 DEF Paired, Listed, Alters
<1>13. Fitted(c)
  BY <1>4, <1>5, <1>6 DEF Fitted, Fits, Kinds
<1>14. \A i \in 1..Len(c) : c[i].do \notin Reserved
  BY <1>5, <1>6 DEF Reserved, Leaving
<1>15. Whole(c)
  BY <1>4, <1>8, <1>11, <1>12, <1>13, <1>14 DEF Whole, Sound
<1> QED
  BY <1>1, <1>2, <1>4, <1>15

LEMMA PrintWhole ==
  Mild(<<L("invalidate", 0), R("eval", 0, All)>>)
<1>1. PICK a : a = L("invalidate", 0) /\ IsL(a, "invalidate", 0)
  BY Local, DosAre, ArgumentsAre, Zenon
<1>2. PICK b : b = R("eval", 0, All) /\ IsR(b, "eval", 0, All)
  BY Request, DosAre, ArgumentsAre, Zenon
<1>3. a \in Ops /\ b \in Ops
  BY <1>1, <1>2 DEF IsR, IsL
<1>4. PICK c : /\ c = <<a, b>> /\ c \in Seq(Ops) /\ c # <<>> /\ Len(c) = 2
             /\ c[1] = a /\ c[2] = b
  BY <1>3, TwoOps
<1>5. /\ c[1].kind = "local" /\ c[1].do = "invalidate"
      /\ c[2].kind = "request" /\ c[2].do = "eval" /\ c[2].bad = All /\ c[2].lost = All
  BY <1>1, <1>2, <1>4 DEF IsR, IsL
<1>6. \A i \in 1..Len(c) : i = 1 \/ i = 2
  BY <1>4
<1>7. /\ ~NeedsInfo(c, 1) /\ ~NeedsVars(c, 1) /\ ~NeedsInvalid(c, 1) /\ ~NeedsList(c, 1) /\ ~HeadOnly(c, 1)
      /\ ~NeedsInfo(c, 2) /\ ~NeedsVars(c, 2) /\ NeedsInvalid(c, 2) /\ ~NeedsList(c, 2) /\ ~HeadOnly(c, 2)
  BY <1>4, <1>5 DEF NeedsInfo, NeedsVars, NeedsInvalid, NeedsList, HeadOnly, Writes
<1>8. Plain(c, 1)
  BY <1>7 DEF Plain
<1>9. Follows(c, 1)
  BY <1>5, <1>7 DEF Follows
<1>10. Fails(c, 2, All)
  BY <1>4, <1>5 DEF Fails
<1>11. Flow(c)
  BY <1>9, <1>10, <1>6, <1>5, <1>4 DEF Flow
<1>12. Paired(c) /\ Listed(c)
  BY <1>4, <1>5, <1>6 DEF Paired, Listed, Alters
<1>13. Fitted(c)
  BY <1>4, <1>5, <1>6 DEF Fitted, Fits, Kinds
<1>14. \A i \in 1..Len(c) : c[i].do \notin Reserved
  BY <1>5, <1>6 DEF Reserved, Leaving
<1>15. NoAlters(c)
  BY <1>4, <1>5, <1>6 DEF NoAlters, Alters
<1>16. Mild(c)
  BY <1>4, <1>8, <1>11, <1>12, <1>13, <1>14, <1>15 DEF Mild, Whole, Sound
<1> QED
  BY <1>1, <1>2, <1>4, <1>16

LEMMA EvaluateWhole ==
  Mild(<<L("invalidate", 0), R("eval", 0, 0)>>)
<1>1. PICK a : a = L("invalidate", 0) /\ IsL(a, "invalidate", 0)
  BY Local, DosAre, ArgumentsAre, Zenon
<1>2. PICK b : b = R("eval", 0, 0) /\ IsR(b, "eval", 0, 0)
  BY Request, DosAre, ArgumentsAre, Zenon
<1>3. a \in Ops /\ b \in Ops
  BY <1>1, <1>2 DEF IsR, IsL
<1>4. PICK c : /\ c = <<a, b>> /\ c \in Seq(Ops) /\ c # <<>> /\ Len(c) = 2
             /\ c[1] = a /\ c[2] = b
  BY <1>3, TwoOps
<1>5. /\ c[1].kind = "local" /\ c[1].do = "invalidate"
      /\ c[2].kind = "request" /\ c[2].do = "eval" /\ c[2].bad = 0 /\ c[2].lost = 0
  BY <1>1, <1>2, <1>4 DEF IsR, IsL
<1>6. \A i \in 1..Len(c) : i = 1 \/ i = 2
  BY <1>4
<1>7. /\ ~NeedsInfo(c, 1) /\ ~NeedsVars(c, 1) /\ ~NeedsInvalid(c, 1) /\ ~NeedsList(c, 1) /\ ~HeadOnly(c, 1)
      /\ ~NeedsInfo(c, 2) /\ ~NeedsVars(c, 2) /\ NeedsInvalid(c, 2) /\ ~NeedsList(c, 2) /\ ~HeadOnly(c, 2)
  BY <1>4, <1>5 DEF NeedsInfo, NeedsVars, NeedsInvalid, NeedsList, HeadOnly, Writes
<1>8. Plain(c, 1)
  BY <1>7 DEF Plain
<1>9. Follows(c, 1)
  BY <1>5, <1>7 DEF Follows
<1>10. Fails(c, 2, 0)
  BY <1>4, <1>5 DEF Fails
<1>11. Flow(c)
  BY <1>9, <1>10, <1>6, <1>5, <1>4 DEF Flow
<1>12. Paired(c) /\ Listed(c)
  BY <1>4, <1>5, <1>6 DEF Paired, Listed, Alters
<1>13. Fitted(c)
  BY <1>4, <1>5, <1>6 DEF Fitted, Fits, Kinds
<1>14. \A i \in 1..Len(c) : c[i].do \notin Reserved
  BY <1>5, <1>6 DEF Reserved, Leaving
<1>15. NoAlters(c)
  BY <1>4, <1>5, <1>6 DEF NoAlters, Alters
<1>16. Mild(c)
  BY <1>4, <1>8, <1>11, <1>12, <1>13, <1>14, <1>15 DEF Mild, Whole, Sound
<1> QED
  BY <1>1, <1>2, <1>4, <1>16

LEMMA AssignWhole ==
  Mild(<<L("invalidate", 0), R("assign", 0, All)>>)
<1>1. PICK a : a = L("invalidate", 0) /\ IsL(a, "invalidate", 0)
  BY Local, DosAre, ArgumentsAre, Zenon
<1>2. PICK b : b = R("assign", 0, All) /\ IsR(b, "assign", 0, All)
  BY Request, DosAre, ArgumentsAre, Zenon
<1>3. a \in Ops /\ b \in Ops
  BY <1>1, <1>2 DEF IsR, IsL
<1>4. PICK c : /\ c = <<a, b>> /\ c \in Seq(Ops) /\ c # <<>> /\ Len(c) = 2
             /\ c[1] = a /\ c[2] = b
  BY <1>3, TwoOps
<1>5. /\ c[1].kind = "local" /\ c[1].do = "invalidate"
      /\ c[2].kind = "request" /\ c[2].do = "assign" /\ c[2].bad = All /\ c[2].lost = All
  BY <1>1, <1>2, <1>4 DEF IsR, IsL
<1>6. \A i \in 1..Len(c) : i = 1 \/ i = 2
  BY <1>4
<1>7. /\ ~NeedsInfo(c, 1) /\ ~NeedsVars(c, 1) /\ ~NeedsInvalid(c, 1) /\ ~NeedsList(c, 1) /\ ~HeadOnly(c, 1)
      /\ ~NeedsInfo(c, 2) /\ ~NeedsVars(c, 2) /\ NeedsInvalid(c, 2) /\ ~NeedsList(c, 2) /\ ~HeadOnly(c, 2)
  BY <1>4, <1>5 DEF NeedsInfo, NeedsVars, NeedsInvalid, NeedsList, HeadOnly, Writes
<1>8. Plain(c, 1)
  BY <1>7 DEF Plain
<1>9. Follows(c, 1)
  BY <1>5, <1>7 DEF Follows
<1>10. Fails(c, 2, All)
  BY <1>4, <1>5 DEF Fails
<1>11. Flow(c)
  BY <1>9, <1>10, <1>6, <1>5, <1>4 DEF Flow
<1>12. Paired(c) /\ Listed(c)
  BY <1>4, <1>5, <1>6 DEF Paired, Listed, Alters
<1>13. Fitted(c)
  BY <1>4, <1>5, <1>6 DEF Fitted, Fits, Kinds
<1>14. \A i \in 1..Len(c) : c[i].do \notin Reserved
  BY <1>5, <1>6 DEF Reserved, Leaving
<1>15. NoAlters(c)
  BY <1>4, <1>5, <1>6 DEF NoAlters, Alters
<1>16. Mild(c)
  BY <1>4, <1>8, <1>11, <1>12, <1>13, <1>14, <1>15 DEF Mild, Whole, Sound
<1> QED
  BY <1>1, <1>2, <1>4, <1>16

LEMMA ReturnWhole ==
  Mild(<<L("invalidate", 0), R("return", 0, All)>>)
<1>1. PICK a : a = L("invalidate", 0) /\ IsL(a, "invalidate", 0)
  BY Local, DosAre, ArgumentsAre, Zenon
<1>2. PICK b : b = R("return", 0, All) /\ IsR(b, "return", 0, All)
  BY Request, DosAre, ArgumentsAre, Zenon
<1>3. a \in Ops /\ b \in Ops
  BY <1>1, <1>2 DEF IsR, IsL
<1>4. PICK c : /\ c = <<a, b>> /\ c \in Seq(Ops) /\ c # <<>> /\ Len(c) = 2
             /\ c[1] = a /\ c[2] = b
  BY <1>3, TwoOps
<1>5. /\ c[1].kind = "local" /\ c[1].do = "invalidate"
      /\ c[2].kind = "request" /\ c[2].do = "return" /\ c[2].bad = All /\ c[2].lost = All
  BY <1>1, <1>2, <1>4 DEF IsR, IsL
<1>6. \A i \in 1..Len(c) : i = 1 \/ i = 2
  BY <1>4
<1>7. /\ ~NeedsInfo(c, 1) /\ ~NeedsVars(c, 1) /\ ~NeedsInvalid(c, 1) /\ ~NeedsList(c, 1) /\ ~HeadOnly(c, 1)
      /\ ~NeedsInfo(c, 2) /\ ~NeedsVars(c, 2) /\ NeedsInvalid(c, 2) /\ ~NeedsList(c, 2) /\ ~HeadOnly(c, 2)
  BY <1>4, <1>5 DEF NeedsInfo, NeedsVars, NeedsInvalid, NeedsList, HeadOnly, Writes
<1>8. Plain(c, 1)
  BY <1>7 DEF Plain
<1>9. Follows(c, 1)
  BY <1>5, <1>7 DEF Follows
<1>10. Fails(c, 2, All)
  BY <1>4, <1>5 DEF Fails
<1>11. Flow(c)
  BY <1>9, <1>10, <1>6, <1>5, <1>4 DEF Flow
<1>12. Paired(c) /\ Listed(c)
  BY <1>4, <1>5, <1>6 DEF Paired, Listed, Alters
<1>13. Fitted(c)
  BY <1>4, <1>5, <1>6 DEF Fitted, Fits, Kinds
<1>14. \A i \in 1..Len(c) : c[i].do \notin Reserved
  BY <1>5, <1>6 DEF Reserved, Leaving
<1>15. NoAlters(c)
  BY <1>4, <1>5, <1>6 DEF NoAlters, Alters
<1>16. Mild(c)
  BY <1>4, <1>8, <1>11, <1>12, <1>13, <1>14, <1>15 DEF Mild, Whole, Sound
<1> QED
  BY <1>1, <1>2, <1>4, <1>16

LEMMA TypedWhole ==
  Mild(<<L("invalidate", 0), [R("typed", 0, 0) EXCEPT !.lost = All], R("return", 0, All)>>)
<1>1. PICK a : a = L("invalidate", 0) /\ IsL(a, "invalidate", 0)
  BY Local, DosAre, ArgumentsAre, Zenon
<1>2. PICK f : f = R("typed", 0, 0) /\ IsR(f, "typed", 0, 0)
  BY Request, DosAre, ArgumentsAre, Zenon
<1>3. f \in Ops /\ f.kind = "request" /\ f.do = "typed" /\ f.x = 0 /\ f.bad = 0
  BY <1>2 DEF IsR
<1>4. All \in Nat
  BY ArgumentsAre
<1>5. PICK b : b = [f EXCEPT !.lost = All] /\ b \in Ops /\ b.kind = "request" /\ b.do = "typed" /\ b.x = 0 /\ b.bad = 0 /\ b.lost = All
  BY <1>3, <1>4, LostSet
<1>6. PICK d : d = R("return", 0, All) /\ IsR(d, "return", 0, All)
  BY Request, DosAre, ArgumentsAre, Zenon
<1>7. a \in Ops /\ b \in Ops /\ d \in Ops
  BY <1>1, <1>2, <1>5, <1>6 DEF IsR, IsL
<1>8. PICK c : /\ c = <<a, b, d>> /\ c \in Seq(Ops) /\ c # <<>> /\ Len(c) = 3
             /\ c[1] = a /\ c[2] = b /\ c[3] = d
  BY <1>7, ThreeOps
<1>9. /\ c[1].kind = "local" /\ c[1].do = "invalidate"
      /\ c[2].kind = "request" /\ c[2].do = "typed" /\ c[2].bad = 0 /\ c[2].lost = All
      /\ c[3].kind = "request" /\ c[3].do = "return" /\ c[3].bad = All /\ c[3].lost = All
  BY <1>1, <1>2, <1>5, <1>6, <1>8 DEF IsR, IsL
<1>10. \A i \in 1..Len(c) : i = 1 \/ i = 2 \/ i = 3
  BY <1>8
<1>11. /\ ~NeedsInfo(c, 1) /\ ~NeedsVars(c, 1) /\ ~NeedsInvalid(c, 1) /\ ~NeedsList(c, 1) /\ ~HeadOnly(c, 1)
      /\ ~NeedsInfo(c, 2) /\ ~NeedsVars(c, 2) /\ NeedsInvalid(c, 2) /\ ~NeedsList(c, 2) /\ ~HeadOnly(c, 2)
      /\ ~NeedsInfo(c, 3) /\ ~NeedsVars(c, 3) /\ NeedsInvalid(c, 3) /\ ~NeedsList(c, 3) /\ ~HeadOnly(c, 3)
  BY <1>8, <1>9 DEF NeedsInfo, NeedsVars, NeedsInvalid, NeedsList, HeadOnly, Writes
<1>12. Plain(c, 1)
  BY <1>11 DEF Plain
<1>13. Follows(c, 1) /\ Follows(c, 2)
  BY <1>9, <1>11 DEF Follows
<1>14. Fails(c, 2, 0) /\ Fails(c, 2, All) /\ Fails(c, 3, All)
  BY <1>8, <1>9 DEF Fails
<1>15. Flow(c)
  BY <1>13, <1>14, <1>10, <1>9, <1>8 DEF Flow
<1>16. Paired(c) /\ Listed(c)
  BY <1>8, <1>9, <1>10 DEF Paired, Listed, Alters
<1>17. Fitted(c)
  BY <1>8, <1>9, <1>10 DEF Fitted, Fits, Kinds
<1>18. \A i \in 1..Len(c) : c[i].do \notin Reserved
  BY <1>9, <1>10 DEF Reserved, Leaving
<1>19. NoAlters(c)
  BY <1>8, <1>9, <1>10 DEF NoAlters, Alters
<1>20. Mild(c)
  BY <1>8, <1>12, <1>15, <1>16, <1>17, <1>18, <1>19 DEF Mild, Whole, Sound
<1> QED
  BY <1>1, <1>2, <1>5, <1>6, <1>8, <1>20

LEMMA VarWhole ==
  Mild(<<R("var", 0, All), R("vardelete", 0, 0)>>)
<1>1. PICK a : a = R("var", 0, All) /\ IsR(a, "var", 0, All)
  BY Request, DosAre, ArgumentsAre, Zenon
<1>2. PICK b : b = R("vardelete", 0, 0) /\ IsR(b, "vardelete", 0, 0)
  BY Request, DosAre, ArgumentsAre, Zenon
<1>3. a \in Ops /\ b \in Ops
  BY <1>1, <1>2 DEF IsR, IsL
<1>4. PICK c : /\ c = <<a, b>> /\ c \in Seq(Ops) /\ c # <<>> /\ Len(c) = 2
             /\ c[1] = a /\ c[2] = b
  BY <1>3, TwoOps
<1>5. /\ c[1].kind = "request" /\ c[1].do = "var" /\ c[1].bad = All /\ c[1].lost = All
      /\ c[2].kind = "request" /\ c[2].do = "vardelete" /\ c[2].bad = 0 /\ c[2].lost = 0
  BY <1>1, <1>2, <1>4 DEF IsR, IsL
<1>6. \A i \in 1..Len(c) : i = 1 \/ i = 2
  BY <1>4
<1>7. /\ ~NeedsInfo(c, 1) /\ ~NeedsVars(c, 1) /\ ~NeedsInvalid(c, 1) /\ ~NeedsList(c, 1) /\ ~HeadOnly(c, 1)
      /\ NeedsInfo(c, 2) /\ ~NeedsVars(c, 2) /\ ~NeedsInvalid(c, 2) /\ ~NeedsList(c, 2) /\ ~HeadOnly(c, 2)
  BY <1>4, <1>5 DEF NeedsInfo, NeedsVars, NeedsInvalid, NeedsList, HeadOnly, Writes
<1>8. Plain(c, 1)
  BY <1>7 DEF Plain
<1>9. Follows(c, 1)
  BY <1>5, <1>7 DEF Follows
<1>10. Fails(c, 1, All) /\ Fails(c, 2, 0)
  BY <1>4, <1>5 DEF Fails
<1>11. Flow(c)
  BY <1>9, <1>10, <1>6, <1>5, <1>4 DEF Flow
<1>12. Paired(c) /\ Listed(c)
  BY <1>4, <1>5, <1>6 DEF Paired, Listed, Alters
<1>13. Fitted(c)
  BY <1>4, <1>5, <1>6 DEF Fitted, Fits, Kinds
<1>14. \A i \in 1..Len(c) : c[i].do \notin Reserved
  BY <1>5, <1>6 DEF Reserved, Leaving
<1>15. NoAlters(c)
  BY <1>4, <1>5, <1>6 DEF NoAlters, Alters
<1>16. Mild(c)
  BY <1>4, <1>8, <1>11, <1>12, <1>13, <1>14, <1>15 DEF Mild, Whole, Sound
<1> QED
  BY <1>1, <1>2, <1>4, <1>16

LEMMA ChildrenWhole ==
  Mild(<<R("var", 0, 2), R("children", 0, 0), R("vardelete", 0, 0)>>)
<1>1. PICK a : a = R("var", 0, 2) /\ IsR(a, "var", 0, 2)
  BY Request, DosAre, ArgumentsAre, Zenon
<1>2. PICK b : b = R("children", 0, 0) /\ IsR(b, "children", 0, 0)
  BY Request, DosAre, ArgumentsAre, Zenon
<1>3. PICK d : d = R("vardelete", 0, 0) /\ IsR(d, "vardelete", 0, 0)
  BY Request, DosAre, ArgumentsAre, Zenon
<1>4. a \in Ops /\ b \in Ops /\ d \in Ops
  BY <1>1, <1>2, <1>3 DEF IsR, IsL
<1>5. PICK c : /\ c = <<a, b, d>> /\ c \in Seq(Ops) /\ c # <<>> /\ Len(c) = 3
             /\ c[1] = a /\ c[2] = b /\ c[3] = d
  BY <1>4, ThreeOps
<1>6. /\ c[1].kind = "request" /\ c[1].do = "var" /\ c[1].bad = 2 /\ c[1].lost = 2
      /\ c[2].kind = "request" /\ c[2].do = "children" /\ c[2].bad = 0 /\ c[2].lost = 0
      /\ c[3].kind = "request" /\ c[3].do = "vardelete" /\ c[3].bad = 0 /\ c[3].lost = 0
  BY <1>1, <1>2, <1>3, <1>5 DEF IsR, IsL
<1>7. \A i \in 1..Len(c) : i = 1 \/ i = 2 \/ i = 3
  BY <1>5
<1>8. /\ ~NeedsInfo(c, 1) /\ ~NeedsVars(c, 1) /\ ~NeedsInvalid(c, 1) /\ ~NeedsList(c, 1) /\ ~HeadOnly(c, 1)
      /\ NeedsInfo(c, 2) /\ ~NeedsVars(c, 2) /\ ~NeedsInvalid(c, 2) /\ ~NeedsList(c, 2) /\ ~HeadOnly(c, 2)
      /\ NeedsInfo(c, 3) /\ ~NeedsVars(c, 3) /\ ~NeedsInvalid(c, 3) /\ ~NeedsList(c, 3) /\ ~HeadOnly(c, 3)
  BY <1>5, <1>6 DEF NeedsInfo, NeedsVars, NeedsInvalid, NeedsList, HeadOnly, Writes
<1>9. Plain(c, 1)
  BY <1>8 DEF Plain
<1>10. Follows(c, 1) /\ Follows(c, 2)
  BY <1>6, <1>8 DEF Follows
<1>11. Fails(c, 1, 2) /\ Fails(c, 2, 0) /\ Fails(c, 3, 0)
  BY <1>5, <1>6 DEF Fails
<1>12. Flow(c)
  BY <1>10, <1>11, <1>7, <1>6, <1>5 DEF Flow
<1>13. Paired(c) /\ Listed(c)
  BY <1>5, <1>6, <1>7 DEF Paired, Listed, Alters
<1>14. Fitted(c)
  BY <1>5, <1>6, <1>7 DEF Fitted, Fits, Kinds
<1>15. \A i \in 1..Len(c) : c[i].do \notin Reserved
  BY <1>6, <1>7 DEF Reserved, Leaving
<1>16. NoAlters(c)
  BY <1>5, <1>6, <1>7 DEF NoAlters, Alters
<1>17. Mild(c)
  BY <1>5, <1>9, <1>12, <1>13, <1>14, <1>15, <1>16 DEF Mild, Whole, Sound
<1> QED
  BY <1>1, <1>2, <1>3, <1>5, <1>17

LEMMA ExpandWhole ==
  ASSUME NEW x \in Nat, x <= g.rev
  PROVE  Mild(<<R("var", 0, 3), R("children", 0, 0), R("vardelete", 0, 0), L("expanded", x)>>)
<1>1. PICK a : a = R("var", 0, 3) /\ IsR(a, "var", 0, 3)
  BY Request, DosAre, ArgumentsAre, Zenon
<1>2. PICK b : b = R("children", 0, 0) /\ IsR(b, "children", 0, 0)
  BY Request, DosAre, ArgumentsAre, Zenon
<1>3. PICK d : d = R("vardelete", 0, 0) /\ IsR(d, "vardelete", 0, 0)
  BY Request, DosAre, ArgumentsAre, Zenon
<1>4. PICK e : e = L("expanded", x) /\ IsL(e, "expanded", x)
  BY Local, DosAre, ArgumentsAre, Zenon
<1>5. a \in Ops /\ b \in Ops /\ d \in Ops /\ e \in Ops
  BY <1>1, <1>2, <1>3, <1>4 DEF IsR, IsL
<1>6. PICK c : /\ c = <<a, b, d, e>> /\ c \in Seq(Ops) /\ c # <<>> /\ Len(c) = 4
             /\ c[1] = a /\ c[2] = b /\ c[3] = d /\ c[4] = e
  BY <1>5, FourOps
<1>7. /\ c[1].kind = "request" /\ c[1].do = "var" /\ c[1].bad = 3 /\ c[1].lost = 3
      /\ c[2].kind = "request" /\ c[2].do = "children" /\ c[2].bad = 0 /\ c[2].lost = 0
      /\ c[3].kind = "request" /\ c[3].do = "vardelete" /\ c[3].bad = 0 /\ c[3].lost = 0
      /\ c[4].kind = "local" /\ c[4].do = "expanded" /\ c[4].x = x
  BY <1>1, <1>2, <1>3, <1>4, <1>6 DEF IsR, IsL
<1>8. \A i \in 1..Len(c) : i = 1 \/ i = 2 \/ i = 3 \/ i = 4
  BY <1>6
<1>9. /\ ~NeedsInfo(c, 1) /\ ~NeedsVars(c, 1) /\ ~NeedsInvalid(c, 1) /\ ~NeedsList(c, 1) /\ ~HeadOnly(c, 1)
      /\ NeedsInfo(c, 2) /\ ~NeedsVars(c, 2) /\ ~NeedsInvalid(c, 2) /\ ~NeedsList(c, 2) /\ ~HeadOnly(c, 2)
      /\ NeedsInfo(c, 3) /\ ~NeedsVars(c, 3) /\ ~NeedsInvalid(c, 3) /\ ~NeedsList(c, 3) /\ ~HeadOnly(c, 3)
      /\ NeedsInfo(c, 4) /\ ~NeedsVars(c, 4) /\ ~NeedsInvalid(c, 4) /\ ~NeedsList(c, 4) /\ ~HeadOnly(c, 4)
  BY <1>6, <1>7 DEF NeedsInfo, NeedsVars, NeedsInvalid, NeedsList, HeadOnly, Writes
<1>10. Plain(c, 1)
  BY <1>9 DEF Plain
<1>11. Follows(c, 1) /\ Follows(c, 2) /\ Follows(c, 3)
  BY <1>7, <1>9 DEF Follows
<1>12. Fails(c, 1, 3) /\ Fails(c, 2, 0) /\ Fails(c, 3, 0)
  BY <1>6, <1>7 DEF Fails
<1>13. Flow(c)
  BY <1>11, <1>12, <1>8, <1>7, <1>6 DEF Flow
<1>14. Paired(c) /\ Listed(c)
  BY <1>6, <1>7, <1>8 DEF Paired, Listed, Alters
<1>15. Fitted(c)
  BY <1>6, <1>7, <1>8 DEF Fitted, Fits, Kinds
<1>16. \A i \in 1..Len(c) : c[i].do \notin Reserved
  BY <1>7, <1>8 DEF Reserved, Leaving
<1>17. NoAlters(c)
  BY <1>6, <1>7, <1>8 DEF NoAlters, Alters
<1>18. Mild(c)
  BY <1>6, <1>10, <1>13, <1>14, <1>15, <1>16, <1>17 DEF Mild, Whole, Sound
<1> QED
  BY <1>1, <1>2, <1>3, <1>4, <1>6, <1>18

LEMMA ReexpandWhole ==
  Mild(<<R("var", 0, 3), R("children", 0, 0), R("vardelete", 0, 0), L("reexpanded", 0)>>)
<1>1. PICK a : a = R("var", 0, 3) /\ IsR(a, "var", 0, 3)
  BY Request, DosAre, ArgumentsAre, Zenon
<1>2. PICK b : b = R("children", 0, 0) /\ IsR(b, "children", 0, 0)
  BY Request, DosAre, ArgumentsAre, Zenon
<1>3. PICK d : d = R("vardelete", 0, 0) /\ IsR(d, "vardelete", 0, 0)
  BY Request, DosAre, ArgumentsAre, Zenon
<1>4. PICK e : e = L("reexpanded", 0) /\ IsL(e, "reexpanded", 0)
  BY Local, DosAre, ArgumentsAre, Zenon
<1>5. a \in Ops /\ b \in Ops /\ d \in Ops /\ e \in Ops
  BY <1>1, <1>2, <1>3, <1>4 DEF IsR, IsL
<1>6. PICK c : /\ c = <<a, b, d, e>> /\ c \in Seq(Ops) /\ c # <<>> /\ Len(c) = 4
             /\ c[1] = a /\ c[2] = b /\ c[3] = d /\ c[4] = e
  BY <1>5, FourOps
<1>7. /\ c[1].kind = "request" /\ c[1].do = "var" /\ c[1].bad = 3 /\ c[1].lost = 3
      /\ c[2].kind = "request" /\ c[2].do = "children" /\ c[2].bad = 0 /\ c[2].lost = 0
      /\ c[3].kind = "request" /\ c[3].do = "vardelete" /\ c[3].bad = 0 /\ c[3].lost = 0
      /\ c[4].kind = "local" /\ c[4].do = "reexpanded"
  BY <1>1, <1>2, <1>3, <1>4, <1>6 DEF IsR, IsL
<1>8. \A i \in 1..Len(c) : i = 1 \/ i = 2 \/ i = 3 \/ i = 4
  BY <1>6
<1>9. /\ ~NeedsInfo(c, 1) /\ ~NeedsVars(c, 1) /\ ~NeedsInvalid(c, 1) /\ ~NeedsList(c, 1) /\ ~HeadOnly(c, 1)
      /\ NeedsInfo(c, 2) /\ ~NeedsVars(c, 2) /\ ~NeedsInvalid(c, 2) /\ ~NeedsList(c, 2) /\ ~HeadOnly(c, 2)
      /\ NeedsInfo(c, 3) /\ ~NeedsVars(c, 3) /\ ~NeedsInvalid(c, 3) /\ ~NeedsList(c, 3) /\ ~HeadOnly(c, 3)
      /\ NeedsInfo(c, 4) /\ ~NeedsVars(c, 4) /\ ~NeedsInvalid(c, 4) /\ ~NeedsList(c, 4) /\ ~HeadOnly(c, 4)
  BY <1>6, <1>7 DEF NeedsInfo, NeedsVars, NeedsInvalid, NeedsList, HeadOnly, Writes
<1>10. Plain(c, 1)
  BY <1>9 DEF Plain
<1>11. Follows(c, 1) /\ Follows(c, 2) /\ Follows(c, 3)
  BY <1>7, <1>9 DEF Follows
<1>12. Fails(c, 1, 3) /\ Fails(c, 2, 0) /\ Fails(c, 3, 0)
  BY <1>6, <1>7 DEF Fails
<1>13. Flow(c)
  BY <1>11, <1>12, <1>8, <1>7, <1>6 DEF Flow
<1>14. Paired(c) /\ Listed(c)
  BY <1>6, <1>7, <1>8 DEF Paired, Listed, Alters
<1>15. Fitted(c)
  BY <1>6, <1>7, <1>8 DEF Fitted, Fits, Kinds
<1>16. \A i \in 1..Len(c) : c[i].do \notin Reserved
  BY <1>7, <1>8 DEF Reserved, Leaving
<1>17. NoAlters(c)
  BY <1>6, <1>7, <1>8 DEF NoAlters, Alters
<1>18. Mild(c)
  BY <1>6, <1>10, <1>13, <1>14, <1>15, <1>16, <1>17 DEF Mild, Whole, Sound
<1> QED
  BY <1>1, <1>2, <1>3, <1>4, <1>6, <1>18

LEMMA NoVarsWhole ==
  Mild(<<L("novars", 0), L("vars", 0)>>)
<1>1. PICK a : a = L("novars", 0) /\ IsL(a, "novars", 0)
  BY Local, DosAre, ArgumentsAre, Zenon
<1>2. PICK b : b = L("vars", 0) /\ IsL(b, "vars", 0)
  BY Local, DosAre, ArgumentsAre, Zenon
<1>3. a \in Ops /\ b \in Ops
  BY <1>1, <1>2 DEF IsR, IsL
<1>4. PICK c : /\ c = <<a, b>> /\ c \in Seq(Ops) /\ c # <<>> /\ Len(c) = 2
             /\ c[1] = a /\ c[2] = b
  BY <1>3, TwoOps
<1>5. /\ c[1].kind = "local" /\ c[1].do = "novars"
      /\ c[2].kind = "local" /\ c[2].do = "vars"
  BY <1>1, <1>2, <1>4 DEF IsR, IsL
<1>6. \A i \in 1..Len(c) : i = 1 \/ i = 2
  BY <1>4
<1>7. /\ ~NeedsInfo(c, 1) /\ ~NeedsVars(c, 1) /\ ~NeedsInvalid(c, 1) /\ ~NeedsList(c, 1) /\ ~HeadOnly(c, 1)
      /\ ~NeedsInfo(c, 2) /\ NeedsVars(c, 2) /\ ~NeedsInvalid(c, 2) /\ ~NeedsList(c, 2) /\ ~HeadOnly(c, 2)
  BY <1>4, <1>5 DEF NeedsInfo, NeedsVars, NeedsInvalid, NeedsList, HeadOnly, Writes
<1>8. Plain(c, 1)
  BY <1>7 DEF Plain
<1>9. Follows(c, 1)
  BY <1>5, <1>7 DEF Follows
<1>10. Flow(c)
  BY <1>9, <1>6, <1>5, <1>4 DEF Flow
<1>11. Paired(c) /\ Listed(c)
  BY <1>4, <1>5, <1>6 DEF Paired, Listed, Alters
<1>12. Fitted(c)
  BY <1>4, <1>5, <1>6 DEF Fitted, Fits, Kinds
<1>13. \A i \in 1..Len(c) : c[i].do \notin Reserved
  BY <1>5, <1>6 DEF Reserved, Leaving
<1>14. NoAlters(c)
  BY <1>4, <1>5, <1>6 DEF NoAlters, Alters
<1>15. Mild(c)
  BY <1>4, <1>8, <1>10, <1>11, <1>12, <1>13, <1>14 DEF Mild, Whole, Sound
<1> QED
  BY <1>1, <1>2, <1>4, <1>15

LEMMA VarsWhole ==
  Mild(<<L("novars", 0), R("args", 0, 0), R("locals", 0, 0), L("vars", 0)>>)
<1>1. PICK a : a = L("novars", 0) /\ IsL(a, "novars", 0)
  BY Local, DosAre, ArgumentsAre, Zenon
<1>2. PICK b : b = R("args", 0, 0) /\ IsR(b, "args", 0, 0)
  BY Request, DosAre, ArgumentsAre, Zenon
<1>3. PICK d : d = R("locals", 0, 0) /\ IsR(d, "locals", 0, 0)
  BY Request, DosAre, ArgumentsAre, Zenon
<1>4. PICK e : e = L("vars", 0) /\ IsL(e, "vars", 0)
  BY Local, DosAre, ArgumentsAre, Zenon
<1>5. a \in Ops /\ b \in Ops /\ d \in Ops /\ e \in Ops
  BY <1>1, <1>2, <1>3, <1>4 DEF IsR, IsL
<1>6. PICK c : /\ c = <<a, b, d, e>> /\ c \in Seq(Ops) /\ c # <<>> /\ Len(c) = 4
             /\ c[1] = a /\ c[2] = b /\ c[3] = d /\ c[4] = e
  BY <1>5, FourOps
<1>7. /\ c[1].kind = "local" /\ c[1].do = "novars"
      /\ c[2].kind = "request" /\ c[2].do = "args" /\ c[2].bad = 0 /\ c[2].lost = 0
      /\ c[3].kind = "request" /\ c[3].do = "locals" /\ c[3].bad = 0 /\ c[3].lost = 0
      /\ c[4].kind = "local" /\ c[4].do = "vars"
  BY <1>1, <1>2, <1>3, <1>4, <1>6 DEF IsR, IsL
<1>8. \A i \in 1..Len(c) : i = 1 \/ i = 2 \/ i = 3 \/ i = 4
  BY <1>6
<1>9. /\ ~NeedsInfo(c, 1) /\ ~NeedsVars(c, 1) /\ ~NeedsInvalid(c, 1) /\ ~NeedsList(c, 1) /\ ~HeadOnly(c, 1)
      /\ ~NeedsInfo(c, 2) /\ NeedsVars(c, 2) /\ ~NeedsInvalid(c, 2) /\ ~NeedsList(c, 2) /\ ~HeadOnly(c, 2)
      /\ ~NeedsInfo(c, 3) /\ NeedsVars(c, 3) /\ ~NeedsInvalid(c, 3) /\ ~NeedsList(c, 3) /\ ~HeadOnly(c, 3)
      /\ ~NeedsInfo(c, 4) /\ NeedsVars(c, 4) /\ ~NeedsInvalid(c, 4) /\ ~NeedsList(c, 4) /\ ~HeadOnly(c, 4)
  BY <1>6, <1>7 DEF NeedsInfo, NeedsVars, NeedsInvalid, NeedsList, HeadOnly, Writes
<1>10. Plain(c, 1)
  BY <1>9 DEF Plain
<1>11. Follows(c, 1) /\ Follows(c, 2) /\ Follows(c, 3)
  BY <1>7, <1>9 DEF Follows
<1>12. Fails(c, 2, 0) /\ Fails(c, 3, 0)
  BY <1>6, <1>7 DEF Fails
<1>13. Flow(c)
  BY <1>11, <1>12, <1>8, <1>7, <1>6 DEF Flow
<1>14. Paired(c) /\ Listed(c)
  BY <1>6, <1>7, <1>8 DEF Paired, Listed, Alters
<1>15. Fitted(c)
  BY <1>6, <1>7, <1>8 DEF Fitted, Fits, Kinds
<1>16. \A i \in 1..Len(c) : c[i].do \notin Reserved
  BY <1>7, <1>8 DEF Reserved, Leaving
<1>17. NoAlters(c)
  BY <1>6, <1>7, <1>8 DEF NoAlters, Alters
<1>18. Mild(c)
  BY <1>6, <1>10, <1>13, <1>14, <1>15, <1>16, <1>17 DEF Mild, Whole, Sound
<1> QED
  BY <1>1, <1>2, <1>3, <1>4, <1>6, <1>18

LEMMA RegsWhole ==
  Mild(<<R("names", 0, 1), R("regs", 0, 0)>>)
<1>1. PICK a : a = R("names", 0, 1) /\ IsR(a, "names", 0, 1)
  BY Request, DosAre, ArgumentsAre, Zenon
<1>2. PICK b : b = R("regs", 0, 0) /\ IsR(b, "regs", 0, 0)
  BY Request, DosAre, ArgumentsAre, Zenon
<1>3. a \in Ops /\ b \in Ops
  BY <1>1, <1>2 DEF IsR, IsL
<1>4. PICK c : /\ c = <<a, b>> /\ c \in Seq(Ops) /\ c # <<>> /\ Len(c) = 2
             /\ c[1] = a /\ c[2] = b
  BY <1>3, TwoOps
<1>5. /\ c[1].kind = "request" /\ c[1].do = "names" /\ c[1].bad = 1 /\ c[1].lost = 1
      /\ c[2].kind = "request" /\ c[2].do = "regs" /\ c[2].bad = 0 /\ c[2].lost = 0
  BY <1>1, <1>2, <1>4 DEF IsR, IsL
<1>6. \A i \in 1..Len(c) : i = 1 \/ i = 2
  BY <1>4
<1>7. /\ ~NeedsInfo(c, 1) /\ ~NeedsVars(c, 1) /\ ~NeedsInvalid(c, 1) /\ ~NeedsList(c, 1) /\ ~HeadOnly(c, 1)
      /\ ~NeedsInfo(c, 2) /\ ~NeedsVars(c, 2) /\ ~NeedsInvalid(c, 2) /\ ~NeedsList(c, 2) /\ ~HeadOnly(c, 2)
  BY <1>4, <1>5 DEF NeedsInfo, NeedsVars, NeedsInvalid, NeedsList, HeadOnly, Writes
<1>8. Plain(c, 1)
  BY <1>7 DEF Plain
<1>9. Follows(c, 1)
  BY <1>5, <1>7 DEF Follows
<1>10. Fails(c, 1, 1) /\ Fails(c, 2, 0)
  BY <1>4, <1>5 DEF Fails
<1>11. Flow(c)
  BY <1>9, <1>10, <1>6, <1>5, <1>4 DEF Flow
<1>12. Paired(c) /\ Listed(c)
  BY <1>4, <1>5, <1>6 DEF Paired, Listed, Alters
<1>13. Fitted(c)
  BY <1>4, <1>5, <1>6 DEF Fitted, Fits, Kinds
<1>14. \A i \in 1..Len(c) : c[i].do \notin Reserved
  BY <1>5, <1>6 DEF Reserved, Leaving
<1>15. NoAlters(c)
  BY <1>4, <1>5, <1>6 DEF NoAlters, Alters
<1>16. Mild(c)
  BY <1>4, <1>8, <1>11, <1>12, <1>13, <1>14, <1>15 DEF Mild, Whole, Sound
<1> QED
  BY <1>1, <1>2, <1>4, <1>16

LEMMA ModulesWhole ==
  Mild(<<R("modules", 0, 1), L("modules", 0)>>)
<1>1. PICK a : a = R("modules", 0, 1) /\ IsR(a, "modules", 0, 1)
  BY Request, DosAre, ArgumentsAre, Zenon
<1>2. PICK b : b = L("modules", 0) /\ IsL(b, "modules", 0)
  BY Local, DosAre, ArgumentsAre, Zenon
<1>3. a \in Ops /\ b \in Ops
  BY <1>1, <1>2 DEF IsR, IsL
<1>4. PICK c : /\ c = <<a, b>> /\ c \in Seq(Ops) /\ c # <<>> /\ Len(c) = 2
             /\ c[1] = a /\ c[2] = b
  BY <1>3, TwoOps
<1>5. /\ c[1].kind = "request" /\ c[1].do = "modules" /\ c[1].bad = 1 /\ c[1].lost = 1
      /\ c[2].kind = "local" /\ c[2].do = "modules"
  BY <1>1, <1>2, <1>4 DEF IsR, IsL
<1>6. \A i \in 1..Len(c) : i = 1 \/ i = 2
  BY <1>4
<1>7. /\ ~NeedsInfo(c, 1) /\ ~NeedsVars(c, 1) /\ ~NeedsInvalid(c, 1) /\ ~NeedsList(c, 1) /\ ~HeadOnly(c, 1)
      /\ ~NeedsInfo(c, 2) /\ ~NeedsVars(c, 2) /\ ~NeedsInvalid(c, 2) /\ NeedsList(c, 2) /\ ~HeadOnly(c, 2)
  BY <1>4, <1>5 DEF NeedsInfo, NeedsVars, NeedsInvalid, NeedsList, HeadOnly, Writes
<1>8. Plain(c, 1)
  BY <1>7 DEF Plain
<1>9. Follows(c, 1)
  BY <1>5, <1>7 DEF Follows
<1>10. Fails(c, 1, 1)
  BY <1>4, <1>5 DEF Fails
<1>11. Flow(c)
  BY <1>9, <1>10, <1>6, <1>5, <1>4 DEF Flow
<1>12. Paired(c) /\ Listed(c)
  BY <1>4, <1>5, <1>6 DEF Paired, Listed, Alters
<1>13. Fitted(c)
  BY <1>4, <1>5, <1>6 DEF Fitted, Fits, Kinds
<1>14. \A i \in 1..Len(c) : c[i].do \notin Reserved
  BY <1>5, <1>6 DEF Reserved, Leaving
<1>15. NoAlters(c)
  BY <1>4, <1>5, <1>6 DEF NoAlters, Alters
<1>16. Mild(c)
  BY <1>4, <1>8, <1>11, <1>12, <1>13, <1>14, <1>15 DEF Mild, Whole, Sound
<1> QED
  BY <1>1, <1>2, <1>4, <1>16

LEMMA SourcesWhole ==
  Mild(<<R("sources", 0, 1), L("sources", 0)>>)
<1>1. PICK a : a = R("sources", 0, 1) /\ IsR(a, "sources", 0, 1)
  BY Request, DosAre, ArgumentsAre, Zenon
<1>2. PICK b : b = L("sources", 0) /\ IsL(b, "sources", 0)
  BY Local, DosAre, ArgumentsAre, Zenon
<1>3. a \in Ops /\ b \in Ops
  BY <1>1, <1>2 DEF IsR, IsL
<1>4. PICK c : /\ c = <<a, b>> /\ c \in Seq(Ops) /\ c # <<>> /\ Len(c) = 2
             /\ c[1] = a /\ c[2] = b
  BY <1>3, TwoOps
<1>5. /\ c[1].kind = "request" /\ c[1].do = "sources" /\ c[1].bad = 1 /\ c[1].lost = 1
      /\ c[2].kind = "local" /\ c[2].do = "sources"
  BY <1>1, <1>2, <1>4 DEF IsR, IsL
<1>6. \A i \in 1..Len(c) : i = 1 \/ i = 2
  BY <1>4
<1>7. /\ ~NeedsInfo(c, 1) /\ ~NeedsVars(c, 1) /\ ~NeedsInvalid(c, 1) /\ ~NeedsList(c, 1) /\ ~HeadOnly(c, 1)
      /\ ~NeedsInfo(c, 2) /\ ~NeedsVars(c, 2) /\ ~NeedsInvalid(c, 2) /\ NeedsList(c, 2) /\ ~HeadOnly(c, 2)
  BY <1>4, <1>5 DEF NeedsInfo, NeedsVars, NeedsInvalid, NeedsList, HeadOnly, Writes
<1>8. Plain(c, 1)
  BY <1>7 DEF Plain
<1>9. Follows(c, 1)
  BY <1>5, <1>7 DEF Follows
<1>10. Fails(c, 1, 1)
  BY <1>4, <1>5 DEF Fails
<1>11. Flow(c)
  BY <1>9, <1>10, <1>6, <1>5, <1>4 DEF Flow
<1>12. Paired(c) /\ Listed(c)
  BY <1>4, <1>5, <1>6 DEF Paired, Listed, Alters
<1>13. Fitted(c)
  BY <1>4, <1>5, <1>6 DEF Fitted, Fits, Kinds
<1>14. \A i \in 1..Len(c) : c[i].do \notin Reserved
  BY <1>5, <1>6 DEF Reserved, Leaving
<1>15. NoAlters(c)
  BY <1>4, <1>5, <1>6 DEF NoAlters, Alters
<1>16. Mild(c)
  BY <1>4, <1>8, <1>11, <1>12, <1>13, <1>14, <1>15 DEF Mild, Whole, Sound
<1> QED
  BY <1>1, <1>2, <1>4, <1>16

LEMMA PointerWhole ==
  Mild(<<R("var", 0, All), R("vardelete", 0, 0), R("read", 0, 0), L("detail", 0)>>)
<1>1. PICK a : a = R("var", 0, All) /\ IsR(a, "var", 0, All)
  BY Request, DosAre, ArgumentsAre, Zenon
<1>2. PICK b : b = R("vardelete", 0, 0) /\ IsR(b, "vardelete", 0, 0)
  BY Request, DosAre, ArgumentsAre, Zenon
<1>3. PICK d : d = R("read", 0, 0) /\ IsR(d, "read", 0, 0)
  BY Request, DosAre, ArgumentsAre, Zenon
<1>4. PICK e : e = L("detail", 0) /\ IsL(e, "detail", 0)
  BY Local, DosAre, ArgumentsAre, Zenon
<1>5. a \in Ops /\ b \in Ops /\ d \in Ops /\ e \in Ops
  BY <1>1, <1>2, <1>3, <1>4 DEF IsR, IsL
<1>6. PICK c : /\ c = <<a, b, d, e>> /\ c \in Seq(Ops) /\ c # <<>> /\ Len(c) = 4
             /\ c[1] = a /\ c[2] = b /\ c[3] = d /\ c[4] = e
  BY <1>5, FourOps
<1>7. /\ c[1].kind = "request" /\ c[1].do = "var" /\ c[1].bad = All /\ c[1].lost = All
      /\ c[2].kind = "request" /\ c[2].do = "vardelete" /\ c[2].bad = 0 /\ c[2].lost = 0
      /\ c[3].kind = "request" /\ c[3].do = "read" /\ c[3].bad = 0 /\ c[3].lost = 0
      /\ c[4].kind = "local" /\ c[4].do = "detail"
  BY <1>1, <1>2, <1>3, <1>4, <1>6 DEF IsR, IsL
<1>8. \A i \in 1..Len(c) : i = 1 \/ i = 2 \/ i = 3 \/ i = 4
  BY <1>6
<1>9. /\ ~NeedsInfo(c, 1) /\ ~NeedsVars(c, 1) /\ ~NeedsInvalid(c, 1) /\ ~NeedsList(c, 1) /\ ~HeadOnly(c, 1)
      /\ NeedsInfo(c, 2) /\ ~NeedsVars(c, 2) /\ ~NeedsInvalid(c, 2) /\ ~NeedsList(c, 2) /\ ~HeadOnly(c, 2)
      /\ NeedsInfo(c, 3) /\ ~NeedsVars(c, 3) /\ ~NeedsInvalid(c, 3) /\ ~NeedsList(c, 3) /\ ~HeadOnly(c, 3)
      /\ NeedsInfo(c, 4) /\ ~NeedsVars(c, 4) /\ ~NeedsInvalid(c, 4) /\ ~NeedsList(c, 4) /\ ~HeadOnly(c, 4)
  BY <1>6, <1>7 DEF NeedsInfo, NeedsVars, NeedsInvalid, NeedsList, HeadOnly, Writes
<1>10. Plain(c, 1)
  BY <1>9 DEF Plain
<1>11. Follows(c, 1) /\ Follows(c, 2) /\ Follows(c, 3)
  BY <1>7, <1>9 DEF Follows
<1>12. Fails(c, 1, All) /\ Fails(c, 2, 0) /\ Fails(c, 3, 0)
  BY <1>6, <1>7 DEF Fails
<1>13. Flow(c)
  BY <1>11, <1>12, <1>8, <1>7, <1>6 DEF Flow
<1>14. Paired(c) /\ Listed(c)
  BY <1>6, <1>7, <1>8 DEF Paired, Listed, Alters
<1>15. Fitted(c)
  BY <1>6, <1>7, <1>8 DEF Fitted, Fits, Kinds
<1>16. \A i \in 1..Len(c) : c[i].do \notin Reserved
  BY <1>7, <1>8 DEF Reserved, Leaving
<1>17. NoAlters(c)
  BY <1>6, <1>7, <1>8 DEF NoAlters, Alters
<1>18. Mild(c)
  BY <1>6, <1>10, <1>13, <1>14, <1>15, <1>16, <1>17 DEF Mild, Whole, Sound
<1> QED
  BY <1>1, <1>2, <1>3, <1>4, <1>6, <1>18

LEMMA ValueWhole ==
  Mild(<<R("var", 0, All), R("vardelete", 0, 0), L("address", 0), L("detail", 0)>>)
<1>1. PICK a : a = R("var", 0, All) /\ IsR(a, "var", 0, All)
  BY Request, DosAre, ArgumentsAre, Zenon
<1>2. PICK b : b = R("vardelete", 0, 0) /\ IsR(b, "vardelete", 0, 0)
  BY Request, DosAre, ArgumentsAre, Zenon
<1>3. PICK d : d = L("address", 0) /\ IsL(d, "address", 0)
  BY Local, DosAre, ArgumentsAre, Zenon
<1>4. PICK e : e = L("detail", 0) /\ IsL(e, "detail", 0)
  BY Local, DosAre, ArgumentsAre, Zenon
<1>5. a \in Ops /\ b \in Ops /\ d \in Ops /\ e \in Ops
  BY <1>1, <1>2, <1>3, <1>4 DEF IsR, IsL
<1>6. PICK c : /\ c = <<a, b, d, e>> /\ c \in Seq(Ops) /\ c # <<>> /\ Len(c) = 4
             /\ c[1] = a /\ c[2] = b /\ c[3] = d /\ c[4] = e
  BY <1>5, FourOps
<1>7. /\ c[1].kind = "request" /\ c[1].do = "var" /\ c[1].bad = All /\ c[1].lost = All
      /\ c[2].kind = "request" /\ c[2].do = "vardelete" /\ c[2].bad = 0 /\ c[2].lost = 0
      /\ c[3].kind = "local" /\ c[3].do = "address"
      /\ c[4].kind = "local" /\ c[4].do = "detail"
  BY <1>1, <1>2, <1>3, <1>4, <1>6 DEF IsR, IsL
<1>8. \A i \in 1..Len(c) : i = 1 \/ i = 2 \/ i = 3 \/ i = 4
  BY <1>6
<1>9. /\ ~NeedsInfo(c, 1) /\ ~NeedsVars(c, 1) /\ ~NeedsInvalid(c, 1) /\ ~NeedsList(c, 1) /\ ~HeadOnly(c, 1)
      /\ NeedsInfo(c, 2) /\ ~NeedsVars(c, 2) /\ ~NeedsInvalid(c, 2) /\ ~NeedsList(c, 2) /\ ~HeadOnly(c, 2)
      /\ NeedsInfo(c, 3) /\ ~NeedsVars(c, 3) /\ ~NeedsInvalid(c, 3) /\ ~NeedsList(c, 3) /\ ~HeadOnly(c, 3)
      /\ NeedsInfo(c, 4) /\ ~NeedsVars(c, 4) /\ ~NeedsInvalid(c, 4) /\ ~NeedsList(c, 4) /\ ~HeadOnly(c, 4)
  BY <1>6, <1>7 DEF NeedsInfo, NeedsVars, NeedsInvalid, NeedsList, HeadOnly, Writes
<1>10. Plain(c, 1)
  BY <1>9 DEF Plain
<1>11. Follows(c, 1) /\ Follows(c, 2) /\ Follows(c, 3)
  BY <1>7, <1>9 DEF Follows
<1>12. Fails(c, 1, All) /\ Fails(c, 2, 0)
  BY <1>6, <1>7 DEF Fails
<1>13. Flow(c)
  BY <1>11, <1>12, <1>8, <1>7, <1>6 DEF Flow
<1>14. Paired(c) /\ Listed(c)
  BY <1>6, <1>7, <1>8 DEF Paired, Listed, Alters
<1>15. Fitted(c)
  BY <1>6, <1>7, <1>8 DEF Fitted, Fits, Kinds
<1>16. \A i \in 1..Len(c) : c[i].do \notin Reserved
  BY <1>7, <1>8 DEF Reserved, Leaving
<1>17. NoAlters(c)
  BY <1>6, <1>7, <1>8 DEF NoAlters, Alters
<1>18. Mild(c)
  BY <1>6, <1>10, <1>13, <1>14, <1>15, <1>16, <1>17 DEF Mild, Whole, Sound
<1> QED
  BY <1>1, <1>2, <1>3, <1>4, <1>6, <1>18

LEMMA ReviseSound ==
  ASSUME NEW x \in BOOLEAN
  PROVE  Sound(<<L("revise", x), R("frame", 0, 0), L("placed", 0), L("variables", 0)>>) /\ NoAlters(<<L("revise", x), R("frame", 0, 0), L("placed", 0), L("variables", 0)>>)
<1>1. PICK a : a = L("revise", x) /\ IsL(a, "revise", x)
  BY Local, DosAre, ArgumentsAre, Zenon
<1>2. PICK b : b = R("frame", 0, 0) /\ IsR(b, "frame", 0, 0)
  BY Request, DosAre, ArgumentsAre, Zenon
<1>3. PICK d : d = L("placed", 0) /\ IsL(d, "placed", 0)
  BY Local, DosAre, ArgumentsAre, Zenon
<1>4. PICK e : e = L("variables", 0) /\ IsL(e, "variables", 0)
  BY Local, DosAre, ArgumentsAre, Zenon
<1>5. a \in Ops /\ b \in Ops /\ d \in Ops /\ e \in Ops
  BY <1>1, <1>2, <1>3, <1>4 DEF IsR, IsL
<1>6. PICK c : /\ c = <<a, b, d, e>> /\ c \in Seq(Ops) /\ c # <<>> /\ Len(c) = 4
             /\ c[1] = a /\ c[2] = b /\ c[3] = d /\ c[4] = e
  BY <1>5, FourOps
<1>7. /\ c[1].kind = "local" /\ c[1].do = "revise" /\ c[1].x = x
      /\ c[2].kind = "request" /\ c[2].do = "frame" /\ c[2].bad = 0 /\ c[2].lost = 0
      /\ c[3].kind = "local" /\ c[3].do = "placed"
      /\ c[4].kind = "local" /\ c[4].do = "variables"
  BY <1>1, <1>2, <1>3, <1>4, <1>6 DEF IsR, IsL
<1>8. \A i \in 1..Len(c) : i = 1 \/ i = 2 \/ i = 3 \/ i = 4
  BY <1>6
<1>9. /\ ~NeedsInfo(c, 1) /\ ~NeedsVars(c, 1) /\ ~NeedsInvalid(c, 1) /\ ~NeedsList(c, 1) /\ HeadOnly(c, 1)
      /\ ~NeedsInfo(c, 2) /\ ~NeedsVars(c, 2) /\ ~NeedsInvalid(c, 2) /\ ~NeedsList(c, 2) /\ ~HeadOnly(c, 2)
      /\ ~NeedsInfo(c, 3) /\ ~NeedsVars(c, 3) /\ ~NeedsInvalid(c, 3) /\ ~NeedsList(c, 3) /\ ~HeadOnly(c, 3)
      /\ ~NeedsInfo(c, 4) /\ ~NeedsVars(c, 4) /\ ~NeedsInvalid(c, 4) /\ ~NeedsList(c, 4) /\ ~HeadOnly(c, 4)
  BY <1>6, <1>7 DEF NeedsInfo, NeedsVars, NeedsInvalid, NeedsList, HeadOnly, Writes
<1>10. Follows(c, 1) /\ Follows(c, 2) /\ Follows(c, 3)
  BY <1>7, <1>9 DEF Follows
<1>11. Fails(c, 2, 0)
  BY <1>6, <1>7 DEF Fails
<1>12. Flow(c)
  BY <1>10, <1>11, <1>8, <1>7, <1>6 DEF Flow
<1>13. Paired(c) /\ Listed(c)
  BY <1>6, <1>7, <1>8 DEF Paired, Listed, Alters
<1>14. Fitted(c)
  BY <1>6, <1>7, <1>8 DEF Fitted, Fits, Kinds
<1>15. \A i \in 1..Len(c) : c[i].do \notin Reserved
  BY <1>7, <1>8 DEF Reserved, Leaving
<1>16. NoAlters(c)
  BY <1>6, <1>7, <1>8 DEF NoAlters, Alters
<1>17. Sound(c) /\ NoAlters(c)
  BY <1>6, <1>12, <1>13, <1>14, <1>15, <1>16 DEF Sound
<1> QED
  BY <1>1, <1>2, <1>3, <1>4, <1>6, <1>17

(* The steps that stand alone. *)
Others == {"address", "var", "modules", "sources", "settle", "settled", "context", "located", "draw", "revise", "inspect"}
LEMMA LoneRequest ==
  ASSUME NEW do \in Dos, do \notin Lone \cup Others, NEW bad \in {0, All}
  PROVE  Mild(<<R(do, 0, bad)>>)
<1>1. bad \in Nat
  BY ArgumentsAre
<1>2. PICK a : a = R(do, 0, bad) /\ IsR(a, do, 0, bad)
  BY <1>1, Request, ArgumentsAre, Zenon
<1>3. a \in Ops /\ a.kind = "request" /\ a.do = do /\ a.bad \in {0, All} /\ a.lost \in {0, All}
  BY <1>2 DEF IsR
<1>4. Fits(a) /\ Kinds(a)
  BY <1>3 DEF Fits, Kinds, Lone, Others
<1>5. a.do \notin Lone /\ a.do \notin {"address", "var", "modules", "sources"}
  BY <1>3 DEF Others
<1>6. Mild(<<a>>)
  BY <1>3, <1>4, <1>5, WholeOne
<1> QED
  BY <1>2, <1>6

LEMMA LoneLocal ==
  ASSUME NEW do \in Dos, NEW x \in Arguments, do \notin Lone \cup {"modules", "sources", "breaks"},
         do \in {"context", "located"} => x \in BOOLEAN,
         do = "inspect" => x \in {"pointer", "value", "nowhere"}
  PROVE  Mild(<<L(do, x)>>)
<1>2. PICK a : a = L(do, x) /\ IsL(a, do, x)
  BY Local, Zenon
<1>3. a \in Ops /\ a.kind = "local" /\ a.do = do /\ a.x = x /\ a.bad \in {0, All} /\ a.lost \in {0, All}
  BY <1>2 DEF IsL
<1>4. Fits(a) /\ Kinds(a)
  BY <1>3 DEF Fits, Kinds, Lone
<1>5. a.do \notin Lone /\ a.do \notin {"modules", "sources"}
  BY <1>3
<1>6. Mild(<<a>>)
  BY <1>3, <1>4, <1>5, WholeOne
<1> QED
  BY <1>2, <1>6

LEMMA LoneAre ==
  /\ Mild(<<R("breaks", 0, 0)>>) /\ Mild(<<R("exec", 0, 0)>>) /\ Mild(<<R("run", 0, 0)>>)
  /\ Mild(<<R("complete", 0, 0)>>) /\ Mild(<<R("scope", 0, 0)>>) /\ Mild(<<R("read", 0, All)>>)
  /\ Mild(<<R("disassemble", 0, 0)>>) /\ Mild(<<R("regs", 0, 0)>>) /\ Mild(<<R("frames", 0, 0)>>)
  /\ Mild(<<R("functions", 0, All)>>)
<1>1. ASSUME NEW do \in {"breaks", "exec", "run", "complete", "scope", "disassemble", "regs", "frames"}
      PROVE  Mild(<<R(do, 0, 0)>>)
  <2>1. do \in Dos /\ do \notin Lone \cup Others
    BY DEF Dos, Lone, Others
  <2> QED
    BY <2>1, LoneRequest
<1>2. ASSUME NEW do \in {"read", "functions"} PROVE Mild(<<R(do, 0, All)>>)
  <2>1. do \in Dos /\ do \notin Lone \cup Others
    BY DEF Dos, Lone, Others
  <2> QED
    BY <2>1, LoneRequest
<1> QED
  BY <1>1, <1>2, Zenon

LEMMA LocalsAre ==
  /\ Mild(<<L("invalidate", 0)>>) /\ Mild(<<L("rerun", 0)>>) /\ Mild(<<L("candidates", 0)>>) /\ Mild(<<L("address", 0)>>)
  /\ Mild(<<L("expansions", 0)>>) /\ Mild(<<L("frameShown", 0)>>) /\ Mild(<<L("catalogue", 0)>>)
  /\ Mild(<<L("assembly", 0)>>) /\ Mild(<<L("nocode", 0)>>) /\ Mild(<<L("around", 0)>>) /\ Mild(<<L("ranges", 0)>>)
  /\ Mild(<<L("collapsed", 0)>>) /\ Mild(<<L("noregs", 0)>>) /\ Mild(<<L("noframes", 0)>>) /\ Mild(<<L("registers", 0)>>)
  /\ Mild(<<L("listing", 0)>>) /\ Mild(<<L("changed", 0)>>) /\ Mild(<<L("draw", 0)>>) /\ Mild(<<L("context", TRUE)>>)
  /\ \A what \in {"pointer", "value", "nowhere"} : Mild(<<L("inspect", what)>>)
<1>1. ASSUME NEW do \in {"invalidate", "rerun", "candidates", "address", "expansions", "frameShown", "catalogue",
                         "assembly", "nocode", "around", "ranges", "collapsed", "noregs", "noframes", "registers",
                         "listing", "changed", "draw"}
      PROVE  Mild(<<L(do, 0)>>)
  <2>1. do \in Dos /\ do \notin Lone \cup {"modules", "sources", "breaks"} /\ do \notin {"context", "located", "inspect"}
    BY DEF Dos, Lone
  <2> QED
    BY <2>1, LoneLocal, ArgumentsAre
<1>2. Mild(<<L("context", TRUE)>>)
  <2>1. PICK yes \in BOOLEAN : yes = TRUE
    OBVIOUS
  <2>2. yes \in Arguments
    BY ArgumentsAre
  <2>3. "context" \in Dos /\ "context" \notin Lone \cup {"modules", "sources", "breaks"}
    BY DEF Dos, Lone
  <2>4. Mild(<<L("context", yes)>>)
    BY <2>2, <2>3, LoneLocal
  <2> QED
    BY <2>1, <2>4
<1>3. ASSUME NEW what \in {"pointer", "value", "nowhere"} PROVE Mild(<<L("inspect", what)>>)
  <2>1. what \in Arguments
    BY ArgumentsAre
  <2>2. "inspect" \in Dos /\ "inspect" \notin Lone \cup {"modules", "sources", "breaks"}
        /\ "inspect" \notin {"context", "located"}
    BY DEF Dos, Lone
  <2> QED
    BY <2>1, <2>2, LoneLocal
<1> QED
  BY <1>1, <1>2, <1>3, Zenon

-----------------------------------------------------------------------------
(* The calls                                                                *)

LEMMA TwoSplit ==
  ASSUME NEW S, NEW a \in S, NEW b \in S
  PROVE  <<a, b>> = <<a>> \o <<b>>
<1> DEFINE c == <<a>> \o <<b>>
           d == <<a, b>>
<1>1. <<a>> \in Seq(S) /\ Len(<<a>>) = 1 /\ <<a>>[1] = a
  OBVIOUS
<1>2. <<b>> \in Seq(S) /\ Len(<<b>>) = 1 /\ <<b>>[1] = b
  OBVIOUS
<1>3. c \in Seq(S) /\ Len(c) = 2 /\ c[1] = a /\ c[2] = b
  BY <1>1, <1>2, ConcatProperties
<1>4. d \in Seq(S) /\ Len(d) = 2 /\ d[1] = a /\ d[2] = b
  OBVIOUS
<1> HIDE DEF c, d
<1>5. \A i \in 1..Len(c) : c[i] = d[i]
  <2>1. \A i \in 1..Len(c) : i = 1 \/ i = 2
    BY <1>3
  <2> QED
    BY <1>3, <1>4, <2>1
<1>6. c = d
  BY <1>3, <1>4, <1>5, SeqEqual
<1> QED
  BY <1>6 DEF c, d

LEMMA ThreeSplit ==
  ASSUME NEW a, NEW b, NEW c
  PROVE  <<a, b, c>> = <<a, b>> \o <<c>>
OBVIOUS

LEMMA ThreeSplits ==
  ASSUME NEW S, NEW a \in S, NEW b \in S, NEW c \in S
  PROVE  <<a, b, c>> = <<a>> \o <<b, c>>
OBVIOUS

LEMMA FourSplit ==
  ASSUME NEW S, NEW a \in S, NEW b \in S, NEW c \in S, NEW d \in S
  PROVE  <<a, b, c, d>> = <<a, b>> \o <<c, d>>
OBVIOUS

LEMMA MildIs == \A c : Mild(c) => Whole(c) /\ c \in Seq(Ops) /\ (c # <<>> => c[1] \in Ops)
<1> SUFFICES ASSUME NEW c, Mild(c) PROVE Whole(c) /\ c \in Seq(Ops) /\ (c # <<>> => c[1] \in Ops)
  OBVIOUS
<1>1. Whole(c) /\ c \in Seq(Ops)
  BY DEF Mild, Whole, Sound
<1> QED
  BY <1>1

(* Two and more steps that stand alone. *)
LEMMA LonePair ==
  ASSUME NEW a, NEW b, Mild(<<a>>), Mild(<<b>>)
  PROVE  Mild(<<a, b>>)
<1>1. <<a>> \in Seq(Ops) /\ <<b>> \in Seq(Ops)
  BY MildIs
<1>2. a \in Ops /\ b \in Ops
  <2>1. <<a>>[1] = a /\ <<b>>[1] = b /\ <<a>> # <<>> /\ <<b>> # <<>>
    OBVIOUS
  <2> QED
    BY <2>1, MildIs
<1>3. <<a, b>> = <<a>> \o <<b>>
  BY <1>2, TwoSplit
<1> QED
  BY <1>3, MildJoins, Zenon

LEMMA LoneTriple ==
  ASSUME NEW a, NEW b, NEW c, Mild(<<a>>), Mild(<<b>>), Mild(<<c>>)
  PROVE  Mild(<<a, b, c>>)
<1>2. Mild(<<a, b>>)
  BY LonePair
<1>3. <<a, b, c>> = <<a, b>> \o <<c>>
  BY ThreeSplit
<1> QED
  BY <1>2, <1>3, MildJoins, Zenon

LEMMA CallsAre ==
  /\ \A do \in {"exec", "run"} : Mild(ExecSimple(do))
  /\ Mild(RefreshBreakpoints) /\ Mild(ListCatchCandidates) /\ Mild(ScopeCandidates) /\ Mild(PrintExpression)
  /\ Mild(ReturnType) /\ Mild(ListChildren(0)) /\ Mild(DisassembleAt) /\ Mild(ListFunctions)
<1>1. \A do \in {"exec", "run"} : Mild(ExecSimple(do))
  <2> SUFFICES ASSUME NEW do \in {"exec", "run"} PROVE Mild(ExecSimple(do))
    OBVIOUS
  <2>1. Mild(<<R(do, 0, 0)>>)
    BY LoneAre
  <2> QED
    BY <2>1, LocalsAre, LonePair, Zenon DEF ExecSimple
<1>2. Mild(RefreshBreakpoints) /\ Mild(ListCatchCandidates) /\ Mild(ScopeCandidates)
  BY LoneAre, Zenon DEF RefreshBreakpoints, ListCatchCandidates, ScopeCandidates
<1>3. Mild(PrintExpression) /\ Mild(ReturnType)
  BY PrintWhole, VarWhole, Zenon DEF PrintExpression, ReturnType
<1>4. Mild(ListChildren(0))
  <2>1. 0 + 2 = 2
    OBVIOUS
  <2> QED
    BY <2>1, ChildrenWhole, Zenon DEF ListChildren
<1>5. Mild(DisassembleAt)
  BY LoneAre, LocalsAre, LoneTriple, Zenon DEF DisassembleAt
<1>6. Mild(ListFunctions)
  BY LoneAre, LocalsAre, LonePair, Zenon DEF ListFunctions
<1> QED
  BY <1>1, <1>2, <1>3, <1>4, <1>5, <1>6, Zenon

LEMMA BreakCallsAre ==
  /\ \A line \in Lines \cup {0} : Whole(BreakAt(line))
  /\ \A n \in Nat : Whole(DeleteBreakpoint(n)) /\ Whole(EnableBreakpoint(n))
<1>1. \A do \in Dos : \A x \in Arguments : R(do, x, All) \in Ops
  BY Request, ArgumentsAre DEF IsR
<1>2. R("breaks", 0, 0) \in Ops /\ "insert" \in Dos /\ "delete" \in Dos /\ "toggle" \in Dos
  <2>1. IsR(R("breaks", 0, 0), "breaks", 0, 0)
    BY Request, DosAre, ArgumentsAre, Zenon
  <2> QED
    BY <2>1, DosAre DEF IsR
<1>3. ASSUME NEW line \in Lines \cup {0} PROVE Whole(BreakAt(line))
  <2>1. R("insert", line, All) \in Ops
    BY <1>1, <1>2, ArgumentsAre
  <2>2. <<R("insert", line, All)>> \o <<R("breaks", 0, 0)>> = <<R("insert", line, All), R("breaks", 0, 0)>>
    BY <1>2, <2>1, TwoSplit
  <2> QED
    BY <2>2, InsertWhole DEF BreakAt, RefreshBreakpoints
<1>4. ASSUME NEW n \in Nat PROVE Whole(DeleteBreakpoint(n)) /\ Whole(EnableBreakpoint(n))
  <2>1. R("delete", n, All) \in Ops /\ R("toggle", n, All) \in Ops
    BY <1>1, <1>2, ArgumentsAre
  <2>2. /\ <<R("delete", n, All)>> \o <<R("breaks", 0, 0)>> = <<R("delete", n, All), R("breaks", 0, 0)>>
        /\ <<R("toggle", n, All)>> \o <<R("breaks", 0, 0)>> = <<R("toggle", n, All), R("breaks", 0, 0)>>
    BY <1>2, <2>1, TwoSplit
  <2> QED
    BY <2>2, DeleteWhole, ToggleWhole DEF DeleteBreakpoint, EnableBreakpoint, RefreshBreakpoints
<1> QED
  BY <1>3, <1>4

LEMMA OpsAre ==
  \A do \in Dos : \A x \in Arguments : L(do, x) \in Ops /\ \A bad \in Nat : R(do, x, bad) \in Ops
BY Request, Local DEF IsR, IsL

(* Lists of steps, cut in two. *)
LEMMA Cuts ==
  \A a, b, c, d \in Ops :
    /\ Joins(<<a>>, <<b>>, <<a, b>>) /\ Joins(<<a>>, <<>>, <<a>>) /\ Joins(<<a, b>>, <<>>, <<a, b>>)
    /\ Joins(<<a>>, <<b, c>>, <<a, b, c>>) /\ Joins(<<a, b>>, <<c>>, <<a, b, c>>)
    /\ Joins(<<a, b>>, <<c, d>>, <<a, b, c, d>>) /\ Joins(<<a, b, c>>, <<d>>, <<a, b, c, d>>)
    /\ Joins(<<a>>, <<b, c, d>>, <<a, b, c, d>>)
<1>1. \A a, b \in Ops : Joins(<<a>>, <<b>>, <<a, b>>)
  BY TwoSplit DEF Joins
<1>2. \A a, b, c \in Ops : Joins(<<a>>, <<b, c>>, <<a, b, c>>)
  BY DEF Joins
<1>3. \A a, b, c \in Ops : Joins(<<a, b>>, <<c>>, <<a, b, c>>)
  BY DEF Joins
<1>4. \A a, b, c, d \in Ops : Joins(<<a, b>>, <<c, d>>, <<a, b, c, d>>)
  BY DEF Joins
<1>5. \A a, b, c, d \in Ops : Joins(<<a, b, c>>, <<d>>, <<a, b, c, d>>)
  BY DEF Joins
<1>6. \A a, b, c, d \in Ops : Joins(<<a>>, <<b, c, d>>, <<a, b, c, d>>)
  BY DEF Joins
<1>7. \A a \in Ops : Joins(<<a>>, <<>>, <<a>>)
  BY DEF Joins
<1>8. \A a, b \in Ops : Joins(<<a, b>>, <<>>, <<a, b>>)
  BY DEF Joins
<1> SUFFICES ASSUME NEW a \in Ops, NEW b \in Ops, NEW c \in Ops, NEW d \in Ops
             PROVE  /\ Joins(<<a>>, <<b>>, <<a, b>>) /\ Joins(<<a>>, <<>>, <<a>>) /\ Joins(<<a, b>>, <<>>, <<a, b>>)
                    /\ Joins(<<a>>, <<b, c>>, <<a, b, c>>) /\ Joins(<<a, b>>, <<c>>, <<a, b, c>>)
                    /\ Joins(<<a, b>>, <<c, d>>, <<a, b, c, d>>) /\ Joins(<<a, b, c>>, <<d>>, <<a, b, c, d>>)
                    /\ Joins(<<a>>, <<b, c, d>>, <<a, b, c, d>>)
  BY Zenon
<1>9. Joins(<<a>>, <<b>>, <<a, b>>) /\ Joins(<<a>>, <<>>, <<a>>) /\ Joins(<<a, b>>, <<>>, <<a, b>>)
  BY <1>1, <1>7, <1>8, Zenon
<1>10. Joins(<<a>>, <<b, c>>, <<a, b, c>>) /\ Joins(<<a, b>>, <<c>>, <<a, b, c>>)
  BY <1>2, <1>3, Zenon
<1>11. Joins(<<a, b>>, <<c, d>>, <<a, b, c, d>>) /\ Joins(<<a, b, c>>, <<d>>, <<a, b, c, d>>)
  BY <1>4, <1>5, Zenon
<1>12. Joins(<<a>>, <<b, c, d>>, <<a, b, c, d>>)
  BY <1>6, Zenon
<1> QED
  BY <1>9, <1>10, <1>11, <1>12, Zenon

LEMMA NoSteps == \A c \in Seq(Ops) : <<>> \o c = c
OBVIOUS

LEMMA Regroup ==
  ASSUME NEW a \in Seq(Ops), NEW b \in Seq(Ops), NEW c \in Seq(Ops)
  PROVE  (a \o b) \o c = a \o (b \o c)
BY ConcatAssociative

LEMMA LoneSeqs == \A a \in Ops : <<a>> \in Seq(Ops)
OBVIOUS

LEMMA AssignMild == Mild(AssignExpression)
<1>1. Mild(<<L("context", TRUE), R("read", 0, All)>>)
  BY LocalsAre, LoneAre, LonePair, Zenon
<1>2. /\ L("invalidate", 0) \in Ops /\ R("assign", 0, All) \in Ops
      /\ L("context", TRUE) \in Ops /\ R("read", 0, All) \in Ops
  BY OpsAre, DosAre, ArgumentsAre, Zenon
<1>3. Joins(<<L("invalidate", 0), R("assign", 0, All)>>, <<L("context", TRUE), R("read", 0, All)>>, AssignExpression)
  BY <1>2, Cuts, Zenon DEF AssignExpression
<1> QED
  BY <1>1, <1>3, AssignWhole, MildJoins, Zenon DEF Joins

LEMMA ReturnMild ==
  ASSUME NEW raw \in BOOLEAN
  PROVE  Mild(ForceReturn(raw))
<1> DEFINE i == L("invalidate", 0)
           t == [R("typed", 0, 0) EXCEPT !.lost = All]
           r == R("return", 0, All)
           c == L("context", TRUE)
           rest == AssignExpression
<1>1. i \in Ops /\ r \in Ops /\ c \in Ops /\ R("typed", 0, 0) \in Ops
  BY OpsAre, DosAre, ArgumentsAre, Zenon
<1>2. t \in Ops
  BY <1>1, LostSet, ArgumentsAre
<1>3. Mild(<<i, t, r>>) /\ Mild(<<i, r>>) /\ Mild(<<c>>) /\ Mild(rest)
  BY TypedWhole, ReturnWhole, LocalsAre, AssignMild
<1>4. /\ raw => ForceReturn(raw) = <<i>> \o (<<t, r, c>> \o rest)
      /\ ~raw => ForceReturn(raw) = <<i>> \o <<r, c>>
  BY DEF ForceReturn
<1> HIDE DEF i, t, r, c, rest
<1>5. CASE raw
  <2>1. rest \in Seq(Ops)
    BY <1>3, MildIs
  <2>2. <<i>> \in Seq(Ops) /\ <<t, r, c>> \in Seq(Ops)
    BY <1>1, <1>2
  <2>3. <<i>> \o (<<t, r, c>> \o rest) = (<<i>> \o <<t, r, c>>) \o rest
    BY <2>1, <2>2, Regroup
  <2>4. Joins(<<i>>, <<t, r, c>>, <<i, t, r, c>>) /\ Joins(<<i, t, r>>, <<c>>, <<i, t, r, c>>)
    BY <1>1, <1>2, Cuts, Zenon
  <2> QED
    BY <1>3, <1>4, <1>5, <2>3, <2>4, MildJoins, Zenon DEF Joins
<1>6. CASE ~raw
  <2>1. Joins(<<i>>, <<r, c>>, <<i, r, c>>) /\ Joins(<<i, r>>, <<c>>, <<i, r, c>>)
    BY <1>1, Cuts, Zenon
  <2> QED
    BY <1>3, <1>4, <1>6, <2>1, MildJoins, Zenon DEF Joins
<1> QED
  BY <1>5, <1>6

LEMMA ToggleIs ==
  ASSUME g \in Gs, NEW line \in Lines
  PROVE  Whole(ToggleBreakpoint(line)) /\ Whole(ToggleAddressBreakpoint(line))
<1> DEFINE here == {b \in g.breaks : b.line = line}
<1>1. g.breaks \subseteq Points
  BY DEF Gs
<1>2. CASE here # {}
  <2>1. (CHOOSE b \in here : TRUE) \in Points
    BY <1>1, <1>2
  <2>2. (CHOOSE b \in here : TRUE).n \in Nat
    BY <2>1 DEF Points
  <2>3. ToggleBreakpoint(line) = DeleteBreakpoint((CHOOSE b \in here : TRUE).n)
    BY <1>2 DEF ToggleBreakpoint
  <2> QED
    BY <2>2, <2>3, BreakCallsAre, Zenon DEF ToggleAddressBreakpoint
<1>3. CASE here = {}
  <2>1. ToggleBreakpoint(line) = BreakAt(line)
    BY <1>3 DEF ToggleBreakpoint
  <2> QED
    BY <2>1, BreakCallsAre, Zenon DEF ToggleAddressBreakpoint
<1> QED
  BY <1>2, <1>3

LEMMA ExpandIs ==
  ASSUME g \in Gs
  PROVE  /\ Mild(ListChildren(1) \o <<L("expanded", g.rev)>>)
         /\ Mild(<<L("collapsed", 0)>> \o ListChildren(1) \o <<L("reexpanded", 0)>>)
<1> DEFINE a == R("var", 0, 3)
           b == R("children", 0, 0)
           c == R("vardelete", 0, 0)
           d == L("expanded", g.rev)
           e == L("reexpanded", 0)
           f == L("collapsed", 0)
<1>1. g.rev \in Nat /\ g.rev <= g.rev
  BY DEF Gs
<1>2. a \in Ops /\ b \in Ops /\ c \in Ops /\ d \in Ops /\ e \in Ops /\ f \in Ops
  BY <1>1, OpsAre, DosAre, ArgumentsAre, Zenon
<1>3. ListChildren(1) = <<a, b, c>>
  <2>1. 1 + 2 = 3
    OBVIOUS
  <2> QED
    BY <2>1 DEF ListChildren
<1>4. Mild(<<a, b, c, d>>) /\ Mild(<<a, b, c, e>>) /\ Mild(<<f>>)
  BY <1>1, ExpandWhole, ReexpandWhole, LocalsAre
<1> HIDE DEF a, b, c, d, e, f
<1>5. Mild(<<a, b, c>> \o <<d>>)
  <2>1. Joins(<<a, b, c>>, <<d>>, <<a, b, c, d>>)
    BY <1>2, Cuts, Zenon
  <2> QED
    BY <1>4, <2>1, Zenon DEF Joins
<1>6. Mild(<<f>> \o <<a, b, c>> \o <<e>>)
  <2>1. <<f>> \in Seq(Ops) /\ <<a, b, c>> \in Seq(Ops) /\ <<e>> \in Seq(Ops)
    BY <1>2
  <2>2. <<f>> \o <<a, b, c>> \o <<e>> = <<f>> \o (<<a, b, c>> \o <<e>>)
    BY <2>1, Regroup
  <2>3. Joins(<<a, b, c>>, <<e>>, <<a, b, c, e>>)
    BY <1>2, Cuts, Zenon
  <2> QED
    BY <1>4, <2>2, <2>3, MildJoins, Zenon DEF Joins
<1> QED
  BY <1>3, <1>5, <1>6 DEF d, e, f

LEMMA VariablesMild == Mild(RefreshVariables)
<1> DEFINE a == L("novars", 0)
           b == R("args", 0, 0)
           c == R("locals", 0, 0)
           d == L("vars", 0)
<1>1. a \in Ops /\ b \in Ops /\ c \in Ops /\ d \in Ops
  BY OpsAre, DosAre, ArgumentsAre, Zenon
<1>2. Mild(<<a, d>>) /\ Mild(<<a, b, c, d>>)
  BY NoVarsWhole, VarsWhole
<1>3. RefreshVariables = (<<a>> \o (IF g.source THEN <<b, c>> ELSE <<>>)) \o <<d>>
  BY DEF RefreshVariables
<1> HIDE DEF a, b, c, d
<1>4. Joins(<<a>>, <<b, c>>, <<a, b, c>>) /\ Joins(<<a, b, c>>, <<d>>, <<a, b, c, d>>)
  BY <1>1, Cuts, Zenon
<1>5. Joins(<<a>>, <<>>, <<a>>) /\ Joins(<<a>>, <<d>>, <<a, d>>)
  BY <1>1, Cuts, Zenon
<1>6. (<<a>> \o <<b, c>>) \o <<d>> = <<a, b, c, d>> /\ (<<a>> \o <<>>) \o <<d>> = <<a, d>>
  BY <1>4, <1>5, Zenon DEF Joins
<1> QED
  BY <1>2, <1>3, <1>6, Zenon

LEMMA RegistersMild == Mild(RefreshRegisters)
<1> DEFINE a == L("noregs", 0)
           b == R("names", 0, 1)
           c == R("regs", 0, 0)
<1>1. a \in Ops /\ b \in Ops /\ c \in Ops
  BY OpsAre, DosAre, ArgumentsAre, Zenon
<1>2. Mild(<<b, c>>) /\ Mild(<<c>>) /\ Mild(<<a>>)
  BY RegsWhole, LoneAre, LocalsAre
<1>3. RefreshRegisters = (<<a>> \o (IF g.names THEN <<>> ELSE <<b>>)) \o <<c>>
  BY DEF RefreshRegisters
<1> HIDE DEF a, b, c
<1>4. Joins(<<a>>, <<b>>, <<a, b>>) /\ Joins(<<a, b>>, <<c>>, <<a, b, c>>) /\ Joins(<<a>>, <<b, c>>, <<a, b, c>>)
  BY <1>1, Cuts, Zenon
<1>5. Joins(<<a>>, <<>>, <<a>>)
  BY <1>1, Cuts, Zenon
<1>6. (<<a>> \o <<b>>) \o <<c>> = <<a>> \o <<b, c>> /\ (<<a>> \o <<>>) \o <<c>> = <<a>> \o <<c>>
  BY <1>4, <1>5, Zenon DEF Joins
<1> QED
  BY <1>2, <1>3, <1>6, MildJoins, Zenon

LEMMA ContextIs ==
  ASSUME g \in Gs, NEW full \in BOOLEAN
  PROVE  /\ Sound(Context(full)) /\ NoAlters(Context(full)) /\ Context(full) # <<>>
         /\ \E keep \in BOOLEAN : (keep => g.framesValid) /\ Context(full)[1] = L("revise", keep)
<1> PICK keep \in BOOLEAN : keep = (~full /\ g.framesValid)
  BY DEF Gs
<1> DEFINE a == <<L("revise", keep), R("frame", 0, 0), L("placed", 0), L("variables", 0)>>
           b == IF keep THEN <<>> ELSE <<L("noframes", 0), R("frames", 0, 0)>>
           c == <<L("registers", 0), L("listing", 0)>>
           d == IF full \/ ~keep THEN RefreshBreakpoints ELSE <<>>
           e == <<L("changed", 0)>>
<1>1. Sound(a) /\ NoAlters(a)
  BY ReviseSound
<1>2. a # <<>> /\ a[1] = L("revise", keep)
  OBVIOUS
<1>3. Mild(<<L("noframes", 0), R("frames", 0, 0)>>) /\ Mild(c)
  BY LocalsAre, LoneAre, LonePair, Zenon
<1>4. Mild(b) /\ Mild(d)
  BY <1>3, EmptyMild, CallsAre
<1>5. Mild(e)
  BY LocalsAre
<1>6. Context(full) = (((a \o b) \o c) \o d) \o e
  BY Zenon DEF Context
<1> HIDE DEF a, b, c, d, e
<1> DEFINE Good(x) == Sound(x) /\ NoAlters(x) /\ x # <<>> /\ x[1] = L("revise", keep)
<1>7. ASSUME NEW x, Good(x), NEW y, Mild(y) PROVE Good(x \o y)
  <2>1. PICK z : z = x \o y
    OBVIOUS
  <2>2. Joins(x, y, z)
    BY <2>1 DEF Joins
  <2>3. Sound(x) /\ Whole(y) /\ NoAlters(x) /\ NoAlters(y) /\ x # <<>> /\ x[1] = L("revise", keep)
    BY <1>7 DEF Mild
  <2>4. Sound(z) /\ NoAlters(z) /\ z # <<>> /\ z[1] = x[1]
    BY <2>2, <2>3, SoundJoins
  <2> QED
    BY <2>1, <2>3, <2>4, Zenon
<1>8. Good(a)
  BY <1>1, <1>2
<1> HIDE DEF Good
<1>9. Good((((a \o b) \o c) \o d) \o e)
  BY <1>3, <1>4, <1>5, <1>7, <1>8
<1> QED
  BY <1>6, <1>9 DEF Good

LEMMA InspectIs ==
  ASSUME NEW what \in {"pointer", "value", "nowhere"}
  PROVE  Mild(InspectAddress(what))
<1> DEFINE a == R("var", 0, All)
           b == R("vardelete", 0, 0)
           c == R("read", 0, 0)
           d == L("detail", 0)
           e == L("address", 0)
<1>1. a \in Ops /\ b \in Ops /\ c \in Ops /\ d \in Ops /\ e \in Ops
  BY OpsAre, DosAre, ArgumentsAre, Zenon
<1>2. Mild(<<a, b>>) /\ Mild(<<a, b, c, d>>) /\ Mild(<<a, b, e, d>>)
  BY VarWhole, PointerWhole, ValueWhole
<1>3. \/ InspectAddress(what) = <<>>
      \/ InspectAddress(what) = <<a, b>> \o <<c, d>>
      \/ InspectAddress(what) = <<a, b>> \o <<e, d>>
      \/ InspectAddress(what) = <<a, b>> \o <<>>
  BY DEF InspectAddress
<1> HIDE DEF a, b, c, d, e
<1>4. /\ Joins(<<a, b>>, <<c, d>>, <<a, b, c, d>>) /\ Joins(<<a, b>>, <<e, d>>, <<a, b, e, d>>)
      /\ Joins(<<a, b>>, <<>>, <<a, b>>)
  BY <1>1, Cuts, Zenon
<1> QED
  BY <1>2, <1>3, <1>4, EmptyMild, Zenon DEF Joins

LEMMA ListsAre == Mild(ListModules) /\ Mild(ListSources) /\ Mild(Disassemble)
<1>1. Mild(ListModules) /\ Mild(ListSources)
  BY ModulesWhole, SourcesWhole, EmptyMild, Zenon DEF ListModules, ListSources
<1>2. Mild(Disassemble)
  BY CallsAre, LocalsAre, Zenon DEF Disassemble
<1> QED
  BY <1>1, <1>2

-----------------------------------------------------------------------------
(* Local steps                                                              *)

(* The local steps that unfold to others. *)
Unfolding == {"draw", "expansions", "candidates", "context", "variables", "registers", "listing", "around", "inspect",
              "address", "ranges", "catalogue"}
(* The first of the steps that a step unfolds to. *)
Opens(op, c) ==
    \/ Plain(c, 1) /\ op.do \in Unfolding \ {"context", "address"}
    \/ op.do = "context" /\ \E keep \in BOOLEAN : (keep => g.framesValid) /\ c[1] = L("revise", keep)
    \/ op.do = "address" /\ c = <<R("address", 0, 0)>> /\ Cached(g).cache.address = {}

LEMMA AddressSound == Sound(<<R("address", 0, 0)>>) /\ NoAlters(<<R("address", 0, 0)>>)
<1>1. PICK a : a = R("address", 0, 0) /\ IsR(a, "address", 0, 0)
  BY Request, DosAre, ArgumentsAre, Zenon
<1>2. a \in Ops /\ a.kind = "request" /\ a.do = "address" /\ a.x = 0 /\ a.bad = 0 /\ a.lost = 0
  BY <1>1 DEF IsR
<1> DEFINE c == <<a>>
<1>3. c \in Seq(Ops) /\ Len(c) = 1 /\ c[1] = a
  BY <1>2
<1> HIDE DEF c
<1>4. Fits(a) /\ Kinds(a)
  BY <1>2 DEF Fits, Kinds
<1>5. Flow(c)
  BY <1>2, <1>3 DEF Flow, Fails, Follows, All
<1>6. Paired(c) /\ Listed(c) /\ Fitted(c) /\ NoAlters(c)
  BY <1>2, <1>3, <1>4 DEF Paired, Listed, Fitted, NoAlters, Alters
<1>7. \A i \in 1..Len(c) : c[i].do \notin Reserved
  BY <1>2, <1>3 DEF Reserved, Leaving
<1>8. Sound(c) /\ NoAlters(c)
  BY <1>3, <1>5, <1>6, <1>7 DEF Sound
<1> QED
  BY <1>1, <1>8 DEF c

LEMMA MildOpens == \A c : Mild(c) => Sound(c) /\ NoAlters(c) /\ (c # <<>> => Plain(c, 1))
BY DEF Mild, Whole

LEMMA UnfoldIs ==
  ASSUME g \in Gs, NEW op \in Ops, Fits(op), NEW c, c = UiUnfold(op)
  PROVE  /\ Sound(c) /\ NoAlters(c) /\ (c # <<>> => Opens(op, c))
         /\ op.do = "context" => c # <<>>
         /\ op.do \notin Unfolding => c = <<>>
<1>1. CASE op.do \notin Unfolding
  <2>1. c = <<>>
    BY <1>1 DEF UiUnfold, Unfold, Unfolding
  <2> QED
    BY <1>1, <2>1, EmptyMild, MildOpens DEF Unfolding
<1>2. ASSUME op.do \in Unfolding \ {"context", "address"}, Mild(c)
      PROVE  Sound(c) /\ NoAlters(c) /\ (c # <<>> => Opens(op, c)) /\ op.do # "context"
  BY <1>2, MildOpens DEF Opens
<1>3. CASE op.do \in {"draw", "listing"}
  <2>1. c \in {Disassemble, <<>>, <<L("nocode", 0)>>}
    BY <1>3 DEF UiUnfold, Unfold
  <2>2. Mild(c)
    BY <2>1, ListsAre, LocalsAre, EmptyMild
  <2> QED
    BY <1>2, <1>3, <2>2 DEF Unfolding
<1>4. CASE op.do = "expansions"
  <2>1. c = <<>> \/ c = <<L("collapsed", 0)>> \o ListChildren(1) \o <<L("reexpanded", 0)>>
    BY <1>4 DEF UiUnfold
  <2>2. Mild(c)
    BY <2>1, ExpandIs, EmptyMild
  <2> QED
    BY <1>2, <1>4, <2>2 DEF Unfolding
<1>5. CASE op.do \in {"candidates", "variables"}
  <2>1. c = <<>> \/ c = RefreshVariables
    <3>1. CASE op.do = "candidates"
      BY <3>1 DEF UiUnfold
    <3>2. CASE op.do = "variables"
      BY <3>2 DEF UiUnfold, Unfold
    <3> QED
      BY <1>5, <3>1, <3>2
  <2>2. Mild(c)
    BY <2>1, VariablesMild, EmptyMild
  <2> QED
    BY <1>2, <1>5, <2>2 DEF Unfolding
<1>6. CASE op.do = "registers"
  <2>1. c = RefreshRegisters
    BY <1>6 DEF UiUnfold, Unfold
  <2> QED
    BY <1>2, <1>6, <2>1, RegistersMild DEF Unfolding
<1>7. CASE op.do = "around"
  <2>1. c = <<>> \/ c = <<R("disassemble", 0, 0)>>
    BY <1>7 DEF UiUnfold, Unfold
  <2>2. Mild(c)
    BY <2>1, LoneAre, EmptyMild
  <2> QED
    BY <1>2, <1>7, <2>2 DEF Unfolding
<1>8. CASE op.do = "inspect"
  <2>1. c = InspectAddress(op.x)
    BY <1>8 DEF UiUnfold, Unfold
  <2>2. op.x \in {"pointer", "value", "nowhere"}
    BY <1>8 DEF Fits
  <2>3. Mild(c)
    BY <2>1, <2>2, InspectIs
  <2> QED
    BY <1>2, <1>8, <2>3 DEF Unfolding
<1>9. CASE op.do \in {"ranges", "catalogue"}
  <2>1. c = ListModules \/ c = ListSources
    <3>1. CASE op.do = "ranges"
      BY <3>1 DEF UiUnfold, Unfold
    <3>2. CASE op.do = "catalogue"
      BY <3>2 DEF UiUnfold, Unfold
    <3> QED
      BY <1>9, <3>1, <3>2
  <2>2. Mild(c)
    BY <2>1, ListsAre
  <2> QED
    BY <1>2, <1>9, <2>2 DEF Unfolding
<1>10. CASE op.do = "address"
  <2>1. c = <<>> \/ (c = <<R("address", 0, 0)>> /\ Cached(g).cache.address = {})
    BY <1>10 DEF UiUnfold, Unfold, ExpressionAddress
  <2>2. Sound(c) /\ NoAlters(c)
    BY <2>1, AddressSound, EmptyMild, MildOpens
  <2> QED
    BY <1>10, <2>1, <2>2 DEF Opens, Unfolding
<1>11. CASE op.do = "context"
  <2>1. c = Context(op.x)
    BY <1>11 DEF UiUnfold, Unfold
  <2>2. op.x \in BOOLEAN
    BY <1>11 DEF Fits
  <2> QED
    BY <1>11, <2>1, <2>2, ContextIs DEF Opens, Unfolding
<1>12. op.do \in Unfolding =>
         \/ op.do \in {"draw", "listing"} \/ op.do = "expansions" \/ op.do \in {"candidates", "variables"}
         \/ op.do = "registers" \/ op.do = "around" \/ op.do = "inspect" \/ op.do \in {"ranges", "catalogue"}
         \/ op.do = "address" \/ op.do = "context"
  BY DEF Unfolding
<1> QED
  BY <1>1, <1>3, <1>4, <1>5, <1>6, <1>7, <1>8, <1>9, <1>10, <1>11, <1>12

(* The head is replaced by the request for an address that it asks for. *)
LEMMA HeadReplaced ==
  ASSUME NEW c \in Seq(Ops), NEW d \in Seq(Ops), Len(d) = Len(c), Len(c) >= 2, \A i \in 2..Len(c) : d[i] = c[i],
         c[2].do = "detail", c[1].do = "address", d[1].kind = "request", d[1].do = "address", d[1].bad = 0, d[1].lost = 0, Flow(c)
  PROVE  /\ Flow(d) /\ (Paired(c) => Paired(d)) /\ (Listed(c) => Listed(d)) /\ (NoAlters(c) => NoAlters(d))
         /\ NeedsInfo(c, 1)
<1>1. Len(c) \in Nat /\ Len(d) \in Nat
  OBVIOUS
<1>2. \A i \in 2..Len(c) : i \in 1..Len(c) /\ Alike2(d, i, c, i)
  <2> SUFFICES ASSUME NEW i \in 2..Len(c) PROVE i \in 1..Len(c) /\ Alike2(d, i, c, i)
    OBVIOUS
  <2>1. i < Len(c) => i + 1 \in 2..Len(c)
    BY <1>1
  <2> QED
    BY <1>1, <2>1 DEF Alike2
<1>3. \A i \in 2..Len(c) : /\ NeedsInfo(d, i) <=> NeedsInfo(c, i)
                           /\ NeedsVars(d, i) <=> NeedsVars(c, i)
                           /\ NeedsInvalid(d, i) <=> NeedsInvalid(c, i)
                           /\ NeedsList(d, i) <=> NeedsList(c, i)
                           /\ HeadOnly(d, i) <=> HeadOnly(c, i)
                           /\ Plain(d, i) <=> Plain(c, i)
  BY <1>2, NeedsAlike
<1>4. ASSUME NEW i \in 2..Len(c), i < Len(c) PROVE Follows(d, i)
  <2>1. Follows(c, i)
    BY <1>2, <1>4 DEF Flow
  <2>2. i + 1 \in 2..Len(c)
    BY <1>1, <1>4
  <2>3. d[i] = c[i]
    OBVIOUS
  <2>4. /\ NeedsInfo(d, i + 1) <=> NeedsInfo(c, i + 1)
        /\ NeedsVars(d, i + 1) <=> NeedsVars(c, i + 1)
        /\ NeedsInvalid(d, i + 1) <=> NeedsInvalid(c, i + 1)
        /\ NeedsList(d, i + 1) <=> NeedsList(c, i + 1)
        /\ HeadOnly(d, i + 1) <=> HeadOnly(c, i + 1)
        /\ NeedsInfo(d, i) <=> NeedsInfo(c, i)
        /\ NeedsVars(d, i) <=> NeedsVars(c, i)
    BY <1>3, <2>2
  <2> QED
    BY <2>1, <2>3, <2>4 DEF Follows
<1>5. ASSUME NEW i \in 2..Len(c), NEW m \in Nat, Fails(c, i, m) PROVE Fails(d, i, m)
  <2> SUFFICES ASSUME m # All PROVE Fails(d, i, m)
    BY DEF Fails
  <2>1. i + m <= Len(c) /\ (m > 0 /\ i + m < Len(c) => Plain(c, i + 1 + m))
        /\ (m = 0 => c[i].do \notin {"var", "modules", "sources"})
    BY <1>5 DEF Fails
  <2>2. m > 0 /\ i + m < Len(c) => i + 1 + m \in 2..Len(c)
    BY <1>1
  <2>3. m > 0 /\ i + m < Len(d) => Plain(d, i + 1 + m)
    BY <1>3, <2>1, <2>2
  <2>4. d[i] = c[i] /\ i + m <= Len(d)
    BY <2>1
  <2> QED
    BY <2>1, <2>3, <2>4 DEF Fails
<1>6. \A i \in 1..Len(c) : c[i].bad \in Nat /\ c[i].lost \in Nat
  <2>1. \A i \in 1..Len(c) : c[i] \in Ops
    OBVIOUS
  <2> QED
    BY <2>1 DEF Ops
<1>7. NeedsInfo(c, 1) /\ NeedsInfo(d, 1)
  <2>1. d[2] = c[2] /\ 1 + 1 = 2 /\ 1 < Len(c)
    BY <1>1
  <2> QED
    BY <2>1 DEF NeedsInfo
<1>8. Follows(d, 1)
  <2>1. d[2].do = "detail" /\ 1 + 1 = 2
    BY <1>1
  <2>2. ~NeedsVars(d, 2) /\ ~NeedsInvalid(d, 2) /\ ~NeedsList(d, 2) /\ ~HeadOnly(d, 2)
    BY <2>1 DEF NeedsVars, NeedsInvalid, NeedsList, HeadOnly, Writes
  <2> QED
    BY <1>7, <2>1, <2>2 DEF Follows
<1>9. Fails(d, 1, d[1].bad) /\ Fails(d, 1, d[1].lost)
  BY <1>1 DEF Fails
<1>10. Flow(d)
  <2> SUFFICES ASSUME NEW i \in 1..Len(d)
               PROVE  /\ i < Len(d) => Follows(d, i)
                      /\ d[i].kind = "request" => Fails(d, i, d[i].bad) /\ Fails(d, i, d[i].lost)
    BY DEF Flow
  <2>1. CASE i = 1
    BY <1>8, <1>9, <2>1
  <2>2. CASE i # 1
    <3>1. i \in 2..Len(c) /\ i \in 1..Len(c) /\ d[i] = c[i]
      BY <1>1, <2>2
    <3>2. c[i].kind = "request" => Fails(c, i, c[i].bad) /\ Fails(c, i, c[i].lost)
      BY <3>1 DEF Flow
    <3>3. c[i].bad \in Nat /\ c[i].lost \in Nat
      BY <1>6, <3>1
    <3> QED
      BY <1>4, <1>5, <3>1, <3>2, <3>3
  <2> QED
    BY <2>1, <2>2
<1>11. \A i \in 1..Len(d) : (i = 1 /\ d[i].do \notin {"select", "insert", "delete", "toggle"})
                            \/ (d[i] = c[i] /\ (i < Len(c) => d[i + 1] = c[i + 1]))
  <2> SUFFICES ASSUME NEW i \in 1..Len(d), i # 1 PROVE d[i] = c[i] /\ (i < Len(c) => d[i + 1] = c[i + 1])
    OBVIOUS
  <2>1. i \in 2..Len(c) /\ (i < Len(c) => i + 1 \in 2..Len(c))
    BY <1>1
  <2> QED
    BY <2>1
<1>12. (Paired(c) => Paired(d)) /\ (Listed(c) => Listed(d)) /\ (NoAlters(c) => NoAlters(d))
  BY <1>1, <1>11 DEF Paired, Listed, NoAlters, Alters
<1> QED
  BY <1>7, <1>10, <1>12

LEMMA TailDrops ==
  ASSUME NEW S, NEW c \in Seq(S), c # <<>>, NEW t, t = Tail(c)
  PROVE  t \in Seq(S) /\ Drops(c, t, 1) /\ 1 \in 0..Len(c) /\ Len(c) >= 1 /\ c[1] \in S /\ Head(c) = c[1]
<1>1. Len(c) \in Nat \ {0}
  BY EmptySeq
<1>2. t \in Seq(S) /\ Len(t) = Len(c) - 1 /\ \A i \in 1..Len(t) : t[i] = c[i + 1]
  BY <1>1
<1> QED
  BY <1>1, <1>2 DEF Drops

(* What is left of a call when its first step was local. *)
Stepped(d) ==
    /\ d \in Seq(Ops) /\ Flow(d) /\ Paired(d) /\ (Listed(todo) => Listed(d)) /\ (NoAlters(todo) => NoAlters(d))
    /\ Fitted(d)
    /\ \A i \in 1..Len(d) : \/ d[i].do \notin Reserved
                            \/ \E j \in 1..Len(todo) : j > 1 /\ d[i] = todo[j] /\ Len(d) - i = Len(todo) - j
(* And what its first step expects. *)
Leads(op, d) ==
    \/ op.do # "context" /\ Alike2(d, 1, todo, 2) /\ Follows(todo, 1)
    \/ op.do # "context" /\ Plain(d, 1)
    \/ op.do = "context" /\ d[1].kind = "local" /\ d[1].do = "revise" /\ (d[1].x => g.framesValid)
    \/ /\ op.do = "address" /\ d[1].kind = "request" /\ d[1].do = "address" /\ (NeedsInfo(d, 1) => NeedsInfo(todo, 1))
       /\ Cached(g).cache.address = {}

LEMMA TailStepped ==
  ASSUME Inv, todo # <<>>, NEW d, d = Tail(todo)
  PROVE  /\ Stepped(d) /\ Drops(todo, d, 1)
         /\ d # <<>> => Alike2(d, 1, todo, 2) /\ Follows(todo, 1) /\ Len(todo) >= 2
<1>1. todo \in Seq(Ops) /\ Flow(todo) /\ Paired(todo) /\ Fitting(g)
  BY DEF Inv, Types, Stepping, Told
<1>2. d \in Seq(Ops) /\ Drops(todo, d, 1) /\ 1 \in 0..Len(todo) /\ Len(todo) >= 1
  BY <1>1, TailDrops
<1>3. /\ \A i \in 1..Len(d) : i + 1 \in 1..Len(todo) /\ Alike2(d, i, todo, i + 1)
      /\ Flow(d) /\ Paired(d) /\ (Listed(todo) => Listed(d)) /\ (NoAlters(todo) => NoAlters(d))
  BY <1>1, <1>2, SuffixSteps
<1>4. Fitted(d)
  BY <1>1, <1>3 DEF Fitted, Fitting, Alike2
<1>5. Len(d) \in Nat /\ Len(todo) \in Nat /\ Len(d) = Len(todo) - 1
  BY <1>1, <1>2 DEF Drops
<1>6. \A i \in 1..Len(d) : \E j \in 1..Len(todo) : j > 1 /\ d[i] = todo[j] /\ Len(d) - i = Len(todo) - j
  <2> SUFFICES ASSUME NEW i \in 1..Len(d)
               PROVE  \E j \in 1..Len(todo) : j > 1 /\ d[i] = todo[j] /\ Len(d) - i = Len(todo) - j
    OBVIOUS
  <2>1. PICK j : j = i + 1
    OBVIOUS
  <2>2. j \in 1..Len(todo) /\ d[i] = todo[j]
    BY <1>3, <2>1 DEF Alike2
  <2>3. j > 1 /\ Len(d) - i = Len(todo) - j
    BY <1>5, <2>1
  <2> QED
    BY <2>2, <2>3
<1>7. Stepped(d)
  BY <1>2, <1>3, <1>4, <1>6 DEF Stepped
<1>8. ASSUME d # <<>> PROVE Alike2(d, 1, todo, 2) /\ Follows(todo, 1) /\ Len(todo) >= 2
  <2>1. Len(d) >= 1
    BY <1>2, <1>8, EmptySeq
  <2>2. 1 \in 1..Len(d) /\ 1 + 1 = 2 /\ 1 < Len(todo) /\ 1 \in 1..Len(todo)
    BY <1>5, <2>1
  <2>3. Alike2(d, 1, todo, 2)
    BY <1>3, <2>2
  <2> QED
    BY <1>1, <2>2, <2>3 DEF Flow
<1> QED
  BY <1>2, <1>7, <1>8

(* A step unfolds, and what follows it expects nothing of it. *)
LEMMA UnfoldStepped ==
  ASSUME Inv, todo # <<>>, NEW c, c # <<>>, Sound(c), NoAlters(c), NEW d, Joins(c, Tail(todo), d),
         Tail(todo) # <<>> => Plain(Tail(todo), 1)
  PROVE  Stepped(d) /\ d # <<>> /\ d[1] = c[1] /\ (Plain(d, 1) <=> Plain(c, 1)) /\ (NeedsInfo(d, 1) <=> NeedsInfo(c, 1))
<1> DEFINE t == Tail(todo)
<1>1. Stepped(t) /\ Drops(todo, t, 1)
  BY TailStepped
<1> HIDE DEF t
<1>2. c \in Seq(Ops) /\ t \in Seq(Ops) /\ Joins(c, t, d)
  BY <1>1 DEF Sound, Stepped, t
<1>3. d \in Seq(Ops) /\ JoinedAs(c, t, d)
  BY <1>2, Joined
<1>4. t # <<>> => Plain(t, 1)
  BY DEF t
<1>5. /\ Flow(d) /\ Paired(d) /\ (Listed(todo) => Listed(d)) /\ Fitted(d) /\ (NoAlters(todo) => NoAlters(d))
      /\ d # <<>> /\ d[1] = c[1] /\ (NeedsInfo(d, 1) <=> NeedsInfo(c, 1)) /\ (Plain(d, 1) <=> Plain(c, 1))
      /\ \A i \in 1..Len(d) : (\E j \in 1..Len(c) : d[i] = c[j]) \/ (\E j \in 1..Len(t) : d[i] = t[j] /\ i = Len(c) + j)
  BY <1>1, <1>2, <1>3, <1>4, JoinsKeep DEF Stepped, Sound
<1>6. \A i \in 1..Len(d) : \/ d[i].do \notin Reserved
                           \/ \E j \in 1..Len(todo) : j > 1 /\ d[i] = todo[j] /\ Len(d) - i = Len(todo) - j
  <2> SUFFICES ASSUME NEW i \in 1..Len(d), d[i].do \in Reserved
               PROVE  \E j \in 1..Len(todo) : j > 1 /\ d[i] = todo[j] /\ Len(d) - i = Len(todo) - j
    OBVIOUS
  <2>1. ~\E j \in 1..Len(c) : d[i] = c[j]
    BY DEF Sound
  <2>2. PICK k \in 1..Len(t) : d[i] = t[k] /\ i = Len(c) + k
    BY <1>5, <2>1
  <2>3. PICK j \in 1..Len(todo) : j > 1 /\ t[k] = todo[j] /\ Len(t) - k = Len(todo) - j
    BY <1>1, <2>2 DEF Stepped
  <2>4. Len(d) = Len(c) + Len(t) /\ Len(d) \in Nat /\ Len(c) \in Nat /\ Len(t) \in Nat /\ Len(todo) \in Nat
    <3>1. todo \in Seq(Ops)
      BY DEF Inv, Types
    <3> QED
      BY <1>2, <1>3, <3>1 DEF JoinedAs
  <2>5. Len(d) - i = Len(todo) - j
    BY <2>2, <2>3, <2>4
  <2> QED
    BY <2>2, <2>3, <2>5
<1> QED
  BY <1>3, <1>5, <1>6 DEF Stepped

LEMMA LocalSteps ==
  ASSUME Inv, LocalStep
  PROVE  /\ todo # <<>> /\ todo[1] \in Ops /\ todo[1].kind = "local" /\ Fits(todo[1]) /\ Kinds(todo[1]) /\ want = 0
         /\ Stepped(todo') /\ (todo' # <<>> => Leads(todo[1], todo')) /\ (todo[1].do = "context" => todo' # <<>>)
         /\ todo[1].do \notin Unfolding => todo' = Tail(todo)
<1> DEFINE op == todo[1]
           t == Tail(todo)
           c == UiUnfold(op)
<1>1. todo # <<>> /\ todo \in Seq(Ops) /\ g \in Gs /\ Fitting(g) /\ Commanded
  BY DEF LocalStep, Inv, Types, Told
<1>2. Head(todo) = op /\ op \in Ops /\ Len(todo) >= 1
  BY <1>1, TailDrops
<1>3. op.kind = "local" /\ todo' = c \o t
  BY <1>2 DEF LocalStep
<1>4. Fits(op) /\ Kinds(op)
  BY <1>1, <1>2 DEF Fitting
<1>5. want = 0
  <2>1. want # 0 => todo[1].kind = "request"
    BY <1>1 DEF Commanded
  <2> QED
    BY <1>3, <2>1
<1>6. Stepped(t) /\ Drops(todo, t, 1) /\ (t # <<>> => Alike2(t, 1, todo, 2) /\ Follows(todo, 1) /\ Len(todo) >= 2)
  BY <1>1, TailStepped
<1>7. /\ Sound(c) /\ NoAlters(c) /\ (c # <<>> => Opens(op, c)) /\ (op.do = "context" => c # <<>>)
      /\ op.do \notin Unfolding => c = <<>>
  BY <1>1, <1>2, <1>4, UnfoldIs
<1> HIDE DEF c, op
<1>8. CASE c = <<>>
  <2>1. t \in Seq(Ops)
    BY <1>6 DEF Stepped
  <2>2. todo' = t
    BY <1>3, <1>8, <2>1, NoSteps
  <2>3. op.do # "context"
    BY <1>7, <1>8
  <2>4. t # <<>> => Leads(op, t)
    BY <1>6, <2>3 DEF Leads
  <2> HIDE DEF t
  <2>5. Stepped(todo') /\ (todo' # <<>> => Leads(op, todo')) /\ (op.do = "context" => todo' # <<>>)
        /\ (op.do \notin Unfolding => todo' = t)
    BY <1>6, <2>2, <2>3, <2>4
  <2> QED
    BY <1>1, <1>2, <1>3, <1>4, <1>5, <2>5 DEF t, op
<1>9. CASE c # <<>> /\ op.do = "address" /\ t # <<>> /\ t[1].do = "detail"
  <2>1. c = <<R("address", 0, 0)>> /\ Cached(g).cache.address = {}
    BY <1>7, <1>9 DEF Opens
  <2>2. PICK a \in Ops : a = R("address", 0, 0) /\ a.kind = "request" /\ a.do = "address" /\ a.bad = 0 /\ a.lost = 0
    <3>1. IsR(R("address", 0, 0), "address", 0, 0)
      BY Request, DosAre, ArgumentsAre, Zenon
    <3> QED
      BY <3>1 DEF IsR
  <2> DEFINE e == <<a>>
  <2>3. e \in Seq(Ops) /\ Len(e) = 1 /\ e[1] = a /\ c = e
    BY <2>1, <2>2
  <2> HIDE DEF e, t
  <2>4. t \in Seq(Ops)
    BY <1>6 DEF Stepped
  <2>5. PICK d : d = e \o t
    OBVIOUS
  <2>6. d \in Seq(Ops) /\ JoinedAs(e, t, d)
    BY <2>3, <2>4, <2>5, Joined DEF Joins
  <2>7. todo' = d
    BY <1>3, <2>3, <2>5
  <2>8. Len(t) \in Nat /\ Len(todo) \in Nat /\ Len(d) = 1 + Len(t) /\ Len(t) = Len(todo) - 1 /\ Len(todo) >= 2
    BY <1>1, <1>6, <1>9, <2>3, <2>4, <2>6 DEF JoinedAs, Drops
  <2>9. d[1] = a /\ (\A i \in 2..Len(todo) : d[i] = todo[i]) /\ todo[2].do = "detail"
    <3>1. d[1] = a
      BY <2>3, <2>6 DEF JoinedAs
    <3>2. ASSUME NEW i \in 2..Len(todo) PROVE d[i] = todo[i]
      <4>1. PICK k : k = i - 1
        OBVIOUS
      <4>2. k \in 1..Len(t) /\ 1 + k = i /\ k + 1 = i
        BY <2>8, <4>1
      <4>3. d[1 + k] = t[k]
        BY <2>3, <2>6, <4>2 DEF JoinedAs
      <4>4. t[k] = todo[k + 1]
        BY <1>6, <4>2 DEF Drops
      <4> QED
        BY <4>2, <4>3, <4>4
    <3>3. t[1] = todo[2]
      <4>1. 1 \in 1..Len(t) /\ 1 + 1 = 2
        BY <2>8
      <4> QED
        BY <1>6, <4>1 DEF Drops
    <3> QED
      BY <1>9, <3>1, <3>2, <3>3
  <2>10. Flow(todo) /\ Paired(todo) /\ todo[1].do = "address"
    BY <1>9 DEF Inv, Stepping, op
  <2>11. Len(d) = Len(todo)
    BY <2>8
  <2>12. /\ Flow(d) /\ Paired(d) /\ (Listed(todo) => Listed(d)) /\ (NoAlters(todo) => NoAlters(d)) /\ NeedsInfo(todo, 1)
    BY <1>1, <2>2, <2>6, <2>8, <2>9, <2>10, <2>11, HeadReplaced
  <2>13. \A i \in 1..Len(d) : i = 1 \/ (i \in 2..Len(todo) /\ i \in 1..Len(todo) /\ d[i] = todo[i])
    <3> SUFFICES ASSUME NEW i \in 1..Len(d), i # 1 PROVE i \in 2..Len(todo) /\ i \in 1..Len(todo) /\ d[i] = todo[i]
      OBVIOUS
    <3>1. i \in 2..Len(todo) /\ i \in 1..Len(todo)
      BY <2>8
    <3> QED
      BY <2>9, <3>1
  <2>14. Fits(a) /\ Kinds(a) /\ a.do # "expanded" /\ a.do \notin Reserved
    BY <2>2 DEF Fits, Kinds, Reserved, Leaving
  <2>15. Fitted(d)
    BY <1>1, <2>9, <2>13, <2>14 DEF Fitted, Fitting
  <2>16. \A i \in 1..Len(d) : \/ d[i].do \notin Reserved
                              \/ \E j \in 1..Len(todo) : j > 1 /\ d[i] = todo[j] /\ Len(d) - i = Len(todo) - j
    <3> SUFFICES ASSUME NEW i \in 1..Len(d), i # 1
                 PROVE  \E j \in 1..Len(todo) : j > 1 /\ d[i] = todo[j] /\ Len(d) - i = Len(todo) - j
      BY <2>9, <2>14
    <3>1. i \in 1..Len(todo) /\ i > 1 /\ d[i] = todo[i] /\ Len(d) - i = Len(todo) - i
      BY <2>11, <2>13
    <3> QED
      BY <3>1
  <2>17. Stepped(d)
    BY <2>6, <2>12, <2>15, <2>16 DEF Stepped
  <2>18. Leads(op, d)
    BY <1>9, <2>1, <2>2, <2>9, <2>12 DEF Leads
  <2>19. op.do \in Unfolding /\ op.do # "context"
    BY <1>9 DEF Unfolding
  <2> QED
    BY <1>1, <1>2, <1>3, <1>4, <1>5, <2>7, <2>17, <2>18, <2>19 DEF op
<1>10. CASE c # <<>> /\ ~(op.do = "address" /\ t # <<>> /\ t[1].do = "detail")
  <2> HIDE DEF t
  <2>1. op.do \in Unfolding
    BY <1>7, <1>10
  <2>2. t # <<>> => Plain(t, 1)
    <3> SUFFICES ASSUME t # <<>> PROVE Plain(t, 1)
      OBVIOUS
    <3>1. Alike2(t, 1, todo, 2) /\ Follows(todo, 1) /\ t[1] = todo[2] /\ 1 + 1 = 2
      BY <1>6 DEF Alike2
    <3>2. ~NeedsInfo(todo, 1)
      <4>1. op.do = "address" => todo[2].do # "detail"
        BY <1>10, <3>1
      <4> QED
        BY <2>1, <3>1, <4>1 DEF NeedsInfo, Unfolding, op
    <3>3. ~NeedsInfo(todo, 2) /\ ~NeedsVars(todo, 2) /\ ~NeedsInvalid(todo, 2) /\ ~NeedsList(todo, 2) /\ ~HeadOnly(todo, 2)
      BY <1>3, <2>1, <3>1, <3>2 DEF Follows, Unfolding, op
    <3> QED
      BY <3>1, <3>3, NeedsAlike DEF Plain
  <2>3. PICK d : Joins(c, t, d) /\ todo' = d
    BY <1>3 DEF Joins
  <2>4. Stepped(d) /\ d # <<>> /\ d[1] = c[1] /\ (Plain(d, 1) <=> Plain(c, 1)) /\ (NeedsInfo(d, 1) <=> NeedsInfo(c, 1))
    BY <1>1, <1>7, <1>10, <2>2, <2>3, UnfoldStepped DEF t
  <2>5. Opens(op, c)
    BY <1>7, <1>10
  <2>6. Leads(op, d)
    <3>1. CASE Plain(c, 1) /\ op.do \in Unfolding \ {"context", "address"}
      BY <2>4, <3>1 DEF Leads
    <3>2. CASE op.do = "context" /\ \E keep \in BOOLEAN : (keep => g.framesValid) /\ c[1] = L("revise", keep)
      <4>1. PICK keep \in BOOLEAN : (keep => g.framesValid) /\ c[1] = L("revise", keep)
        BY <3>2
      <4>2. IsL(L("revise", keep), "revise", keep)
        BY Local, DosAre, ArgumentsAre
      <4>3. d[1].kind = "local" /\ d[1].do = "revise" /\ d[1].x = keep
        BY <2>4, <4>1, <4>2 DEF IsL
      <4> QED
        BY <3>2, <4>1, <4>3 DEF Leads
    <3>3. CASE op.do = "address" /\ c = <<R("address", 0, 0)>> /\ Cached(g).cache.address = {}
      <4>1. PICK a \in Ops : a = R("address", 0, 0) /\ a.kind = "request" /\ a.do = "address"
        <5>1. IsR(R("address", 0, 0), "address", 0, 0)
          BY Request, DosAre, ArgumentsAre, Zenon
        <5> QED
          BY <5>1 DEF IsR
      <4>2. c = <<a>>
        BY <3>3, <4>1
      <4>3. c[1] = a /\ Len(c) = 1
        BY <4>2
      <4>4. ~NeedsInfo(c, 1)
        BY <4>1, <4>3 DEF NeedsInfo
      <4> QED
        BY <2>4, <3>3, <4>1, <4>3, <4>4 DEF Leads
    <3> QED
      BY <2>5, <3>1, <3>2, <3>3 DEF Opens
  <2> QED
    BY <1>1, <1>2, <1>3, <1>4, <1>5, <2>1, <2>3, <2>4, <2>6 DEF op
<1> QED
  BY <1>8, <1>9, <1>10

(* A step from s and u to t and w keeps nothing but what was kept and what  *)
(* GDB has now.                                                             *)
Keeps(s, u, t, w, q) ==
    /\ t.state = s.state
    /\ \A v \in Current(t, w) : v \in Current(s, u) \/ (v = Now(gdb) /\ Calm(q))
    /\ t.framesValid => (s.framesValid /\ t.frames \subseteq s.frames) \/ (t.frames \subseteq {gdb.at} /\ Calm(q))

LEMMA KeepsTells ==
  ASSUME NEW s, NEW u, NEW t, NEW w, NEW q, Keeps(s, u, t, w, q)
  PROVE  /\ KeptTrue(s, u) => KeptTrue(t, w)
         /\ Unsettled(s, u) => Unsettled(t, w)
         /\ (\A v \in Current(s, u) : v.frame = gdb.frame) => \A v \in Current(t, w) : v.frame = gdb.frame
<1>1. Alike(Now(gdb)) /\ Now(gdb).frame = gdb.frame
  BY DEF Alike, Now
<1>2. KeptTrue(s, u) => KeptTrue(t, w)
  BY <1>1 DEF Keeps, KeptTrue
<1>3. (\E i \in 1..Len(cmds) : cmds[i].do \in Writes) => ~Calm(q)
  BY DEF Calm, Changers
<1>4. Unsettled(s, u) => Unsettled(t, w)
  BY <1>3 DEF Keeps, Unsettled, NothingKept
<1> QED
  BY <1>1, <1>2, <1>4 DEF Keeps

(* What a local step must make of struct Gdb and the view. *)
Effected(t, w) ==
    /\ t \in Gs /\ w \in Uis /\ t.token = g.token /\ t.info = g.info /\ t.list = g.list /\ t.breaks = g.breaks
    /\ t.rev >= g.rev /\ Revisions(t, w) /\ Keeps(g, ui, t, w, Stream)
    /\ NoLib(Stream, 0) /\ gdb.prints = 0 => SymbolsTrue(t)

LEMMA InvHas ==
  ASSUME Inv
  PROVE  /\ g \in Gs /\ ui \in Uis /\ gdb \in Gdbs /\ todo \in Seq(Ops) /\ Revisions(g, ui)
         /\ Ready(g, ui, Stream, todo) /\ Believes(g, ui, Stream)
BY DEF Inv, Types, Told

LEMMA SteadyKeeps ==
  ASSUME Inv, NEW t \in Gs, Same(g, t), Still(g, t)
  PROVE  Effected(t, ui)
<1>1. g \in Gs /\ ui \in Uis /\ Revisions(g, ui) /\ Believes(g, ui, Stream) /\ g.rev \in Nat
  BY InvHas DEF Gs
<1>2. t.rev >= g.rev /\ t.rev = g.rev
  BY <1>1 DEF Still
<1>3. Current(t, ui) = Current(g, ui)
  BY <1>1, <1>2, CurrentKept
<1>4. Revisions(t, ui)
  BY <1>1 DEF Revisions, Same, Still
<1>5. Keeps(g, ui, t, ui, Stream)
  BY <1>3 DEF Keeps, Still, Same
<1>6. SymbolsTrue(g) => SymbolsTrue(t)
  BY DEF SymbolsTrue, Same, Still
<1> QED
  BY <1>1, <1>2, <1>4, <1>5, <1>6 DEF Effected, Believes, Same

LEMMA RisenKeeps ==
  ASSUME Inv, NEW t \in Gs, Same(g, t), t.rev = g.rev + 1, t.symbols = g.symbols, t.state = g.state,
         t.framesValid => g.framesValid
  PROVE  Effected(t, ui) /\ Current(t, ui) = {}
<1>1. g \in Gs /\ ui \in Uis /\ Revisions(g, ui) /\ Believes(g, ui, Stream) /\ g.rev \in Nat
  BY InvHas DEF Gs
<1>2. t.rev >= g.rev /\ t.rev > g.rev
  BY <1>1
<1>3. Current(t, ui) = {}
  BY <1>1, <1>2, CurrentKept
<1>4. Revisions(t, ui)
  <2>1. /\ g.varsRev \in Nat /\ g.cache.rev \in Nat /\ t.rev \in Nat
        /\ \A e \in ui.expanded : e.rev \in Nat
    BY <1>1 DEF Gs, Caches, Uis
  <2>2. g.rev <= t.rev
    BY <1>1, <1>2
  <2>3. \A n \in Nat : n <= g.rev => n <= t.rev
    BY <1>1, <2>1, <2>2, AtMost, Zenon
  <2> QED
    BY <1>1, <2>1, <2>3 DEF Revisions, Same
<1>5. Keeps(g, ui, t, ui, Stream)
  BY <1>3 DEF Keeps, Same
<1>6. SymbolsTrue(g) => SymbolsTrue(t)
  BY DEF SymbolsTrue, Same
<1> QED
  BY <1>1, <1>2, <1>3, <1>4, <1>5, <1>6 DEF Effected, Believes, Same

LEMMA SymbolsRisen ==
  ASSUME Inv, NEW t \in Gs, Same(g, t), t.rev = g.rev, t.symbols = g.symbols + 1, t.state = g.state,
         t.framesValid = g.framesValid
  PROVE  Effected(t, ui)
<1>1. g \in Gs /\ ui \in Uis /\ Revisions(g, ui) /\ Believes(g, ui, Stream) /\ g.rev \in Nat
  BY InvHas DEF Gs
<1>2. t.rev >= g.rev
  BY <1>1
<1>3. Current(t, ui) = Current(g, ui)
  BY <1>1, <1>2, CurrentKept
<1>4. g.symbols \in Nat /\ g.modulesRev \in Nat /\ g.sourcesRev \in Nat
  BY <1>1 DEF Gs
<1>5. g.modulesRev <= g.symbols /\ g.sourcesRev <= g.symbols
  BY <1>1 DEF Revisions
<1>6. g.modulesRev <= t.symbols /\ g.sourcesRev <= t.symbols /\ g.modulesRev # t.symbols /\ g.sourcesRev # t.symbols
  BY <1>4, <1>5
<1>7. Revisions(t, ui)
  BY <1>1, <1>6 DEF Revisions, Same
<1>8. Keeps(g, ui, t, ui, Stream)
  BY <1>3 DEF Keeps, Same
<1>9. SymbolsTrue(t)
  BY <1>6 DEF SymbolsTrue, Same
<1> QED
  BY <1>1, <1>2, <1>7, <1>8, <1>9 DEF Effected, Same

(* What else than the caches stays. *)
Rest(s, t) ==
    /\ t.token = s.token /\ t.info = s.info /\ t.list = s.list /\ t.breaks = s.breaks /\ t.state = s.state
    /\ t.rev = s.rev /\ t.symbols = s.symbols /\ t.framesValid = s.framesValid
SameVars(s, t) == t.args = s.args /\ t.locals = s.locals /\ t.varsRev = s.varsRev
SameLists(s, t) == /\ t.modules = s.modules /\ t.modulesRev = s.modulesRev /\ t.sources = s.sources
                   /\ t.sourcesRev = s.sourcesRev

LEMMA FewerKept ==
  ASSUME Inv, NEW t \in Gs, Rest(g, t), SameLists(g, t), t.frames \subseteq g.frames, Revisions(t, ui),
         \A v : Kept(v, t, ui) => Kept(v, g, ui) \/ (v = Now(gdb) /\ Calm(Stream))
  PROVE  Effected(t, ui)
<1>1. g \in Gs /\ ui \in Uis /\ Believes(g, ui, Stream) /\ g.rev \in Nat
  BY InvHas DEF Gs
<1>2. t.rev >= g.rev
  BY <1>1 DEF Rest
<1>3. \A v \in Current(t, ui) : v \in Current(g, ui) \/ (v = Now(gdb) /\ Calm(Stream))
  BY CurrentIs
<1>4. Keeps(g, ui, t, ui, Stream)
  BY <1>3 DEF Keeps, Rest
<1>5. SymbolsTrue(g) => SymbolsTrue(t)
  BY DEF SymbolsTrue, SameLists, Rest
<1> QED
  BY <1>1, <1>2, <1>4, <1>5 DEF Effected, Believes, Rest

LEMMA InvalidateEffect ==
  ASSUME Inv, NEW t, t = InvalidateValues(g)
  PROVE  Effected(t, ui) /\ NothingKept(t, ui)
<1>1. /\ t \in Gs /\ Same(g, t) /\ t.rev = g.rev + 1 /\ t.symbols = g.symbols /\ t.state = g.state
      /\ ~t.framesValid
  BY InvHas, Invalidated
<1> QED
  BY <1>1, RisenKeeps DEF NothingKept

LEMMA ReviseEffect ==
  ASSUME Inv, NEW x \in BOOLEAN, x => g.framesValid, NEW t, t = [InvalidateValues(g) EXCEPT !.framesValid = x, !.pc = {}]
  PROVE  Effected(t, ui) /\ Current(t, ui) = {}
<1>1. PICK m : m = InvalidateValues(g)
  OBVIOUS
<1>2. m \in Gs /\ Same(g, m) /\ m.rev = g.rev + 1 /\ m.symbols = g.symbols /\ m.state = g.state
  BY <1>1, InvHas, Invalidated
<1>3. PICK l : l = [m EXCEPT !.framesValid = x]
  OBVIOUS
<1>4. l \in Gs /\ l.framesValid = x
  BY <1>2, <1>3 DEF Gs
<1>5. Same(m, l) /\ l.rev = m.rev /\ l.symbols = m.symbols /\ l.state = m.state
  BY <1>2, <1>3 DEF Gs, Same
<1>6. t = [l EXCEPT !.pc = {}]
  BY <1>1, <1>3
<1>7. t \in Gs /\ t.framesValid = x
  BY <1>4, <1>6 DEF Gs
<1>8. Same(l, t) /\ t.rev = l.rev /\ t.symbols = l.symbols /\ t.state = l.state
  BY <1>4, <1>6 DEF Gs, Same
<1>9. Same(g, t) /\ t.rev = g.rev + 1 /\ t.symbols = g.symbols /\ t.state = g.state
  BY <1>2, <1>5, <1>8 DEF Same
<1> QED
  BY <1>7, <1>9, RisenKeeps

LEMMA RerunEffect ==
  ASSUME Inv, NEW t, t = [InvalidateSymbols(g) EXCEPT !.names = FALSE]
  PROVE  Effected(t, ui)
<1>1. PICK m : m = InvalidateSymbols(g)
  OBVIOUS
<1>2. /\ m \in Gs /\ Same(g, m) /\ m.rev = g.rev /\ m.symbols = g.symbols + 1 /\ m.state = g.state
      /\ m.framesValid = g.framesValid
  BY <1>1, InvHas, SymbolsInvalidated
<1>3. PICK no \in BOOLEAN : no = FALSE
  OBVIOUS
<1>4. t = [m EXCEPT !.names = no]
  BY <1>1, <1>3
<1>5. t \in Gs /\ Same(m, t) /\ Still(m, t)
  BY <1>2, <1>4, PutNames
<1>6. /\ Same(g, t) /\ t.rev = g.rev /\ t.symbols = g.symbols + 1 /\ t.state = g.state
      /\ t.framesValid = g.framesValid
  BY <1>2, <1>5 DEF Same, Still
<1> QED
  BY <1>5, <1>6, SymbolsRisen

LEMMA NoVarsEffect ==
  ASSUME Inv, NEW t, t = [g EXCEPT !.args = {}, !.locals = {}]
  PROVE  Effected(t, ui) /\ t.args = {} /\ t.locals = {}
<1>1. g \in Gs /\ Revisions(g, ui)
  BY InvHas
<1>2. PICK m : m = [g EXCEPT !.args = {}]
  OBVIOUS
<1>3. m \in Gs /\ m.args = {}
  BY <1>1, <1>2 DEF Gs
<1>4. /\ Rest(g, m) /\ SameLists(g, m) /\ m.frames = g.frames /\ m.locals = g.locals /\ m.varsRev = g.varsRev
      /\ m.cache = g.cache
  BY <1>1, <1>2 DEF Gs, Rest, SameLists
<1>5. t = [m EXCEPT !.locals = {}]
  BY <1>2
<1>6. t \in Gs /\ t.locals = {} /\ t.args = m.args
  BY <1>3, <1>5 DEF Gs
<1>7. /\ Rest(m, t) /\ SameLists(m, t) /\ t.frames = m.frames /\ t.varsRev = m.varsRev /\ t.cache = m.cache
  BY <1>3, <1>5 DEF Gs, Rest, SameLists
<1>8. Rest(g, t) /\ SameLists(g, t) /\ t.frames = g.frames /\ t.varsRev = g.varsRev /\ t.cache = g.cache
      /\ t.args = {} /\ t.locals = {}
  BY <1>3, <1>4, <1>6, <1>7 DEF Rest, SameLists
<1>9. Revisions(t, ui)
  BY <1>1, <1>8 DEF Revisions, Rest, SameLists
<1>10. \A v : Kept(v, t, ui) => Kept(v, g, ui)
  BY <1>8 DEF Kept, Rest
<1> QED
  BY <1>6, <1>8, <1>9, <1>10, FewerKept

LEMMA VarsEffect ==
  ASSUME Inv, VarsFresh(g, Stream), NEW t, t = [g EXCEPT !.varsRev = g.rev]
  PROVE  Effected(t, ui)
<1>1. g \in Gs /\ Revisions(g, ui) /\ g.rev \in Nat
  BY InvHas DEF Gs
<1>2. t \in Gs /\ t.varsRev = g.rev
  BY <1>1 DEF Gs
<1>3. /\ Rest(g, t) /\ SameLists(g, t) /\ t.frames = g.frames /\ t.args = g.args /\ t.locals = g.locals
      /\ t.cache = g.cache
  BY <1>1 DEF Gs, Rest, SameLists
<1>4. g.rev <= g.rev
  BY <1>1
<1>5. Revisions(t, ui)
  BY <1>1, <1>2, <1>3, <1>4 DEF Revisions, Rest, SameLists
<1>6. \A v : Kept(v, t, ui) => Kept(v, g, ui) \/ (v = Now(gdb) /\ Calm(Stream))
  BY <1>2, <1>3 DEF Kept, Rest, VarsFresh
<1> QED
  BY <1>2, <1>3, <1>5, <1>6, FewerKept

LEMMA CachedEffect ==
  ASSUME Inv, NEW t, t = Cached(g)
  PROVE  Effected(t, ui) /\ t.cache.rev = t.rev
<1>1. g \in Gs /\ ui \in Uis /\ Revisions(g, ui) /\ g.rev \in Nat
  BY InvHas DEF Gs
<1>2. CASE g.cache.rev = g.rev
  <2>1. t = g
    BY <1>2 DEF Cached
  <2>2. Same(g, g) /\ Still(g, g)
    BY DEF Same, Still
  <2> QED
    BY <1>1, <1>2, <2>1, <2>2, SteadyKeeps
<1>3. CASE g.cache.rev # g.rev
  <2>1. PICK e \in Caches : e = [rev |-> g.rev, address |-> {}, detail |-> {}]
    BY <1>1 DEF Caches
  <2>2. t = [g EXCEPT !.cache = e]
    BY <1>3, <2>1 DEF Cached
  <2>3. e.rev = g.rev /\ e.address = {} /\ e.detail = {}
    BY <2>1
  <2>4. t \in Gs /\ t.cache = e
    BY <1>1, <2>2 DEF Gs
  <2>5. /\ Rest(g, t) /\ SameLists(g, t) /\ t.frames = g.frames /\ SameVars(g, t)
    BY <1>1, <2>2 DEF Gs, Rest, SameLists, SameVars
  <2>6. g.rev <= g.rev
    BY <1>1
  <2>7. Revisions(t, ui)
    BY <1>1, <2>3, <2>4, <2>5, <2>6 DEF Revisions, Rest, SameLists, SameVars
  <2>8. \A v : Kept(v, t, ui) => Kept(v, g, ui)
    BY <2>3, <2>4, <2>5 DEF Kept, Rest, SameVars
  <2>9. t.cache.rev = t.rev
    BY <2>3, <2>4, <2>5 DEF Rest
  <2> QED
    BY <2>4, <2>5, <2>7, <2>8, <2>9, FewerKept
<1> QED
  BY <1>2, <1>3

LEMMA DetailEffect ==
  ASSUME Inv, InfoFresh(g, Stream), NEW t, t = [g EXCEPT !.cache.detail = g.info]
  PROVE  Effected(t, ui)
<1>1. g \in Gs /\ Revisions(g, ui) /\ g.info \in SUBSET Nows /\ g.cache \in Caches
  BY InvHas DEF Gs
<1>2. PICK e : e = [g.cache EXCEPT !.detail = g.info]
  OBVIOUS
<1>3. e \in Caches /\ e.rev = g.cache.rev /\ e.address = g.cache.address /\ e.detail = g.info
  BY <1>1, <1>2 DEF Caches
<1>4. t = [g EXCEPT !.cache = e]
  BY <1>1, <1>2 DEF Gs
<1>5. t \in Gs /\ t.cache = e
  BY <1>1, <1>3, <1>4 DEF Gs
<1>6. /\ Rest(g, t) /\ SameLists(g, t) /\ t.frames = g.frames /\ SameVars(g, t)
  BY <1>1, <1>4 DEF Gs, Rest, SameLists, SameVars
<1>7. Revisions(t, ui)
  BY <1>1, <1>3, <1>5, <1>6 DEF Revisions, Rest, SameLists, SameVars
<1>8. \A v : Kept(v, t, ui) => Kept(v, g, ui) \/ (v = Now(gdb) /\ Calm(Stream))
  BY <1>3, <1>5, <1>6 DEF Kept, Rest, SameVars, InfoFresh
<1> QED
  BY <1>5, <1>6, <1>7, <1>8, FewerKept

LEMMA FramesEffect ==
  ASSUME Inv, NEW t, t = [g EXCEPT !.frames = {}]
  PROVE  Effected(t, ui)
<1>1. g \in Gs /\ Revisions(g, ui)
  BY InvHas
<1>2. t \in Gs /\ t.frames = {}
  BY <1>1 DEF Gs
<1>3. Rest(g, t) /\ SameLists(g, t) /\ SameVars(g, t) /\ t.cache = g.cache
  BY <1>1 DEF Gs, Rest, SameLists, SameVars
<1>4. Revisions(t, ui)
  BY <1>1, <1>3 DEF Revisions, Rest, SameLists, SameVars
<1>5. \A v : Kept(v, t, ui) => Kept(v, g, ui)
  BY <1>3 DEF Kept, Rest, SameVars
<1> QED
  BY <1>2, <1>3, <1>4, <1>5, FewerKept

LEMMA ListsEffect ==
  ASSUME Inv, ListTrue(g, Stream), NEW t,
         \/ t = [g EXCEPT !.modules = g.list, !.modulesRev = g.symbols]
         \/ t = [g EXCEPT !.sources = g.list, !.sourcesRev = g.symbols]
  PROVE  Effected(t, ui)
<1>1. g \in Gs /\ ui \in Uis /\ Revisions(g, ui) /\ Believes(g, ui, Stream) /\ g.rev \in Nat /\ g.symbols \in Nat
  BY InvHas DEF Gs
<1>2. g.symbols <= g.symbols /\ g.rev >= g.rev
  BY <1>1
<1>3. /\ t \in Gs /\ Rest(g, t) /\ SameVars(g, t) /\ t.cache = g.cache /\ t.frames = g.frames
      /\ \/ t.modules = g.list /\ t.modulesRev = g.symbols /\ t.sources = g.sources /\ t.sourcesRev = g.sourcesRev
         \/ t.sources = g.list /\ t.sourcesRev = g.symbols /\ t.modules = g.modules /\ t.modulesRev = g.modulesRev
  <2>1. CASE t = [g EXCEPT !.modules = g.list, !.modulesRev = g.symbols]
    <3>1. PICK m : m = [g EXCEPT !.modules = g.list]
      OBVIOUS
    <3>2. m \in Gs
      BY <1>1, <3>1 DEF Gs
    <3>3. m.modules = g.list /\ m.sources = g.sources /\ m.sourcesRev = g.sourcesRev /\ m.symbols = g.symbols
          /\ Rest(g, m) /\ SameVars(g, m) /\ m.cache = g.cache /\ m.frames = g.frames
      BY <1>1, <3>1 DEF Gs, Rest, SameVars
    <3>4. t = [m EXCEPT !.modulesRev = g.symbols]
      BY <2>1, <3>1
    <3>5. t \in Gs
      BY <1>1, <3>2, <3>4 DEF Gs
    <3>6. t.modulesRev = g.symbols /\ t.modules = m.modules /\ t.sources = m.sources /\ t.sourcesRev = m.sourcesRev
          /\ Rest(m, t) /\ SameVars(m, t) /\ t.cache = m.cache /\ t.frames = m.frames
      BY <3>2, <3>4 DEF Gs, Rest, SameVars
    <3> QED
      BY <3>3, <3>5, <3>6 DEF Rest, SameVars
  <2>2. CASE t = [g EXCEPT !.sources = g.list, !.sourcesRev = g.symbols]
    <3>1. PICK m : m = [g EXCEPT !.sources = g.list]
      OBVIOUS
    <3>2. m \in Gs
      BY <1>1, <3>1 DEF Gs
    <3>3. m.sources = g.list /\ m.modules = g.modules /\ m.modulesRev = g.modulesRev /\ m.symbols = g.symbols
          /\ Rest(g, m) /\ SameVars(g, m) /\ m.cache = g.cache /\ m.frames = g.frames
      BY <1>1, <3>1 DEF Gs, Rest, SameVars
    <3>4. t = [m EXCEPT !.sourcesRev = g.symbols]
      BY <2>2, <3>1
    <3>5. t \in Gs
      BY <1>1, <3>2, <3>4 DEF Gs
    <3>6. t.sourcesRev = g.symbols /\ t.sources = m.sources /\ t.modules = m.modules /\ t.modulesRev = m.modulesRev
          /\ Rest(m, t) /\ SameVars(m, t) /\ t.cache = m.cache /\ t.frames = m.frames
      BY <3>2, <3>4 DEF Gs, Rest, SameVars
    <3> QED
      BY <3>3, <3>5, <3>6 DEF Rest, SameVars
  <2> QED
    BY <2>1, <2>2
<1>4. Revisions(t, ui)
  BY <1>1, <1>2, <1>3 DEF Revisions, Rest, SameVars
<1>5. \A v \in Current(t, ui) : v \in Current(g, ui)
  <2>1. \A v : Kept(v, t, ui) => Kept(v, g, ui)
    BY <1>3 DEF Kept, Rest, SameVars
  <2> QED
    BY <2>1, CurrentIs
<1>6. Keeps(g, ui, t, ui, Stream)
  BY <1>3, <1>5 DEF Keeps, Rest
<1>7. NoLib(Stream, 0) /\ gdb.prints = 0 => SymbolsTrue(t)
  BY <1>1, <1>3 DEF Believes, SymbolsTrue, ListTrue, Rest
<1> QED
  BY <1>1, <1>2, <1>3, <1>4, <1>6, <1>7 DEF Effected, Rest

(* The effects that change neither the caches nor what they are kept under. *)
LEMMA OtherEffect ==
  ASSUME Inv, NEW x, NEW t,
         \/ t = g
         \/ x \in BOOLEAN /\ t = [g EXCEPT !.source = x]
         \/ t = [g EXCEPT !.regs = {}]
         \/ x \in BOOLEAN /\ t = [g EXCEPT !.code = x]
         \/ x \in BOOLEAN /\ t = [g EXCEPT !.changed = x]
         \/ x \in BOOLEAN /\ t = [g EXCEPT !.defer = x]
  PROVE  Effected(t, ui)
<1>1. g \in Gs
  BY InvHas
<1>2. t \in Gs
  BY <1>1 DEF Gs
<1>3. Same(g, t)
  BY <1>1 DEF Gs, Same
<1>4. Still(g, t)
  BY <1>1 DEF Gs, Still
<1> QED
  BY <1>2, <1>3, <1>4, SteadyKeeps

LEMMA LocalEffect ==
  ASSUME Inv, todo # <<>>, NEW op, op = todo[1], op.kind = "local", Fits(op), NEW t, t = Effect(op)
  PROVE  /\ Effected(t, ui)
         /\ op.do = "invalidate" => NothingKept(t, ui)
         /\ op.do \in {"invalidate", "revise"} => Current(t, ui) = {}
         /\ op.do = "novars" => t.args = {} /\ t.locals = {}
         /\ op.do = "address" => t = Cached(g)
         /\ op.do \in {"context", "expanded", "reexpanded"} => t = g
<1>1. Ready(g, ui, Stream, todo) /\ g \in Gs
  BY InvHas
<1>2. CASE op.do = "invalidate"
  <2>1. t = InvalidateValues(g)
    BY <1>2 DEF Effect
  <2> QED
    BY <1>2, <2>1, InvalidateEffect DEF NothingKept
<1>3. CASE op.do = "rerun"
  <2>1. t = [InvalidateSymbols(g) EXCEPT !.names = FALSE]
    BY <1>3 DEF Effect
  <2> QED
    BY <1>3, <2>1, RerunEffect
<1>4. CASE op.do = "revise"
  <2>1. t = [InvalidateValues(g) EXCEPT !.framesValid = op.x, !.pc = {}]
    BY <1>4 DEF Effect
  <2>2. op.x \in BOOLEAN /\ (op.x => g.framesValid)
    <3>1. op.x \in BOOLEAN
      BY <1>4 DEF Fits
    <3>2. todo[1].kind = "local" /\ todo[1].do = "revise"
      BY <1>4
    <3>3. todo[1].x => g.framesValid
      BY <1>1, <3>2, Zenon DEF Ready
    <3>4. op.x => g.framesValid
      BY <3>3, Zenon
    <3> QED
      BY <3>1, <3>4, Zenon
  <2>3. Effected(t, ui) /\ Current(t, ui) = {}
    BY <2>1, <2>2, ReviseEffect, Zenon
  <2> QED
    BY <1>4, <2>3
<1>5. CASE op.do = "novars"
  <2>1. t = [g EXCEPT !.args = {}, !.locals = {}]
    BY <1>5 DEF Effect
  <2> QED
    BY <1>5, <2>1, NoVarsEffect
<1>6. CASE op.do = "vars"
  <2>1. t = [g EXCEPT !.varsRev = g.rev]
    BY <1>6 DEF Effect
  <2>2. VarsFresh(g, Stream)
    BY <1>1, <1>6 DEF Ready, NeedsVars
  <2> QED
    BY <1>6, <2>1, <2>2, VarsEffect
<1>7. CASE op.do \in {"inspect", "address"}
  <2>1. t = Cached(g)
    BY <1>7 DEF Effect
  <2> QED
    BY <1>7, <2>1, CachedEffect
<1>8. CASE op.do = "detail"
  <2>1. t = [g EXCEPT !.cache.detail = g.info]
    BY <1>8 DEF Effect
  <2>2. InfoFresh(g, Stream)
    BY <1>1, <1>8 DEF Ready, NeedsInfo
  <2> QED
    BY <1>8, <2>1, <2>2, DetailEffect
<1>9. CASE op.do = "noframes"
  <2>1. t = [g EXCEPT !.frames = {}]
    BY <1>9 DEF Effect
  <2> QED
    BY <1>9, <2>1, FramesEffect
<1>10. CASE op.do \in {"modules", "sources"}
  <2>1. \/ t = [g EXCEPT !.modules = g.list, !.modulesRev = g.symbols]
        \/ t = [g EXCEPT !.sources = g.list, !.sourcesRev = g.symbols]
    <3>1. CASE op.do = "modules"
      BY <3>1 DEF Effect
    <3>2. CASE op.do = "sources"
      BY <3>2 DEF Effect
    <3> QED
      BY <1>10, <3>1, <3>2
  <2>2. ListTrue(g, Stream)
    BY <1>1, <1>10 DEF Ready, NeedsList
  <2>3. Effected(t, ui)
    BY <2>1, <2>2, ListsEffect
  <2> QED
    BY <1>10, <2>3
<1>11. CASE op.do \in {"placed", "located"}
  <2>1. PICK x \in BOOLEAN : t = [g EXCEPT !.source = x]
    <3>1. CASE op.do = "placed"
      <4>1. PICK x \in BOOLEAN : x = (g.pc # {} /\ \A p \in g.pc : HasSource(p))
        OBVIOUS
      <4> QED
        BY <3>1, <4>1 DEF Effect
    <3>2. CASE op.do = "located"
      <4>1. op.x \in BOOLEAN
        BY <3>2 DEF Fits
      <4> QED
        BY <3>2, <4>1 DEF Effect
    <3> QED
      BY <1>11, <3>1, <3>2
  <2> QED
    BY <1>11, <2>1, OtherEffect
<1>12. CASE op.do = "noregs"
  <2>1. t = [g EXCEPT !.regs = {}]
    BY <1>12 DEF Effect
  <2> QED
    BY <1>12, <2>1, OtherEffect
<1>13. CASE op.do = "nocode"
  <2>1. PICK no \in BOOLEAN : no = FALSE
    OBVIOUS
  <2>2. t = [g EXCEPT !.code = no]
    BY <1>13, <2>1 DEF Effect
  <2> QED
    BY <1>13, <2>2, OtherEffect
<1>14. CASE op.do = "changed"
  <2>1. PICK yes \in BOOLEAN : yes = TRUE
    OBVIOUS
  <2>2. t = [g EXCEPT !.changed = yes]
    BY <1>14, <2>1 DEF Effect
  <2> QED
    BY <1>14, <2>2, OtherEffect
<1>15. CASE op.do = "ready"
  <2>1. PICK yes \in BOOLEAN : yes = TRUE
    OBVIOUS
  <2>2. t = [g EXCEPT !.defer = yes]
    BY <1>15, <2>1 DEF Effect
  <2> QED
    BY <1>15, <2>2, OtherEffect
<1>16. CASE op.do \notin {"invalidate", "rerun", "revise", "novars", "vars", "inspect", "address", "detail", "noframes", "modules",
                          "sources", "placed", "located", "noregs", "nocode", "changed", "ready"}
  <2>1. t = g
    BY <1>16 DEF Effect
  <2>2. Effected(t, ui)
    BY <2>1, OtherEffect
  <2> QED
    BY <1>16, <2>1, <2>2
<1> QED
  BY <1>2, <1>3, <1>4, <1>5, <1>6, <1>7, <1>8, <1>9, <1>10, <1>11, <1>12, <1>13, <1>14, <1>15, <1>16

-----------------------------------------------------------------------------
(* What a local step does to the view                                       *)

LEMMA LessShown ==
  ASSUME Inv, NEW t, Effected(t, ui), NEW w \in Uis, w.expanded \subseteq ui.expanded
  PROVE  Effected(t, w) /\ Current(t, w) \subseteq Current(t, ui)
<1>1. \A v : Kept(v, t, w) => Kept(v, t, ui)
  BY DEF Kept
<1>2. Current(t, w) \subseteq Current(t, ui)
  BY <1>1, CurrentIs
<1>3. Keeps(g, ui, t, w, Stream)
  BY <1>2 DEF Effected, Keeps
<1>4. Revisions(t, w)
  BY DEF Effected, Revisions
<1> QED
  BY <1>2, <1>3, <1>4 DEF Effected

LEMMA FollowIs ==
  ASSUME NEW u \in Uis
  PROVE  Follow(u) \in Uis /\ Follow(u).expanded = u.expanded
<1>1. PICK c \in {"source", "assembly"} : c = IF g.source THEN "source" ELSE "assembly"
  OBVIOUS
<1>2. Follow(u) = [u EXCEPT !.code = c]
  BY <1>1 DEF Follow
<1> QED
  BY <1>2 DEF Uis

LEMMA EmptyShown ==
  ASSUME NEW u \in Uis
  PROVE  [u EXCEPT !.expanded = {}] \in Uis /\ [u EXCEPT !.expanded = {}].expanded = {}
BY DEF Uis

LEMMA DrawIs ==
  ASSUME ui \in Uis
  PROVE  Draw \in Uis /\ Draw.expanded \subseteq ui.expanded
<1>1. PICK m : m = IF StoppedNow THEN [Follow(ui) EXCEPT !.expanded = {}] ELSE ui
  OBVIOUS
<1>2. m \in Uis /\ m.expanded \subseteq ui.expanded
  BY <1>1, FollowIs, EmptyShown
<1>3. PICK yes \in BOOLEAN : yes = TRUE
  OBVIOUS
<1>4. Draw = [m EXCEPT !.drawn = yes]
  BY <1>1, <1>3 DEF Draw
<1> QED
  BY <1>2, <1>4 DEF Uis

LEMMA ShownMember ==
  ASSUME Inv, InfoFresh(g, Stream), NEW n \in Nat, n <= g.rev, NEW w, w = [ui EXCEPT !.expanded = {[val |-> g.info, rev |-> n]}]
  PROVE  Effected(g, w)
<1>1. g \in Gs /\ ui \in Uis /\ Revisions(g, ui) /\ Believes(g, ui, Stream) /\ g.info \in SUBSET Nows
  BY InvHas DEF Gs
<1>2. PICK e \in [val : SUBSET Nows, rev : Nat] : e = [val |-> g.info, rev |-> n]
  BY <1>1
<1>3. e.val = g.info /\ e.rev = n
  BY <1>2
<1>4. w \in Uis /\ w.expanded = {e}
  BY <1>1, <1>2 DEF Uis
<1>5. Revisions(g, w)
  BY <1>1, <1>3, <1>4 DEF Revisions
<1>6. \A v : Kept(v, g, w) => Kept(v, g, ui) \/ v \in g.info
  BY <1>3, <1>4 DEF Kept
<1>7. \A v \in Current(g, w) : v \in Current(g, ui) \/ (v = Now(gdb) /\ Calm(Stream))
  BY <1>6, CurrentIs DEF InfoFresh
<1>8. Keeps(g, ui, g, w, Stream)
  BY <1>7 DEF Keeps
<1>9. g.rev >= g.rev
  BY <1>1 DEF Gs
<1> QED
  BY <1>1, <1>4, <1>5, <1>8, <1>9 DEF Effected, Believes

LEMMA ViewEffect ==
  ASSUME Inv, todo # <<>>, NEW op, op = todo[1], op.kind = "local", Fits(op), op.do = "expanded" => op.x <= g.rev,
         NEW t, Effected(t, ui), op.do \in {"expanded", "reexpanded"} => t = g, NEW w, w = UiEffect(op)
  PROVE  /\ Effected(t, w)
         /\ op.do \notin {"expanded", "reexpanded"} => Current(t, w) \subseteq Current(t, ui)
<1>1. Ready(g, ui, Stream, todo) /\ g \in Gs /\ ui \in Uis /\ g.rev \in Nat
  BY InvHas DEF Gs
<1>2. ASSUME w \in Uis, w.expanded \subseteq ui.expanded
      PROVE  Effected(t, w) /\ Current(t, w) \subseteq Current(t, ui)
  BY <1>2, LessShown
<1>3. CASE op.do = "draw"
  <2>1. w = Draw
    BY <1>3 DEF UiEffect
  <2> QED
    BY <1>1, <1>2, <2>1, DrawIs
<1>4. CASE op.do = "ready"
  <2>1. w = Follow(ui)
    BY <1>4 DEF UiEffect
  <2> QED
    BY <1>1, <1>2, <2>1, FollowIs
<1>5. CASE op.do \in {"expanded", "reexpanded"} /\ g.info # {}
  <2>1. PICK n \in Nat : n <= g.rev /\ w = [ui EXCEPT !.expanded = {[val |-> g.info, rev |-> n]}]
    <3>1. CASE op.do = "expanded"
      <4>1. op.x \in Nat /\ op.x <= g.rev
        BY <3>1 DEF Fits
      <4>2. w = [ui EXCEPT !.expanded = {[val |-> g.info, rev |-> op.x]}]
        BY <1>5, <3>1 DEF UiEffect
      <4> QED
        BY <4>1, <4>2
    <3>2. CASE op.do = "reexpanded"
      <4>1. g.rev <= g.rev
        BY <1>1
      <4>2. w = [ui EXCEPT !.expanded = {[val |-> g.info, rev |-> g.rev]}]
        BY <1>5, <3>2 DEF UiEffect
      <4> QED
        BY <1>1, <4>1, <4>2
    <3> QED
      BY <1>5, <3>1, <3>2
  <2>2. InfoFresh(g, Stream)
    BY <1>1, <1>5 DEF Ready, NeedsInfo
  <2>3. Effected(g, w)
    BY <2>1, <2>2, ShownMember
  <2> QED
    BY <1>5, <2>3
<1>6. CASE op.do = "collapsed"
  <2>1. w = [ui EXCEPT !.expanded = {}]
    BY <1>6 DEF UiEffect
  <2>2. w \in Uis /\ w.expanded \subseteq ui.expanded
    BY <1>1, <2>1, EmptyShown
  <2> QED
    BY <1>2, <2>2
<1>7. CASE op.do = "frameShown"
  <2>1. w = [Follow(ui) EXCEPT !.expanded = {}]
    BY <1>7 DEF UiEffect
  <2>2. w \in Uis /\ w.expanded \subseteq ui.expanded
    BY <1>1, <2>1, FollowIs, EmptyShown
  <2> QED
    BY <1>2, <2>2
<1>8. CASE op.do = "assembly"
  <2>1. PICK c \in {"source", "assembly"} : c = IF g.code THEN "assembly" ELSE ui.code
    BY <1>1 DEF Uis
  <2>2. w = [ui EXCEPT !.code = c]
    BY <1>1, <1>8, <2>1 DEF UiEffect
  <2>3. w \in Uis /\ w.expanded = ui.expanded
    BY <1>1, <2>2 DEF Uis
  <2> QED
    BY <1>2, <2>3
<1>9. CASE /\ op.do \notin {"draw", "ready", "collapsed", "frameShown", "assembly"}
           /\ ~(op.do \in {"expanded", "reexpanded"} /\ g.info # {})
  <2>1. w = ui
    BY <1>9 DEF UiEffect
  <2> QED
    BY <1>1, <1>2, <2>1
<1> QED
  BY <1>3, <1>4, <1>5, <1>6, <1>7, <1>8, <1>9

-----------------------------------------------------------------------------
(* A local step keeps the invariant                                         *)

(* The parts of Told that depend only on the token of struct Gdb. *)
Heedless(q) == Tokens(q) /\ Waited(q) /\ Tidings(q) /\ Fresh(q)

LEMMA HeedlessKept ==
  ASSUME Heedless(Stream), UNCHANGED <<gdb, cmds, pipe, buf, want, late>>, g'.token = g.token
  PROVE  Heedless(Stream)'
<1>1. Stream' = Stream
  BY DEF Stream
<1>2. Tokens(Stream)'
  BY <1>1 DEF Heedless, Tokens
<1>3. Waited(Stream)'
  BY <1>1 DEF Heedless, Waited
<1>4. Tidings(Stream)'
  BY <1>1 DEF Heedless, Tidings
<1>5. Fresh(Stream)'
  BY <1>1 DEF Heedless, Fresh, Answer, Now
<1> QED
  BY <1>2, <1>3, <1>4, <1>5 DEF Heedless

(* Those that depend on what struct Gdb believes and keeps. *)
LEMMA BeliefKept ==
  ASSUME Inv, Effected(g', ui'), UNCHANGED <<gdb, cmds, pipe, buf, want, late>>
  PROVE  /\ Believes(g, ui, Stream)' /\ Unsettled(g, ui)' /\ Revisions(g, ui)'
         /\ InfoFresh(g, Stream) => InfoFresh(g, Stream)'
         /\ ListTrue(g, Stream) => ListTrue(g, Stream)'
         /\ (\A v \in Current(g, ui) : v.frame = gdb.frame) => (\A v \in Current(g, ui) : v.frame = gdb.frame)'
<1>1. Stream' = Stream
  BY DEF Stream
<1>2. Keeps(g, ui, g', ui', Stream) /\ Revisions(g', ui') /\ g'.info = g.info /\ g'.list = g.list /\ g'.state = g.state
      /\ (NoLib(Stream, 0) /\ gdb.prints = 0 => SymbolsTrue(g'))
  BY DEF Effected, Keeps
<1>3. Believes(g, ui, Stream) /\ Unsettled(g, ui)
  BY DEF Inv, Told
<1>4. /\ KeptTrue(g, ui) => KeptTrue(g', ui')
      /\ Unsettled(g', ui')
      /\ (\A v \in Current(g, ui) : v.frame = gdb.frame) => \A v \in Current(g', ui') : v.frame = gdb.frame
  BY <1>2, <1>3, KeepsTells
<1>5. Believes(g', ui', Stream)
  BY <1>2, <1>3, <1>4 DEF Believes
<1>6. Believes(g, ui, Stream)'
  BY <1>1, <1>5 DEF Believes, KeptTrue, SymbolsTrue, Alike
<1>7. Unsettled(g, ui)'
  BY <1>4 DEF Unsettled, NothingKept
<1>8. InfoFresh(g, Stream) => InfoFresh(g, Stream)'
  BY <1>1, <1>2 DEF InfoFresh, Calm, Now
<1>9. ListTrue(g, Stream) => ListTrue(g, Stream)'
  BY <1>1, <1>2 DEF ListTrue
<1> QED
  BY <1>2, <1>4, <1>6, <1>7, <1>8, <1>9

LEMMA LocalKeeps ==
  ASSUME Inv, LocalStep
  PROVE  Inv'
<1> DEFINE op == todo[1]
<1>1. /\ todo # <<>> /\ op \in Ops /\ op.kind = "local" /\ Fits(op) /\ Kinds(op) /\ want = 0
      /\ Stepped(todo') /\ (todo' # <<>> => Leads(op, todo')) /\ (op.do = "context" => todo' # <<>>)
      /\ op.do \notin Unfolding => todo' = Tail(todo)
  BY LocalSteps
<1>2. todo \in Seq(Ops) /\ Head(todo) = op /\ Len(todo) >= 1 /\ Len(todo) \in Nat
  <2>1. todo \in Seq(Ops)
    BY InvHas
  <2> QED
    BY <1>1, <2>1, TailDrops
<1>3. /\ g' = Effect(op) /\ ui' = UiEffect(op) /\ phase' = PhaseAfter(op)
      /\ UNCHANGED <<gdb, cmds, pipe, buf, want, late, keys>>
  BY <1>2 DEF LocalStep
<1>4. op.do = "expanded" => op.x <= g.rev
  BY <1>2 DEF Inv, Told, Fitting
<1>5. /\ Effected(g', ui)
      /\ op.do = "invalidate" => NothingKept(g', ui)
      /\ op.do \in {"invalidate", "revise"} => Current(g', ui) = {}
      /\ op.do = "novars" => g'.args = {} /\ g'.locals = {}
      /\ op.do = "address" => g' = Cached(g)
      /\ op.do \in {"context", "expanded", "reexpanded"} => g' = g
  BY <1>1, <1>3, LocalEffect
<1>6. /\ Effected(g', ui')
      /\ op.do \notin {"expanded", "reexpanded"} => Current(g', ui') \subseteq Current(g', ui)
  BY <1>1, <1>3, <1>4, <1>5, ViewEffect
<1>7. /\ g' \in Gs /\ ui' \in Uis /\ g'.token = g.token /\ g'.breaks = g.breaks /\ g'.rev >= g.rev
  BY <1>6 DEF Effected
<1>8. Told(g, ui, Stream) /\ Phases /\ Commanded /\ Types
  BY DEF Inv
<1> HIDE DEF op
<1>9. /\ todo' \in Seq(Ops) /\ Flow(todo') /\ Paired(todo') /\ (Listed(todo) => Listed(todo')) /\ (NoAlters(todo) => NoAlters(todo'))
      /\ Fitted(todo')
      /\ \A i \in 1..Len(todo') : \/ todo'[i].do \notin Reserved
                                  \/ \E j \in 1..Len(todo) : j > 1 /\ todo'[i] = todo[j] /\ Len(todo') - i = Len(todo) - j
  BY <1>1 DEF Stepped
<1>10. Types'
  BY <1>3, <1>7, <1>8, <1>9 DEF Types, PhaseAfter
<1>11. Commanded'
  BY <1>1, <1>3, <1>7, <1>8 DEF Commanded
<1>12. op.do = "ready" => phase = "start" /\ Len(todo) = 1 /\ todo' = <<>> /\ phase' = "loop"
  <2> SUFFICES ASSUME op.do = "ready" PROVE phase = "start" /\ Len(todo) = 1 /\ todo' = <<>> /\ phase' = "loop"
    OBVIOUS
  <2>1. phase = "start" /\ Len(todo) = 1
    <3>1. 1 \in 1..Len(todo) /\ todo[1].do = "ready"
      BY <1>2 DEF op
    <3> QED
      BY <1>8, <3>1 DEF Phases
  <2>2. todo' = Tail(todo)
    BY <1>1 DEF Unfolding
  <2>3. todo' = <<>>
    BY <1>2, <2>1, <2>2, <1>9, EmptySeq
  <2> QED
    BY <1>3, <2>1, <2>3 DEF PhaseAfter
<1>13. op.do = "closed" => phase \in {"quit", "end"} /\ phase' = "end"
  BY <1>2, <1>3, <1>8 DEF Phases, Leaving, PhaseAfter, op
<1>14. op.do \notin {"ready", "closed"} => phase' = phase
  BY <1>3 DEF PhaseAfter
<1>15. Phases'
  <2>1. ASSUME NEW i \in 1..Len(todo')
        PROVE  /\ todo'[i].do = "ready" => phase' = "start" /\ i = Len(todo')
               /\ todo'[i].do \in Leaving => phase' \in {"quit", "end"}
    <3> SUFFICES ASSUME todo'[i].do \in Reserved
                 PROVE  /\ todo'[i].do = "ready" => phase' = "start" /\ i = Len(todo')
                        /\ todo'[i].do \in Leaving => phase' \in {"quit", "end"}
      BY DEF Reserved
    <3>1. PICK j \in 1..Len(todo) : j > 1 /\ todo'[i] = todo[j] /\ Len(todo') - i = Len(todo) - j
      BY <1>9, <2>1
    <3>2. op.do # "ready"
      BY <1>2, <1>12, <3>1
    <3>3. Len(todo') \in Nat
      BY <1>9
    <3>4. j = Len(todo) => i = Len(todo')
      BY <1>2, <3>1, <3>3
    <3>5. /\ todo[j].do = "ready" => phase = "start" /\ j = Len(todo)
          /\ todo[j].do \in Leaving => phase \in {"quit", "end"}
      BY <1>8 DEF Phases
    <3>6. phase' = phase \/ (phase \in {"quit", "end"} /\ phase' = "end")
      BY <1>13, <1>14, <3>2
    <3> QED
      BY <3>1, <3>4, <3>5, <3>6
  <2>2. phase \in {"quit", "end"} => phase' \in {"quit", "end"}
    BY <1>12, <1>13, <1>14
  <2> QED
    BY <1>3, <1>8, <2>1, <2>2 DEF Phases
<1>16. Listed(todo) \/ phase = "start"
  BY DEF Inv, Stepping
<1>17. Stepping'
  <2>1. todo' = <<>> => Listed(todo')
    BY DEF Listed
  <2> QED
    BY <1>9, <1>12, <1>13, <1>14, <1>16, <2>1 DEF Stepping
<1>18. Heedless(Stream)'
  BY <1>3, <1>7, <1>8, HeedlessKept DEF Heedless, Told
<1>19. /\ Believes(g, ui, Stream)' /\ Unsettled(g, ui)' /\ Revisions(g, ui)'
       /\ InfoFresh(g, Stream) => InfoFresh(g, Stream)'
       /\ ListTrue(g, Stream) => ListTrue(g, Stream)'
       /\ (\A v \in Current(g, ui) : v.frame = gdb.frame) => (\A v \in Current(g, ui) : v.frame = gdb.frame)'
  BY <1>3, <1>6, BeliefKept
<1>20. Fitting(g)'
  <2>1. g.rev \in Nat /\ g'.rev \in Nat
    BY <1>7, <1>8 DEF Types, Gs
  <2>2. ASSUME NEW i \in 1..Len(todo'), todo'[i].do = "expanded" PROVE todo'[i].x <= g'.rev
    <3>1. todo'[i].x \in Nat /\ todo'[i].x <= g.rev
      BY <1>9, <2>2 DEF Fitted, Fits
    <3> QED
      BY <1>7, <2>1, <3>1
  <2>3. \A i \in 1..Len(todo') : Fits(todo'[i]) /\ Kinds(todo'[i])
    BY <1>9 DEF Fitted
  <2>4. \A i \in 1..Len(cmds') : Fits(cmds'[i])
    BY <1>3, <1>8 DEF Told, Fitting
  <2> QED
    BY <2>2, <2>3, <2>4 DEF Fitting
<1>21. Asked(Stream)'
  BY <1>1, <1>3 DEF Asked
<1>22. Stream' = Stream
  BY <1>3 DEF Stream
<1>23. Ready(g, ui, Stream, todo)'
  <2> SUFFICES ASSUME todo' # <<>>
               PROVE  /\ NeedsInfo(todo', 1) => InfoFresh(g, Stream)'
                      /\ NeedsVars(todo', 1) => VarsFresh(g, Stream)'
                      /\ NeedsInvalid(todo', 1) => NothingKept(g', ui')
                      /\ NeedsList(todo', 1) => ListTrue(g, Stream)'
                      /\ todo'[1].kind = "local" /\ todo'[1].do = "revise" /\ todo'[1].x => g'.framesValid
                      /\ todo'[1].kind = "request" /\ todo'[1].do = "address" => g'.cache.address = {}
    BY DEF Ready, NothingKept
  <2>1. CASE Plain(todo', 1)
    BY <2>1 DEF Plain, HeadOnly
  <2>2. CASE Alike2(todo', 1, todo, 2) /\ Follows(todo, 1)
    <3>1. 1 + 1 = 2
      OBVIOUS
    <3>2. /\ NeedsInfo(todo', 1) <=> NeedsInfo(todo, 2)
          /\ NeedsVars(todo', 1) <=> NeedsVars(todo, 2)
          /\ NeedsInvalid(todo', 1) <=> NeedsInvalid(todo, 2)
          /\ NeedsList(todo', 1) <=> NeedsList(todo, 2)
          /\ HeadOnly(todo', 1) <=> HeadOnly(todo, 2)
      BY <2>2, NeedsAlike
    <3>3. /\ NeedsInfo(todo, 2) => NeedsInfo(todo, 1)
          /\ NeedsVars(todo, 2) => op.do = "novars"
          /\ NeedsInvalid(todo, 2) => op.do = "invalidate"
          /\ ~NeedsList(todo, 2) /\ ~HeadOnly(todo, 2)
      BY <1>1, <2>2, <3>1 DEF Follows, op
    <3>4. NeedsInfo(todo', 1) => InfoFresh(g, Stream)'
      BY <1>1, <1>8, <1>19, <3>2, <3>3 DEF Told, Ready
    <3>5. NeedsVars(todo', 1) => VarsFresh(g, Stream)'
      BY <1>5, <3>2, <3>3 DEF VarsFresh
    <3>6. NeedsInvalid(todo', 1) => NothingKept(g', ui')
      BY <1>5, <1>6, <3>2, <3>3 DEF NothingKept
    <3> QED
      BY <3>2, <3>3, <3>4, <3>5, <3>6 DEF HeadOnly
  <2>3. CASE op.do = "context" /\ todo'[1].kind = "local" /\ todo'[1].do = "revise" /\ (todo'[1].x => g.framesValid)
    <3>1. ~NeedsInfo(todo', 1) /\ ~NeedsVars(todo', 1) /\ ~NeedsInvalid(todo', 1) /\ ~NeedsList(todo', 1)
      BY <2>3 DEF NeedsInfo, NeedsVars, NeedsInvalid, NeedsList, Writes
    <3>2. g' = g
      BY <1>5, <2>3
    <3>3. todo'[1].kind = "local" /\ todo'[1].do = "revise" /\ todo'[1].x => g'.framesValid
      BY <2>3, <3>2, Zenon
    <3> QED
      BY <2>3, <3>1, <3>3, Zenon
  <2>4. CASE /\ op.do = "address" /\ todo'[1].kind = "request" /\ todo'[1].do = "address" /\ (NeedsInfo(todo', 1) => NeedsInfo(todo, 1))
             /\ Cached(g).cache.address = {}
    <3>1. ~NeedsVars(todo', 1) /\ ~NeedsInvalid(todo', 1) /\ ~NeedsList(todo', 1)
      BY <2>4 DEF NeedsVars, NeedsInvalid, NeedsList, Writes
    <3>2. NeedsInfo(todo', 1) => InfoFresh(g, Stream)'
      BY <1>1, <1>8, <1>19, <2>4 DEF Told, Ready
    <3>3. g'.cache.address = {}
      BY <1>5, <2>4
    <3> QED
      BY <2>4, <3>1, <3>2, <3>3
  <2> QED
    BY <1>1, <2>1, <2>2, <2>3, <2>4 DEF Leads
<1>24. FrameTrue(g, ui, Stream)'
  <2> SUFFICES ASSUME late = 0, NoState(Stream, 0), ~FrameOwed(Stream)'
               PROVE  \A v \in Current(g', ui') : v.frame = gdb.frame
    BY <1>3, <1>22 DEF FrameTrue, NoState
  <2>1. CASE op.do = "context"
    <3>1. todo' # <<>> /\ todo'[1].do \in {"context", "revise"}
      BY <1>1, <2>1 DEF Leads
    <3> QED
      BY <3>1 DEF FrameOwed
  <2>2. CASE op.do = "revise"
    BY <1>5, <1>6, <2>2
  <2>3. CASE op.do \notin {"context", "revise"}
    <3>1. op.do # "select"
      BY <1>1 DEF Kinds
    <3>2. ~FrameOwed(Stream)
      BY <2>3, <3>1 DEF FrameOwed, op
    <3>3. \A v \in Current(g, ui) : v.frame = gdb.frame
      BY <1>8, <3>2 DEF Told, FrameTrue
    <3> QED
      BY <1>3, <1>19, <3>3
  <2> QED
    BY <2>1, <2>2, <2>3
<1>25. op.do # "breaks" /\ op.do \notin Alters
  BY <1>1 DEF Kinds, Alters
<1>26. late = 0 /\ phase = "start" =>
         /\ g.breaks = {} /\ gdb.bps = {} /\ NoAlters(todo)
         /\ \A i \in 1..Len(Stream) : Answer(Stream[i]) /\ Stream[i].do = "breaks" => Stream[i].bps = {}
  <2> SUFFICES ASSUME late = 0, phase = "start" PROVE g.breaks = {} /\ gdb.bps = {} /\ NoAlters(todo)
         /\ \A i \in 1..Len(Stream) : Answer(Stream[i]) /\ Stream[i].do = "breaks" => Stream[i].bps = {}
    OBVIOUS
  <2>1. /\ g.breaks = {} /\ Temporary(Stream)
        /\ \A i \in 1..Len(Stream) : Answer(Stream[i]) /\ Stream[i].do = "breaks" => Stream[i].bps = {}
    BY <1>8 DEF Told, Launch
  <2>2. ~Deleting
    BY <1>1 DEF Deleting, op
  <2>3. \A i \in 1..Len(todo) : ~Inserting(i)
    <3> SUFFICES ASSUME NEW i \in 1..Len(todo), Inserting(i) PROVE FALSE
      OBVIOUS
    <3>1. 1 \in 1..Len(todo) /\ 1 <= i + 1
      BY <1>2
    <3>2. todo[1].kind = "request"
      BY <3>1 DEF Inserting
    <3> QED
      BY <1>1, <3>2 DEF op
  <2> QED
    BY <2>1, <2>2, <2>3 DEF Temporary
<1>27. BreaksTrue(g, Stream)'
  <2> SUFFICES ASSUME late = 0, phase' = "loop"
               PROVE  /\ g'.breaks = gdb.bps
                      /\ \A i \in 1..Len(Stream) : Answer(Stream[i])' /\ Stream[i].do = "breaks" => Stream[i].bps = gdb.bps
    BY <1>3, <1>22 DEF BreaksTrue, Answer
  <2>1. \A i \in 1..Len(Stream) : Answer(Stream[i])' <=> Answer(Stream[i])
    BY <1>7, <1>22 DEF Answer
  <2>2. CASE phase = "loop"
    <3>1. ~BreaksOwed(Stream)
      BY <1>25 DEF BreaksOwed, op
    <3> QED
      BY <1>7, <1>8, <2>1, <2>2, <3>1 DEF Told, BreaksTrue
  <2>3. CASE phase # "loop"
    <3>1. phase = "start"
      BY <1>12, <1>13, <1>14, <2>3
    <3> QED
      BY <1>7, <1>26, <2>1, <3>1
  <2> QED
    BY <2>2, <2>3
<1>28. Launch(g, Stream)'
  <2> SUFFICES ASSUME late = 0, phase' = "start" PROVE Launch(g, Stream)'
    BY <1>3 DEF Launch
  <2>1. phase = "start"
    BY <1>12, <1>13, <1>14
  <2>2. g'.breaks = {} /\ gdb' .bps = {} /\ NoAlters(todo')
    BY <1>3, <1>7, <1>9, <1>26, <2>1
  <2>3. \A i \in 1..Len(Stream) : Answer(Stream[i])' /\ Stream[i].do = "breaks" => Stream[i].bps = {}
    BY <1>7, <1>22, <1>26, <2>1 DEF Answer
  <2>4. Temporary(Stream)'
    BY <2>2 DEF Temporary
  <2>5. \A i \in 1..Len(Stream') : Answer(Stream[i])' /\ Stream'[i].do = "breaks" => Stream'[i].bps = {}
    BY <1>22, <2>3 DEF Answer
  <2> QED
    BY <2>2, <2>4, <2>5 DEF Launch
<1>29. Told(g, ui, Stream)'
  BY <1>18, <1>19, <1>20, <1>21, <1>23, <1>24, <1>27, <1>28 DEF Told, Heedless
<1> QED
  BY <1>10, <1>11, <1>15, <1>17, <1>29 DEF Inv

-----------------------------------------------------------------------------
(* wait_result and gdb_poll without an answer                               *)

LEMMA OnlyRead ==
  ASSUME Inv, Told(g', ui', Stream'), Types', UNCHANGED <<gdb, cmds, todo, want, phase, late>>, g'.token = g.token
  PROVE  Inv'
<1>1. Told(g, ui, Stream)'
  BY Carried
<1>2. Commanded'
  BY DEF Inv, Commanded
<1>3. Phases'
  BY DEF Inv, Phases
<1>4. Stepping'
  BY DEF Inv, Stepping, Flow, Paired, Listed, Follows, Fails
<1> QED
  BY <1>1, <1>2, <1>3, <1>4 DEF Inv

LEMMA ReadWhileWaiting ==
  ASSUME Inv, want # 0, NEW n \in 1..Len(pipe), NEW first, Splits(pipe, n, first, pipe'), NEW read, Joins(buf, first, read),
         buf' = <<>>, g' = HandleAll(g, read), UNCHANGED <<gdb, cmds, want, todo, phase, late, ui, keys>>
  PROVE  Inv'
<1>1. Types /\ Commanded
  BY DEF Inv
<1>2. n \in 0..Len(pipe)
  OBVIOUS
<1>3. Stream \in Seq(Records) /\ read \in Seq(Records) /\ pipe' \in Seq(Records) /\ JoinedAs(read, pipe', Stream)
  BY <1>1, <1>2, Pieces
<1>4. Listening
  BY <1>1 DEF Commanded, Listening
<1>5. g \in Gs /\ Same(g, g) /\ Still(g, g)
  BY <1>1 DEF Types, Same, Still
<1>6. g' \in Gs /\ Told(g', ui, pipe') /\ g'.token = g.token
  BY <1>3, <1>4, <1>5, ReadingKeeps
<1>7. Stream' = pipe'
  BY <1>3 DEF Stream
<1>8. Types'
  BY <1>1, <1>3, <1>6 DEF Types
<1> QED
  BY <1>6, <1>7, <1>8, OnlyRead

(* The steps change when nothing is asked and no step of a call is due: a   *)
(* call begins, or one waits for news.                                      *)
Aside == todo = <<>> \/ (todo[1].kind = "local" /\ todo[1].do \in {"settle", "settled"})

LEMMA AsideOwes ==
  ASSUME Aside, NEW q
  PROVE  /\ ~FrameOwed(q) /\ ~BreaksOwed(q) /\ Listening
         /\ todo \in Seq(Ops) /\ Temporary(q) => NoAlters(todo) /\ gdb.bps = {}
<1>1. ~FrameOwed(q) /\ ~BreaksOwed(q) /\ Listening
  BY DEF Aside, FrameOwed, BreaksOwed, Alters, Listening
<1>2. ASSUME todo \in Seq(Ops), Temporary(q) PROVE NoAlters(todo) /\ gdb.bps = {}
  <2>1. ~Deleting
    BY DEF Aside, Deleting
  <2>2. ASSUME NEW i \in 1..Len(todo), Inserting(i) PROVE FALSE
    <3>1. todo # <<>> /\ 1 \in 1..Len(todo) /\ 1 <= i + 1
      BY <1>2
    <3>2. todo[1].kind = "request"
      BY <2>2, <3>1 DEF Inserting
    <3> QED
      BY <3>1, <3>2 DEF Aside
  <2> QED
    BY <1>2, <2>1, <2>2 DEF Temporary
<1> QED
  BY <1>1, <1>2

LEMMA StepsChange ==
  ASSUME Told(g', ui, Stream'), g'.token = g.token, UNCHANGED <<gdb, cmds, want>>, want = 0, late' = 0 => late = 0, Aside,
         todo \in Seq(Ops), Fitted(todo)', todo' # <<>> => Plain(todo', 1),
         phase' = "loop" => phase = "loop",
         phase' = "start" => phase = "start" /\ (NoAlters(todo) => NoAlters(todo')),
         Revisions(g', ui'), Current(g', ui') \subseteq Current(g', ui)
  PROVE  Told(g, ui, Stream)'
<1>1. /\ Fitting(g') /\ Tokens(Stream') /\ Asked(Stream') /\ Waited(Stream') /\ Tidings(Stream')
      /\ Believes(g', ui, Stream') /\ Fresh(Stream') /\ Unsettled(g', ui)
      /\ FrameTrue(g', ui, Stream') /\ BreaksTrue(g', Stream') /\ Launch(g', Stream')
  BY DEF Told
<1>2. Fitting(g)'
  BY <1>1 DEF Fitting, Fitted
<1>3. Tokens(Stream)'
  BY <1>1 DEF Tokens
<1>4. \A r : Answer(r)' <=> Answer(r)
  BY DEF Answer
<1>5. Asked(Stream)'
  BY DEF Asked
<1>6. Waited(Stream)'
  BY <1>1 DEF Waited
<1>7. Tidings(Stream)'
  BY <1>1 DEF Tidings
<1>8. Believes(g, ui, Stream)'
  BY <1>1 DEF Believes, KeptTrue, SymbolsTrue, Alike
<1>9. Now(gdb') = Now(gdb)
  OBVIOUS
<1>10. Fresh(Stream)'
  BY <1>1, <1>4, <1>9 DEF Fresh
<1>11. Unsettled(g, ui)'
  BY <1>1 DEF Unsettled, NothingKept
<1>12. Ready(g, ui, Stream, todo)'
  BY DEF Ready, Plain, HeadOnly
<1>13. ~FrameOwed(Stream') /\ ~BreaksOwed(Stream') /\ (Temporary(Stream') => NoAlters(todo) /\ gdb.bps = {})
  BY AsideOwes
<1>14. FrameTrue(g, ui, Stream)'
  BY <1>1, <1>13 DEF FrameTrue
<1>15. BreaksTrue(g, Stream)'
  BY <1>1, <1>4, <1>13 DEF BreaksTrue
<1>16. Launch(g, Stream)'
  <2> SUFFICES ASSUME late' = 0, phase' = "start" PROVE Launch(g, Stream)'
    BY DEF Launch
  <2>1. /\ g'.breaks = {} /\ NoAlters(todo) /\ gdb.bps = {}
        /\ \A i \in 1..Len(Stream') : Answer(Stream'[i]) /\ Stream'[i].do = "breaks" => Stream'[i].bps = {}
    BY <1>1, <1>13 DEF Launch
  <2>2. NoAlters(todo') /\ gdb'.bps = {}
    BY <2>1
  <2>3. Temporary(Stream)'
    BY <2>2 DEF Temporary
  <2>4. \A i \in 1..Len(Stream') : Answer(Stream[i])' /\ Stream'[i].do = "breaks" => Stream'[i].bps = {}
    BY <1>4, <2>1
  <2> QED
    BY <2>1, <2>2, <2>3, <2>4 DEF Launch
<1> QED
  BY <1>2, <1>3, <1>5, <1>6, <1>7, <1>8, <1>10, <1>11, <1>12, <1>14, <1>15, <1>16 DEF Told

-----------------------------------------------------------------------------
(* Calls begin                                                              *)

(* The steps of a call, or of the session's end. *)
Sane(c) ==
    /\ c \in Seq(Ops) /\ Flow(c) /\ Paired(c) /\ Listed(c) /\ Fitted(c) /\ (c # <<>> => Plain(c, 1))
    /\ \A i \in 1..Len(c) : c[i].do # "ready"

LEMMA CallBegins ==
  ASSUME Inv, todo = <<>>, Sane(todo'), phase' \in {"loop", "quit"},
         phase' = "loop" => phase = "loop" /\ \A i \in 1..Len(todo') : todo'[i].do \notin Leaving,
         Types', Told(g', ui, Stream'), Revisions(g', ui'), Current(g', ui') \subseteq Current(g', ui),
         g'.token = g.token, g'.rev >= g.rev, UNCHANGED <<gdb, cmds, want, late>>
  PROVE  Inv'
<1>1. want = 0 /\ Aside /\ todo \in Seq(Ops)
  BY DEF Inv, Types, Commanded, Aside
<1>2. Fitted(todo)'
  <2>1. \A i \in 1..Len(todo') : Fits(todo'[i]) /\ Kinds(todo'[i]) /\ (todo'[i].do = "expanded" => todo'[i].x <= g.rev)
    BY DEF Sane, Fitted
  <2>2. g.rev \in Nat /\ g'.rev \in Nat
    BY DEF Inv, Types, Gs
  <2>3. \A i \in 1..Len(todo') : todo'[i].do = "expanded" => todo'[i].x \in Nat
    BY <2>1 DEF Fits
  <2>4. \A n \in Nat : n <= g.rev => n <= g'.rev
    BY <2>2
  <2>5. \A i \in 1..Len(todo') : todo'[i].do = "expanded" => todo'[i].x <= g'.rev
    BY <2>1, <2>3, <2>4, Zenon
  <2> QED
    BY <2>1, <2>5 DEF Fitted
<1>3. Told(g, ui, Stream)'
  BY <1>1, <1>2, StepsChange DEF Sane
<1>4. Commanded'
  BY <1>1 DEF Inv, Commanded
<1>5. Phases'
  BY DEF Inv, Phases, Sane
<1>6. Stepping'
  <2>1. Flow(todo') /\ Paired(todo') /\ Listed(todo')
    BY DEF Sane
  <2> QED
    BY <2>1 DEF Stepping
<1> QED
  BY <1>3, <1>4, <1>5, <1>6 DEF Inv

LEMMA WholeSane ==
  ASSUME NEW c, Whole(c)
  PROVE  Sane(c) /\ \A i \in 1..Len(c) : c[i].do \notin Leaving
BY DEF Whole, Sound, Sane, Reserved

(* Nothing is read. *)
LEMMA CallKeeps ==
  ASSUME Inv, todo = <<>>, Sane(todo'), phase' \in {"loop", "quit"},
         phase' = "loop" => phase = "loop" /\ \A i \in 1..Len(todo') : todo'[i].do \notin Leaving,
         ui' \in Uis, ui'.expanded = ui.expanded \/ ui'.expanded = {}, keys' \in Nat,
         UNCHANGED <<gdb, cmds, pipe, buf, want, g, late>>
  PROVE  Inv'
<1>1. Types'
  BY DEF Inv, Types, Sane
<1>2. Stream' = Stream
  BY DEF Stream
<1>3. Told(g', ui, Stream')
  BY <1>2 DEF Inv
<1>4. Revisions(g', ui')
  BY DEF Inv, Told, Revisions
<1>5. \A v : Kept(v, g', ui') => Kept(v, g', ui)
  BY DEF Kept
<1>6. Current(g', ui') \subseteq Current(g', ui)
  BY <1>5, CurrentIs
<1>7. g'.token = g.token /\ g'.rev >= g.rev
  BY DEF Inv, Types, Gs
<1> QED
  BY <1>1, <1>3, <1>4, <1>6, <1>7, CallBegins

LEMMA Called ==
  ASSUME Inv, NEW steps, Whole(steps), NEW u \in Uis, u.expanded = ui.expanded \/ u.expanded = {}, Call(steps, u)
  PROVE  Inv'
<1>1. todo = <<>> /\ phase = "loop" /\ todo' = steps /\ UNCHANGED <<gdb, cmds, pipe, buf, want, g, phase, late>>
  BY DEF Call, Idle
<1>2. Sane(todo') /\ \A i \in 1..Len(todo') : todo'[i].do \notin Leaving
  BY <1>1, WholeSane
<1>3. ui' \in Uis /\ (ui'.expanded = ui.expanded \/ ui'.expanded = {})
  BY DEF Call, Uis
<1>4. keys' \in Nat
  BY DEF Call, Inv, Types
<1> QED
  BY <1>1, <1>2, <1>3, <1>4, CallKeeps

LEMMA Shown ==
  ASSUME Inv, NEW u \in Uis, u.expanded = ui.expanded \/ u.expanded = {}, Show(u)
  PROVE  Inv'
<1>1. todo = <<>> /\ phase = "loop" /\ UNCHANGED <<gdb, cmds, pipe, buf, want, todo, g, phase, late, keys>>
  BY DEF Show, Idle, session
<1>2. Whole(todo')
  BY <1>1, EmptyMild DEF Mild
<1>3. Sane(todo') /\ \A i \in 1..Len(todo') : todo'[i].do \notin Leaving
  BY <1>2, WholeSane
<1>4. ui' \in Uis /\ (ui'.expanded = ui.expanded \/ ui'.expanded = {})
  BY DEF Show, Uis
<1>5. keys' \in Nat
  BY <1>1 DEF Inv, Types
<1> QED
  BY <1>1, <1>3, <1>4, <1>5, CallKeeps

-----------------------------------------------------------------------------
(* The session ends                                                         *)

Ending(c) ==
    /\ c \in Seq(Ops)
    /\ \A i \in 1..Len(c) : /\ c[i].do \in {"interrupt", "settle", "detach", "exit", "closed"}
                            /\ c[i].bad = 0 /\ c[i].lost = 0 /\ Kinds(c[i])

LEMMA EndingSane ==
  ASSUME NEW c, Ending(c)
  PROVE  Sane(c)
<1>1. \A i \in 1..Len(c) : ~NeedsInfo(c, i) /\ ~NeedsVars(c, i) /\ ~NeedsInvalid(c, i) /\ ~NeedsList(c, i) /\ ~HeadOnly(c, i)
  BY DEF Ending, NeedsInfo, NeedsVars, NeedsInvalid, NeedsList, HeadOnly, Writes
<1>2. c \in Seq(Ops) /\ Len(c) \in Nat
  BY DEF Ending
<1>3. \A i \in 1..Len(c) : i < Len(c) => i + 1 \in 1..Len(c)
  BY <1>2
<1>4. \A i \in 1..Len(c) : i < Len(c) => Follows(c, i)
  BY <1>1, <1>3 DEF Follows
<1>5. \A i \in 1..Len(c) : Fails(c, i, 0)
  BY <1>2 DEF Fails, All, Ending
<1>6. Flow(c)
  BY <1>4, <1>5 DEF Flow, Ending
<1>7. Paired(c) /\ Listed(c) /\ Fitted(c) /\ \A i \in 1..Len(c) : c[i].do # "ready"
  BY DEF Ending, Paired, Listed, Fitted, Alters, Fits
<1>8. c # <<>> => Plain(c, 1)
  BY <1>1, <1>2 DEF Plain
<1> QED
  BY <1>2, <1>6, <1>7, <1>8 DEF Sane

LEMMA EndingJoins ==
  ASSUME NEW a, NEW b, Ending(a), Ending(b)
  PROVE  Ending(a \o b)
<1> DEFINE c == a \o b
<1>1. Joins(a, b, c)
  BY DEF Joins
<1> HIDE DEF c
<1>2. a \in Seq(Ops) /\ b \in Seq(Ops)
  BY DEF Ending
<1>3. c \in Seq(Ops) /\ JoinedAs(a, b, c)
  BY <1>1, <1>2, Joined
<1>4. \A i \in 1..Len(c) : (\E j \in 1..Len(a) : c[i] = a[j]) \/ (\E j \in 1..Len(b) : c[i] = b[j])
  <2> SUFFICES ASSUME NEW i \in 1..Len(c) PROVE (\E j \in 1..Len(a) : c[i] = a[j]) \/ (\E j \in 1..Len(b) : c[i] = b[j])
    OBVIOUS
  <2>1. Len(a) \in Nat /\ Len(b) \in Nat /\ Len(c) = Len(a) + Len(b)
    BY <1>2, <1>3 DEF JoinedAs
  <2>2. CASE i <= Len(a)
    <3>1. i \in 1..Len(a)
      BY <2>1, <2>2
    <3> QED
      BY <1>3, <3>1 DEF JoinedAs
  <2>3. CASE ~(i <= Len(a))
    <3>1. PICK j : j = i - Len(a)
      OBVIOUS
    <3>2. j \in 1..Len(b) /\ i = Len(a) + j
      BY <2>1, <2>3, <3>1
    <3>3. c[i] = b[j]
      BY <1>3, <3>2 DEF JoinedAs
    <3> QED
      BY <3>2, <3>3
  <2> QED
    BY <2>2, <2>3
<1>5. Ending(c)
  BY <1>3, <1>4 DEF Ending
<1> QED
  BY <1>5 DEF c

LEMMA ShutdownEnds == Ending(Shutdown)
<1> DEFINE a == R("interrupt", 0, 0)
           b == L("settle", 0)
           c == R("detach", 0, 0)
           d == R("exit", 0, 0)
           e == L("closed", 0)
<1>1. IsR(a, "interrupt", 0, 0) /\ IsL(b, "settle", 0) /\ IsR(c, "detach", 0, 0) /\ IsR(d, "exit", 0, 0) /\ IsL(e, "closed", 0)
  BY Request, Local, DosAre, ArgumentsAre, Zenon
<1> HIDE DEF a, b, c, d, e
<1>2. Kinds(a) /\ Kinds(b) /\ Kinds(c) /\ Kinds(d) /\ Kinds(e)
  BY <1>1 DEF IsR, IsL, Kinds
<1>3. Ending(<<a, b>>)
  BY <1>1, <1>2 DEF Ending, IsR, IsL
<1>4. Ending(<<c>>)
  BY <1>1, <1>2 DEF Ending, IsR, IsL
<1>5. Ending(<<d, e>>)
  BY <1>1, <1>2 DEF Ending, IsR, IsL
<1>6. Ending(<<>>)
  BY DEF Ending
<1>7. Ending((IF g.attached /\ g.state # "exited"
              THEN (IF g.state = "running" THEN <<a, b>> ELSE <<>>) \o <<c>> ELSE <<>>) \o <<d, e>>)
  <2>1. Ending(IF g.state = "running" THEN <<a, b>> ELSE <<>>)
    BY <1>3, <1>6, Zenon
  <2>2. Ending((IF g.state = "running" THEN <<a, b>> ELSE <<>>) \o <<c>>)
    BY <1>4, <2>1, EndingJoins, Zenon
  <2>3. Ending(IF g.attached /\ g.state # "exited"
               THEN (IF g.state = "running" THEN <<a, b>> ELSE <<>>) \o <<c>> ELSE <<>>)
    BY <1>6, <2>2, Zenon
  <2> QED
    BY <1>5, <2>3, EndingJoins, Zenon
<1> QED
  BY <1>7 DEF Shutdown, a, b, c, d, e

LEMMA QuitKeeps ==
  ASSUME Inv, KeyQuit
  PROVE  Inv'
<1>1. todo = <<>> /\ phase' = "quit" /\ todo' = Shutdown /\ UNCHANGED <<gdb, cmds, pipe, buf, want, g, late, ui>>
  BY DEF KeyQuit, Idle
<1>2. Sane(todo')
  BY <1>1, ShutdownEnds, EndingSane
<1>3. ui' \in Uis /\ keys' \in Nat
  BY <1>1 DEF KeyQuit, Inv, Types
<1> QED
  BY <1>1, <1>2, <1>3, CallKeeps

LEMMA StartFailedKeeps ==
  ASSUME Inv, StartFailed, UNCHANGED <<ui, keys>>
  PROVE  Inv'
<1>1. todo = <<>> /\ phase' = "quit" /\ todo' = Shutdown /\ UNCHANGED <<gdb, cmds, pipe, buf, want, g, late, ui>>
  BY DEF StartFailed, external
<1>2. Sane(todo')
  BY <1>1, ShutdownEnds, EndingSane
<1>3. ui' \in Uis /\ keys' \in Nat
  BY <1>1 DEF Inv, Types
<1> QED
  BY <1>1, <1>2, <1>3, CallKeeps

-----------------------------------------------------------------------------
(* Keys                                                                     *)

LEMMA ViewsAre ==
  ASSUME Inv
  PROVE  /\ ui \in Uis /\ g \in Gs
         /\ \A v \in {"main", "variable", "register", "return", "breaks"} :
              [ui EXCEPT !.view = v] \in Uis /\ [ui EXCEPT !.view = v].expanded = ui.expanded
         /\ [ui EXCEPT !.code = "source"] \in Uis /\ [ui EXCEPT !.code = "source"].expanded = ui.expanded
         /\ [ui EXCEPT !.expanded = {}] \in Uis /\ [ui EXCEPT !.expanded = {}].expanded = {}
<1>1. ui \in Uis /\ g \in Gs
  BY InvHas
<1> QED
  BY <1>1 DEF Uis

(* The keys that change the view only. *)
LEMMA ShowKeys ==
  ASSUME Inv, KeyEscape \/ KeyEdit \/ KeySource
  PROVE  Inv'
<1>1. CASE KeyEscape
  BY <1>1, ViewsAre, Shown DEF KeyEscape
<1>2. CASE KeyEdit
  BY <1>2, ViewsAre, Shown DEF KeyEdit
<1>3. CASE KeySource
  BY <1>3, ViewsAre, Shown DEF KeySource
<1> QED
  BY <1>1, <1>2, <1>3

LEMMA MildWhole == \A c : Mild(c) => Whole(c)
BY DEF Mild

(* Those that start and resume the program, or call it. *)
LEMMA RunKeys ==
  ASSUME Inv, KeyRun \/ KeyResume \/ KeyPrint \/ KeyReturn \/ KeyReturned
  PROVE  Inv'
<1>1. CASE KeyRun
  <2>1. Whole(<<L("rerun", 0)>> \o ExecSimple("run"))
    BY LocalsAre, CallsAre, MildJoins, MildWhole, Zenon
  <2> QED
    BY <1>1, <2>1, ViewsAre, Called DEF KeyRun
<1>2. CASE KeyResume
  <2>1. Whole(ExecSimple("exec"))
    BY CallsAre, MildWhole, Zenon
  <2> QED
    BY <1>2, <2>1, ViewsAre, Called DEF KeyResume
<1>3. CASE KeyPrint
  <2>1. Whole(PrintExpression)
    BY CallsAre, MildWhole, Zenon
  <2> QED
    BY <1>3, <2>1, ViewsAre, Called DEF KeyPrint
<1>4. CASE KeyReturn
  <2>1. Whole(ReturnType)
    BY CallsAre, MildWhole, Zenon
  <2> QED
    BY <1>4, <2>1, ViewsAre, Called DEF KeyReturn
<1>5. CASE KeyReturned
  <2>1. PICK raw \in BOOLEAN : Call(ForceReturn(raw) \o <<L("frameShown", 0)>>, [ui EXCEPT !.view = "main"])
    BY <1>5 DEF KeyReturned
  <2>2. Mild(ForceReturn(raw))
    BY ReturnMild
  <2>3. Whole(ForceReturn(raw) \o <<L("frameShown", 0)>>)
    BY <2>2, LocalsAre, MildJoins, MildWhole, Zenon
  <2> QED
    BY <2>1, <2>3, ViewsAre, Called
<1> QED
  BY <1>1, <1>2, <1>3, <1>4, <1>5

(* Those that set, delete and toggle breakpoints. *)
LEMMA BreakKeys ==
  ASSUME Inv, KeyBreak \/ KeyWatch \/ KeyCatch \/ KeyFunction \/ KeyBreaks \/ KeyBreakDelete \/ KeyBreakToggle
  PROVE  Inv'
<1>1. CASE KeyBreak
  <2>1. PICK line \in Lines : Call(ToggleBreakpoint(line), ui) \/ Call(ToggleAddressBreakpoint(line), ui)
    BY <1>1 DEF KeyBreak
  <2>2. Whole(ToggleBreakpoint(line)) /\ Whole(ToggleAddressBreakpoint(line))
    BY ViewsAre, ToggleIs
  <2> QED
    BY <2>1, <2>2, ViewsAre, Called
<1>2. CASE KeyWatch
  <2>1. Whole(Watch)
    BY BreakCallsAre DEF Watch
  <2> QED
    BY <1>2, <2>1, ViewsAre, Called DEF KeyWatch
<1>3. CASE KeyCatch
  <2>1. PICK line \in Lines, search \in BOOLEAN :
          Call((IF search THEN ListCatchCandidates ELSE <<>>) \o SetCatchpoint(line), ui)
    BY <1>3 DEF KeyCatch
  <2>2. Whole(IF search THEN ListCatchCandidates ELSE <<>>)
    BY CallsAre, EmptyMild, MildWhole, Zenon
  <2>3. Whole(SetCatchpoint(line))
    BY BreakCallsAre DEF SetCatchpoint, BreakAt
  <2>4. Whole((IF search THEN ListCatchCandidates ELSE <<>>) \o SetCatchpoint(line))
    BY <2>2, <2>3, WholeJoins, Zenon
  <2> QED
    BY <2>1, <2>4, ViewsAre, Called
<1>4. CASE KeyFunction
  <2>1. PICK line \in Lines : Call(ListFunctions \o SetFunctionBreakpoint(line), ui)
    BY <1>4 DEF KeyFunction
  <2>2. Whole(ListFunctions) /\ Whole(SetFunctionBreakpoint(line))
    BY CallsAre, BreakCallsAre, MildWhole DEF SetFunctionBreakpoint
  <2>3. Whole(ListFunctions \o SetFunctionBreakpoint(line))
    BY <2>2, WholeJoins, Zenon
  <2> QED
    BY <2>1, <2>3, ViewsAre, Called
<1>5. CASE KeyBreaks
  <2>1. Whole(RefreshBreakpoints)
    BY CallsAre, MildWhole, Zenon
  <2> QED
    BY <1>5, <2>1, ViewsAre, Called DEF KeyBreaks
<1>6. CASE KeyBreakDelete
  <2>1. PICK b \in g.breaks : Call(DeleteBreakpoint(b.n), ui)
    BY <1>6 DEF KeyBreakDelete
  <2>2. b.n \in Nat
    BY ViewsAre DEF Gs, Points
  <2> QED
    BY <2>1, <2>2, BreakCallsAre, ViewsAre, Called
<1>7. CASE KeyBreakToggle
  <2>1. PICK b \in g.breaks : Call(EnableBreakpoint(b.n), ui)
    BY <1>7 DEF KeyBreakToggle
  <2>2. b.n \in Nat
    BY ViewsAre DEF Gs, Points
  <2> QED
    BY <2>1, <2>2, BreakCallsAre, ViewsAre, Called
<1> QED
  BY <1>1, <1>2, <1>3, <1>4, <1>5, <1>6, <1>7

LEMMA ConditionKey ==
  ASSUME Inv, KeyCondition
  PROVE  Inv'
<1>1. PICK line \in Lines :
        IF ~Stopped THEN Call(ScopeCandidates \o BreakAt(line), ui)
        ELSE \E rest \in {BreakAt(line), <<L("invalidate", 0), R("eval", 0, 0)>> \o BreakAt(line), ListChildren(0) \o BreakAt(line),
                          PrintExpression} :
               Call(<<L("candidates", 0)>> \o rest, ui)
  BY DEF KeyCondition
<1>2. /\ Whole(BreakAt(line)) /\ Whole(ScopeCandidates) /\ Whole(ListChildren(0)) /\ Whole(PrintExpression)
      /\ Whole(<<L("invalidate", 0), R("eval", 0, 0)>>) /\ Whole(<<L("candidates", 0)>>)
  <2>1. Whole(BreakAt(line))
    BY BreakCallsAre
  <2>2. Whole(<<L("invalidate", 0), R("eval", 0, 0)>>) /\ Whole(<<L("candidates", 0)>>)
    BY EvaluateWhole, LocalsAre, MildWhole, Zenon
  <2>3. Whole(ScopeCandidates) /\ Whole(ListChildren(0)) /\ Whole(PrintExpression)
    BY CallsAre, MildWhole, Zenon
  <2> QED
    BY <2>1, <2>2, <2>3
<1>3. CASE ~Stopped
  <2>1. Whole(ScopeCandidates \o BreakAt(line))
    BY <1>2, WholeJoins
  <2> QED
    BY <1>1, <1>3, <2>1, ViewsAre, Called
<1>4. CASE Stopped
  <2>1. PICK rest \in {BreakAt(line), <<L("invalidate", 0), R("eval", 0, 0)>> \o BreakAt(line), ListChildren(0) \o BreakAt(line),
                       PrintExpression} : Call(<<L("candidates", 0)>> \o rest, ui)
    BY <1>1, <1>4, Zenon
  <2>2. Whole(<<L("invalidate", 0), R("eval", 0, 0)>> \o BreakAt(line)) /\ Whole(ListChildren(0) \o BreakAt(line))
    BY <1>2, WholeJoins, Zenon
  <2>3. Whole(rest)
    BY <1>2, <2>2, Zenon
  <2>4. Whole(<<L("candidates", 0)>> \o rest)
    BY <1>2, <2>3, WholeJoins, Zenon
  <2> QED
    BY <2>1, <2>4, ViewsAre, Called
<1> QED
  BY <1>3, <1>4

(* Those that look at values, frames and code. *)
LEMMA LookKeys ==
  ASSUME Inv, KeyExpand \/ KeyInspect \/ KeyAssign \/ KeyFrame \/ KeyOpen \/ KeyAssembly \/ KeyFollowCall
  PROVE  Inv'
<1>1. CASE KeyExpand
  <2>1. Show([ui EXCEPT !.expanded = {}]) \/ Call(ListChildren(1) \o <<L("expanded", g.rev)>>, ui)
    BY <1>1 DEF KeyExpand
  <2>2. Whole(ListChildren(1) \o <<L("expanded", g.rev)>>)
    BY ViewsAre, ExpandIs, MildWhole
  <2> QED
    BY <2>1, <2>2, ViewsAre, Called, Shown
<1>2. CASE KeyInspect
  <2>1. PICK what \in {"pointer", "value", "nowhere"} :
          Call(<<L("inspect", what)>> \o (IF what = "pointer" THEN <<L("address", 0)>> ELSE <<>>), ui)
    BY <1>2 DEF KeyInspect
  <2>2. Mild(<<L("inspect", what)>>)
    BY LocalsAre
  <2>3. Whole(<<L("inspect", what)>> \o (IF what = "pointer" THEN <<L("address", 0)>> ELSE <<>>))
    BY <2>2, LocalsAre, EmptyMild, MildJoins, MildWhole, Zenon
  <2> QED
    BY <2>1, <2>3, ViewsAre, Called
<1>3. CASE KeyAssign
  <2>1. Whole(AssignExpression \o (IF ui.view = "variable" THEN <<L("expansions", 0)>> ELSE <<>>))
    BY AssignMild, LocalsAre, EmptyMild, MildJoins, MildWhole, Zenon
  <2> QED
    BY <1>3, <2>1, ViewsAre, Called DEF KeyAssign
<1>4. CASE KeyFrame
  <2>1. PICK level \in {0, 1} : Call(SelectFrame(level) \o <<L("frameShown", 0)>>, ui)
    BY <1>4 DEF KeyFrame
  <2>2. Mild(SelectFrame(level))
    BY SelectWhole DEF SelectFrame
  <2>3. Whole(SelectFrame(level) \o <<L("frameShown", 0)>>)
    BY <2>2, LocalsAre, MildJoins, MildWhole, Zenon
  <2> QED
    BY <2>1, <2>3, ViewsAre, Called
<1>5. CASE KeyOpen
  <2>1. Call(<<L("catalogue", 0)>>, [ui EXCEPT !.code = "source"])
        \/ Call(ListFunctions \o DisassembleAt \o <<L("assembly", 0)>>, ui)
    BY <1>5 DEF KeyOpen
  <2>2. Whole(<<L("catalogue", 0)>>) /\ Whole(ListFunctions \o DisassembleAt \o <<L("assembly", 0)>>)
    BY LocalsAre, CallsAre, MildJoins, MildWhole, Zenon
  <2> QED
    BY <2>1, <2>2, ViewsAre, Called
<1>6. CASE KeyAssembly
  <2>1. Whole(DisassembleAt \o <<L("assembly", 0)>>)
    BY LocalsAre, CallsAre, MildJoins, MildWhole, Zenon
  <2> QED
    BY <1>6, <2>1, ViewsAre, Called DEF KeyAssembly
<1>7. CASE KeyFollowCall
  <2>1. Whole(DisassembleAt)
    BY CallsAre, MildWhole, Zenon
  <2> QED
    BY <1>7, <2>1, ViewsAre, Called DEF KeyFollowCall
<1> QED
  BY <1>1, <1>2, <1>3, <1>4, <1>5, <1>6, <1>7

-----------------------------------------------------------------------------
(* gdb_poll                                                                 *)

LEMMA PollReads ==
  ASSUME Inv, Listening, NEW h \in Gs, Same(g, h), Still(g, h), NEW n \in 0..Len(pipe), NEW then, PollWith(h, n, then)
  PROVE  /\ g' \in Gs /\ pipe' \in Seq(Records) /\ buf' \in Seq(Records)
         /\ Told(g', ui, Stream') /\ g'.token = g.token /\ g'.rev >= g.rev
         /\ todo' = Refresh \o then \/ todo' = <<>> \o then
<1>1. Types /\ buf \in Seq(Records) /\ pipe \in Seq(Records)
  BY DEF Inv, Types
<1> DEFINE m == IF buf # <<>> THEN 0 ELSE n
           first == SubSeq(pipe, 1, m)
           rest == SubSeq(pipe, m + 1, Len(pipe))
           read == buf \o first
<1>2. m \in 0..Len(pipe) /\ Splits(pipe, m, first, rest) /\ Joins(buf, first, read)
  BY <1>1 DEF Splits, Joins
<1>3. read = IF buf # <<>> THEN buf ELSE SubSeq(pipe, 1, n)
  <2>1. CASE buf # <<>>
    <3>1. first = <<>>
      BY <1>1, <2>1
    <3>2. buf \o <<>> = buf
      BY <1>1
    <3> QED
      BY <2>1, <3>1, <3>2
  <2>2. CASE buf = <<>>
    <3>1. first = SubSeq(pipe, 1, n) /\ first \in Seq(Records)
      BY <1>1, <2>2
    <3> HIDE DEF first, m
    <3>2. <<>> \o first = first
      BY <3>1
    <3> QED
      BY <2>2, <3>1, <3>2
  <2> QED
    BY <2>1, <2>2
<1>4. rest = IF buf # <<>> THEN pipe ELSE SubSeq(pipe, n + 1, Len(pipe))
  <2>1. SubSeq(pipe, 1, Len(pipe)) = pipe
    BY <1>1
  <2> QED
    BY <2>1
<1>5. /\ buf' = <<>> /\ pipe' = rest /\ g' = HandleAll(h, read)
      /\ todo' = Refresh \o then \/ todo' = <<>> \o then
  BY <1>3, <1>4 DEF PollWith
<1> HIDE DEF m, first, rest, read
<1>6. Stream \in Seq(Records) /\ read \in Seq(Records) /\ rest \in Seq(Records) /\ JoinedAs(read, rest, Stream)
  BY <1>1, <1>2, Pieces
<1>7. g' \in Gs /\ Told(g', ui, rest) /\ g'.token = g.token /\ g'.rev >= g.rev
  BY <1>5, <1>6, ReadingKeeps
<1>8. Stream' = rest
  BY <1>5, <1>6 DEF Stream
<1> QED
  BY <1>5, <1>6, <1>7, <1>8

LEMMA TurnKeeps ==
  ASSUME Inv, Turn
  PROVE  Inv'
<1>1. /\ todo = <<>> /\ phase = "loop" /\ UNCHANGED <<gdb, cmds, want, phase, late, keys>>
      /\ ui' = [ui EXCEPT !.before = [state |-> g.state, pc |-> g.pc]]
  BY DEF Turn, Idle
<1>2. PICK n \in 0..Len(pipe) : PollWith([g EXCEPT !.changed = FALSE], n, <<L("draw", 0)>>)
  BY DEF Turn
<1>3. g \in Gs /\ ui \in Uis /\ Types
  BY DEF Inv, Types
<1>4. Listening
  BY <1>1 DEF Listening
<1>5. PICK h : h = [g EXCEPT !.changed = FALSE]
  OBVIOUS
<1>6. h \in Gs
  BY <1>3, <1>5 DEF Gs
<1>7. Same(g, h) /\ Still(g, h)
  BY <1>3, <1>5 DEF Gs, Same, Still
<1>8. PICK then : then = <<L("draw", 0)>>
  OBVIOUS
<1>9. PollWith(h, n, then)
  BY <1>2, <1>5, <1>8
<1>10. /\ g' \in Gs /\ pipe' \in Seq(Records) /\ buf' \in Seq(Records)
       /\ Told(g', ui, Stream') /\ g'.token = g.token /\ g'.rev >= g.rev
       /\ todo' = Refresh \o then \/ todo' = <<>> \o then
  BY <1>4, <1>6, <1>7, <1>9, PollReads
<1>11. Whole(Refresh \o then) /\ Whole(<<>> \o then)
  BY <1>8, LocalsAre, EmptyMild, MildJoins, MildWhole, Zenon DEF Refresh
<1>12. Sane(todo') /\ \A i \in 1..Len(todo') : todo'[i].do \notin Leaving
  BY <1>10, <1>11, WholeSane, Zenon
<1>13. ui' \in Uis /\ ui'.expanded = ui.expanded
  BY <1>1, <1>3 DEF Uis, Gs
<1>14. Types'
  BY <1>1, <1>3, <1>10, <1>12, <1>13 DEF Types, Sane
<1>15. Revisions(g', ui) /\ Revisions(g', ui')
  <2>1. Revisions(g', ui)
    BY <1>10 DEF Told
  <2> QED
    BY <1>13, <2>1 DEF Revisions
<1>16. Current(g', ui') \subseteq Current(g', ui)
  <2>1. \A v : Kept(v, g', ui') => Kept(v, g', ui)
    BY <1>13 DEF Kept
  <2> QED
    BY <2>1, CurrentIs
<1> QED
  BY <1>1, <1>10, <1>12, <1>14, <1>15, <1>16, CallBegins

-----------------------------------------------------------------------------
(* Waiting for news                                                         *)

LEMMA SteppedKeeps ==
  ASSUME Inv, Stepped(todo'), UNCHANGED <<phase, cmds, gdb>>
  PROVE  Phases' /\ Stepping'
<1>1. Phases'
  <2>1. Phases
    BY DEF Inv
  <2>2. \A i \in 1..Len(todo') : \/ todo'[i].do \notin Reserved
                                 \/ \E j \in 1..Len(todo) : j > 1 /\ todo'[i] = todo[j] /\ Len(todo') - i = Len(todo) - j
    BY DEF Stepped
  <2>3. todo' \in Seq(Ops) /\ todo \in Seq(Ops)
    BY DEF Stepped, Inv, Types
  <2>4. ASSUME NEW i \in 1..Len(todo') PROVE /\ todo'[i].do = "ready" => phase = "start" /\ i = Len(todo')
                                             /\ todo'[i].do \in Leaving => phase \in {"quit", "end"}
    <3>1. CASE todo'[i].do \notin Reserved
      BY <3>1 DEF Reserved, Leaving
    <3>2. CASE \E j \in 1..Len(todo) : j > 1 /\ todo'[i] = todo[j] /\ Len(todo') - i = Len(todo) - j
      <4>1. PICK j \in 1..Len(todo) : todo'[i] = todo[j] /\ Len(todo') - i = Len(todo) - j
        BY <3>2
      <4>2. j = Len(todo) => i = Len(todo')
        <5>1. Len(todo') \in Nat /\ Len(todo) \in Nat /\ i \in Nat
          BY <2>3
        <5> QED
          BY <4>1, <5>1
      <4> QED
        BY <2>1, <4>1, <4>2 DEF Phases
    <3> QED
      BY <2>2, <3>1, <3>2
  <2> QED
    BY <2>1, <2>4 DEF Phases
<1>2. Stepping'
  <2>1. Flow(todo') /\ Paired(todo') /\ (Listed(todo) => Listed(todo'))
    BY DEF Stepped
  <2> QED
    BY <2>1 DEF Inv, Stepping
<1> QED
  BY <1>1, <1>2

(* What is left of a call is never more than its own steps. *)
LEMMA Lasting ==
  ASSUME Inv, todo # <<>>, todo'= Tail(todo) \/ todo' = <<>>, UNCHANGED <<phase, cmds, gdb>>, todo[1].kind = "local",
         todo[1].do \in {"settle", "settled"}
  PROVE  /\ todo' \in Seq(Ops) /\ Phases' /\ Stepping' /\ Fitted(todo') /\ (todo' # <<>> => Plain(todo', 1))
         /\ NoAlters(todo) => NoAlters(todo')
<1>1. CASE todo' = Tail(todo)
  <2>1. Stepped(todo') /\ (todo' # <<>> => Alike2(todo', 1, todo, 2) /\ Follows(todo, 1))
    BY <1>1, TailStepped
  <2>2. todo' # <<>> => Plain(todo', 1)
    <3> SUFFICES ASSUME todo' # <<>> PROVE Plain(todo', 1)
      OBVIOUS
    <3>1. /\ NeedsInfo(todo', 1) <=> NeedsInfo(todo, 2)
          /\ NeedsVars(todo', 1) <=> NeedsVars(todo, 2)
          /\ NeedsInvalid(todo', 1) <=> NeedsInvalid(todo, 2)
          /\ NeedsList(todo', 1) <=> NeedsList(todo, 2)
          /\ HeadOnly(todo', 1) <=> HeadOnly(todo, 2)
      BY <2>1, NeedsAlike
    <3>2. ~NeedsInfo(todo, 1)
      BY DEF NeedsInfo
    <3>3. 1 + 1 = 2
      OBVIOUS
    <3>4. ~NeedsInfo(todo, 2) /\ ~NeedsVars(todo, 2) /\ ~NeedsInvalid(todo, 2) /\ ~NeedsList(todo, 2) /\ ~HeadOnly(todo, 2)
      BY <2>1, <3>2, <3>3 DEF Follows
    <3> QED
      BY <3>1, <3>4 DEF Plain
  <2>3. Phases' /\ Stepping'
    BY <2>1, SteppedKeeps
  <2> QED
    BY <2>1, <2>2, <2>3 DEF Stepped
<1>2. CASE todo' = <<>>
  <2>1. Mild(todo')
    BY <1>2, EmptyMild
  <2>2. todo' \in Seq(Ops) /\ Flow(todo') /\ Paired(todo') /\ Listed(todo') /\ Fitted(todo') /\ NoAlters(todo')
    BY <2>1 DEF Mild, Whole, Sound
  <2>3. Phases'
    BY <1>2 DEF Inv, Phases
  <2>4. Stepping'
    BY <2>2 DEF Stepping
  <2> QED
    BY <1>2, <2>2, <2>3, <2>4
<1> QED
  BY <1>1, <1>2

LEMMA SettleKeeps ==
  ASSUME Inv, Settle, UNCHANGED <<ui, keys>>
  PROVE  Inv'
<1> DEFINE op == todo[1]
<1>1. /\ todo # <<>> /\ todo \in Seq(Ops) /\ Types /\ Commanded /\ Phases /\ Stepping /\ Fitting(g) /\ g \in Gs
      /\ Told(g, ui, Stream) /\ Revisions(g, ui)
  BY DEF Settle, Inv, Types, Told
<1>2. Head(todo) = op /\ 1 \in 1..Len(todo) /\ op \in Ops
  BY <1>1, TailDrops
<1>3. op.do \in {"settle", "settled"} /\ want = 0 /\ UNCHANGED <<gdb, cmds, want, phase, ui, keys>>
  BY <1>2 DEF Settle
<1>4. op.kind = "local"
  BY <1>1, <1>2, <1>3 DEF Fitting, Kinds
<1>5. Aside /\ Listening
  BY <1>3, <1>4 DEF Aside, Listening
<1>6. late \in Nat /\ Current(g, ui) \subseteq Current(g, ui)
  BY <1>1 DEF Types
<1> HIDE DEF op
(* Nothing is read. *)
<1>7. ASSUME UNCHANGED <<pipe, buf, g>>, todo' = Tail(todo) \/ todo' = <<>>, late' \in Nat, late' = 0 => late = 0 PROVE Inv'
  <2>1. /\ todo' \in Seq(Ops) /\ Phases' /\ Stepping' /\ Fitted(todo') /\ (todo' # <<>> => Plain(todo', 1))
        /\ NoAlters(todo) => NoAlters(todo')
    BY <1>1, <1>3, <1>4, <1>7, Lasting DEF op
  <2>2. Types'
    BY <1>1, <1>3, <1>7, <2>1 DEF Types
  <2>3. Stream' = Stream
    BY <1>7 DEF Stream
  <2>4. Told(g', ui, Stream') /\ Revisions(g', ui') /\ Current(g', ui') \subseteq Current(g', ui)
    <3>1. g' = g /\ ui' = ui
      BY <1>3, <1>7
    <3> QED
      BY <1>1, <1>6, <2>3, <3>1
  <2>5. Fitted(todo)'
    BY <1>7, <2>1 DEF Fitted
  <2>6. Told(g, ui, Stream)'
    BY <1>1, <1>3, <1>5, <1>7, <2>1, <2>4, <2>5, StepsChange
  <2>7. Commanded'
    BY <1>1, <1>3, <1>7 DEF Commanded
  <2> QED
    BY <2>1, <2>2, <2>6, <2>7 DEF Inv
<1>8. ASSUME NEW n \in 0..Len(pipe), PollWith(g, n, todo), late' = late PROVE Inv'
  <2>1. Same(g, g) /\ Still(g, g)
    BY DEF Same, Still
  <2>2. /\ g' \in Gs /\ pipe' \in Seq(Records) /\ buf' \in Seq(Records)
        /\ Told(g', ui, Stream') /\ g'.token = g.token /\ g'.rev >= g.rev
        /\ todo' = Refresh \o todo \/ todo' = <<>> \o todo
    BY <1>1, <1>5, <1>8, <2>1, PollReads
  <2>3. Revisions(g', ui') /\ Current(g', ui') \subseteq Current(g', ui)
    BY <1>3, <2>2 DEF Told
  <2>4. CASE todo' = <<>> \o todo
    <3>1. todo' = todo
      BY <1>1, <2>4
    <3>2. Types'
      BY <1>1, <1>3, <1>8, <2>2, <3>1 DEF Types
    <3> QED
      BY <1>3, <1>8, <2>2, <3>1, <3>2, OnlyRead
  <2>5. CASE todo' = Refresh \o todo
    <3>1. Joins(Refresh, todo, todo') /\ Mild(Refresh)
      BY <2>5, LocalsAre DEF Joins, Refresh
    <3>2. Refresh \in Seq(Ops) /\ Flow(Refresh) /\ Paired(Refresh) /\ Listed(Refresh) /\ Fitted(Refresh) /\ NoAlters(Refresh)
          /\ Refresh # <<>> /\ Plain(Refresh, 1) /\ \A i \in 1..Len(Refresh) : Refresh[i].do \notin Reserved
      <4>1. Refresh # <<>>
        BY DEF Refresh
      <4> QED
        BY <3>1, <4>1 DEF Mild, Whole, Sound
    <3>3. Plain(todo, 1)
      BY <1>3, <1>4 DEF Plain, NeedsInfo, NeedsVars, NeedsInvalid, NeedsList, HeadOnly, Writes, op
    <3>4. todo' \in Seq(Ops) /\ JoinedAs(Refresh, todo, todo')
      BY <1>1, <3>1, <3>2, Joined
    <3>5. /\ Flow(todo') /\ Paired(todo') /\ (Listed(todo) => Listed(todo')) /\ (NoAlters(todo) => NoAlters(todo'))
          /\ Plain(todo', 1)
          /\ \A i \in 1..Len(todo') : \/ \E j \in 1..Len(Refresh) : todo'[i] = Refresh[j]
                                      \/ \E j \in 1..Len(todo) : todo'[i] = todo[j] /\ i = Len(Refresh) + j
      BY <1>1, <3>2, <3>3, <3>4, JoinsKeep DEF Stepping
    <3>6. Fitted(todo)'
      <4>1. \A i \in 1..Len(todo) : Fits(todo[i]) /\ Kinds(todo[i]) /\ (todo[i].do = "expanded" => todo[i].x <= g'.rev)
        BY <2>2 DEF Told, Fitting
      <4>2. \A i \in 1..Len(Refresh) : Fits(Refresh[i]) /\ Kinds(Refresh[i]) /\ Refresh[i].do # "expanded"
        <5>1. Len(Refresh) = 1 /\ Refresh[1].do = "context"
          BY DEF Refresh, L
        <5>2. \A i \in 1..Len(Refresh) : Refresh[i].do = "context"
          BY <5>1
        <5> QED
          BY <3>2, <5>2 DEF Fitted
      <4>3. \A i \in 1..Len(todo') : Fits(todo'[i]) /\ Kinds(todo'[i]) /\ (todo'[i].do = "expanded" => todo'[i].x <= g'.rev)
        BY <3>5, <4>1, <4>2, Zenon
      <4> QED
        BY <4>3 DEF Fitted
    <3>7. Phases'
      <4>1. ASSUME NEW i \in 1..Len(todo') PROVE /\ todo'[i].do = "ready" => phase = "start" /\ i = Len(todo')
                                                 /\ todo'[i].do \in Leaving => phase \in {"quit", "end"}
        <5>1. CASE \E j \in 1..Len(Refresh) : todo'[i] = Refresh[j]
          BY <3>2, <5>1 DEF Reserved, Leaving
        <5>2. CASE \E j \in 1..Len(todo) : todo'[i] = todo[j] /\ i = Len(Refresh) + j
          <6>1. PICK j \in 1..Len(todo) : todo'[i] = todo[j] /\ i = Len(Refresh) + j
            BY <5>2
          <6>2. Len(todo') = Len(Refresh) + Len(todo)
            BY <3>4 DEF JoinedAs
          <6> QED
            BY <1>1, <6>1, <6>2 DEF Phases
        <5> QED
          BY <3>5, <5>1, <5>2
      <4> QED
        BY <1>1, <1>3, <4>1 DEF Phases
    <3>8. Stepping'
      BY <1>1, <1>3, <3>5 DEF Stepping
    <3>9. Types'
      BY <1>1, <1>3, <1>8, <2>2, <3>4 DEF Types
    <3>10. Told(g, ui, Stream)'
      BY <1>1, <1>3, <1>5, <1>8, <2>2, <2>3, <3>5, <3>6, StepsChange
    <3>11. Commanded'
      BY <1>1, <1>3, <2>2 DEF Commanded
    <3> QED
      BY <3>7, <3>8, <3>9, <3>10, <3>11 DEF Inv
  <2> QED
    BY <2>2, <2>4, <2>5
<1>9. \/ UNCHANGED <<pipe, buf, g>> /\ (todo' = Tail(todo) \/ todo' = <<>>) /\ late' \in Nat /\ (late' = 0 => late = 0)
      \/ \E n \in 0..Len(pipe) : PollWith(g, n, todo) /\ late' = late
  <2>1. \/ todo' = Tail(todo) /\ UNCHANGED <<pipe, buf, g, late>>
        \/ (\E n \in 1..Len(pipe) \cup (IF buf # <<>> THEN {0} ELSE {}) : PollWith(g, n, todo)) /\ UNCHANGED late
        \/ late' = late + 1 /\ todo' = (IF Head(todo).do = "settle" THEN Tail(todo) ELSE <<>>) /\ UNCHANGED <<pipe, buf, g>>
    BY DEF Settle
  <2>2. CASE todo' = Tail(todo) /\ UNCHANGED <<pipe, buf, g, late>>
    BY <1>6, <2>2
  <2>3. CASE (\E n \in 1..Len(pipe) \cup (IF buf # <<>> THEN {0} ELSE {}) : PollWith(g, n, todo)) /\ UNCHANGED late
    <3>1. PICK n \in 1..Len(pipe) \cup (IF buf # <<>> THEN {0} ELSE {}) : PollWith(g, n, todo)
      BY <2>3
    <3>2. n \in 0..Len(pipe)
      BY <1>1 DEF Types
    <3> QED
      BY <2>3, <3>1, <3>2
  <2>4. CASE late' = late + 1 /\ todo' = (IF Head(todo).do = "settle" THEN Tail(todo) ELSE <<>>) /\ UNCHANGED <<pipe, buf, g>>
    <3>1. late' \in Nat /\ late' # 0
      BY <1>6, <2>4
    <3>2. todo' = Tail(todo) \/ todo' = <<>>
      BY <2>4
    <3> QED
      BY <2>4, <3>1, <3>2
  <2> QED
    BY <2>1, <2>2, <2>3, <2>4
<1> QED
  BY <1>7, <1>8, <1>9

-----------------------------------------------------------------------------
(* A request is sent                                                        *)

LEMMA Appended ==
  ASSUME NEW S, NEW q \in Seq(S), NEW x \in S, NEW r, r = Append(q, x)
  PROVE  /\ r \in Seq(S) /\ Len(r) = Len(q) + 1 /\ Len(q) \in Nat
         /\ \A i \in 1..Len(r) : (i \in 1..Len(q) /\ r[i] = q[i]) \/ (i = Len(r) /\ r[i] = x)
OBVIOUS

LEMMA SendKeeps ==
  ASSUME Inv, Send, UNCHANGED <<ui, keys>>
  PROVE  Inv'
<1> DEFINE q == Stream
<1>1. /\ todo # <<>> /\ todo \in Seq(Ops) /\ g \in Gs /\ Types /\ Commanded /\ Phases /\ Stepping /\ Told(g, ui, q)
      /\ cmds \in Seq(Commands)
  BY DEF Send, Inv, Types
<1>2. Head(todo) = todo[1] /\ todo[1] \in Ops /\ 1 \in 1..Len(todo)
  BY <1>1, TailDrops
<1>3. PICK n \in Nat : n = g.token + 1
  BY <1>1 DEF Gs
<1>4. PICK c \in Commands : c.tok = n /\ c.do = todo[1].do /\ c.x = todo[1].x /\ c = [tok |-> n, do |-> todo[1].do, x |-> todo[1].x]
  <2>1. [tok |-> n, do |-> todo[1].do, x |-> todo[1].x] \in Commands
    BY <1>2, <1>3 DEF Commands, Ops
  <2> QED
    BY <2>1
<1>5. /\ todo[1].kind = "request" /\ want = 0 /\ UNCHANGED <<gdb, pipe, buf, todo, phase, late, ui, keys>>
      /\ g' = [g EXCEPT !.token = n]
  BY <1>2, <1>3 DEF Send
<1>6. g' \in Gs /\ g'.token = n
  BY <1>1, <1>5 DEF Gs
<1>7. /\ g'.rev = g.rev /\ g'.symbols = g.symbols /\ g'.state = g.state /\ g'.framesValid = g.framesValid
      /\ g'.frames = g.frames /\ g'.varsRev = g.varsRev /\ g'.args = g.args /\ g'.locals = g.locals /\ g'.cache = g.cache
      /\ g'.info = g.info /\ g'.list = g.list /\ g'.breaks = g.breaks
      /\ g'.modules = g.modules /\ g'.modulesRev = g.modulesRev /\ g'.sources = g.sources /\ g'.sourcesRev = g.sourcesRev
  BY <1>1, <1>5 DEF Gs
<1>8. want' = n /\ cmds' = Append(cmds, c)
  BY <1>2, <1>4, <1>6 DEF Send
<1>9. /\ cmds' \in Seq(Commands) /\ Len(cmds') = Len(cmds) + 1 /\ Len(cmds) \in Nat
      /\ \A i \in 1..Len(cmds') : (i \in 1..Len(cmds) /\ cmds'[i] = cmds[i]) \/ (i = Len(cmds') /\ cmds'[i] = c)
  BY <1>1, <1>8, Appended
<1>10. Types'
  BY <1>1, <1>5, <1>6, <1>8, <1>9 DEF Types
<1>11. g.token \in Nat /\ n = g.token + 1
  BY <1>1, <1>3 DEF Gs
<1>12. g'.token - Len(cmds') = g.token - Len(cmds)
  BY <1>6, <1>9, <1>11
<1>13. Commanded'
  <2>1. want' = g'.token /\ todo' # <<>> /\ todo'[1].kind = "request"
    BY <1>1, <1>5, <1>6, <1>8
  <2>2. Len(cmds') <= g'.token
    BY <1>1, <1>6, <1>9, <1>11 DEF Commanded
  <2>3. \A i \in 1..Len(cmds') : cmds'[i].tok = g'.token - Len(cmds') + i
    <3> SUFFICES ASSUME NEW i \in 1..Len(cmds') PROVE cmds'[i].tok = g'.token - Len(cmds') + i
      OBVIOUS
    <3>1. CASE i \in 1..Len(cmds) /\ cmds'[i] = cmds[i]
      BY <1>1, <1>12, <3>1 DEF Commanded
    <3>2. CASE i = Len(cmds') /\ cmds'[i] = c
      BY <1>4, <1>6, <1>9, <1>11, <3>2
    <3> QED
      BY <1>9, <3>1, <3>2
  <2> QED
    BY <2>1, <2>2, <2>3 DEF Commanded
<1>14. Phases'
  <2>1. \A i \in 1..Len(cmds') : cmds'[i].do \in Leaving => phase \in {"quit", "end"}
    BY <1>1, <1>2, <1>4, <1>9 DEF Phases
  <2> QED
    BY <1>1, <1>5, <2>1 DEF Phases
<1>15. Stepping'
  BY <1>1, <1>5 DEF Stepping
<1>16. Stream' = q
  BY <1>5 DEF Stream
<1>17. Fitting(g)'
  <2>1. Fitting(g)
    BY <1>1 DEF Told
  <2>2. Fits(c)
    BY <1>2, <1>4, <2>1 DEF Fitting, Fits
  <2>3. \A i \in 1..Len(cmds') : Fits(cmds'[i])
    BY <1>9, <2>1, <2>2 DEF Fitting
  <2> QED
    BY <1>5, <1>7, <2>1, <2>3 DEF Fitting
<1>18. Revisions(g, ui)'
  BY <1>1, <1>5, <1>7 DEF Told, Revisions
<1>19. \A i \in 1..Len(q) : Result(q[i]) => q[i].tok # n
  <2> SUFFICES ASSUME NEW i \in 1..Len(q), Result(q[i]) PROVE q[i].tok # n
    OBVIOUS
  <2>1. q[i].tok > 0 /\ q[i].tok <= g.token - Len(cmds)
    BY <1>1 DEF Told, Tokens
  <2> QED
    BY <1>9, <1>11, <2>1
<1>20. \A i \in 1..Len(q) : ~Answer(q[i])'
  BY <1>6, <1>19, <1>16 DEF Answer, Result
<1>21. Tokens(Stream)'
  BY <1>1, <1>12, <1>16 DEF Told, Tokens
<1>22. Asked(Stream)'
  <2>1. \A i \in 1..Len(cmds') : cmds'[i].tok = n => cmds'[i] = c
    <3> SUFFICES ASSUME NEW i \in 1..Len(cmds), cmds'[i] = cmds[i] PROVE cmds'[i].tok # n
      BY <1>9
    <3>1. cmds[i].tok = g.token - Len(cmds) + i
      BY <1>1 DEF Commanded
    <3> QED
      BY <1>9, <1>11, <3>1
  <2> QED
    BY <1>4, <1>5, <1>8, <1>16, <1>20, <2>1 DEF Asked
<1>23. Waited(Stream)'
  <2>3. want' = n /\ n # 0 /\ late' = late
    BY <1>5, <1>8, <1>11
  <2> SUFFICES ASSUME late = 0
               PROVE  /\ \A i \in 1..Len(cmds') : cmds'[i].tok = n
                      /\ \A i \in 1..Len(q) : ~Result(q[i])
    BY <1>16, <2>3 DEF Waited
  <2>1. /\ \A i \in 1..Len(cmds) : want # 0
        /\ \A i \in 1..Len(q) : Result(q[i]) => want # 0
    BY <1>1 DEF Told, Waited
  <2> QED
    BY <1>4, <1>5, <1>9, <2>1
<1>24. Tidings(Stream)'
  BY <1>1, <1>5, <1>16 DEF Told, Tidings
<1>25. \A v : Kept(v, g', ui') <=> Kept(v, g, ui)
  BY <1>5, <1>7 DEF Kept
<1>26. Current(g', ui') = Current(g, ui)
  <2>1. \A v : v \in Current(g', ui') <=> v \in Current(g, ui)
    BY <1>25, CurrentIs
  <2> QED
    BY <2>1
<1>27. Believes(g, ui, Stream)'
  BY <1>1, <1>5, <1>7, <1>16, <1>26 DEF Told, Believes, KeptTrue, SymbolsTrue, Alike
<1>28. Fresh(Stream)'
  BY <1>16, <1>20 DEF Fresh
<1>29. Ready(g, ui, q, todo)
  BY <1>1 DEF Told
<1>30. Unsettled(g, ui)'
  <2> SUFFICES ASSUME NEW i \in 1..Len(cmds'), cmds'[i].do \in Writes PROVE NothingKept(g', ui')
    BY DEF Unsettled
  <2>1. CASE cmds'[i] = c
    <3>1. NeedsInvalid(todo, 1)
      BY <1>4, <2>1 DEF NeedsInvalid
    <3> QED
      BY <1>1, <1>7, <1>26, <1>29, <3>1 DEF Ready, NothingKept
  <2>2. CASE i \in 1..Len(cmds) /\ cmds'[i] = cmds[i]
    BY <1>1, <1>7, <1>26, <2>2 DEF Told, Unsettled, NothingKept
  <2> QED
    BY <1>9, <2>1, <2>2
<1>31. c.do \notin Changers => (Calm(q) => Calm(Stream)')
  BY <1>5, <1>9, <1>16 DEF Calm
<1>32. NeedsInfo(todo, 1) \/ NeedsVars(todo, 1) => c.do \notin Changers
  BY <1>4 DEF NeedsInfo, NeedsVars, Changers, Writes
<1>33. Ready(g, ui, Stream, todo)'
  <2>1. NeedsInfo(todo, 1) => InfoFresh(g, Stream)'
    BY <1>1, <1>5, <1>7, <1>29, <1>31, <1>32 DEF Ready, InfoFresh, Now
  <2>2. NeedsVars(todo, 1) => VarsFresh(g, Stream)'
    BY <1>1, <1>5, <1>7, <1>29, <1>31, <1>32 DEF Ready, VarsFresh, Now
  <2>3. NeedsInvalid(todo, 1) => NothingKept(g, ui)'
    BY <1>1, <1>7, <1>26, <1>29 DEF Ready, NothingKept
  <2>4. ~NeedsList(todo, 1) /\ ~(todo[1].kind = "local")
    BY <1>5 DEF NeedsList
  <2>5. todo[1].do = "address" => g'.cache.address = {}
    BY <1>1, <1>5, <1>7, <1>29 DEF Ready
  <2> QED
    BY <1>5, <2>1, <2>2, <2>3, <2>4, <2>5 DEF Ready
<1>34. ~Served /\ ~Served'
  BY <1>5, <1>9 DEF Served
<1>35. (FrameOwed(Stream)' <=> FrameOwed(q)) /\ (BreaksOwed(Stream)' <=> BreaksOwed(q))
  BY <1>5, <1>34 DEF FrameOwed, BreaksOwed
<1>36. FrameTrue(g, ui, Stream)'
  BY <1>1, <1>5, <1>16, <1>26, <1>35 DEF Told, FrameTrue
<1>37. BreaksTrue(g, Stream)'
  BY <1>1, <1>5, <1>7, <1>16, <1>20, <1>35 DEF Told, BreaksTrue
<1>38. Launch(g, Stream)'
  <2>1. Temporary(q) => Temporary(Stream)'
    <3>1. \A i : Inserting(i)' <=> Inserting(i)
      BY <1>5 DEF Inserting
    <3>2. (Deleting' <=> Deleting) /\ (Single' <=> Single)
      BY <1>5 DEF Deleting, Single
    <3> QED
      BY <1>5, <1>34, <3>1, <3>2 DEF Temporary
  <2> QED
    BY <1>1, <1>5, <1>7, <1>16, <1>20, <2>1 DEF Told, Launch
<1>39. Told(g, ui, Stream)'
  BY <1>17, <1>18, <1>21, <1>22, <1>23, <1>24, <1>27, <1>28, <1>30, <1>33, <1>36, <1>37, <1>38 DEF Told
<1> QED
  BY <1>10, <1>13, <1>14, <1>15, <1>39 DEF Inv

-----------------------------------------------------------------------------
(* What is left of a call whose request was answered, refused or given up   *)

LEMMA DroppedSteps ==
  ASSUME Inv, todo # <<>>, NEW m \in 1..Len(todo), NEW d, d = SubSeq(todo, m + 1, Len(todo))
  PROVE  Stepped(d) /\ Drops(todo, d, m)
<1>1. todo \in Seq(Ops) /\ Flow(todo) /\ Paired(todo) /\ Fitting(g)
  BY DEF Inv, Types, Stepping, Told
<1>2. m \in 0..Len(todo) /\ Len(todo) \in Nat
  BY <1>1
<1>3. PICK first : Splits(todo, m, first, d)
  BY DEF Splits
<1>4. first \in Seq(Ops) /\ d \in Seq(Ops) /\ Len(first) = m /\ JoinedAs(first, d, todo)
  BY <1>1, <1>2, <1>3, Split
<1>5. Drops(todo, d, m)
  BY <1>1, <1>4, JoinedDrops
<1>6. /\ \A i \in 1..Len(d) : i + m \in 1..Len(todo) /\ Alike2(d, i, todo, i + m)
      /\ Flow(d) /\ Paired(d) /\ (Listed(todo) => Listed(d)) /\ (NoAlters(todo) => NoAlters(d))
  BY <1>1, <1>2, <1>4, <1>5, SuffixSteps
<1>7. Fitted(d)
  BY <1>1, <1>6 DEF Fitted, Fitting, Alike2
<1>8. Len(d) \in Nat /\ Len(d) = Len(todo) - m
  BY <1>4, <1>5 DEF Drops
<1>9. \A i \in 1..Len(d) : \E j \in 1..Len(todo) : j > 1 /\ d[i] = todo[j] /\ Len(d) - i = Len(todo) - j
  <2> SUFFICES ASSUME NEW i \in 1..Len(d)
               PROVE  \E j \in 1..Len(todo) : j > 1 /\ d[i] = todo[j] /\ Len(d) - i = Len(todo) - j
    OBVIOUS
  <2>1. PICK j : j = i + m
    OBVIOUS
  <2>2. j \in 1..Len(todo) /\ d[i] = todo[j]
    BY <1>6, <2>1 DEF Alike2
  <2>3. j > 1 /\ Len(d) - i = Len(todo) - j
    BY <1>2, <1>8, <2>1
  <2> QED
    BY <2>2, <2>3
<1> QED
  BY <1>4, <1>5, <1>6, <1>7, <1>9 DEF Stepped

(* The head was a request: what is next is done, or nothing is. *)
LEMMA DropIs ==
  ASSUME Inv, todo # <<>>, todo[1].kind = "request", NEW n \in Nat, Fails(todo, 1, n), NEW d, d = Drop(n)
  PROVE  \/ d = <<>> /\ Stepped(d) /\ NoAlters(d)
         \/ n # All /\ n + 1 \in 1..Len(todo) /\ Stepped(d) /\ Drops(todo, d, n + 1)
<1>1. todo \in Seq(Ops)
  BY DEF Inv, Types
<1>2. CASE n = All
  <2>1. d = <<>>
    BY <1>2 DEF Drop
  <2>2. Mild(d)
    BY <2>1, EmptyMild
  <2>3. d \in Seq(Ops) /\ Flow(d) /\ Paired(d) /\ Listed(d) /\ Fitted(d) /\ NoAlters(d)
    BY <2>2 DEF Mild, Whole, Sound
  <2>4. Stepped(d)
    BY <2>1, <2>3 DEF Stepped
  <2> QED
    BY <2>1, <2>3, <2>4
<1>3. CASE n # All
  <2>1. n + 1 \in 1..Len(todo) /\ 2 + n = (n + 1) + 1
    BY <1>1, <1>3 DEF Fails
  <2>2. d = SubSeq(todo, (n + 1) + 1, Len(todo))
    BY <1>3, <2>1 DEF Drop
  <2>3. PICK m \in 1..Len(todo) : m = n + 1
    BY <2>1
  <2>4. Stepped(d) /\ Drops(todo, d, m)
    BY <2>2, <2>3, DroppedSteps
  <2> QED
    BY <1>3, <2>1, <2>3, <2>4
<1> QED
  BY <1>2, <1>3

LEMMA HeadFails ==
  ASSUME Inv, todo # <<>>, todo[1].kind = "request"
  PROVE  /\ todo[1].bad \in Nat /\ Fails(todo, 1, todo[1].bad)
         /\ todo[1].lost \in Nat /\ Fails(todo, 1, todo[1].lost)
<1>1. todo \in Seq(Ops) /\ Flow(todo)
  BY DEF Inv, Types, Stepping
<1>2. 1 \in 1..Len(todo) /\ todo[1] \in Ops
  BY <1>1
<1> QED
  BY <1>1, <1>2 DEF Flow, Ops

(* What the step after those dropped expects was so of the head. *)
LEMMA DropExpects ==
  ASSUME Inv, todo # <<>>, todo[1].kind = "request", NEW n \in Nat, Fails(todo, 1, n), NEW d, d = Drop(n), d # <<>>
  PROVE  /\ NeedsInfo(d, 1) => NeedsInfo(todo, 1)
         /\ NeedsVars(d, 1) => NeedsVars(todo, 1)
         /\ NeedsInvalid(d, 1) => NeedsInvalid(todo, 1)
         /\ ~NeedsList(d, 1) /\ ~HeadOnly(d, 1)
<1>1. n # All /\ n + 1 \in 1..Len(todo) /\ Stepped(d) /\ Drops(todo, d, n + 1)
  BY DropIs
<1>2. todo \in Seq(Ops) /\ Flow(todo) /\ d \in Seq(Ops) /\ n + 1 \in 0..Len(todo)
  BY <1>1 DEF Inv, Types, Stepping, Stepped
<1>3. PICK m \in 0..Len(todo) : m = n + 1
  BY <1>2
<1>4. \A i \in 1..Len(d) : i + m \in 1..Len(todo) /\ Alike2(d, i, todo, i + m)
  BY <1>1, <1>2, <1>3, SuffixSteps
<1>5. 1 \in 1..Len(d)
  BY <1>2
<1>6. PICK j : j = 1 + m
  OBVIOUS
<1>7. j \in 1..Len(todo) /\ Alike2(d, 1, todo, j)
  BY <1>4, <1>5, <1>6
<1>8. /\ NeedsInfo(d, 1) <=> NeedsInfo(todo, j)
      /\ NeedsVars(d, 1) <=> NeedsVars(todo, j)
      /\ NeedsInvalid(d, 1) <=> NeedsInvalid(todo, j)
      /\ NeedsList(d, 1) <=> NeedsList(todo, j)
      /\ HeadOnly(d, 1) <=> HeadOnly(todo, j)
      /\ Plain(d, 1) <=> Plain(todo, j)
  BY <1>7, NeedsAlike
<1>9. CASE n > 0
  <2>1. 1 + n < Len(todo) /\ 1 + 1 + n = j
    BY <1>2, <1>3, <1>6, <1>7, <1>9
  <2>2. Plain(todo, j)
    BY <1>1, <1>9, <2>1 DEF Fails
  <2> QED
    BY <1>8, <2>2 DEF Plain
<1>10. CASE n = 0
  <2>1. j = 2 /\ 1 < Len(todo) /\ 1 + 1 = 2
    BY <1>2, <1>3, <1>6, <1>7, <1>10
  <2>2. 1 \in 1..Len(todo)
    BY <1>2, <2>1
  <2>3. Follows(todo, 1)
    BY <1>2, <2>1, <2>2 DEF Flow
  <2>4. todo[1].do \notin {"var", "modules", "sources"}
    BY <1>10 DEF Fails, All
  <2>5. /\ NeedsInfo(todo, 2) => NeedsInfo(todo, 1)
        /\ NeedsVars(todo, 2) => NeedsVars(todo, 1)
        /\ NeedsInvalid(todo, 2) => todo[1].do = "typed"
        /\ ~NeedsList(todo, 2) /\ ~HeadOnly(todo, 2)
    BY <2>1, <2>3, <2>4 DEF Follows
  <2>6. todo[1].do = "typed" => NeedsInvalid(todo, 1)
    BY DEF NeedsInvalid
  <2> QED
    BY <1>8, <2>1, <2>5, <2>6
<1> QED
  BY <1>9, <1>10

-----------------------------------------------------------------------------
(* A request is given up                                                    *)

(* All that the invariant speaks of but what was asked for at last. *)
Unmoved(s, t) ==
    /\ t.token = s.token /\ t.rev = s.rev /\ t.symbols = s.symbols /\ t.state = s.state /\ t.framesValid = s.framesValid
    /\ t.frames = s.frames /\ t.varsRev = s.varsRev /\ t.args = s.args /\ t.locals = s.locals /\ t.cache = s.cache
    /\ t.list = s.list /\ t.breaks = s.breaks
    /\ t.modules = s.modules /\ t.modulesRev = s.modulesRev /\ t.sources = s.sources /\ t.sourcesRev = s.sourcesRev

LEMMA RefuseIs ==
  ASSUME NEW s \in Gs, NEW op, NEW t, t = Refuse(s, op)
  PROVE  t \in Gs /\ Unmoved(s, t) /\ (t.info = s.info \/ t.info = {})
<1>1. CASE op.do = "regs"
  <2>1. PICK no \in BOOLEAN : no = FALSE
    OBVIOUS
  <2>2. t = [s EXCEPT !.names = no]
    BY <1>1, <2>1 DEF Refuse
  <2> QED
    BY <2>1, <2>2 DEF Gs, Unmoved
<1>2. CASE op.do = "children"
  <2>1. t = [s EXCEPT !.info = {}]
    BY <1>2 DEF Refuse
  <2> QED
    BY <2>1 DEF Gs, Unmoved
<1>3. CASE op.do \notin {"regs", "children"}
  <2>1. t = s
    BY <1>3 DEF Refuse
  <2> QED
    BY <2>1 DEF Unmoved
<1> QED
  BY <1>1, <1>2, <1>3

LEMMA UnmovedCurrent ==
  ASSUME NEW s, NEW t, NEW u, Unmoved(s, t)
  PROVE  Current(t, u) = Current(s, u)
<1>1. \A v : Kept(v, t, u) <=> Kept(v, s, u)
  BY DEF Kept, Unmoved
<1>2. \A v : v \in Current(t, u) <=> v \in Current(s, u)
  BY <1>1, CurrentIs
<1> QED
  BY <1>2

LEMMA GiveUpKeeps ==
  ASSUME Inv, GiveUp, UNCHANGED <<ui, keys>>
  PROVE  Inv'
<1> DEFINE q == Stream
           op == todo[1]
<1>1. /\ Types /\ Commanded /\ Phases /\ Stepping /\ Told(g, ui, q) /\ want # 0 /\ todo # <<>> /\ op.kind = "request"
      /\ todo \in Seq(Ops) /\ g \in Gs
  BY DEF Inv, GiveUp, Commanded, Types
<1>2. Head(todo) = op /\ op \in Ops
  BY <1>1, TailDrops
<1>3. /\ UNCHANGED <<gdb, cmds, pipe, buf, phase, ui, keys>> /\ want' = 0 /\ g' = Refuse(g, op) /\ todo' = Drop(op.lost)
      /\ late' = late + 1
  BY <1>2 DEF GiveUp
<1>4. op.lost \in Nat /\ Fails(todo, 1, op.lost)
  BY <1>1, HeadFails
<1>5. Stepped(todo')
  BY <1>1, <1>3, <1>4, DropIs
<1>6. todo' # <<>> => /\ NeedsInfo(todo', 1) => NeedsInfo(todo, 1)
                      /\ NeedsVars(todo', 1) => NeedsVars(todo, 1)
                      /\ NeedsInvalid(todo', 1) => NeedsInvalid(todo, 1)
                      /\ ~NeedsList(todo', 1) /\ ~HeadOnly(todo', 1)
  BY <1>1, <1>3, <1>4, DropExpects
<1>7. g' \in Gs /\ Unmoved(g, g') /\ (g'.info = g.info \/ g'.info = {})
  BY <1>1, <1>3, RefuseIs
<1> HIDE DEF op
<1>8. late' \in Nat /\ late' # 0
  BY <1>1, <1>3 DEF Types
<1>9. Types'
  BY <1>1, <1>3, <1>5, <1>7, <1>8 DEF Types, Stepped
<1>10. Commanded'
  BY <1>1, <1>3, <1>7 DEF Commanded, Unmoved
<1>11. Phases' /\ Stepping'
  BY <1>3, <1>5, SteppedKeeps
<1>12. Stream' = q
  BY <1>3 DEF Stream
<1>13. Fitting(g)'
  <2>1. \A i \in 1..Len(todo') : Fits(todo'[i]) /\ Kinds(todo'[i]) /\ (todo'[i].do = "expanded" => todo'[i].x <= g.rev)
    BY <1>5 DEF Stepped, Fitted
  <2> QED
    BY <1>1, <1>3, <1>7, <2>1 DEF Fitting, Told, Unmoved
<1>14. Revisions(g, ui)'
  BY <1>1, <1>3, <1>7 DEF Told, Revisions, Unmoved
<1>15. Tokens(Stream)'
  BY <1>1, <1>3, <1>7, <1>12 DEF Told, Tokens, Unmoved
<1>16. Asked(Stream)' /\ Waited(Stream)'
  BY <1>3, <1>8 DEF Asked, Waited
<1>17. Tidings(Stream)'
  BY <1>1, <1>3, <1>12 DEF Told, Tidings
<1>18. Current(g', ui') = Current(g, ui)
  BY <1>3, <1>7, UnmovedCurrent
<1>19. Believes(g, ui, Stream)'
  BY <1>1, <1>3, <1>7, <1>12, <1>18 DEF Told, Believes, KeptTrue, SymbolsTrue, Alike, Unmoved
<1>20. Fresh(Stream)'
  BY <1>1, <1>3, <1>7, <1>12 DEF Told, Fresh, Answer, Now, Unmoved
<1>21. Unsettled(g, ui)'
  BY <1>1, <1>3, <1>7, <1>18 DEF Told, Unsettled, NothingKept, Unmoved
<1>22. Ready(g, ui, Stream, todo)'
  <2> SUFFICES ASSUME todo' # <<>> PROVE Ready(g, ui, Stream, todo)'
    BY DEF Ready
  <2>1. Ready(g, ui, q, todo)
    BY <1>1 DEF Told
  <2>2. Calm(q) => Calm(Stream)'
    BY <1>3, <1>12 DEF Calm
  <2>3. NeedsInfo(todo', 1) => InfoFresh(g, Stream)'
    BY <1>1, <1>3, <1>6, <1>7, <2>1, <2>2 DEF Ready, InfoFresh, Now
  <2>4. NeedsVars(todo', 1) => VarsFresh(g, Stream)'
    BY <1>1, <1>3, <1>6, <1>7, <2>1, <2>2 DEF Ready, VarsFresh, Now, Unmoved
  <2>5. NeedsInvalid(todo', 1) => NothingKept(g, ui)'
    BY <1>1, <1>6, <1>7, <1>18, <2>1 DEF Ready, NothingKept, Unmoved
  <2> QED
    BY <1>6, <2>3, <2>4, <2>5 DEF Ready, HeadOnly
<1>23. FrameTrue(g, ui, Stream)' /\ BreaksTrue(g, Stream)' /\ Launch(g, Stream)'
  BY <1>8 DEF FrameTrue, BreaksTrue, Launch
<1>24. Told(g, ui, Stream)'
  BY <1>13, <1>14, <1>15, <1>16, <1>17, <1>19, <1>20, <1>21, <1>22, <1>23 DEF Told
<1> QED
  BY <1>9, <1>10, <1>11, <1>24 DEF Inv

-----------------------------------------------------------------------------
(* The answer that was waited for                                           *)

(* The first of them that is one's own, 0 if there is none. *)
Chosen(read, own) == own = SelectInSeq(read, Own)

(* The records before it are handled, those after it are left. *)
LEMMA OwnRead ==
  ASSUME Inv, want # 0, NEW n \in 1..Len(pipe), NEW first, Splits(pipe, n, first, pipe'), NEW read, Joins(buf, first, read),
         NEW own, Chosen(read, own), own # 0, NEW known, Splits(read, own, known, buf'),
         NEW before, NEW after, Splits(read, own - 1, before, after), NEW s, s = HandleAll(g, before)
  PROVE  /\ pipe' \in Seq(Records) /\ buf' \in Seq(Records) /\ Stream' \in Seq(Records) /\ s \in Gs /\ s.token = g.token
         /\ s.rev >= g.rev
         /\ \E mid \in Seq(Records) : /\ mid # <<>> /\ Len(mid) >= 1 /\ mid[1] = read[own] /\ Own(mid[1])
                                      /\ Drops(mid, Stream', 1) /\ Told(s, ui, mid)
<1>1. Types /\ Commanded /\ g \in Gs
  BY DEF Inv, Types
<1>2. n \in 0..Len(pipe)
  OBVIOUS
<1>3. Stream \in Seq(Records) /\ read \in Seq(Records) /\ pipe' \in Seq(Records) /\ JoinedAs(read, pipe', Stream)
  BY <1>1, <1>2, Pieces
<1>4. own \in 1..Len(read) /\ Own(read[own])
  BY <1>3, SelectedOwn DEF Chosen
<1>5. own \in 0..Len(read) /\ own - 1 \in 0..Len(read) /\ own \in Nat /\ own - 1 \in Nat /\ Len(read) \in Nat
  BY <1>3, <1>4
<1>6. known \in Seq(Records) /\ buf' \in Seq(Records) /\ Len(known) = own /\ JoinedAs(known, buf', read)
  BY <1>3, <1>5, Split
<1>7. before \in Seq(Records) /\ Len(before) = own - 1 /\ JoinedAs(before, after, read)
  BY <1>3, <1>5, Split
<1>8. Joins(buf', pipe', Stream')
  BY DEF Joins, Stream
<1>9. Stream' \in Seq(Records) /\ JoinedAs(buf', pipe', Stream')
  BY <1>3, <1>6, <1>8, Joined
<1>10. JoinedAs(known, Stream', Stream)
  BY <1>3, <1>6, <1>9, ThreeParts
<1>11. own \in 0..Len(Stream) /\ Drops(Stream, Stream', own)
  BY <1>3, <1>6, <1>9, <1>10, JoinedDrops
<1>12. own \in 1..Len(Stream)
  BY <1>4, <1>11
<1>13. PICK mid \in Seq(Records) : /\ Drops(Stream, mid, own - 1) /\ mid # <<>> /\ Len(mid) >= 1 /\ mid[1] = Stream[own]
                                   /\ Drops(mid, Stream', 1)
  BY <1>3, <1>9, <1>11, <1>12, DropsOne
<1>14. \A i \in 1..Len(read) : read[i] = Stream[i]
  BY <1>3 DEF JoinedAs
<1>15. mid[1] = read[own]
  BY <1>4, <1>13, <1>14
<1>16. Handled(g, s, before, own - 1)
  <2>1. Handled(g, s, before, Len(before))
    BY <1>1, <1>7, HandleAllHandles
  <2> QED
    BY <1>7, <2>1
<1>17. \A i \in 1..(own - 1) : before[i] = Stream[i]
  <2>1. \A i \in 1..(own - 1) : before[i] = read[i]
    BY <1>7 DEF JoinedAs
  <2>2. \A i \in 1..(own - 1) : i \in 1..Len(read)
    BY <1>4, <1>5
  <2> QED
    BY <1>14, <2>1, <2>2
<1>18. Handled(g, s, Stream, own - 1)
  BY <1>16, <1>17, HandledAlike
<1>19. own - 1 \in 0..Len(Stream)
  BY <1>3, <1>12
<1>20. s \in Gs /\ s.rev >= g.rev
  BY <1>18 DEF Handled
<1>21. Listening
  BY <1>1 DEF Commanded, Listening
<1>22. Told(s, ui, mid) /\ s.token = g.token
  BY <1>3, <1>13, <1>18, <1>19, <1>20, <1>21, HandlingKeeps
<1> QED
  BY <1>3, <1>4, <1>6, <1>9, <1>13, <1>15, <1>20, <1>22

(* What is so of the breakpoint of a launched session's beginning when the *)
(* answer r has come.                                                       *)
Began(r) ==
    \/ NoAlters(todo) /\ gdb.bps = {}
    \/ \E i \in 1..Len(todo) :
         /\ Inserting(i)
         /\ \/ gdb.bps = {} /\ (i = 1 => ~r.ok) /\ (i = 1 \/ gdb.next = 1)
            \/ Single /\ i = 1 /\ r.ok
    \/ Deleting /\ gdb.bps = {}

(* The answer r has come, the records q are left, s is what those before    *)
(* the answer made of struct Gdb.                                           *)
Taken(s, r, q) ==
    /\ s \in Gs /\ s.token = g.token /\ r \in Records /\ r.do = todo[1].do /\ q \in Seq(Records)
    /\ cmds = <<>> /\ todo # <<>> /\ todo[1].kind = "request" /\ \A i \in 1..Len(q) : ~Result(q[i])
    /\ Fitting(s) /\ Revisions(s, ui) /\ Tidings(q) /\ Believes(s, ui, q)
    /\ r.do \in {"exec", "run"} /\ r.ok => ~NoState(q, 0)
    /\ r.do \in Asks /\ r.ok => r.now = Now(gdb) /\ Calm(q)
    /\ r.do \in {"functions", "modules", "sources"} /\ NoLib(q, 0) /\ gdb.prints = 0 => r.libs = gdb.libs
    /\ NeedsInfo(todo, 1) => InfoFresh(s, q)
    /\ NeedsVars(todo, 1) => VarsFresh(s, q)
    /\ NeedsInvalid(todo, 1) => NothingKept(s, ui)
    /\ r.do = "address" => s.cache.address = {}
Framed(s, r, q) == late = 0 /\ NoState(q, 0) => (r.do = "select" /\ r.ok) \/ \A v \in Current(s, ui) : v.frame = gdb.frame
Pointed(s, r) ==
    /\ r.do = "breaks" => r.ok
    /\ late = 0 /\ phase = "loop" =>
         /\ r.do = "breaks" \/ (r.do \in Alters /\ r.ok) \/ s.breaks = gdb.bps
         /\ r.do = "breaks" => r.bps = gdb.bps
    /\ late = 0 /\ phase = "start" =>
         /\ s.breaks = {} /\ Began(r)
         /\ \A i \in 1..Len(todo) : todo[i].do = "breaks" => NoAlters(todo)
         /\ r.do = "breaks" => r.bps = {}

LEMMA TakenIs ==
  ASSUME Inv, want # 0, NEW s \in Gs, s.token = g.token, NEW mid \in Seq(Records), Len(mid) >= 1, NEW r, r = mid[1], Own(r),
         NEW q \in Seq(Records), Drops(mid, q, 1), Told(s, ui, mid)
  PROVE  Taken(s, r, q) /\ Framed(s, r, q) /\ Pointed(s, r)
<1>1. /\ Types /\ Commanded /\ Phases /\ Stepping /\ want = g.token /\ todo # <<>> /\ todo[1].kind = "request"
      /\ todo \in Seq(Ops) /\ cmds \in Seq(Commands) /\ g.token \in Nat
  BY DEF Inv, Commanded, Types, Gs
<1>2. Result(r) /\ r.tok = g.token /\ Answer(r) /\ ~StateNews(r) /\ ~LibNews(r)
  BY <1>1 DEF Own, Result, Answer, StateNews, LibNews
<1>3. 1 \in 1..Len(mid) /\ r \in Records /\ Len(mid) \in Nat /\ Len(q) \in Nat /\ Len(q) = Len(mid) - 1
  BY DEF Drops
<1>4. /\ Fitting(s) /\ Revisions(s, ui) /\ Tokens(mid) /\ Asked(mid) /\ Tidings(mid) /\ Believes(s, ui, mid)
      /\ Fresh(mid) /\ Ready(s, ui, mid, todo) /\ FrameTrue(s, ui, mid) /\ BreaksTrue(s, mid) /\ Launch(s, mid)
  BY DEF Told
<1>5. r.tok <= g.token - Len(cmds) /\ ~r.cut /\ (r.do = "breaks" => r.ok)
  BY <1>2, <1>3, <1>4 DEF Tokens
<1>6. cmds = <<>>
  <2>1. Len(cmds) = 0
    BY <1>1, <1>2, <1>5
  <2> QED
    BY <1>1, <2>1, EmptySeq
<1>7. \A i \in 1..Len(q) : i + 1 \in 1..Len(mid) /\ q[i] = mid[i + 1] /\ 1 < i + 1
  BY <1>3 DEF Drops
<1>8. \A i \in 1..Len(q) : ~Result(q[i])
  <2> SUFFICES ASSUME NEW i \in 1..Len(q), Result(q[i]) PROVE FALSE
    OBVIOUS
  <2>1. PICK j \in 1..Len(mid) : q[i] = mid[j] /\ 1 < j
    BY <1>7
  <2>2. q[i].tok > r.tok /\ q[i].tok <= g.token - Len(cmds)
    BY <1>2, <1>3, <1>4, <2>1 DEF Tokens
  <2>3. q[i] \in Records
    OBVIOUS
  <2>4. q[i].tok \in Nat
    BY <2>3 DEF Records
  <2>5. PICK t \in Nat : t = g.token
    BY <1>1
  <2>6. Len(cmds) = 0 /\ t - 0 = t
    BY <1>6
  <2>7. q[i].tok > t /\ q[i].tok <= t
    BY <1>2, <2>2, <2>5, <2>6
  <2> QED
    BY <2>4, <2>5, <2>7
<1>9. r.do = todo[1].do
  BY <1>1, <1>2, <1>3, <1>4 DEF Asked
<1>10. Served
  BY <1>6 DEF Served
<1>11. 1 \in 0..Len(mid) /\ 0 \in 0..Len(q) /\ 0 + 1 = 1
  BY <1>3
<1>12. \A j \in 1..1 : ~StateNews(mid[j]) /\ ~LibNews(mid[j])
  BY <1>2
<1>13. /\ NoState(q, 0) <=> NoState(mid, 1)
       /\ NoLib(q, 0) <=> NoLib(mid, 1)
       /\ NoState(q, 0) => NoState(mid, 0)
       /\ NoLib(q, 0) => NoLib(mid, 0)
       /\ \A i \in 1..Len(q) : NoState(q, i) <=> NoState(mid, i + 1)
  BY <1>11, <1>12, DropsNews
<1>14. Tidings(q)
  BY <1>4, <1>7, <1>8, <1>13 DEF Tidings
<1>15. Believes(s, ui, q)
  BY <1>4, <1>13 DEF Believes
<1>16. r.do \in {"exec", "run"} /\ r.ok => ~NoState(q, 0)
  BY <1>2, <1>3, <1>4, <1>13 DEF Tidings
<1>17. r.do \in Asks /\ r.ok => r.now = Now(gdb) /\ Calm(q)
  <2> SUFFICES ASSUME r.do \in Asks, r.ok PROVE r.now = Now(gdb) /\ Calm(q)
    OBVIOUS
  <2>1. Halted(gdb) /\ r.now = Now(gdb) /\ NoState(mid, 1)
    BY <1>2, <1>3, <1>4 DEF Fresh
  <2>2. Len(cmds) = 0
    BY <1>6
  <2> QED
    BY <1>13, <2>1, <2>2 DEF Calm
<1>18. r.do \in {"functions", "modules", "sources"} /\ NoLib(q, 0) /\ gdb.prints = 0 => r.libs = gdb.libs
  BY <1>2, <1>3, <1>4, <1>13 DEF Fresh
<1>19. Calm(mid) => Calm(q)
  <2>1. NoState(mid, 0) => NoState(mid, 1)
    BY DEF NoState
  <2> QED
    BY <1>13, <2>1 DEF Calm
<1>20. /\ NeedsInfo(todo, 1) => InfoFresh(s, q)
       /\ NeedsVars(todo, 1) => VarsFresh(s, q)
       /\ NeedsInvalid(todo, 1) => NothingKept(s, ui)
       /\ r.do = "address" => s.cache.address = {}
  BY <1>1, <1>4, <1>9, <1>19 DEF Ready, InfoFresh, VarsFresh
<1>21. Taken(s, r, q)
  BY <1>1, <1>3, <1>4, <1>6, <1>8, <1>9, <1>14, <1>15, <1>16, <1>17, <1>18, <1>20 DEF Taken
<1>22. (AllOk(mid) => r.ok) /\ (AllBad(mid) => ~r.ok)
  BY <1>2, <1>3 DEF AllOk, AllBad
<1>23. Fitting(g) /\ Kinds(todo[1])
  <2>1. 1 \in 1..Len(todo)
    BY <1>1
  <2> QED
    BY <2>1 DEF Inv, Told, Fitting
<1>24. Framed(s, r, q)
  <2> SUFFICES ASSUME late = 0, NoState(q, 0) PROVE (r.do = "select" /\ r.ok) \/ \A v \in Current(s, ui) : v.frame = gdb.frame
    BY DEF Framed
  <2>1. FrameOwed(mid) \/ \A v \in Current(s, ui) : v.frame = gdb.frame
    BY <1>4, <1>13 DEF FrameTrue
  <2>2. FrameOwed(mid) => r.do = "select" /\ AllOk(mid)
    BY <1>1, <1>9, <1>23 DEF FrameOwed, Kinds
  <2> QED
    BY <1>22, <2>1, <2>2
<1>25. BreaksOwed(mid) => r.do = "breaks" \/ (r.do \in Alters /\ r.ok)
  BY <1>9, <1>22 DEF BreaksOwed
<1>26. Temporary(mid) => Began(r)
  <2>1. Deleting /\ Temporary(mid) => Began(r)
    <3>1. CASE Deleting /\ IF Served THEN gdb.bps = {} ELSE Single
      BY <1>10, <3>1 DEF Began
    <3>2. CASE NoAlters(todo) /\ gdb.bps = {}
      BY <3>2 DEF Began
    <3>3. CASE \E i \in 1..Len(todo) :
         /\ Inserting(i)
         /\ \/ gdb.bps = {} /\ (i = 1 /\ Served => AllBad(mid)) /\ ((i = 1 /\ Served) \/ gdb.next = 1)
            \/ Single /\ i = 1 /\ Served /\ AllOk(mid)
      BY <1>10, <1>22, <3>3 DEF Began
    <3> QED
      BY <3>1, <3>2, <3>3 DEF Temporary
  <2>2. ASSUME NEW i \in 1..Len(todo), Inserting(i),
               \/ gdb.bps = {} /\ (i = 1 /\ Served => AllBad(mid)) /\ ((i = 1 /\ Served) \/ gdb.next = 1)
               \/ Single /\ i = 1 /\ Served /\ AllOk(mid)
        PROVE  Began(r)
    <3>1. \/ gdb.bps = {} /\ (i = 1 => ~r.ok) /\ (i = 1 \/ gdb.next = 1)
          \/ Single /\ i = 1 /\ r.ok
      BY <1>10, <1>22, <2>2
    <3> QED
      BY <2>2, <3>1 DEF Began
  <2>3. NoAlters(todo) /\ gdb.bps = {} => Began(r)
    BY DEF Began
  <2> QED
    BY <2>1, <2>2, <2>3 DEF Temporary
<1>27. Pointed(s, r)
  <2>1. late = 0 /\ phase = "loop" =>
           /\ r.do = "breaks" \/ (r.do \in Alters /\ r.ok) \/ s.breaks = gdb.bps
           /\ r.do = "breaks" => r.bps = gdb.bps
    BY <1>2, <1>3, <1>4, <1>25 DEF BreaksTrue
  <2>2. late = 0 /\ phase = "start" =>
           /\ s.breaks = {} /\ Began(r)
           /\ \A i \in 1..Len(todo) : todo[i].do = "breaks" => NoAlters(todo)
           /\ r.do = "breaks" => r.bps = {}
    BY <1>2, <1>3, <1>4, <1>26 DEF Launch
  <2> QED
    BY <1>5, <2>1, <2>2 DEF Pointed
<1> QED
  BY <1>21, <1>24, <1>27

-----------------------------------------------------------------------------
(* What is made of an answer                                                *)

Noted(s, r, t) ==
    /\ t.token = s.token /\ t.rev = s.rev /\ t.symbols = s.symbols /\ t.varsRev = s.varsRev /\ SameLists(s, t)
    /\ r.do \notin {"exec", "run"} => t.state = s.state
    /\ r.do # "frames" => t.framesValid = s.framesValid
    /\ t.frames = (IF r.do = "frames" THEN {r.now.at} ELSE s.frames)
    /\ t.info = (IF r.do \in {"var", "children"} THEN {r.now} ELSE s.info)
    /\ t.list = (IF r.do \in {"functions", "modules", "sources"} THEN {r.libs} ELSE s.list)
    /\ t.args = (IF r.do = "args" THEN {r.now} ELSE s.args)
    /\ t.locals = (IF r.do = "locals" THEN {r.now} ELSE s.locals)
    /\ t.cache.rev = s.cache.rev /\ t.cache.detail = s.cache.detail
    /\ t.cache.address = (IF r.do = "address" THEN s.cache.address \cup {r.now} ELSE s.cache.address)
    /\ t.breaks = (IF r.do = "breaks" THEN r.bps ELSE s.breaks)

LEMMA NotedIs ==
  ASSUME NEW s \in Gs, NEW r \in Records, NEW op \in Ops, r.do = op.do, Fits(op), NEW t, t = Accept(s, op, r)
  PROVE  t \in Gs /\ Noted(s, r, t)
<1>1. r.now \in Nows /\ r.bps \in SUBSET Points /\ r.libs \in Nat /\ r.now.at \in Nat /\ r.now.frame \in {0, 1}
      /\ s.cache \in Caches
  BY DEF Records, Nows, Gs
<1>2. PICK yes \in BOOLEAN : yes = TRUE
  OBVIOUS
<1>3. CASE op.do \in {"exec", "run"}
  <2>1. PICK m : m = [s EXCEPT !.state = "running"]
    OBVIOUS
  <2>2. m \in Gs
    BY <2>1 DEF Gs, States
  <2>3. Noted(s, r, m)
    BY <1>3, <2>1 DEF Gs, Noted, SameLists
  <2>4. t = [m EXCEPT !.changed = yes]
    BY <1>2, <1>3, <2>1 DEF Accept
  <2>5. t \in Gs
    BY <2>2, <2>4 DEF Gs
  <2>6. Unmoved(m, t) /\ t.info = m.info
    BY <2>2, <2>4 DEF Gs, Unmoved
  <2> QED
    BY <2>3, <2>5, <2>6 DEF Noted, Unmoved, SameLists
<1>4. CASE op.do = "attach"
  <2>1. t = [s EXCEPT !.attached = yes]
    BY <1>2, <1>4 DEF Accept
  <2>2. t \in Gs
    BY <2>1 DEF Gs
  <2> QED
    BY <1>4, <2>1, <2>2 DEF Gs, Noted, SameLists
<1>5. CASE op.do = "select"
  <2>1. t = [s EXCEPT !.sel = op.x] /\ op.x \in {0, 1}
    BY <1>5 DEF Accept, Fits
  <2>2. t \in Gs
    BY <2>1 DEF Gs
  <2> QED
    BY <1>5, <2>1, <2>2 DEF Gs, Noted, SameLists
<1>6. CASE op.do = "frame"
  <2>1. PICK m : m = [s EXCEPT !.sel = r.now.frame]
    OBVIOUS
  <2>2. m \in Gs
    BY <1>1, <2>1 DEF Gs
  <2>3. Noted(s, r, m)
    BY <1>6, <2>1 DEF Gs, Noted, SameLists
  <2>4. t = [m EXCEPT !.pc = {r.now}]
    BY <1>6, <2>1 DEF Accept
  <2>5. t \in Gs
    BY <1>1, <2>2, <2>4 DEF Gs
  <2>6. Unmoved(m, t) /\ t.info = m.info
    BY <2>2, <2>4 DEF Gs, Unmoved
  <2> QED
    BY <2>3, <2>5, <2>6 DEF Noted, Unmoved, SameLists
<1>7. CASE op.do = "args"
  <2>1. t = [s EXCEPT !.args = {r.now}]
    BY <1>7 DEF Accept
  <2>2. t \in Gs
    BY <1>1, <2>1 DEF Gs
  <2> QED
    BY <1>7, <2>1, <2>2 DEF Gs, Noted, SameLists
<1>8. CASE op.do = "locals"
  <2>1. t = [s EXCEPT !.locals = {r.now}]
    BY <1>8 DEF Accept
  <2>2. t \in Gs
    BY <1>1, <2>1 DEF Gs
  <2> QED
    BY <1>8, <2>1, <2>2 DEF Gs, Noted, SameLists
<1>9. CASE op.do = "frames"
  <2>1. PICK m : m = [s EXCEPT !.framesValid = yes]
    OBVIOUS
  <2>2. m \in Gs
    BY <2>1 DEF Gs
  <2>3. t = [m EXCEPT !.frames = {r.now.at}]
    BY <1>2, <1>9, <2>1 DEF Accept
  <2>4. t \in Gs
    BY <1>1, <2>2, <2>3 DEF Gs
  <2>5. /\ m.token = s.token /\ m.rev = s.rev /\ m.symbols = s.symbols /\ m.state = s.state
        /\ m.varsRev = s.varsRev /\ m.args = s.args /\ m.locals = s.locals /\ m.cache = s.cache
        /\ m.list = s.list /\ m.breaks = s.breaks /\ m.info = s.info /\ SameLists(s, m)
    BY <2>1 DEF Gs, SameLists
  <2>6. /\ t.token = m.token /\ t.rev = m.rev /\ t.symbols = m.symbols /\ t.state = m.state /\ t.frames = {r.now.at}
        /\ t.varsRev = m.varsRev /\ t.args = m.args /\ t.locals = m.locals /\ t.cache = m.cache
        /\ t.list = m.list /\ t.breaks = m.breaks /\ t.info = m.info /\ SameLists(m, t)
    BY <2>2, <2>3 DEF Gs, SameLists
  <2> QED
    BY <1>9, <2>4, <2>5, <2>6 DEF Noted, SameLists
<1>10. CASE op.do = "names"
  <2>1. t = [s EXCEPT !.names = yes]
    BY <1>2, <1>10 DEF Accept
  <2>2. t \in Gs
    BY <2>1 DEF Gs
  <2> QED
    BY <1>10, <2>1, <2>2 DEF Gs, Noted, SameLists
<1>11. CASE op.do = "regs"
  <2>1. t = [s EXCEPT !.regs = {r.now}]
    BY <1>11 DEF Accept
  <2>2. t \in Gs
    BY <1>1, <2>1 DEF Gs
  <2> QED
    BY <1>11, <2>1, <2>2 DEF Gs, Noted, SameLists
<1>12. CASE op.do = "disassemble"
  <2>1. t = [s EXCEPT !.code = yes]
    BY <1>2, <1>12 DEF Accept
  <2>2. t \in Gs
    BY <2>1 DEF Gs
  <2> QED
    BY <1>12, <2>1, <2>2 DEF Gs, Noted, SameLists
<1>13. CASE op.do = "breaks"
  <2>1. PICK m : m = [s EXCEPT !.breaks = r.bps]
    OBVIOUS
  <2>2. m \in Gs
    BY <1>1, <2>1 DEF Gs
  <2>3. Noted(s, r, m)
    BY <1>13, <2>1 DEF Gs, Noted, SameLists
  <2>4. t = [m EXCEPT !.changed = yes]
    BY <1>2, <1>13, <2>1 DEF Accept
  <2>5. t \in Gs
    BY <2>2, <2>4 DEF Gs
  <2>6. Unmoved(m, t) /\ t.info = m.info
    BY <2>2, <2>4 DEF Gs, Unmoved
  <2> QED
    BY <2>3, <2>5, <2>6 DEF Noted, Unmoved, SameLists
<1>14. CASE op.do = "address"
  <2>1. PICK e : e = [s.cache EXCEPT !.address = s.cache.address \cup {r.now}]
    OBVIOUS
  <2>2. e \in Caches /\ e.rev = s.cache.rev /\ e.detail = s.cache.detail /\ e.address = s.cache.address \cup {r.now}
    BY <1>1, <2>1 DEF Caches
  <2>3. t = [s EXCEPT !.cache.address = @ \cup {r.now}]
    BY <1>14 DEF Accept
  <2>4. t = [s EXCEPT !.cache = e]
    BY <2>1, <2>3 DEF Gs
  <2>5. t \in Gs /\ t.cache = e
    BY <2>2, <2>4 DEF Gs
  <2> QED
    BY <1>14, <2>2, <2>4, <2>5 DEF Gs, Noted, SameLists
<1>15. CASE op.do \in {"var", "children"}
  <2>1. t = [s EXCEPT !.info = {r.now}]
    BY <1>15 DEF Accept
  <2>2. t \in Gs
    BY <1>1, <2>1 DEF Gs
  <2> QED
    BY <1>15, <2>1, <2>2 DEF Gs, Noted, SameLists
<1>16. CASE op.do \in {"functions", "sources", "modules"}
  <2>1. t = [s EXCEPT !.list = {r.libs}]
    BY <1>16 DEF Accept
  <2>2. t \in Gs
    BY <1>1, <2>1 DEF Gs
  <2> QED
    BY <1>16, <2>1, <2>2 DEF Gs, Noted, SameLists
<1>17. CASE op.do \notin {"exec", "run", "attach", "select", "frame", "args", "locals", "frames", "names", "regs", "disassemble",
                          "breaks", "address", "var", "children", "functions", "sources", "modules"}
  <2>1. t = s
    BY <1>17 DEF Accept
  <2> QED
    BY <1>17, <2>1 DEF Noted, SameLists
<1> QED
  BY <1>3, <1>4, <1>5, <1>6, <1>7, <1>8, <1>9, <1>10, <1>11, <1>12, <1>13, <1>14, <1>15, <1>16, <1>17

(* What an answer, or its refusal, may change. *)
Answered(s, r, t, q) ==
    /\ t \in Gs /\ t.token = s.token /\ t.rev = s.rev /\ t.symbols = s.symbols /\ SameLists(s, t) /\ Revisions(t, ui)
    /\ NoState(q, 0) => t.state = s.state
    /\ \A v \in Current(t, ui) : v \in Current(s, ui) \/ (v = Now(gdb) /\ Calm(q))
    /\ t.framesValid => (s.framesValid /\ t.frames \subseteq s.frames) \/ (t.frames \subseteq {gdb.at} /\ Calm(q))
    /\ t.breaks = s.breaks \/ (r.do = "breaks" /\ r.ok /\ t.breaks = r.bps)
    /\ r.do = "breaks" /\ r.ok => t.breaks = r.bps

LEMMA AcceptedIs ==
  ASSUME NEW s, NEW r, NEW q, Taken(s, r, q), r.ok, NEW t, t \in Gs, Noted(s, r, t)
  PROVE  Answered(s, r, t, q)
<1>1. Revisions(s, ui) /\ s \in Gs
  BY DEF Taken
<1>2. r.do \in {"args", "locals", "frames", "var", "children", "address"} => r.now = Now(gdb) /\ Calm(q)
  BY DEF Taken, Asks
<1>3. Now(gdb).at = gdb.at
  BY DEF Now
<1>4. NoState(q, 0) => t.state = s.state
  BY DEF Taken, Noted
<1>5. t.framesValid => (s.framesValid /\ t.frames \subseteq s.frames) \/ (t.frames \subseteq {gdb.at} /\ Calm(q))
  <2>1. CASE r.do = "frames"
    BY <1>2, <1>3, <2>1 DEF Noted
  <2>2. CASE r.do # "frames"
    BY <2>2 DEF Noted
  <2> QED
    BY <2>1, <2>2
<1>6. /\ \A v : v \in t.args => v \in s.args \/ (v = Now(gdb) /\ Calm(q))
      /\ \A v : v \in t.locals => v \in s.locals \/ (v = Now(gdb) /\ Calm(q))
      /\ \A v : v \in t.cache.address => v \in s.cache.address \/ (v = Now(gdb) /\ Calm(q))
  BY <1>2 DEF Noted
<1>7. t.varsRev = s.varsRev /\ t.rev = s.rev /\ t.cache.rev = s.cache.rev /\ t.cache.detail = s.cache.detail
  BY DEF Noted
<1>8. \A v : Kept(v, t, ui) => Kept(v, s, ui) \/ (v = Now(gdb) /\ Calm(q))
  BY <1>6, <1>7 DEF Kept
<1>9. \A v \in Current(t, ui) : v \in Current(s, ui) \/ (v = Now(gdb) /\ Calm(q))
  BY <1>8, CurrentIs
<1>10. Revisions(t, ui)
  <2>1. \A v, w \in t.args : v = w
    BY <1>1 DEF Noted, Revisions
  <2>2. \A v, w \in t.cache.address : v = w
    <3>1. r.do = "address" => s.cache.address = {}
      BY DEF Taken
    <3> QED
      BY <1>1, <3>1 DEF Noted, Revisions
  <2>3. /\ t.varsRev <= t.rev /\ t.cache.rev <= t.rev /\ \A e \in ui.expanded : e.rev <= t.rev
    BY <1>1, <1>7 DEF Revisions
  <2>4. t.modulesRev <= t.symbols /\ t.sourcesRev <= t.symbols
    BY <1>1 DEF Revisions, Noted, SameLists
  <2> QED
    BY <2>1, <2>2, <2>3, <2>4 DEF Revisions
<1> QED
  BY <1>4, <1>5, <1>9, <1>10 DEF Answered, Noted

LEMMA RefusedIs ==
  ASSUME NEW s, NEW r, NEW q, Taken(s, r, q), Pointed(s, r), ~r.ok, NEW t, t \in Gs, Unmoved(s, t)
  PROVE  Answered(s, r, t, q)
<1>1. Revisions(s, ui)
  BY DEF Taken
<1>2. Revisions(t, ui)
  BY <1>1 DEF Revisions, Unmoved
<1>3. Current(t, ui) = Current(s, ui)
  BY UnmovedCurrent
<1>4. SameLists(s, t)
  BY DEF Unmoved, SameLists
<1> QED
  BY <1>2, <1>3, <1>4 DEF Answered, Unmoved

(* Whatever is made of the answer, and whatever is left of the call. *)
LEMMA AnswerTells ==
  ASSUME Inv, NEW s, NEW r, Taken(s, r, Stream'), Framed(s, r, Stream'), Pointed(s, r), Answered(s, r, g', Stream'),
         UNCHANGED <<gdb, cmds, phase, late, ui>>, want' = 0, s.rev >= g.rev, Stepped(todo'),
         \A i \in 1..Len(todo') : \E j \in 1..Len(todo) : todo'[i] = todo[j],
         r.do = "select" /\ r.ok => todo' # <<>> /\ todo'[1].do = "context",
         r.do \in Alters /\ r.ok /\ phase = "loop" => todo' # <<>> /\ todo'[1].do = "breaks",
         Began(r) => Temporary(Stream)',
         Ready(g', ui, Stream', todo')
  PROVE  Told(g, ui, Stream)'
<1> DEFINE q == Stream'
<1>1. /\ s \in Gs /\ s.token = g.token /\ cmds = <<>> /\ \A i \in 1..Len(q) : ~Result(q[i])
      /\ Fitting(s) /\ Revisions(s, ui) /\ Tidings(q) /\ Believes(s, ui, q)
  BY DEF Taken
<1>2. g' \in Gs /\ g'.token = g.token /\ g'.rev = s.rev /\ g'.symbols = s.symbols /\ SameLists(s, g') /\ Revisions(g', ui)
  BY <1>1 DEF Answered
<1>3. Len(cmds) = 0 /\ cmds' = cmds
  BY <1>1
<1>4. Fitting(g)'
  <2>1. \A i \in 1..Len(todo') : Fits(todo'[i]) /\ Kinds(todo'[i]) /\ (todo'[i].do = "expanded" => todo'[i].x <= g.rev)
    BY DEF Stepped, Fitted
  <2>2. g.rev \in Nat /\ g'.rev \in Nat /\ g.rev <= g'.rev
    BY <1>2 DEF Inv, Types, Gs
  <2>3. \A i \in 1..Len(todo') : todo'[i].do = "expanded" => todo'[i].x \in Nat
    BY <2>1 DEF Fits
  <2>4. \A n \in Nat : n <= g.rev => n <= g'.rev
    BY <2>2
  <2>5. \A i \in 1..Len(todo') : todo'[i].do = "expanded" => todo'[i].x <= g'.rev
    BY <2>1, <2>3, <2>4, Zenon
  <2> QED
    BY <1>3, <2>1, <2>5 DEF Fitting
<1>5. Revisions(g, ui)'
  BY <1>2 DEF Revisions
<1>6. Tokens(Stream)' /\ Asked(Stream)' /\ Waited(Stream)'
  BY <1>1, <1>3 DEF Tokens, Asked, Waited
<1>7. Tidings(Stream)'
  BY <1>1 DEF Tidings
<1>8. \A i \in 1..Len(q) : ~Answer(Stream[i])'
  BY <1>1 DEF Answer
<1>9. Fresh(Stream)'
  BY <1>8 DEF Fresh
<1>10. Unsettled(g, ui)'
  BY <1>3 DEF Unsettled
<1>11. KeptTrue(s, ui) => KeptTrue(g', ui)
  <2>1. Alike(Now(gdb))
    BY DEF Alike, Now
  <2> QED
    BY <2>1 DEF KeptTrue, Answered
<1>12. SymbolsTrue(s) => SymbolsTrue(g')
  BY <1>2 DEF SymbolsTrue, SameLists
<1>13. Believes(g', ui, q)
  BY <1>1, <1>11, <1>12 DEF Believes, Answered
<1>14. Believes(g, ui, Stream)'
  BY <1>13 DEF Believes, KeptTrue, SymbolsTrue, Alike
<1>15. Ready(g, ui, Stream, todo)'
  <2>1. Calm(Stream)' <=> Calm(Stream')
    BY DEF Calm
  <2>2. /\ InfoFresh(g, Stream)' <=> InfoFresh(g', Stream')
        /\ VarsFresh(g, Stream)' <=> VarsFresh(g', Stream')
        /\ ListTrue(g, Stream)' <=> ListTrue(g', Stream')
    BY <2>1 DEF InfoFresh, VarsFresh, ListTrue, Now
  <2> QED
    BY <2>2 DEF Ready
<1>16. FrameTrue(g, ui, Stream)'
  <2> SUFFICES ASSUME late = 0, NoState(Stream', 0)
               PROVE  FrameOwed(Stream)' \/ \A v \in Current(g', ui) : v.frame = gdb.frame
    BY DEF FrameTrue
  <2>1. Now(gdb).frame = gdb.frame
    BY DEF Now
  <2>2. CASE r.do = "select" /\ r.ok
    BY <2>2 DEF FrameOwed
  <2>3. CASE \A v \in Current(s, ui) : v.frame = gdb.frame
    BY <2>1, <2>3 DEF Answered
  <2> QED
    BY <2>2, <2>3 DEF Framed
<1>17. BreaksTrue(g, Stream)'
  <2> SUFFICES ASSUME late = 0, phase = "loop" PROVE BreaksOwed(Stream)' \/ g'.breaks = gdb.bps
    BY <1>8 DEF BreaksTrue
  <2>1. /\ r.do = "breaks" \/ (r.do \in Alters /\ r.ok) \/ s.breaks = gdb.bps
        /\ r.do = "breaks" => r.ok /\ r.bps = gdb.bps
    BY DEF Pointed
  <2>2. CASE r.do \in Alters /\ r.ok
    BY <2>2 DEF BreaksOwed
  <2>3. CASE r.do = "breaks"
    BY <2>1, <2>3 DEF Answered
  <2>4. CASE s.breaks = gdb.bps /\ r.do # "breaks"
    BY <2>4 DEF Answered
  <2> QED
    BY <2>1, <2>2, <2>3, <2>4
<1>18. Launch(g, Stream)'
  <2> SUFFICES ASSUME late = 0, phase = "start" PROVE Launch(g, Stream)'
    BY DEF Launch
  <2>1. /\ s.breaks = {} /\ Began(r)
        /\ \A i \in 1..Len(todo) : todo[i].do = "breaks" => NoAlters(todo)
        /\ r.do = "breaks" => r.bps = {}
    BY DEF Pointed
  <2>2. g'.breaks = {}
    BY <2>1 DEF Answered
  <2>3. \A i \in 1..Len(todo') : todo'[i].do = "breaks" => NoAlters(todo')
    <3> SUFFICES ASSUME NEW i \in 1..Len(todo'), todo'[i].do = "breaks" PROVE NoAlters(todo')
      OBVIOUS
    <3>1. PICK j \in 1..Len(todo) : todo'[i] = todo[j]
      OBVIOUS
    <3>2. NoAlters(todo)
      BY <2>1, <3>1
    <3> QED
      BY <3>2 DEF Stepped
  <2> QED
    BY <1>8, <2>1, <2>2, <2>3 DEF Launch
<1> QED
  BY <1>4, <1>5, <1>6, <1>7, <1>9, <1>10, <1>14, <1>15, <1>16, <1>17, <1>18 DEF Told

-----------------------------------------------------------------------------
(* The call goes on with its next step                                      *)

(* A request was answered, and what the next step expects is so. *)
LEMMA AnsweredReady ==
  ASSUME Inv, NEW s, NEW r, NEW q, Taken(s, r, q), r.ok, NEW t, t \in Gs, Noted(s, r, t), NEW d, d = Tail(todo)
  PROVE  Ready(t, ui, q, d)
<1> SUFFICES ASSUME d # <<>> PROVE Ready(t, ui, q, d)
  BY DEF Ready
<1>1. /\ todo # <<>> /\ todo[1].kind = "request" /\ r.do = todo[1].do
      /\ r.do \in Asks => r.now = Now(gdb) /\ Calm(q)
      /\ r.do \in {"functions", "modules", "sources"} /\ NoLib(q, 0) /\ gdb.prints = 0 => r.libs = gdb.libs
      /\ NeedsInfo(todo, 1) => InfoFresh(s, q)
      /\ NeedsVars(todo, 1) => VarsFresh(s, q)
      /\ NeedsInvalid(todo, 1) => NothingKept(s, ui)
  BY DEF Taken
<1>2. Alike2(d, 1, todo, 2) /\ Follows(todo, 1)
  BY <1>1, TailStepped
<1>3. 1 + 1 = 2
  OBVIOUS
<1>4. /\ NeedsInfo(d, 1) => todo[1].do = "var" \/ NeedsInfo(todo, 1)
      /\ NeedsVars(d, 1) => NeedsVars(todo, 1)
      /\ NeedsInvalid(d, 1) => todo[1].do = "typed"
      /\ NeedsList(d, 1) => todo[1].do \in {"modules", "sources"}
      /\ ~HeadOnly(d, 1)
  BY <1>1, <1>2, <1>3, NeedsAlike DEF Follows
<1>5. NeedsInfo(d, 1) => InfoFresh(t, q)
  <2>1. \A v \in t.info : v = r.now \/ v \in s.info
    BY DEF Noted
  <2>2. CASE r.do \in {"var", "children"}
    <3>1. \A v \in t.info : v = r.now
      BY <2>2 DEF Noted
    <3>2. r.do \in Asks
      BY <2>2 DEF Asks
    <3> QED
      BY <1>1, <3>1, <3>2 DEF InfoFresh
  <2>3. CASE r.do \notin {"var", "children"}
    <3>1. t.info = s.info
      BY <2>3 DEF Noted
    <3> QED
      BY <1>1, <1>4, <2>3, <3>1 DEF InfoFresh
  <2> QED
    BY <2>2, <2>3
<1>6. NeedsVars(d, 1) => VarsFresh(t, q)
  <2> SUFFICES ASSUME NeedsVars(todo, 1) PROVE VarsFresh(t, q)
    BY <1>4
  <2>1. VarsFresh(s, q)
    BY <1>1
  <2>2. r.do \in {"args", "locals"} => r.now = Now(gdb) /\ Calm(q)
    BY <1>1 DEF Asks
  <2>3. \A v \in t.args \cup t.locals : v \in s.args \cup s.locals \/ (v = r.now /\ r.do \in {"args", "locals"})
    BY DEF Noted
  <2> QED
    BY <2>1, <2>2, <2>3 DEF VarsFresh
<1>7. NeedsInvalid(d, 1) => NothingKept(t, ui)
  <2> SUFFICES ASSUME todo[1].do = "typed" PROVE NothingKept(t, ui)
    BY <1>4
  <2>1. NothingKept(s, ui)
    BY <1>1 DEF NeedsInvalid
  <2>2. r.do = "typed"
    BY <1>1
  <2>3. /\ t.framesValid = s.framesValid /\ t.rev = s.rev /\ t.varsRev = s.varsRev /\ t.args = s.args /\ t.locals = s.locals
        /\ t.cache.rev = s.cache.rev /\ t.cache.detail = s.cache.detail /\ t.cache.address = s.cache.address
    BY <2>2 DEF Noted
  <2>4. \A v : Kept(v, t, ui) <=> Kept(v, s, ui)
    BY <2>3 DEF Kept
  <2>5. Current(t, ui) = Current(s, ui)
    <3>1. \A v : v \in Current(t, ui) <=> v \in Current(s, ui)
      BY <2>4, CurrentIs
    <3> QED
      BY <3>1
  <2> QED
    BY <2>1, <2>3, <2>5 DEF NothingKept
<1>8. NeedsList(d, 1) => ListTrue(t, q)
  <2> SUFFICES ASSUME r.do \in {"modules", "sources"}, NoLib(q, 0), gdb.prints = 0 PROVE t.list \subseteq {gdb.libs}
    BY <1>1, <1>4 DEF ListTrue
  <2> QED
    BY <1>1 DEF Noted
<1> QED
  BY <1>4, <1>5, <1>6, <1>7, <1>8 DEF Ready, HeadOnly

(* A request was refused: only what does not depend on it is left. *)
LEMMA RefusedReady ==
  ASSUME Inv, NEW s, NEW r, NEW q, Taken(s, r, q), NEW t, t \in Gs, Unmoved(s, t), t.info = s.info \/ t.info = {},
         NEW n \in Nat, Fails(todo, 1, n), NEW d, d = Drop(n)
  PROVE  Ready(t, ui, q, d)
<1> SUFFICES ASSUME d # <<>> PROVE Ready(t, ui, q, d)
  BY DEF Ready
<1>1. /\ todo # <<>> /\ todo[1].kind = "request"
      /\ NeedsInfo(todo, 1) => InfoFresh(s, q)
      /\ NeedsVars(todo, 1) => VarsFresh(s, q)
      /\ NeedsInvalid(todo, 1) => NothingKept(s, ui)
  BY DEF Taken
<1>2. /\ NeedsInfo(d, 1) => NeedsInfo(todo, 1)
      /\ NeedsVars(d, 1) => NeedsVars(todo, 1)
      /\ NeedsInvalid(d, 1) => NeedsInvalid(todo, 1)
      /\ ~NeedsList(d, 1) /\ ~HeadOnly(d, 1)
  BY <1>1, DropExpects
<1>3. NeedsInfo(d, 1) => InfoFresh(t, q)
  BY <1>1, <1>2 DEF InfoFresh
<1>4. NeedsVars(d, 1) => VarsFresh(t, q)
  BY <1>1, <1>2 DEF VarsFresh, Unmoved
<1>5. NeedsInvalid(d, 1) => NothingKept(t, ui)
  BY <1>1, <1>2, UnmovedCurrent DEF NothingKept, Unmoved
<1> QED
  BY <1>2, <1>3, <1>4, <1>5 DEF Ready, HeadOnly

(* What is left of the beginning of a launched session when its head is     *)
(* done, or is refused without dropping anything.                           *)
LEMMA TailBegins ==
  ASSUME Inv, todo # <<>>, NEW r, Began(r), Drops(todo, todo', 1), todo' \in Seq(Ops), Stepped(todo'), want' = 0, gdb' = gdb,
         r.ok \/ ~(1 < Len(todo) /\ Inserting(1))
  PROVE  Temporary(Stream)'
<1>1. /\ todo \in Seq(Ops) /\ Len(todo) \in Nat /\ Len(todo') \in Nat /\ Len(todo') = Len(todo) - 1
      /\ \A i \in 1..Len(todo') : i + 1 \in 1..Len(todo) /\ todo'[i] = todo[i + 1]
  BY DEF Inv, Types, Drops
<1>2. ~Served'
  BY DEF Served
<1>3. Single' <=> Single
  BY DEF Single
<1>4. CASE NoAlters(todo) /\ gdb.bps = {}
  BY <1>4 DEF Stepped, Temporary
<1>5. CASE Deleting /\ gdb.bps = {}
  <2>1. \A i \in 1..Len(todo') : todo'[i].do \notin Alters
    <3> SUFFICES ASSUME NEW i \in 1..Len(todo') PROVE todo'[i].do \notin Alters
      OBVIOUS
    <3>1. PICK j \in 1..Len(todo) : j = i + 1 /\ todo'[i] = todo[j]
      BY <1>1
    <3>2. j # 1
      BY <3>1
    <3> QED
      BY <1>5, <3>1, <3>2 DEF Deleting
  <2> QED
    BY <1>5, <2>1 DEF Temporary, NoAlters
<1>6. ASSUME NEW i \in 1..Len(todo), Inserting(i), i = 1, Single PROVE Temporary(Stream)'
  <2>1. /\ 1 < Len(todo) /\ todo[2].do = "delete" /\ todo[2].x = 1 /\ todo[2].bad = 0 /\ todo[2].kind = "request"
        /\ \A j \in 1..Len(todo) : todo[j].do \in Alters => j \in {1, 2}
    <3>1. i + 1 = 2 /\ 2 <= i + 1
      BY <1>6
    <3>2. 1 < Len(todo) /\ 2 \in 1..Len(todo)
      BY <1>1, <1>6 DEF Inserting
    <3> QED
      BY <1>6, <3>1, <3>2 DEF Inserting
  <2>2. 1 \in 1..Len(todo') /\ todo' # <<>> /\ todo'[1] = todo[2]
    <3>1. 1 \in 1..Len(todo') /\ 1 + 1 = 2
      BY <1>1, <2>1
    <3>2. todo' # <<>>
      BY <1>1, <3>1
    <3> QED
      BY <1>1, <3>1, <3>2
  <2>3. \A j \in 1..Len(todo') : todo'[j].do \in Alters => j = 1
    <3> SUFFICES ASSUME NEW j \in 1..Len(todo'), todo'[j].do \in Alters PROVE j = 1
      OBVIOUS
    <3>1. PICK m \in 1..Len(todo) : m = j + 1 /\ todo'[j] = todo[m]
      BY <1>1
    <3>2. m \in {1, 2}
      BY <2>1, <3>1
    <3> QED
      BY <3>1, <3>2
  <2>4. Deleting'
    BY <2>1, <2>2, <2>3 DEF Deleting
  <2> QED
    BY <1>2, <1>3, <1>6, <2>4 DEF Temporary
<1>7. ASSUME NEW i \in 1..Len(todo), Inserting(i), i # 1, gdb.bps = {}, gdb.next = 1 PROVE Temporary(Stream)'
  <2>1. PICK h \in 1..Len(todo') : i = h + 1 /\ h < Len(todo') /\ h + 1 \in 1..Len(todo')
    <3>1. i < Len(todo) /\ i > 1 /\ i \in Nat
      BY <1>1, <1>7 DEF Inserting
    <3>2. PICK h : h = i - 1
      OBVIOUS
    <3> QED
      BY <1>1, <3>1, <3>2
  <2>2. todo'[h] = todo[i]
    BY <1>1, <2>1
  <2>3. todo'[h + 1] = todo[i + 1]
    <3>1. PICK m \in 1..Len(todo') : m = h + 1
      BY <2>1
    <3>2. i = m
      BY <2>1, <3>1
    <3> QED
      BY <1>1, <3>1, <3>2
  <2>4. \A j \in 1..Len(todo') : /\ todo'[j].do \in Alters => j \in {h, h + 1}
                                 /\ j <= h + 1 => todo'[j].kind = "request"
                                 /\ j < h => todo'[j].bad \in {0, All}
    <3> SUFFICES ASSUME NEW j \in 1..Len(todo')
                 PROVE  /\ todo'[j].do \in Alters => j \in {h, h + 1}
                        /\ j <= h + 1 => todo'[j].kind = "request"
                        /\ j < h => todo'[j].bad \in {0, All}
      OBVIOUS
    <3>1. PICK m \in 1..Len(todo) : m = j + 1 /\ todo'[j] = todo[m]
      BY <1>1
    <3>2. (m \in {i, i + 1} => j \in {h, h + 1}) /\ (j <= h + 1 => m <= i + 1) /\ (j < h => m < i)
      BY <2>1, <3>1
    <3> QED
      BY <1>7, <3>1, <3>2 DEF Inserting
  <2>5. Inserting(h)'
    BY <1>7, <2>1, <2>2, <2>3, <2>4 DEF Inserting
  <2>6. gdb'.bps = {} /\ gdb'.next = 1
    BY <1>7
  <2> QED
    BY <1>2, <2>5, <2>6 DEF Temporary
<1>8. ASSUME NEW i \in 1..Len(todo), Inserting(i),
             \/ gdb.bps = {} /\ (i = 1 => ~r.ok) /\ (i = 1 \/ gdb.next = 1)
             \/ Single /\ i = 1 /\ r.ok
      PROVE  Temporary(Stream)'
  <2>1. i = 1 => Inserting(1) /\ 1 < Len(todo)
    BY <1>8 DEF Inserting
  <2> QED
    BY <1>6, <1>7, <1>8, <2>1
<1> QED
  BY <1>4, <1>5, <1>8 DEF Began

LEMMA DropZero ==
  ASSUME Inv, todo # <<>>, NEW d, d = Drop(0)
  PROVE  Drops(todo, d, 1)
<1>1. todo \in Seq(Ops) /\ 1 \in 1..Len(todo)
  BY DEF Inv, Types
<1>2. 0 # All /\ 2 + 0 = 1 + 1
  BY DEF All
<1>3. d = SubSeq(todo, 1 + 1, Len(todo))
  BY <1>2 DEF Drop
<1> QED
  BY <1>1, <1>3, DroppedSteps

(* When the request was refused. *)
LEMMA RefusedBegins ==
  ASSUME Inv, todo # <<>>, todo[1].kind = "request", NEW r, ~r.ok, Began(r), todo' = Drop(todo[1].bad), want' = 0, gdb' = gdb
  PROVE  Temporary(Stream)'
<1>1. todo[1].bad \in Nat /\ Fails(todo, 1, todo[1].bad) /\ todo \in Seq(Ops)
  BY HeadFails DEF Inv, Types
<1>2. PICK n \in Nat : n = todo[1].bad
  BY <1>1
<1>3. \/ todo' = <<>> /\ Stepped(todo') /\ NoAlters(todo')
      \/ n # All /\ n + 1 \in 1..Len(todo) /\ Stepped(todo') /\ Drops(todo, todo', n + 1)
  BY <1>1, <1>2, DropIs
<1>4. todo' \in Seq(Ops) /\ Stepped(todo')
  BY <1>3 DEF Stepped
<1>5. CASE 1 < Len(todo) /\ Inserting(1)
  <2>1. n = 1 /\ gdb.bps = {} /\ n # All
    <3>1. n = 1 /\ NoAlters(todo) = FALSE /\ ~Deleting
      <4>1. n = 1 /\ todo[1].do = "insert" /\ 1 \in 1..Len(todo) /\ "insert" \in Alters
        BY <1>1, <1>2, <1>5 DEF Inserting, Alters
      <4> QED
        BY <4>1 DEF NoAlters, Deleting
    <3> QED
      BY <3>1 DEF Began, Single, All
  <2>2. \A j \in 1..Len(todo) : todo[j].do \in Alters => j \in {1, 2}
    <3>1. 1 + 1 = 2
      OBVIOUS
    <3> QED
      BY <1>5, <3>1 DEF Inserting
  <2>3. \A i \in 1..Len(todo') : todo'[i].do \notin Alters
    <3> SUFFICES ASSUME NEW i \in 1..Len(todo') PROVE todo'[i].do \notin Alters
      OBVIOUS
    <3>1. todo' # <<>>
      BY <1>4
    <3>2. CASE NoAlters(todo')
      BY <3>2 DEF NoAlters
    <3>3. CASE Drops(todo, todo', n + 1)
      <4>1. Len(todo') = Len(todo) - 2 /\ Len(todo) \in Nat
        BY <1>1, <2>1, <3>3 DEF Drops
      <4>2. PICK m \in 1..Len(todo) : m = i + 2 /\ todo'[i] = todo[m]
        BY <2>1, <3>3, <4>1 DEF Drops
      <4>3. m \notin {1, 2}
        BY <4>2
      <4> QED
        BY <2>2, <4>2, <4>3
    <3> QED
      BY <1>3, <3>2, <3>3
  <2> QED
    BY <2>1, <2>3 DEF Temporary, NoAlters
<1>6. CASE ~(1 < Len(todo) /\ Inserting(1))
  <2>1. CASE NoAlters(todo) /\ gdb.bps = {}
    BY <1>4, <2>1 DEF Stepped, Temporary
  <2>2. CASE Deleting
    <3>1. n = 0
      BY <1>2, <2>2 DEF Deleting
    <3>2. Drops(todo, todo', 1)
      BY <1>2, <3>1, DropZero
    <3> QED
      BY <1>4, <1>6, <3>2, TailBegins
  <2>3. ASSUME NEW i \in 1..Len(todo), Inserting(i), i # 1, gdb.bps = {} PROVE Temporary(Stream)'
    <3>1. n \in {0, All}
      <4>1. 1 \in 1..Len(todo) /\ 1 < i
        BY <1>1, <2>3
      <4> QED
        BY <1>2, <2>3, <4>1 DEF Inserting
    <3>2. CASE n = 0
      <4>1. Drops(todo, todo', 1)
        BY <1>1, <1>2, <3>2, DropZero
      <4> QED
        BY <1>4, <1>6, <4>1, TailBegins
    <3>3. CASE n = All
      <4>1. todo' = <<>>
        BY <1>2, <3>3 DEF Drop
      <4>2. \A j \in 1..Len(todo') : FALSE
        BY <4>1
      <4> QED
        BY <2>3, <4>2 DEF Temporary, NoAlters
    <3> QED
      BY <3>1, <3>2, <3>3
  <2>4. ASSUME NEW i \in 1..Len(todo), Inserting(i) PROVE i # 1
    BY <1>6, <2>4 DEF Inserting
  <2> QED
    BY <2>1, <2>2, <2>3, <2>4 DEF Began
<1> QED
  BY <1>5, <1>6

-----------------------------------------------------------------------------
(* The answer comes                                                         *)

LEMMA AcceptKeeps ==
  ASSUME Inv, NEW s, NEW r, Taken(s, r, Stream'), Framed(s, r, Stream'), Pointed(s, r), s.rev >= g.rev, r.ok,
         g' = Accept(s, todo[1], r), todo' = Tail(todo), want' = 0, UNCHANGED <<gdb, cmds, phase, late, ui>>
  PROVE  Told(g, ui, Stream)' /\ g' \in Gs /\ g'.token = g.token /\ Stepped(todo')
<1>1. todo # <<>> /\ todo[1].kind = "request" /\ todo \in Seq(Ops) /\ Stepping /\ Fitting(g) /\ s \in Gs /\ r \in Records
      /\ r.do = todo[1].do /\ s.token = g.token
  BY DEF Taken, Inv, Types, Told
<1>2. 1 \in 1..Len(todo) /\ todo[1] \in Ops /\ Fits(todo[1])
  BY <1>1 DEF Fitting
<1>3. g' \in Gs /\ Noted(s, r, g')
  BY <1>1, <1>2, NotedIs
<1>4. Answered(s, r, g', Stream')
  BY <1>3, AcceptedIs
<1>5. /\ Stepped(todo') /\ Drops(todo, todo', 1)
      /\ todo' # <<>> => Alike2(todo', 1, todo, 2)
  BY <1>1, TailStepped
<1>6. todo' \in Seq(Ops) /\ Len(todo') \in Nat /\ Len(todo) \in Nat /\ Len(todo') = Len(todo) - 1
  BY <1>1, <1>5 DEF Stepped, Drops
<1>7. \A i \in 1..Len(todo') : \E j \in 1..Len(todo) : todo'[i] = todo[j]
  <2> SUFFICES ASSUME NEW i \in 1..Len(todo') PROVE \E j \in 1..Len(todo) : todo'[i] = todo[j]
    OBVIOUS
  <2>1. PICK j \in 1..Len(todo) : j = i + 1
    BY <1>6
  <2> QED
    BY <1>5, <2>1 DEF Drops
<1>8. 1 < Len(todo) => todo' # <<>> /\ todo'[1] = todo[2]
  <2> SUFFICES ASSUME 1 < Len(todo) PROVE todo' # <<>> /\ todo'[1] = todo[2]
    OBVIOUS
  <2>1. Len(todo') # 0
    BY <1>6
  <2>2. todo' # <<>>
    BY <2>1
  <2> QED
    BY <1>5, <2>2 DEF Alike2
<1>9. 1 + 1 = 2
  OBVIOUS
<1>10. r.do = "select" /\ r.ok => todo' # <<>> /\ todo'[1].do = "context"
  BY <1>1, <1>2, <1>8, <1>9 DEF Stepping, Paired
<1>11. r.do \in Alters /\ r.ok /\ phase = "loop" => todo' # <<>> /\ todo'[1].do = "breaks"
  BY <1>1, <1>2, <1>8, <1>9 DEF Stepping, Listed
<1>12. Began(r) => Temporary(Stream)'
  BY <1>1, <1>5, <1>6, TailBegins
<1>13. Ready(g', ui, Stream', todo')
  BY <1>3, AnsweredReady
<1>14. Told(g, ui, Stream)'
  BY <1>4, <1>5, <1>7, <1>10, <1>11, <1>12, <1>13, AnswerTells
<1>15. g'.token = g.token
  BY <1>1, <1>3 DEF Noted
<1> QED
  BY <1>3, <1>5, <1>14, <1>15

LEMMA RefuseKeeps ==
  ASSUME Inv, NEW s, NEW r, Taken(s, r, Stream'), Framed(s, r, Stream'), Pointed(s, r), s.rev >= g.rev, ~r.ok,
         g' = Refuse(s, todo[1]), todo' = Drop(todo[1].bad), want' = 0, UNCHANGED <<gdb, cmds, phase, late, ui>>
  PROVE  Told(g, ui, Stream)' /\ g' \in Gs /\ g'.token = g.token /\ Stepped(todo')
<1>1. todo # <<>> /\ todo[1].kind = "request" /\ todo \in Seq(Ops) /\ s \in Gs /\ s.token = g.token
  BY DEF Taken, Inv, Types
<1>2. g' \in Gs /\ Unmoved(s, g') /\ (g'.info = s.info \/ g'.info = {})
  BY <1>1, RefuseIs
<1>3. Answered(s, r, g', Stream')
  BY <1>2, RefusedIs
<1>4. PICK n \in Nat : n = todo[1].bad
  BY <1>1, HeadFails
<1>5. Fails(todo, 1, n)
  BY <1>1, <1>4, HeadFails
<1>6. \/ todo' = <<>> /\ Stepped(todo')
      \/ n + 1 \in 1..Len(todo) /\ Stepped(todo') /\ Drops(todo, todo', n + 1)
  BY <1>1, <1>4, <1>5, DropIs
<1>7. \A i \in 1..Len(todo') : \E j \in 1..Len(todo) : todo'[i] = todo[j]
  <2>1. CASE todo' = <<>>
    BY <2>1
  <2>2. ASSUME n + 1 \in 1..Len(todo), Stepped(todo'), Drops(todo, todo', n + 1), NEW i \in 1..Len(todo')
        PROVE  \E j \in 1..Len(todo) : todo'[i] = todo[j]
    <3>1. Len(todo') = Len(todo) - (n + 1) /\ Len(todo) \in Nat /\ Len(todo') \in Nat
      BY <1>1, <2>2 DEF Drops, Stepped
    <3>2. PICK j \in 1..Len(todo) : j = i + (n + 1)
      BY <3>1
    <3> QED
      BY <2>2, <3>2 DEF Drops
  <2> QED
    BY <1>6, <2>1, <2>2
<1>8. Began(r) => Temporary(Stream)'
  BY <1>1, RefusedBegins
<1>9. Ready(g', ui, Stream', todo')
  BY <1>2, <1>4, <1>5, RefusedReady
<1>10. Told(g, ui, Stream)'
  BY <1>3, <1>6, <1>7, <1>8, <1>9, AnswerTells
<1>11. g'.token = g.token
  BY <1>1, <1>2 DEF Unmoved
<1> QED
  BY <1>2, <1>6, <1>10, <1>11

LEMMA AwaitKeeps ==
  ASSUME Inv, Await, UNCHANGED <<ui, keys>>
  PROVE  Inv'
<1> DEFINE op == todo[1]
<1>1. /\ Types /\ Commanded /\ want # 0 /\ todo # <<>> /\ todo \in Seq(Ops) /\ pipe \in Seq(Records) /\ buf \in Seq(Records)
      /\ UNCHANGED <<gdb, cmds, phase, late, ui, keys>>
  BY DEF Inv, Await, Commanded, Types
<1>2. Head(todo) = op
  BY <1>1, TailDrops
<1> HIDE DEF op
<1>3. PICK n \in 1..Len(pipe) :
         LET read == buf \o SubSeq(pipe, 1, n)
             own == SelectInSeq(read, Own)
         IN  /\ pipe' = SubSeq(pipe, n + 1, Len(pipe))
             /\ IF own = 0
                THEN /\ g' = HandleAll(g, read)
                     /\ buf' = <<>>
                     /\ UNCHANGED <<want, todo>>
                ELSE LET s == HandleAll(g, SubSeq(read, 1, own - 1))
                     IN  /\ buf' = SubSeq(read, own + 1, Len(read))
                         /\ want' = 0
                         /\ IF read[own].ok
                            THEN g' = Accept(s, op, read[own]) /\ todo' = Tail(todo)
                            ELSE g' = Refuse(s, op) /\ todo' = Drop(op.bad)
  BY <1>2, Zenon DEF Await
<1>4. PICK first : first = SubSeq(pipe, 1, n)
  OBVIOUS
<1>5. PICK read : read = buf \o first
  OBVIOUS
<1>6. PICK own : own = SelectInSeq(read, Own)
  OBVIOUS
<1>7. Splits(pipe, n, first, pipe') /\ Joins(buf, first, read)
  BY <1>3, <1>4, <1>5 DEF Splits, Joins
<1>8. CASE own = 0
  <2>1. g' = HandleAll(g, read) /\ buf' = <<>> /\ UNCHANGED <<want, todo>>
    BY <1>3, <1>4, <1>5, <1>6, <1>8
  <2> QED
    BY <1>1, <1>7, <2>1, ReadWhileWaiting
<1>9. CASE own # 0
  <2>1. PICK before : before = SubSeq(read, 1, own - 1)
    OBVIOUS
  <2>2. PICK after : after = SubSeq(read, (own - 1) + 1, Len(read))
    OBVIOUS
  <2>3. PICK known : known = SubSeq(read, 1, own)
    OBVIOUS
  <2>4. PICK s : s = HandleAll(g, before)
    OBVIOUS
  <2>5. PICK r : r = read[own]
    OBVIOUS
  <2>6. /\ buf' = SubSeq(read, own + 1, Len(read)) /\ want' = 0
        /\ IF r.ok THEN g' = Accept(s, op, r) /\ todo' = Tail(todo)
                   ELSE g' = Refuse(s, op) /\ todo' = Drop(op.bad)
    BY <1>3, <1>4, <1>5, <1>6, <1>9, <2>1, <2>4, <2>5
  <2>7. Splits(read, own, known, buf') /\ Splits(read, own - 1, before, after)
    BY <2>1, <2>2, <2>3, <2>6 DEF Splits
  <2>8. n \in 1..Len(pipe) /\ Chosen(read, own)
    BY <1>6 DEF Chosen
  <2>9. /\ pipe' \in Seq(Records) /\ buf' \in Seq(Records) /\ Stream' \in Seq(Records) /\ s \in Gs /\ s.token = g.token
        /\ s.rev >= g.rev
        /\ \E mid \in Seq(Records) : /\ mid # <<>> /\ Len(mid) >= 1 /\ mid[1] = read[own] /\ Own(mid[1])
                                     /\ Drops(mid, Stream', 1) /\ Told(s, ui, mid)
    BY <1>1, <1>7, <1>9, <2>4, <2>7, <2>8, OwnRead
  <2>10. PICK mid \in Seq(Records) : /\ mid # <<>> /\ Len(mid) >= 1 /\ mid[1] = read[own] /\ Own(mid[1])
                                     /\ Drops(mid, Stream', 1) /\ Told(s, ui, mid)
    BY <2>9
  <2>11. r = mid[1] /\ Own(r)
    BY <2>5, <2>10
  <2>12. Taken(s, r, Stream') /\ Framed(s, r, Stream') /\ Pointed(s, r)
    BY <1>1, <2>9, <2>10, <2>11, TakenIs
  <2>13. op = todo[1]
    BY DEF op
  <2>14. Told(g, ui, Stream)' /\ g' \in Gs /\ g'.token = g.token /\ Stepped(todo')
    <3>1. CASE r.ok
      BY <1>1, <2>6, <2>9, <2>12, <2>13, <3>1, AcceptKeeps
    <3>2. CASE ~r.ok
      BY <1>1, <2>6, <2>9, <2>12, <2>13, <3>2, RefuseKeeps
    <3> QED
      BY <3>1, <3>2
  <2>15. Phases' /\ Stepping'
    BY <1>1, <2>14, SteppedKeeps
  <2>16. todo' \in Seq(Ops)
    BY <2>14 DEF Stepped
  <2>17. Types'
    BY <1>1, <2>6, <2>9, <2>14, <2>16 DEF Types
  <2>18. Commanded'
    BY <1>1, <2>6, <2>14 DEF Commanded
  <2> QED
    BY <2>14, <2>15, <2>17, <2>18 DEF Inv
<1> QED
  BY <1>8, <1>9

-----------------------------------------------------------------------------
(* What GDB writes                                                          *)

LEMMA RecordIs ==
  ASSUME NEW d \in Gdbs, NEW k \in {"result", "running", "stopped", "exited", "killed", "library", "group"}, NEW tok \in Nat,
         NEW do \in Dos \cup {Silent}, NEW ok \in BOOLEAN, NEW e, e = Record(k, tok, do, ok, d)
  PROVE  /\ e \in Records /\ e.k = k /\ e.tok = tok /\ e.do = do /\ (e.ok <=> ok) /\ ~e.cut
         /\ e.now = Now(d) /\ e.bps = d.bps /\ e.libs = d.libs
<1>1. PICK no \in BOOLEAN : no = FALSE
  OBVIOUS
<1>2. PICK now \in Nows : now = Now(d)
  <2>1. Now(d) \in Nows
    BY DEF Now, Nows, Gdbs
  <2> QED
    BY <2>1
<1>3. d.bps \in SUBSET Points /\ d.libs \in Nat
  BY DEF Gdbs
<1>4. e = [k |-> k, tok |-> tok, do |-> do, ok |-> ok, cut |-> no, now |-> now, bps |-> d.bps, libs |-> d.libs]
  BY <1>1, <1>2 DEF Record
<1>5. e \in Records
  BY <1>3, <1>4 DEF Records
<1>6. e.k = k /\ e.tok = tok /\ e.do = do /\ e.ok = ok /\ e.cut = no /\ e.now = now /\ e.bps = d.bps /\ e.libs = d.libs
  BY <1>4
<1> QED
  BY <1>1, <1>2, <1>5, <1>6

LEMMA NewsIs ==
  ASSUME NEW d \in Gdbs, NEW k \in {"running", "stopped", "exited", "killed", "library", "group"}, NEW e, e = News(k, d)
  PROVE  e \in Records /\ e.k = k /\ ~Result(e) /\ ~e.cut
<1>1. PICK yes \in BOOLEAN : yes = TRUE
  OBVIOUS
<1>2. e = Record(k, 0, Silent, yes, d)
  BY <1>1, Zenon DEF News, Silent
<1>3. Silent \in Dos \cup {Silent} /\ 0 \in Nat /\ k \in {"result", "running", "stopped", "exited", "killed", "library", "group"}
  OBVIOUS
<1>4. e \in Records /\ e.k = k /\ ~e.cut
  BY <1>2, <1>3, RecordIs
<1> QED
  BY <1>4 DEF Result

(* What is written comes after what has been. *)
LEMMA Adds ==
  ASSUME Inv, NEW rs \in Seq(Records), Joins(pipe, rs, pipe'), buf' = buf
  PROVE  /\ pipe' \in Seq(Records) /\ Stream \in Seq(Records) /\ Stream' \in Seq(Records)
         /\ JoinedAs(Stream, rs, Stream')
<1>1. buf \in Seq(Records) /\ pipe \in Seq(Records)
  BY DEF Inv, Types
<1>2. pipe' \in Seq(Records) /\ JoinedAs(pipe, rs, pipe')
  BY <1>1, Joined
<1>3. Joins(buf, pipe, Stream)
  BY DEF Joins, Stream
<1>4. Stream \in Seq(Records) /\ JoinedAs(buf, pipe, Stream)
  BY <1>1, <1>3, Joined
<1>5. Joins(buf, pipe', Stream')
  BY DEF Joins, Stream
<1>6. Stream' \in Seq(Records) /\ JoinedAs(buf, pipe', Stream')
  BY <1>1, <1>2, <1>5, Joined
<1>7. JoinedAs(Stream, rs, Stream')
  BY <1>1, <1>2, <1>4, <1>6, ThreeParts
<1> QED
  BY <1>2, <1>4, <1>6, <1>7

LEMMA AddsNews ==
  ASSUME NEW q \in Seq(Records), NEW rs \in Seq(Records), NEW p \in Seq(Records), JoinedAs(q, rs, p)
  PROVE  /\ \A i \in 1..Len(p) : \/ i \in 1..Len(q) /\ p[i] = q[i]
                                 \/ \E j \in 1..Len(rs) : i = Len(q) + j /\ p[i] = rs[j]
         /\ \A i \in 1..Len(q) : i \in 1..Len(p) /\ p[i] = q[i]
         /\ \A i \in 0..Len(q) : /\ NoState(p, i) => NoState(q, i) /\ NoState(rs, 0)
                                 /\ NoLib(p, i) => NoLib(q, i) /\ NoLib(rs, 0)
         /\ \A j \in 1..Len(rs) : NoState(p, Len(q) + j) <=> NoState(rs, j)
<1>1. PICK m \in Nat : m = Len(q)
  OBVIOUS
<1>2. PICK n \in Nat : n = Len(rs)
  OBVIOUS
<1>3. /\ Len(p) = m + n
      /\ \A i \in 1..m : p[i] = q[i]
      /\ \A i \in 1..n : p[m + i] = rs[i]
  BY <1>1, <1>2 DEF JoinedAs
<1>4. \A i \in 1..Len(p) : i \in 1..m \/ \E j \in 1..n : i = m + j
  <2> SUFFICES ASSUME NEW i \in 1..Len(p), i \notin 1..m PROVE \E j \in 1..n : i = m + j
    OBVIOUS
  <2>1. i \in Nat /\ i > m /\ i <= m + n
    BY <1>3
  <2>2. i - m \in 1..n /\ i = m + (i - m)
    BY <2>1
  <2> QED
    BY <2>2
<1>5. \A i \in 1..Len(p) : \/ i \in 1..m /\ p[i] = q[i]
                           \/ \E j \in 1..n : i = m + j /\ p[i] = rs[j]
  BY <1>3, <1>4
<1>6. \A i \in 1..m : i \in 1..Len(p) /\ p[i] = q[i]
  BY <1>3
<1>7. \A j \in 1..n : m + j \in 1..Len(p) /\ p[m + j] = rs[j]
  BY <1>3
<1>8. \A i \in 0..m : \A j \in 1..n : m + j > i /\ j > 0
  OBVIOUS
<1>9. ASSUME NEW i \in 0..m
      PROVE  /\ NoState(p, i) => NoState(q, i) /\ NoState(rs, 0)
             /\ NoLib(p, i) => NoLib(q, i) /\ NoLib(rs, 0)
  BY <1>1, <1>2, <1>6, <1>7, <1>8 DEF NoState, NoLib
<1>10. ASSUME NEW j \in 1..n PROVE NoState(p, m + j) <=> NoState(rs, j)
  <2>1. ASSUME NoState(p, m + j), NEW h \in 1..n, h > j PROVE ~StateNews(rs[h])
    <3>1. m + h > m + j
      BY <2>1
    <3> QED
      BY <1>7, <2>1, <3>1 DEF NoState
  <2>2. ASSUME NoState(rs, j), NEW i \in 1..Len(p), i > m + j PROVE ~StateNews(p[i])
    <3>1. ~(i \in 1..m)
      BY <2>2
    <3>2. PICK h \in 1..n : i = m + h /\ p[i] = rs[h]
      BY <1>5, <3>1
    <3>3. h > j
      BY <2>2, <3>2
    <3> QED
      BY <1>2, <2>2, <3>2, <3>3 DEF NoState
  <2> QED
    BY <1>2, <2>1, <2>2 DEF NoState
<1> QED
  BY <1>1, <1>2, <1>5, <1>6, <1>9, <1>10

-----------------------------------------------------------------------------
(* The program runs on, stops and exits                                     *)

(* What the program does while it runs, and the records about it. *)
Happens(rs) ==
    /\ gdb.run = "running" /\ gdb' \in Gdbs /\ gdb'.run # "gone" /\ rs \in Seq(Records)
    /\ \A i \in 1..Len(rs) : /\ ~Result(rs[i])
                             /\ rs[i].cut => gdb'.prints > 0
                             /\ StateNews(rs[i]) /\ NoState(rs, i) => rs[i].k = gdb'.run
    /\ NoState(rs, 0) => /\ gdb'.run = gdb.run /\ gdb'.at = gdb.at /\ gdb'.frame = gdb.frame
                         /\ gdb'.mem = gdb.mem /\ gdb'.src = gdb.src
    /\ NoLib(rs, 0) /\ gdb'.prints = 0 => gdb'.libs = gdb.libs
    /\ gdb'.prints >= gdb.prints /\ gdb'.bps = gdb.bps /\ gdb'.next = gdb.next
    /\ gdb'.cut => gdb'.prints > 0 /\ gdb'.run = "running" /\ ~gdb'.async

LEMMA ProgramKeeps ==
  ASSUME Inv, NEW rs, Happens(rs), Joins(pipe, rs, pipe'), UNCHANGED <<cmds, buf, want, todo, g, phase, late, ui, keys>>
  PROVE  Inv'
<1> DEFINE q == Stream
           p == Stream'
<1>1. /\ Types /\ Commanded /\ Phases /\ Stepping /\ Told(g, ui, q) /\ gdb.run = "running" /\ gdb' \in Gdbs
      /\ gdb'.run # "gone" /\ rs \in Seq(Records) /\ gdb \in Gdbs
  BY DEF Inv, Happens, Types
<1>2. pipe' \in Seq(Records) /\ q \in Seq(Records) /\ p \in Seq(Records) /\ JoinedAs(q, rs, p)
  BY <1>1, Adds
<1>3. /\ \A i \in 1..Len(p) : \/ i \in 1..Len(q) /\ p[i] = q[i]
                              \/ \E j \in 1..Len(rs) : i = Len(q) + j /\ p[i] = rs[j]
      /\ \A i \in 1..Len(q) : i \in 1..Len(p) /\ p[i] = q[i]
      /\ \A i \in 0..Len(q) : /\ NoState(p, i) => NoState(q, i) /\ NoState(rs, 0)
                              /\ NoLib(p, i) => NoLib(q, i) /\ NoLib(rs, 0)
      /\ \A j \in 1..Len(rs) : NoState(p, Len(q) + j) <=> NoState(rs, j)
  BY <1>1, <1>2, AddsNews
<1>4. 0 \in 0..Len(q) /\ \A i \in 1..Len(q) : i \in 0..Len(q)
  BY <1>2
<1>5. \A i \in 1..Len(p) : Result(p[i]) => i \in 1..Len(q) /\ p[i] = q[i]
  BY <1>1, <1>3 DEF Happens
<1>6. gdb.prints \in Nat /\ gdb'.prints \in Nat /\ gdb'.prints >= gdb.prints
  BY <1>1 DEF Gdbs, Happens
<1>7. NoState(p, 0) => /\ NoState(q, 0) /\ gdb'.run = gdb.run /\ gdb'.at = gdb.at /\ gdb'.frame = gdb.frame
                       /\ gdb'.mem = gdb.mem /\ gdb'.src = gdb.src
  BY <1>3, <1>4 DEF Happens
<1>8. \A i \in 0..Len(q) : NoLib(p, i) /\ gdb'.prints = 0 => NoLib(q, i) /\ gdb.prints = 0 /\ gdb'.libs = gdb.libs
  <2>1. gdb'.prints = 0 => gdb.prints = 0
    BY <1>6
  <2> QED
    BY <1>3, <2>1 DEF Happens
<1>9. \A r : Answer(r)' <=> Answer(r)
  BY DEF Answer
<1> HIDE DEF q, p
<1>10. /\ Fitting(g) /\ Revisions(g, ui) /\ Tokens(q) /\ Asked(q) /\ Waited(q) /\ Tidings(q) /\ Believes(g, ui, q)
       /\ Fresh(q) /\ Unsettled(g, ui) /\ Ready(g, ui, q, todo) /\ FrameTrue(g, ui, q) /\ BreaksTrue(g, q) /\ Launch(g, q)
  BY <1>1 DEF Told
<1>11. Types'
  BY <1>1, <1>2 DEF Types
<1>12. Commanded' /\ Stepping'
  BY <1>1 DEF Commanded, Stepping
<1>13. Phases'
  BY <1>1 DEF Phases
<1>14. Fitting(g)' /\ Revisions(g, ui)' /\ Unsettled(g, ui)'
  BY <1>10 DEF Fitting, Revisions, Unsettled, NothingKept
<1>15. Stream' = p
  BY DEF p
<1>16. Tokens(p)
  BY <1>5, <1>10 DEF Tokens
<1>17. Asked(p)
  BY <1>5, <1>10 DEF Asked, Answer
<1>18. Waited(p)
  BY <1>5, <1>10 DEF Waited
<1>19. Tokens(Stream)' /\ Asked(Stream)' /\ Waited(Stream)'
  BY <1>15, <1>16, <1>17, <1>18 DEF Tokens, Asked, Waited, Answer
<1>20. Tidings(Stream)'
  <2>1. ASSUME NEW i \in 1..Len(p), StateNews(p[i]), NoState(p, i) PROVE p[i].k = gdb'.run
    <3>1. CASE i \in 1..Len(q) /\ p[i] = q[i]
      <4>1. NoState(q, i) /\ NoState(rs, 0)
        BY <1>3, <1>4, <2>1, <3>1
      <4>2. q[i].k = gdb.run
        BY <1>1, <1>10, <2>1, <3>1, <4>1 DEF Tidings
      <4> QED
        BY <3>1, <4>1, <4>2 DEF Happens
    <3>2. ASSUME NEW j \in 1..Len(rs), i = Len(q) + j, p[i] = rs[j] PROVE p[i].k = gdb'.run
      <4>1. NoState(rs, j)
        BY <1>3, <2>1, <3>2
      <4> QED
        BY <2>1, <3>2, <4>1 DEF Happens
    <3> QED
      BY <1>3, <3>1, <3>2
  <2>2. ASSUME NEW i \in 1..Len(p), Result(p[i]), p[i].do \in {"exec", "run"}, p[i].ok PROVE ~NoState(p, i)
    BY <1>3, <1>4, <1>5, <1>10, <2>2 DEF Tidings
  <2>3. ASSUME NEW i \in 1..Len(p), p[i].cut PROVE gdb'.prints > 0
    <3>1. CASE i \in 1..Len(q) /\ p[i] = q[i]
      <4>1. gdb.prints > 0
        BY <1>10, <2>3, <3>1 DEF Tidings
      <4> QED
        BY <1>6, <4>1
    <3>2. CASE \E j \in 1..Len(rs) : p[i] = rs[j]
      BY <2>3, <3>2 DEF Happens
    <3> QED
      BY <1>3, <3>1, <3>2
  <2> QED
    BY <1>15, <2>1, <2>2, <2>3 DEF Tidings, Happens
<1>21. Believes(g, ui, Stream)'
  <2>1. NoState(p, 0) => g.state = Reported(gdb'.run)
    BY <1>1, <1>7, <1>10 DEF Believes
  <2>2. NoState(p, 0) => KeptTrue(g, ui)'
    BY <1>7, <1>10 DEF Believes, KeptTrue, Alike
  <2>3. NoLib(p, 0) /\ gdb'.prints = 0 => SymbolsTrue(g)'
    BY <1>4, <1>8, <1>10 DEF Believes, SymbolsTrue
  <2> QED
    BY <1>15, <2>1, <2>2, <2>3 DEF Believes
<1>22. \A i \in 1..Len(p) : Answer(p[i]) => i \in 1..Len(q) /\ p[i] = q[i]
  BY <1>5 DEF Answer
<1>23. Fresh(Stream)'
  <2>1. \A i \in 1..Len(p) : ~(Answer(p[i]) /\ p[i].ok /\ p[i].do \in Asks)
    BY <1>1, <1>10, <1>22 DEF Fresh, Halted
  <2>2. \A i \in 1..Len(p) : Answer(p[i]) /\ p[i].do \in {"functions", "modules", "sources"}
                               /\ NoLib(p, i) /\ gdb'.prints = 0 => p[i].libs = gdb'.libs
    BY <1>4, <1>8, <1>10, <1>22 DEF Fresh
  <2> QED
    BY <1>9, <1>15, <2>1, <2>2 DEF Fresh
<1>24. ~Calm(q)
  BY <1>1 DEF Calm, Halted
<1>25. Ready(g, ui, Stream, todo)'
  <2>1. InfoFresh(g, q) => InfoFresh(g, Stream)'
    BY <1>24 DEF InfoFresh
  <2>2. VarsFresh(g, q) => VarsFresh(g, Stream)'
    BY <1>24 DEF VarsFresh
  <2>3. ListTrue(g, q) => ListTrue(g, Stream)'
    BY <1>4, <1>8, <1>15 DEF ListTrue
  <2> QED
    BY <1>10, <2>1, <2>2, <2>3 DEF Ready, NothingKept
<1>26. (AllOk(q) => AllOk(p)) /\ (AllBad(q) => AllBad(p)) /\ (AllOk(p) => AllOk(q)) /\ (AllBad(p) => AllBad(q))
  BY <1>3, <1>22 DEF AllOk, AllBad
<1>27. /\ AllOk(Stream)' <=> AllOk(q)
       /\ AllBad(Stream)' <=> AllBad(q)
  BY <1>9, <1>15, <1>26 DEF AllOk, AllBad
<1>28. Served' <=> Served
  BY DEF Served
<1>29. FrameTrue(g, ui, Stream)'
  <2>1. FrameOwed(q) => FrameOwed(Stream)'
    BY <1>27, <1>28 DEF FrameOwed
  <2> QED
    BY <1>7, <1>10, <1>15, <2>1 DEF FrameTrue
<1>30. BreaksTrue(g, Stream)'
  <2>1. BreaksOwed(q) => BreaksOwed(Stream)'
    BY <1>27, <1>28 DEF BreaksOwed
  <2>2. gdb'.bps = gdb.bps
    BY DEF Happens
  <2> QED
    BY <1>9, <1>10, <1>15, <1>22, <2>1, <2>2 DEF BreaksTrue
<1>31. Launch(g, Stream)'
  <2>1. gdb'.bps = gdb.bps /\ gdb'.next = gdb.next
    BY DEF Happens
  <2>2. \A i : Inserting(i)' <=> Inserting(i)
    BY DEF Inserting
  <2>3. (Deleting' <=> Deleting) /\ (Single' <=> Single)
    BY <2>1 DEF Deleting, Single
  <2>4. Temporary(q) => Temporary(Stream)'
    BY <1>27, <1>28, <2>1, <2>2, <2>3 DEF Temporary
  <2> QED
    BY <1>9, <1>10, <1>15, <1>22, <2>4 DEF Launch
<1>32. Told(g, ui, Stream)'
  BY <1>14, <1>19, <1>20, <1>21, <1>23, <1>25, <1>29, <1>30, <1>31 DEF Told
<1> QED
  BY <1>11, <1>12, <1>13, <1>32 DEF Inv

LEMMA EmitOne ==
  ASSUME Inv, NEW e \in Records, ~e.cut, NEW cut \in BOOLEAN, Emit(<<e>>, cut)
  PROVE  \E f \in Records : /\ f.k = e.k /\ (f.cut <=> cut)
                            /\ Joins(pipe, <<f>>, pipe')
<1>1. CASE ~cut
  <2>1. pipe' = pipe \o <<e>>
    BY <1>1 DEF Emit
  <2>2. Joins(pipe, <<e>>, pipe')
    BY <2>1 DEF Joins
  <2> QED
    BY <1>1, <2>2
<1>2. CASE cut
  <2>1. PICK yes \in BOOLEAN : yes = TRUE
    OBVIOUS
  <2>2. PICK f : f = [e EXCEPT !.cut = yes]
    OBVIOUS
  <2>3. f \in Records /\ f.k = e.k /\ f.cut
    BY <2>1, <2>2 DEF Records
  <2>4. Head(<<e>>) = e /\ Tail(<<e>>) = <<>>
    OBVIOUS
  <2>5. <<f>> \o <<>> = <<f>>
    OBVIOUS
  <2>6. pipe' = pipe \o (<<[Head(<<e>>) EXCEPT !.cut = TRUE]>> \o Tail(<<e>>))
    BY <1>2 DEF Emit
  <2>7. f = [Head(<<e>>) EXCEPT !.cut = TRUE]
    BY <2>1, <2>2, <2>4
  <2>8. pipe' = pipe \o <<f>>
    BY <2>4, <2>5, <2>6, <2>7
  <2>9. Joins(pipe, <<f>>, pipe')
    BY <2>8 DEF Joins
  <2> QED
    BY <1>2, <2>3, <2>9
<1> QED
  BY <1>1, <1>2

LEMMA EmitTwo ==
  ASSUME Inv, NEW e \in Records, ~e.cut, NEW b \in Records, NEW cut \in BOOLEAN, Emit(<<e, b>>, cut)
  PROVE  \E f \in Records : /\ f.k = e.k /\ (f.cut <=> cut)
                            /\ Joins(pipe, <<f, b>>, pipe')
<1>1. CASE ~cut
  <2>1. pipe' = pipe \o <<e, b>>
    BY <1>1 DEF Emit
  <2>2. Joins(pipe, <<e, b>>, pipe')
    BY <2>1 DEF Joins
  <2> QED
    BY <1>1, <2>2
<1>2. CASE cut
  <2>1. PICK yes \in BOOLEAN : yes = TRUE
    OBVIOUS
  <2>2. PICK f : f = [e EXCEPT !.cut = yes]
    OBVIOUS
  <2>3. f \in Records /\ f.k = e.k /\ f.cut
    BY <2>1, <2>2 DEF Records
  <2>4. Head(<<e, b>>) = e /\ Tail(<<e, b>>) = <<b>>
    OBVIOUS
  <2>5. <<f>> \o <<b>> = <<f, b>>
    BY <2>3, TwoSplit
  <2>6. pipe' = pipe \o (<<[Head(<<e, b>>) EXCEPT !.cut = TRUE]>> \o Tail(<<e, b>>))
    BY <1>2 DEF Emit
  <2>7. f = [Head(<<e, b>>) EXCEPT !.cut = TRUE]
    BY <2>1, <2>2, <2>4
  <2>8. pipe' = pipe \o <<f, b>>
    BY <2>4, <2>5, <2>6, <2>7
  <2>9. Joins(pipe, <<f, b>>, pipe')
    BY <2>8 DEF Joins
  <2> QED
    BY <1>2, <2>3, <2>9
<1> QED
  BY <1>1, <1>2

LEMMA StopKeeps ==
  ASSUME Inv, Stop, UNCHANGED <<ui, keys>>
  PROVE  Inv'
<1>1. gdb \in Gdbs /\ gdb.run = "running" /\ UNCHANGED <<cmds, buf, want, todo, g, phase, late, ui, keys>> /\ Tidings(Stream)
  BY DEF Stop, Inv, Types, Told
<1>2. PICK no \in BOOLEAN : no = FALSE
  OBVIOUS
<1>3. PICK src \in BOOLEAN :
         LET d == [gdb EXCEPT !.run = "stopped", !.at = @ + 1, !.frame = 0, !.src = src, !.cut = FALSE]
         IN  gdb' = d /\ Emit(<<News("stopped", d)>>, gdb.cut)
  BY Zenon DEF Stop
<1>4. PICK at \in Nat : at = gdb.at + 1
  BY <1>1 DEF Gdbs
<1>5. gdb' = [gdb EXCEPT !.run = "stopped", !.at = at, !.frame = 0, !.src = src, !.cut = no] /\ gdb' \in Gdbs
  <2>1. gdb' = [gdb EXCEPT !.run = "stopped", !.at = at, !.frame = 0, !.src = src, !.cut = no]
    BY <1>2, <1>3, <1>4
  <2> QED
    BY <1>1, <2>1 DEF Gdbs, States
<1>6. gdb'.run = "stopped" /\ gdb'.prints = gdb.prints /\ gdb'.bps = gdb.bps /\ gdb'.next = gdb.next /\ ~gdb'.cut
      /\ gdb'.libs = gdb.libs
  BY <1>1, <1>2, <1>5 DEF Gdbs
<1>7. PICK e : e = News("stopped", gdb')
  OBVIOUS
<1>8. e \in Records /\ e.k = "stopped" /\ ~e.cut
  BY <1>5, <1>7, NewsIs
<1>9. Emit(<<e>>, gdb.cut) /\ gdb.cut \in BOOLEAN
  BY <1>1, <1>3, <1>7 DEF Gdbs
<1>10. PICK f \in Records : f.k = "stopped" /\ (f.cut <=> gdb.cut) /\ Joins(pipe, <<f>>, pipe')
  BY <1>8, <1>9, EmitOne
<1>11. PICK rs : rs = <<f>>
  OBVIOUS
<1>12. rs \in Seq(Records) /\ Len(rs) = 1 /\ rs[1] = f
  BY <1>11
<1>13. StateNews(f) /\ ~Result(f) /\ f.k = gdb'.run
  BY <1>6, <1>10 DEF StateNews, Result
<1>14. \A i \in 1..Len(rs) : rs[i] = f
  BY <1>12
<1>15. ~NoState(rs, 0)
  <2>1. 1 \in 1..Len(rs) /\ 1 > 0
    BY <1>12
  <2> QED
    BY <1>12, <1>13, <2>1 DEF NoState
<1>16. gdb.cut => gdb.prints > 0
  BY <1>1 DEF Tidings
<1>17. gdb.prints \in Nat
  BY <1>1 DEF Gdbs
<1>18. gdb'.run # "gone" /\ gdb'.prints >= gdb.prints
  BY <1>6, <1>17
<1>19. Happens(rs)
  BY <1>1, <1>5, <1>6, <1>10, <1>12, <1>13, <1>14, <1>15, <1>16, <1>18 DEF Happens
<1> QED
  BY <1>1, <1>10, <1>11, <1>19, ProgramKeeps

LEMMA ExitKeeps ==
  ASSUME Inv, Exit, UNCHANGED <<ui, keys>>
  PROVE  Inv'
<1>1. gdb \in Gdbs /\ gdb.run = "running" /\ UNCHANGED <<cmds, buf, want, todo, g, phase, late, ui, keys>> /\ Tidings(Stream)
  BY DEF Exit, Inv, Types, Told
<1>2. PICK no \in BOOLEAN : no = FALSE
  OBVIOUS
<1>3. PICK end \in {"exited", "killed"} :
         LET d == [gdb EXCEPT !.run = end, !.at = IF end = "killed" THEN @ + 1 ELSE @, !.cut = FALSE]
         IN  gdb' = d /\ Emit(<<News("group", d), News(end, d)>>, gdb.cut)
  BY Zenon DEF Exit
<1>4. PICK at \in Nat : at = IF end = "killed" THEN gdb.at + 1 ELSE gdb.at
  BY <1>1 DEF Gdbs
<1>5. gdb' = [gdb EXCEPT !.run = end, !.at = at, !.cut = no] /\ gdb' \in Gdbs
  <2>1. gdb' = [gdb EXCEPT !.run = end, !.at = at, !.cut = no]
    BY <1>2, <1>3, <1>4
  <2> QED
    BY <1>1, <2>1 DEF Gdbs, States
<1>6. gdb'.run = end /\ gdb'.prints = gdb.prints /\ gdb'.bps = gdb.bps /\ gdb'.next = gdb.next /\ ~gdb'.cut
      /\ gdb'.libs = gdb.libs
  BY <1>1, <1>2, <1>5 DEF Gdbs
<1>7. PICK e : e = News("group", gdb')
  OBVIOUS
<1>8. PICK b : b = News(end, gdb')
  OBVIOUS
<1>9. e \in Records /\ e.k = "group" /\ ~e.cut /\ b \in Records /\ b.k = end /\ ~b.cut
  BY <1>5, <1>7, <1>8, NewsIs
<1>10. Emit(<<e, b>>, gdb.cut) /\ gdb.cut \in BOOLEAN
  BY <1>1, <1>3, <1>7, <1>8 DEF Gdbs
<1>11. PICK f \in Records : f.k = "group" /\ (f.cut <=> gdb.cut) /\ Joins(pipe, <<f, b>>, pipe')
  BY <1>9, <1>10, EmitTwo
<1>12. PICK rs : rs = <<f, b>>
  OBVIOUS
<1>13. rs \in Seq(Records) /\ Len(rs) = 2 /\ rs[1] = f /\ rs[2] = b
  BY <1>9, <1>12
<1>14. StateNews(b) /\ ~Result(b) /\ b.k = gdb'.run /\ ~StateNews(f) /\ ~Result(f)
  BY <1>6, <1>9, <1>11 DEF StateNews, Result
<1>15. \A i \in 1..Len(rs) : rs[i] = f \/ rs[i] = b
  BY <1>13
<1>16. ~NoState(rs, 0)
  <2>1. 2 \in 1..Len(rs) /\ 2 > 0
    BY <1>13
  <2> QED
    BY <1>13, <1>14, <2>1 DEF NoState
<1>17. gdb.cut => gdb.prints > 0
  BY <1>1 DEF Tidings
<1>18. gdb.prints \in Nat
  BY <1>1 DEF Gdbs
<1>19. gdb'.run # "gone" /\ gdb'.prints >= gdb.prints
  BY <1>6, <1>18
<1>20. Happens(rs)
  BY <1>1, <1>5, <1>6, <1>9, <1>11, <1>13, <1>14, <1>15, <1>16, <1>17, <1>19 DEF Happens
<1> QED
  BY <1>1, <1>11, <1>12, <1>20, ProgramKeeps

LEMMA WriteKeeps ==
  ASSUME Inv, Write, UNCHANGED <<ui, keys>>
  PROVE  Inv'
<1>1. gdb \in Gdbs /\ gdb.run = "running" /\ ~gdb.async /\ UNCHANGED <<cmds, pipe, buf, want, todo, g, phase, late, ui, keys>>
      /\ pipe \in Seq(Records)
  BY DEF Write, Inv, Types
<1>2. PICK yes \in BOOLEAN : yes = TRUE
  OBVIOUS
<1> PICK n \in Nat : n = gdb.prints + 1
  BY <1>1 DEF Gdbs
<1>3. n = gdb.prints + 1 /\ gdb' = [gdb EXCEPT !.cut = yes, !.prints = n]
  BY <1>2 DEF Write
<1>4. gdb' \in Gdbs
  BY <1>1, <1>3 DEF Gdbs
<1>5. gdb.prints \in Nat
  BY <1>1 DEF Gdbs
<1>6. /\ gdb'.run = gdb.run /\ gdb'.at = gdb.at /\ gdb'.frame = gdb.frame /\ gdb'.mem = gdb.mem /\ gdb'.src = gdb.src
      /\ gdb'.prints = gdb.prints + 1 /\ gdb'.bps = gdb.bps /\ gdb'.next = gdb.next /\ gdb'.async = gdb.async
      /\ gdb'.libs = gdb.libs
  BY <1>1, <1>3 DEF Gdbs
<1>7. gdb'.prints > 0 /\ gdb'.prints >= gdb.prints
  BY <1>5, <1>6
<1>8. PICK rs : rs = <<>>
  OBVIOUS
<1>9. rs \in Seq(Records) /\ \A i \in 1..Len(rs) : FALSE
  BY <1>8
<1>10. pipe' = pipe \o <<>>
  BY <1>1
<1>11. Joins(pipe, rs, pipe')
  BY <1>8, <1>10 DEF Joins
<1>12. gdb'.run # "gone"
  BY <1>1, <1>6
<1>13. Happens(rs)
  BY <1>1, <1>4, <1>6, <1>7, <1>9, <1>12 DEF Happens
<1> QED
  BY <1>1, <1>11, <1>13, ProgramKeeps

LEMMA LoadLibraryKeeps ==
  ASSUME Inv, LoadLibrary, UNCHANGED <<ui, keys>>
  PROVE  Inv'
<1>1. gdb \in Gdbs /\ gdb.run = "running" /\ UNCHANGED <<cmds, buf, want, todo, g, phase, late, ui, keys>> /\ Tidings(Stream)
  BY DEF LoadLibrary, Inv, Types, Told
<1>2. PICK no \in BOOLEAN : no = FALSE
  OBVIOUS
<1> PICK n \in Nat : n = gdb.libs + 1
  BY <1>1 DEF Gdbs
<1>3. gdb' = [gdb EXCEPT !.libs = n, !.cut = no] /\ Emit(<<News("library", gdb')>>, gdb.cut)
  BY <1>2 DEF LoadLibrary
<1>4. gdb' \in Gdbs
  BY <1>1, <1>3 DEF Gdbs
<1>5. /\ gdb'.run = gdb.run /\ gdb'.at = gdb.at /\ gdb'.frame = gdb.frame /\ gdb'.mem = gdb.mem /\ gdb'.src = gdb.src
      /\ gdb'.prints = gdb.prints /\ gdb'.bps = gdb.bps /\ gdb'.next = gdb.next /\ ~gdb'.cut
  BY <1>1, <1>2, <1>3 DEF Gdbs
<1>6. PICK e : e = News("library", gdb')
  OBVIOUS
<1>7. e \in Records /\ e.k = "library" /\ ~e.cut
  BY <1>4, <1>6, NewsIs
<1>8. Emit(<<e>>, gdb.cut) /\ gdb.cut \in BOOLEAN
  BY <1>1, <1>3, <1>6 DEF Gdbs
<1>9. PICK f \in Records : f.k = "library" /\ (f.cut <=> gdb.cut) /\ Joins(pipe, <<f>>, pipe')
  BY <1>7, <1>8, EmitOne
<1>10. PICK rs : rs = <<f>>
  OBVIOUS
<1>11. rs \in Seq(Records) /\ Len(rs) = 1 /\ rs[1] = f
  BY <1>10
<1>12. ~StateNews(f) /\ ~Result(f) /\ (~gdb.cut => LibNews(f))
  BY <1>9 DEF StateNews, Result, LibNews
<1>13. \A i \in 1..Len(rs) : rs[i] = f
  BY <1>11
<1>14. gdb.prints \in Nat /\ (gdb.cut => gdb.prints > 0)
  BY <1>1 DEF Gdbs, Tidings
<1>15. ~(NoLib(rs, 0) /\ gdb'.prints = 0)
  <2>1. 1 \in 1..Len(rs) /\ 1 > 0
    BY <1>11
  <2>2. NoLib(rs, 0) => ~LibNews(f)
    BY <1>11, <2>1 DEF NoLib
  <2>3. gdb'.prints = 0 => ~gdb.cut
    BY <1>5, <1>14
  <2> QED
    BY <1>12, <2>2, <2>3
<1>16. gdb'.run # "gone" /\ gdb'.prints >= gdb.prints
  BY <1>1, <1>5, <1>14
<1>17. Happens(rs)
  BY <1>1, <1>4, <1>5, <1>9, <1>11, <1>12, <1>13, <1>14, <1>15, <1>16 DEF Happens
<1> QED
  BY <1>1, <1>9, <1>10, <1>17, ProgramKeeps

-----------------------------------------------------------------------------
(* GDB answers                                                              *)

Refuses(c, d, r) == /\ r.ok = FALSE /\ r.d = d /\ r.after = <<>> /\ c.do # "breaks"
                    /\ c.do = "delete" => ~ \E b \in d.bps : b.n = c.x
Calls == {"exec", "run", "attach", "select", "assign", "eval", "return", "insert", "delete", "toggle", "detach", "exit", "typed"}
Grants(c, d, r) ==
    /\ r.ok = TRUE
    /\ c.do \in NeedsStop => Halted(d)
    /\ \/ c.do = "exec" /\ r.d = [d EXCEPT !.run = "running"] /\ r.after = <<News("running", r.d)>>
       \/ c.do = "run" /\ r.d = [d EXCEPT !.run = "running"] /\ r.after = <<News("group", d), News("running", r.d)>>
       \/ c.do = "attach" /\ r.d = [d EXCEPT !.run = "stopped", !.at = 1] /\ r.after = <<News("stopped", r.d)>>
       \/ /\ r.after = <<>>
          /\ \/ c.do = "select" /\ r.d = [d EXCEPT !.frame = c.x]
             \/ c.do \in {"assign", "eval"} /\ r.d = [d EXCEPT !.mem = @ + 1]
             \/ c.do = "eval" /\ r.d = d
             \/ c.do = "return" /\ r.d = [d EXCEPT !.frame = 0, !.mem = @ + 1, !.src = TRUE]
             \/ c.do = "insert" /\ r.d = [d EXCEPT !.bps = @ \cup {[n |-> d.next, line |-> c.x, on |-> TRUE]}, !.next = @ + 1]
             \/ /\ c.do = "delete" /\ (\E b \in d.bps : b.n = c.x)
                /\ r.d = [d EXCEPT !.bps = {b \in @ : b.n # c.x}]
             \/ c.do = "toggle" /\ r.d = [d EXCEPT !.bps = {IF b.n = c.x THEN [b EXCEPT !.on = ~@] ELSE b : b \in @}]
             \/ c.do \in {"detach", "exit"} /\ r.d = [d EXCEPT !.run = "gone"]
             \/ c.do \notin Calls /\ r.d = d

LEMMA AnswersAre ==
  ASSUME NEW c \in Commands, NEW d, NEW r \in Answers(c, d)
  PROVE  Refuses(c, d, r) \/ Grants(c, d, r)
<1>1. CASE c.do \in NeedsStop /\ d.run # "stopped"
  <2>1. r \in {[ok |-> FALSE, d |-> d, after |-> <<>>]}
               \cup (IF c.do \in FromFile /\ d.run = "killed" THEN {[ok |-> TRUE, d |-> d, after |-> <<>>]} ELSE {})
    BY <1>1, Zenon DEF Answers
  <2>2. c.do # "breaks" /\ c.do # "delete"
    BY <1>1 DEF NeedsStop
  <2>3. CASE r = [ok |-> FALSE, d |-> d, after |-> <<>>]
    BY <2>2, <2>3 DEF Refuses
  <2>4. CASE /\ c.do \in FromFile /\ d.run = "killed" /\ r = [ok |-> TRUE, d |-> d, after |-> <<>>]
    <3>1. c.do = "eval" \/ c.do \notin Calls
      BY <2>4 DEF FromFile, Calls
    <3> QED
      BY <2>4, <3>1 DEF Grants, Halted
  <2> QED
    BY <2>1, <2>3, <2>4
<1>2. CASE ~(c.do \in NeedsStop /\ d.run # "stopped")
  <2>0. c.do \in NeedsStop => Halted(d)
    BY <1>2 DEF Halted
  <2>1. CASE c.do = "exec"
    BY <1>2, <2>0, <2>1 DEF Answers, Grants
  <2>2. CASE c.do = "run"
    BY <1>2, <2>0, <2>2 DEF Answers, Grants, Refuses
  <2>3. CASE c.do = "attach"
    BY <1>2, <2>0, <2>3 DEF Answers, Grants, Refuses
  <2>4. CASE c.do = "select"
    BY <1>2, <2>0, <2>4 DEF Answers, Grants, Refuses
  <2>5. CASE c.do = "assign"
    BY <1>2, <2>0, <2>5 DEF Answers, Grants, Refuses
  <2>6. CASE c.do = "eval"
    BY <1>2, <2>0, <2>6 DEF Answers, Grants, Refuses
  <2>7. CASE c.do = "return"
    BY <1>2, <2>0, <2>7 DEF Answers, Grants, Refuses
  <2>8. CASE c.do = "typed"
    BY <1>2, <2>0, <2>8 DEF Answers, Grants, Refuses
  <2>9. CASE c.do = "insert"
    BY <1>2, <2>0, <2>9 DEF Answers, Grants, Refuses
  <2>10. CASE c.do = "delete"
    <3>1. CASE \E b \in d.bps : b.n = c.x
      <4>1. r \in {[ok |-> TRUE, d |-> [d EXCEPT !.bps = {b \in @ : b.n # c.x}], after |-> <<>>]}
        BY <1>2, <2>0, <2>10, <3>1 DEF Answers
      <4>2. r.ok /\ r.d = [d EXCEPT !.bps = {b \in @ : b.n # c.x}] /\ r.after = <<>>
        BY <4>1
      <4> QED
        BY <1>2, <2>0, <2>10, <3>1, <4>2 DEF Grants
    <3>2. CASE ~ \E b \in d.bps : b.n = c.x
      <4>1. r \in {[ok |-> FALSE, d |-> d, after |-> <<>>]}
        BY <1>2, <2>0, <2>10, <3>2 DEF Answers
      <4> QED
        BY <2>10, <3>2, <4>1 DEF Refuses
    <3> QED
      BY <3>1, <3>2
  <2>11. CASE c.do = "toggle"
    <3>1. CASE \E b \in d.bps : b.n = c.x
      <4>1. r \in {[ok |-> TRUE, d |-> [d EXCEPT !.bps = {IF b.n = c.x THEN [b EXCEPT !.on = ~@] ELSE b : b \in @}], after |-> <<>>]}
        BY <1>2, <2>0, <2>11, <3>1 DEF Answers
      <4>2. r.ok /\ r.d = [d EXCEPT !.bps = {IF b.n = c.x THEN [b EXCEPT !.on = ~@] ELSE b : b \in @}] /\ r.after = <<>>
        BY <4>1
      <4> QED
        BY <1>2, <2>0, <2>11, <4>2 DEF Grants
    <3>2. CASE ~ \E b \in d.bps : b.n = c.x
      <4>1. r \in {[ok |-> FALSE, d |-> d, after |-> <<>>]}
        BY <1>2, <2>0, <2>11, <3>2 DEF Answers
      <4> QED
        BY <2>11, <4>1 DEF Refuses
    <3> QED
      BY <3>1, <3>2
  <2>12. CASE c.do = "disassemble"
    BY <1>2, <2>0, <2>12 DEF Answers, Grants, Refuses, Calls
  <2>13. CASE c.do \in {"detach", "exit"}
    BY <1>2, <2>0, <2>13 DEF Answers, Grants, Refuses
  <2>14. CASE c.do \notin Calls \cup {"disassemble"}
    BY <1>2, <2>0, <2>14 DEF Answers, Grants, Refuses, Calls
  <2> QED
    BY <2>1, <2>2, <2>3, <2>4, <2>5, <2>6, <2>7, <2>8, <2>9, <2>10, <2>11, <2>12, <2>13, <2>14 DEF Calls
<1> QED
  BY <1>1, <1>2

(* What an answer makes of GDB, and the news that follow it. *)
Outcome(c, d, r) ==
    /\ r.d \in Gdbs /\ r.ok \in BOOLEAN /\ r.after \in Seq(Records)
    /\ r.d.prints = d.prints /\ r.d.libs = d.libs /\ r.d.async = d.async /\ (r.d.cut <=> d.cut)
    /\ \A i \in 1..Len(r.after) : /\ ~Result(r.after[i]) /\ ~r.after[i].cut
                                  /\ StateNews(r.after[i]) /\ NoState(r.after, i) => r.after[i].k = r.d.run
    /\ ~r.ok => r.d = d /\ r.after = <<>>
    /\ c.do \notin Changers => /\ r.after = <<>> /\ r.d.run = d.run /\ r.d.at = d.at /\ r.d.frame = d.frame
                               /\ r.d.mem = d.mem /\ r.d.src = d.src
    /\ NoState(r.after, 0) =>
         /\ r.d.run = d.run \/ r.d.run = "gone"
         /\ r.d.at = d.at
         /\ c.do \notin Writes => r.d.mem = d.mem /\ r.d.src = d.src
         /\ c.do \notin Writes \cup {"select"} => r.d.frame = d.frame
    /\ r.d.run = "gone" => d.run = "gone" \/ c.do \in Leaving
    /\ c.do \in {"exec", "run"} /\ r.ok => ~NoState(r.after, 0)
    /\ c.do \in Asks /\ r.ok => Halted(d)
    /\ c.do = "breaks" => r.ok
    /\ c.do \notin Alters => r.d.bps = d.bps /\ r.d.next = d.next
    /\ c.do = "insert" /\ r.ok => r.d.bps # {} /\ \A b \in r.d.bps : b \in d.bps \/ b.n = d.next
    /\ c.do = "delete" => IF \E b \in d.bps : b.n = c.x THEN r.ok /\ \A b \in r.d.bps : b \in d.bps /\ b.n # c.x ELSE ~r.ok

LEMMA NothingAfter ==
  NoState(<<>>, 0) /\ <<>> \in Seq(Records) /\ \A i \in 1..Len(<<>>) : FALSE
BY DEF NoState

(* Nothing but the breakpoints, or a part of what is looked at. *)
Small(c, d, r) ==
    /\ r.after = <<>> /\ r.d \in Gdbs /\ r.d.prints = d.prints /\ r.d.libs = d.libs /\ r.d.async = d.async
    /\ r.d.cut = d.cut /\ r.d.run = d.run /\ r.d.at = d.at
    /\ c.do \notin Writes => r.d.mem = d.mem /\ r.d.src = d.src
    /\ c.do \notin Writes \cup {"select"} => r.d.frame = d.frame
    /\ ~r.ok => r.d = d
    /\ c.do \in {"exec", "run"} => ~r.ok
    /\ c.do \in Asks /\ r.ok => Halted(d)
    /\ c.do = "breaks" => r.ok
    /\ c.do \notin Alters => r.d.bps = d.bps /\ r.d.next = d.next
    /\ c.do = "insert" /\ r.ok => r.d.bps # {} /\ \A b \in r.d.bps : b \in d.bps \/ b.n = d.next
    /\ c.do = "delete" => IF \E b \in d.bps : b.n = c.x THEN r.ok /\ \A b \in r.d.bps : b \in d.bps /\ b.n # c.x ELSE ~r.ok

LEMMA SmallOutcome ==
  ASSUME NEW c \in Commands, NEW d \in Gdbs, NEW r, r.ok \in BOOLEAN, Small(c, d, r)
  PROVE  Outcome(c, d, r)
<1>1. \A i \in 1..Len(r.after) : FALSE
  BY NothingAfter DEF Small
<1>2. r.after \in Seq(Records)
  BY NothingAfter DEF Small
<1>3. c.do \notin Changers => c.do \notin Writes \cup {"select"}
  BY DEF Changers
<1> QED
  BY <1>1, <1>2, <1>3 DEF Outcome, Small

LEMMA OutcomeIs ==
  ASSUME NEW c \in Commands, Fits(c), NEW d \in Gdbs, NEW r \in Answers(c, d)
  PROVE  Outcome(c, d, r)
<1>0. r.ok \in BOOLEAN
  <2>1. r.ok = TRUE \/ r.ok = FALSE
    BY AnswersAre, Zenon DEF Refuses, Grants
  <2> QED
    BY <2>1, Zenon
<1>1. CASE Refuses(c, d, r)
  <2>1. ~r.ok /\ r.d = d /\ r.after = <<>> /\ c.do # "breaks" /\ (c.do = "delete" => ~ \E b \in d.bps : b.n = c.x)
    BY <1>1 DEF Refuses
  <2>2. c.do = "delete" => IF \E b \in d.bps : b.n = c.x THEN r.ok /\ \A b \in r.d.bps : b \in d.bps /\ b.n # c.x ELSE ~r.ok
    BY <2>1
  <2> QED
    BY <1>0, <2>1, <2>2, SmallOutcome DEF Small
<1>2. CASE Grants(c, d, r)
  <2>1. r.ok /\ (c.do \in Asks => Halted(d))
    BY <1>2 DEF Grants, Asks, NeedsStop
  <2>2. CASE c.do \in {"exec", "run"} /\ r.d = [d EXCEPT !.run = "running"]
    <3>1. PICK e : e = r.d
      OBVIOUS
    <3>2. e \in Gdbs /\ e.run = "running" /\ e.prints = d.prints /\ e.libs = d.libs /\ e.async = d.async /\ e.cut = d.cut
          /\ e.bps = d.bps /\ e.next = d.next
      BY <2>2, <3>1 DEF Gdbs, States
    <3>3. PICK w : w = News("running", e)
      OBVIOUS
    <3>4. PICK h : h = News("group", d)
      OBVIOUS
    <3>5. w \in Records /\ w.k = "running" /\ ~Result(w) /\ ~w.cut /\ h \in Records /\ ~Result(h) /\ ~h.cut /\ h.k = "group"
      BY <3>2, <3>3, <3>4, NewsIs
    <3>6. StateNews(w) /\ ~StateNews(h)
      BY <3>5 DEF StateNews
    <3>7. r.after = <<w>> \/ r.after = <<h, w>>
      BY <1>2, <2>2, <3>1, <3>3, <3>4 DEF Grants, Calls
    <3>8. r.after \in Seq(Records) /\ (\A i \in 1..Len(r.after) : r.after[i] = w \/ r.after[i] = h)
          /\ \E i \in 1..Len(r.after) : r.after[i] = w /\ i > 0
      <4>1. CASE r.after = <<w>>
        <5>1. 1 \in 1..Len(r.after) /\ r.after[1] = w /\ 1 > 0
          BY <4>1
        <5> QED
          BY <3>5, <4>1, <5>1
      <4>2. CASE r.after = <<h, w>>
        <5>1. 2 \in 1..Len(r.after) /\ r.after[2] = w /\ 2 > 0
          BY <4>2
        <5> QED
          BY <3>5, <4>2, <5>1
      <4> QED
        BY <3>7, <4>1, <4>2
    <3>9. ~NoState(r.after, 0)
      BY <3>6, <3>8 DEF NoState
    <3>10. c.do \in Changers /\ c.do \notin Asks /\ c.do \notin Alters /\ c.do \notin {"breaks", "insert", "delete"}
      BY <2>2 DEF Changers, Asks, Alters
    <3> QED
      BY <1>0, <2>1, <3>1, <3>2, <3>5, <3>6, <3>8, <3>9, <3>10 DEF Outcome
  <2> PICK one \in Nat : one = 1
    OBVIOUS
  <2>3. CASE c.do = "attach" /\ r.d = [d EXCEPT !.run = "stopped", !.at = 1] /\ r.after = <<News("stopped", r.d)>>
    <3>1. PICK e : e = r.d
      OBVIOUS
    <3>2. e \in Gdbs /\ e.run = "stopped" /\ e.prints = d.prints /\ e.libs = d.libs /\ e.async = d.async /\ e.cut = d.cut
          /\ e.bps = d.bps /\ e.next = d.next
      BY <2>3, <3>1 DEF Gdbs, States
    <3>3. PICK w : w = News("stopped", e)
      OBVIOUS
    <3>4. w \in Records /\ w.k = "stopped" /\ ~Result(w) /\ ~w.cut
      BY <3>2, <3>3, NewsIs
    <3>5. StateNews(w)
      BY <3>4 DEF StateNews
    <3>6. r.after = <<w>>
      BY <2>3, <3>1, <3>3
    <3>7. r.after \in Seq(Records) /\ (\A i \in 1..Len(r.after) : r.after[i] = w)
          /\ 1 \in 1..Len(r.after) /\ 1 > 0
      BY <3>4, <3>6
    <3>8. ~NoState(r.after, 0)
      BY <3>5, <3>7 DEF NoState
    <3>9. c.do \in Changers /\ c.do \notin Asks /\ c.do \notin Alters /\ c.do \notin {"breaks", "insert", "delete", "exec", "run"}
      BY <2>3 DEF Changers, Asks, Alters
    <3> QED
      BY <1>0, <2>1, <3>1, <3>2, <3>4, <3>5, <3>7, <3>8, <3>9 DEF Outcome
  <2> PICK e : e = r.d
    OBVIOUS
  <2> PICK m \in Nat : m = d.mem + 1
    BY DEF Gdbs
  <2> PICK n \in Nat : n = d.next + 1
    BY DEF Gdbs
  <2> PICK yes \in BOOLEAN : yes = TRUE
    OBVIOUS
  <2>4. CASE c.do = "select" /\ r.d = [d EXCEPT !.frame = c.x] /\ r.after = <<>>
    <3>1. c.x \in {0, 1}
      BY <2>4 DEF Fits
    <3>2. /\ e \in Gdbs /\ e.prints = d.prints /\ e.libs = d.libs /\ e.async = d.async /\ e.cut = d.cut /\ e.run = d.run
          /\ e.at = d.at /\ e.mem = d.mem /\ e.src = d.src /\ e.bps = d.bps /\ e.next = d.next
      BY <2>4, <3>1 DEF Gdbs
    <3>3. c.do \in Changers /\ c.do \notin Alters /\ c.do \notin {"breaks", "insert", "delete", "exec", "run"}
      BY <2>4 DEF Changers, Alters
    <3>20. Small(c, d, r)
      BY <2>1, <2>4, <3>2, <3>3 DEF Small
    <3> QED
      BY <1>0, <3>20, SmallOutcome
  <2>5. CASE c.do \in {"assign", "eval"} /\ r.d = [d EXCEPT !.mem = @ + 1] /\ r.after = <<>>
    <3>1. e = [d EXCEPT !.mem = m]
      BY <2>5
    <3>2. /\ e \in Gdbs /\ e.prints = d.prints /\ e.libs = d.libs /\ e.async = d.async /\ e.cut = d.cut /\ e.run = d.run
          /\ e.at = d.at /\ e.bps = d.bps /\ e.next = d.next
      BY <3>1 DEF Gdbs
    <3>3. c.do \in Writes /\ c.do \notin Alters /\ c.do \notin {"breaks", "insert", "delete", "exec", "run"}
      BY <2>5 DEF Writes, Alters
    <3>20. Small(c, d, r)
      BY <2>1, <2>5, <3>2, <3>3 DEF Small
    <3> QED
      BY <1>0, <3>20, SmallOutcome
  <2>6. CASE c.do = "return" /\ r.d = [d EXCEPT !.frame = 0, !.mem = @ + 1, !.src = TRUE] /\ r.after = <<>>
    <3>1. e = [d EXCEPT !.frame = 0, !.mem = m, !.src = yes]
      BY <2>6
    <3>2. /\ e \in Gdbs /\ e.prints = d.prints /\ e.libs = d.libs /\ e.async = d.async /\ e.cut = d.cut /\ e.run = d.run
          /\ e.at = d.at /\ e.bps = d.bps /\ e.next = d.next
      BY <3>1 DEF Gdbs
    <3>3. c.do \in Writes /\ c.do \notin Alters /\ c.do \notin {"breaks", "insert", "delete", "exec", "run"}
      BY <2>6 DEF Writes, Alters
    <3>20. Small(c, d, r)
      BY <2>1, <2>6, <3>2, <3>3 DEF Small
    <3> QED
      BY <1>0, <3>20, SmallOutcome
  <2>7. CASE /\ c.do = "insert" /\ r.after = <<>>
             /\ r.d = [d EXCEPT !.bps = @ \cup {[n |-> d.next, line |-> c.x, on |-> TRUE]}, !.next = @ + 1]
    <3>1. c.x \in Lines \cup {0} /\ d.next \in Nat /\ d.bps \in SUBSET Points
      BY <2>7 DEF Fits, Gdbs
    <3>2. PICK b : b = [n |-> d.next, line |-> c.x, on |-> yes]
      OBVIOUS
    <3>3. b \in Points /\ b.n = d.next
      BY <3>1, <3>2 DEF Points
    <3>4. PICK bps : bps = d.bps \cup {b}
      OBVIOUS
    <3>5. bps \in SUBSET Points
      BY <3>1, <3>3, <3>4
    <3>6. e = [d EXCEPT !.bps = bps, !.next = n]
      BY <2>7, <3>2, <3>4
    <3>7. /\ e \in Gdbs /\ e.prints = d.prints /\ e.libs = d.libs /\ e.async = d.async /\ e.cut = d.cut /\ e.run = d.run
          /\ e.at = d.at /\ e.mem = d.mem /\ e.src = d.src /\ e.frame = d.frame /\ e.bps = bps
      BY <3>5, <3>6 DEF Gdbs
    <3>8. e.bps # {} /\ \A v \in e.bps : v \in d.bps \/ v.n = d.next
      BY <3>3, <3>4, <3>7
    <3>9. c.do \in Alters /\ c.do \notin {"breaks", "delete", "exec", "run", "select"} /\ c.do \notin Writes
      BY <2>7 DEF Writes, Alters
    <3>20. Small(c, d, r)
      BY <2>1, <2>7, <3>7, <3>8, <3>9 DEF Small
    <3> QED
      BY <1>0, <3>20, SmallOutcome
  <2>8. CASE /\ c.do = "delete" /\ (\E b \in d.bps : b.n = c.x) /\ r.after = <<>>
             /\ r.d = [d EXCEPT !.bps = {b \in @ : b.n # c.x}]
    <3>1. PICK bps : bps = {b \in d.bps : b.n # c.x}
      OBVIOUS
    <3>2. bps \in SUBSET Points
      BY <3>1 DEF Gdbs
    <3>3. e = [d EXCEPT !.bps = bps]
      BY <2>8, <3>1
    <3>4. /\ e \in Gdbs /\ e.prints = d.prints /\ e.libs = d.libs /\ e.async = d.async /\ e.cut = d.cut /\ e.run = d.run
          /\ e.at = d.at /\ e.mem = d.mem /\ e.src = d.src /\ e.frame = d.frame /\ e.bps = bps
      BY <3>2, <3>3 DEF Gdbs
    <3>5. c.do \in Alters /\ c.do \notin {"breaks", "insert", "exec", "run", "select"} /\ c.do \notin Writes
      BY <2>8 DEF Writes, Alters
    <3>6. IF \E b \in d.bps : b.n = c.x THEN r.ok /\ \A b \in r.d.bps : b \in d.bps /\ b.n # c.x ELSE ~r.ok
      BY <2>1, <2>8, <3>1, <3>4
    <3>20. Small(c, d, r)
      BY <2>1, <2>8, <3>4, <3>5, <3>6 DEF Small
    <3> QED
      BY <1>0, <3>20, SmallOutcome
  <2>9. CASE /\ c.do = "toggle" /\ r.after = <<>>
             /\ r.d = [d EXCEPT !.bps = {IF b.n = c.x THEN [b EXCEPT !.on = ~@] ELSE b : b \in @}]
    <3>1. PICK bps : bps = {IF b.n = c.x THEN [b EXCEPT !.on = ~@] ELSE b : b \in d.bps}
      OBVIOUS
    <3>2. bps \in SUBSET Points
      <4>1. \A b \in Points : [b EXCEPT !.on = ~@] \in Points
        BY DEF Points
      <4>2. d.bps \in SUBSET Points
        BY DEF Gdbs
      <4> QED
        BY <3>1, <4>1, <4>2
    <3>3. e = [d EXCEPT !.bps = bps]
      BY <2>9, <3>1
    <3>4. /\ e \in Gdbs /\ e.prints = d.prints /\ e.libs = d.libs /\ e.async = d.async /\ e.cut = d.cut /\ e.run = d.run
          /\ e.at = d.at /\ e.mem = d.mem /\ e.src = d.src /\ e.frame = d.frame
      BY <3>2, <3>3 DEF Gdbs
    <3>5. c.do \in Alters /\ c.do \notin {"breaks", "insert", "delete", "exec", "run", "select"} /\ c.do \notin Writes
      BY <2>9 DEF Writes, Alters
    <3>20. Small(c, d, r)
      BY <2>1, <2>9, <3>4, <3>5 DEF Small
    <3> QED
      BY <1>0, <3>20, SmallOutcome
  <2>10. CASE c.do \in {"detach", "exit"} /\ r.d = [d EXCEPT !.run = "gone"] /\ r.after = <<>>
    <3>1. /\ e \in Gdbs /\ e.prints = d.prints /\ e.libs = d.libs /\ e.async = d.async /\ e.cut = d.cut /\ e.run = "gone"
          /\ e.at = d.at /\ e.mem = d.mem /\ e.src = d.src /\ e.frame = d.frame /\ e.bps = d.bps /\ e.next = d.next
      BY <2>10 DEF Gdbs
    <3>2. c.do \in Changers /\ c.do \in Leaving /\ c.do \notin {"breaks", "insert", "delete", "exec", "run", "select"}
      BY <2>10 DEF Changers, Leaving
    <3>3. r.after \in Seq(Records) /\ \A i \in 1..Len(r.after) : FALSE
      BY <2>10, NothingAfter
    <3> QED
      BY <1>0, <2>1, <2>10, <3>1, <3>2, <3>3 DEF Outcome
  <2>11. CASE (c.do = "eval" \/ c.do \notin Calls) /\ r.d = d /\ r.after = <<>>
    <3>1. c.do \notin {"insert", "delete", "exec", "run"}
      BY <2>11 DEF Calls
    <3>20. Small(c, d, r)
      BY <2>1, <2>11, <3>1 DEF Small
    <3> QED
      BY <1>0, <3>20, SmallOutcome
  <2> QED
    BY <1>2, <2>2, <2>3, <2>4, <2>5, <2>6, <2>7, <2>8, <2>9, <2>10, <2>11 DEF Grants
<1> QED
  BY <1>1, <1>2, AnswersAre

Alone(one, e) == one = <<e>>
Adjoined(q, e, after, p, n) ==
    /\ n \in 1..Len(p) /\ p[n] = e /\ n \notin 1..Len(q)
    /\ \A i \in 1..Len(p) : \/ i \in 1..Len(q) /\ p[i] = q[i] /\ i < n
                            \/ i = n /\ p[i] = e
                            \/ \E j \in 1..Len(after) : i = n + j /\ p[i] = after[j]
    /\ \A i \in 1..Len(p) : Result(p[i]) => (i \in 1..Len(q) /\ p[i] = q[i] /\ i < n) \/ (i = n /\ p[i] = e)
    /\ \A i \in 0..Len(q) : /\ NoState(p, i) => NoState(q, i) /\ NoState(after, 0)
                            /\ NoLib(p, i) => NoLib(q, i)
    /\ NoState(p, n) => NoState(after, 0)
    /\ \A j \in 1..Len(after) : NoState(p, n + j) => NoState(after, j)
    /\ after = <<>> => NoState(p, n)

(* An answer and the news after it come after what GDB has written. *)
LEMMA Replied ==
  ASSUME NEW q \in Seq(Records), NEW e \in Records, Result(e), NEW after \in Seq(Records),
         \A i \in 1..Len(after) : ~Result(after[i]),
         NEW one \in Seq(Records), Alone(one, e), NEW rs \in Seq(Records), JoinedAs(one, after, rs), NEW p \in Seq(Records), JoinedAs(q, rs, p),
         NEW n, n = Len(q) + 1
  PROVE  Adjoined(q, e, after, p, n)
<1>1. Len(one) = 1 /\ one[1] = e /\ Len(q) \in Nat /\ Len(after) \in Nat /\ n \in Nat
  BY DEF Alone
<1>3. PICK mid : mid = q \o one
  OBVIOUS
<1>4. Joins(q, one, mid)
  BY <1>3 DEF Joins
<1>5. mid \in Seq(Records) /\ JoinedAs(q, one, mid)
  BY <1>4, Joined
<1>7. JoinedAs(mid, after, p)
  BY <1>5, ThreeParts
<1>8. Len(one) = 1 /\ one[1] = e /\ Len(mid) = n
  BY <1>1, <1>5 DEF JoinedAs
<1>9. /\ \A i \in 1..Len(p) : \/ i \in 1..n /\ p[i] = mid[i]
                              \/ \E j \in 1..Len(after) : i = n + j /\ p[i] = after[j]
      /\ \A i \in 1..n : i \in 1..Len(p) /\ p[i] = mid[i]
      /\ \A i \in 0..n : /\ NoState(p, i) => NoState(mid, i) /\ NoState(after, 0)
                         /\ NoLib(p, i) => NoLib(mid, i) /\ NoLib(after, 0)
      /\ \A j \in 1..Len(after) : NoState(p, n + j) <=> NoState(after, j)
  <2>1. /\ \A i \in 1..Len(p) : \/ i \in 1..Len(mid) /\ p[i] = mid[i]
                                \/ \E j \in 1..Len(after) : i = Len(mid) + j /\ p[i] = after[j]
        /\ \A i \in 1..Len(mid) : i \in 1..Len(p) /\ p[i] = mid[i]
        /\ \A i \in 0..Len(mid) : /\ NoState(p, i) => NoState(mid, i) /\ NoState(after, 0)
                                  /\ NoLib(p, i) => NoLib(mid, i) /\ NoLib(after, 0)
        /\ \A j \in 1..Len(after) : NoState(p, Len(mid) + j) <=> NoState(after, j)
    BY <1>5, <1>7, AddsNews
  <2> QED
    BY <1>8, <2>1, Zenon
<1>10. /\ \A i \in 1..n : \/ i \in 1..Len(q) /\ mid[i] = q[i]
                          \/ \E j \in 1..1 : i = Len(q) + j /\ mid[i] = one[j]
       /\ \A i \in 0..Len(q) : /\ NoState(mid, i) => NoState(q, i)
                               /\ NoLib(mid, i) => NoLib(q, i)
  <2>1. /\ \A i \in 1..Len(mid) : \/ i \in 1..Len(q) /\ mid[i] = q[i]
                                  \/ \E j \in 1..Len(one) : i = Len(q) + j /\ mid[i] = one[j]
        /\ \A i \in 0..Len(q) : /\ NoState(mid, i) => NoState(q, i)
                                /\ NoLib(mid, i) => NoLib(q, i)
    BY <1>5, AddsNews
  <2> QED
    BY <1>8, <2>1, Zenon
<1>11. \A i \in 1..n : \/ i \in 1..Len(q) /\ mid[i] = q[i] /\ i < n
                       \/ i = n /\ mid[i] = e
  <2> SUFFICES ASSUME NEW i \in 1..n PROVE \/ i \in 1..Len(q) /\ mid[i] = q[i] /\ i < n
                                           \/ i = n /\ mid[i] = e
    OBVIOUS
  <2>1. CASE i \in 1..Len(q) /\ mid[i] = q[i]
    BY <1>1, <2>1
  <2>2. CASE \E j \in 1..1 : i = Len(q) + j /\ mid[i] = one[j]
    BY <1>8, <2>2
  <2> QED
    BY <1>10, <2>1, <2>2
<1>12. n \in 1..n /\ n \in 0..n /\ n \notin 1..Len(q) /\ \A i \in 0..Len(q) : i \in 0..n
  BY <1>1
<1>13. n \in 1..Len(p) /\ p[n] = e
  BY <1>9, <1>11, <1>12
<1>14. \A i \in 1..Len(p) : \/ i \in 1..Len(q) /\ p[i] = q[i] /\ i < n
                            \/ i = n /\ p[i] = e
                            \/ \E j \in 1..Len(after) : i = n + j /\ p[i] = after[j]
  <2> SUFFICES ASSUME NEW i \in 1..Len(p) PROVE \/ i \in 1..Len(q) /\ p[i] = q[i] /\ i < n
                                                \/ i = n /\ p[i] = e
                                                \/ \E j \in 1..Len(after) : i = n + j /\ p[i] = after[j]
    OBVIOUS
  <2>1. CASE i \in 1..n /\ p[i] = mid[i]
    BY <1>11, <2>1
  <2> QED
    BY <1>9, <2>1
<1>15. \A i \in 1..Len(p) : Result(p[i]) => (i \in 1..Len(q) /\ p[i] = q[i] /\ i < n) \/ (i = n /\ p[i] = e)
  <2> SUFFICES ASSUME NEW i \in 1..Len(p), Result(p[i]) PROVE (i \in 1..Len(q) /\ p[i] = q[i] /\ i < n) \/ (i = n /\ p[i] = e)
    OBVIOUS
  <2>1. ~ \E j \in 1..Len(after) : p[i] = after[j]
    OBVIOUS
  <2> QED
    BY <1>14, <2>1
<1>16. after = <<>> => NoState(p, n)
  <2> SUFFICES ASSUME after = <<>> PROVE NoState(p, n)
    OBVIOUS
  <2>1. \A i \in 1..Len(p) : i <= n
    <3>1. Len(after) = 0
      OBVIOUS
    <3>2. Len(p) = n
      BY <1>7, <1>8, <3>1 DEF JoinedAs
    <3> QED
      BY <1>1, <3>2
  <2>2. \A i \in 1..Len(p) : ~(i > n)
    BY <1>1, <2>1
  <2> QED
    BY <2>2 DEF NoState
<1>17. \A i \in 0..Len(q) : /\ NoState(p, i) => NoState(q, i) /\ NoState(after, 0)
                            /\ NoLib(p, i) => NoLib(q, i)
  BY <1>9, <1>10, <1>12
<1>18. NoState(p, n) => NoState(after, 0)
  BY <1>9, <1>12
<1> QED
  BY <1>9, <1>12, <1>13, <1>14, <1>15, <1>16, <1>17, <1>18 DEF Adjoined

LEMMA ServeKeeps ==
  ASSUME Inv, Serve, UNCHANGED <<ui, keys>>
  PROVE  Inv'
<1> DEFINE q == Stream
           p == Stream'
<1>1. /\ Types /\ Commanded /\ Phases /\ Stepping /\ Told(g, ui, q) /\ cmds # <<>> /\ cmds \in Seq(Commands) /\ gdb \in Gdbs
      /\ g.token \in Nat /\ cmds' = Tail(cmds) /\ (gdb.run = "running" => gdb.async)
      /\ UNCHANGED <<buf, want, todo, g, phase, late, ui, keys>> /\ todo \in Seq(Ops)
  BY DEF Inv, Serve, Types, Gs
<1>2. PICK c \in Commands : c = cmds[1] /\ c = Head(cmds)
  BY <1>1, TailDrops
<1>3. cmds' \in Seq(Commands) /\ Drops(cmds, cmds', 1) /\ Len(cmds) >= 1
  BY <1>1, TailDrops
<1>4. Len(cmds) \in Nat /\ Len(cmds') \in Nat /\ Len(cmds') = Len(cmds) - 1
  BY <1>1, <1>3 DEF Drops
<1>5. \A i \in 1..Len(cmds') : i + 1 \in 1..Len(cmds) /\ cmds'[i] = cmds[i + 1]
  BY <1>3, <1>4 DEF Drops
<1>6. 1 \in 1..Len(cmds) /\ Len(cmds) <= g.token /\ c.tok = g.token - Len(cmds) + 1 /\ c.tok = g.token - Len(cmds')
  BY <1>1, <1>2, <1>3, <1>4 DEF Commanded
<1>7. /\ Fitting(g) /\ Revisions(g, ui) /\ Tokens(q) /\ Asked(q) /\ Waited(q) /\ Tidings(q) /\ Believes(g, ui, q)
      /\ Fresh(q) /\ Unsettled(g, ui) /\ Ready(g, ui, q, todo) /\ FrameTrue(g, ui, q) /\ BreaksTrue(g, q) /\ Launch(g, q)
  BY <1>1 DEF Told
<1>8. Fits(c)
  BY <1>2, <1>6, <1>7 DEF Fitting
<1>9. PICK r \in Answers(c, gdb) : gdb' = r.d /\ pipe' = pipe \o <<Record("result", c.tok, c.do, r.ok, r.d)>> \o r.after
  BY <1>2, Zenon DEF Serve
<1>10. Outcome(c, gdb, r)
  BY <1>1, <1>8, OutcomeIs
<1>11. gdb' \in Gdbs /\ r.ok \in BOOLEAN /\ r.after \in Seq(Records) /\ r.d = gdb'
  BY <1>9, <1>10 DEF Outcome
<1>12. PICK e : e = Record("result", c.tok, c.do, r.ok, r.d)
  OBVIOUS
<1>13. c.tok \in Nat /\ c.do \in Dos \cup {Silent} /\ c.tok > 0
  <2>1. c.tok \in Nat /\ c.do \in Dos
    BY DEF Commands
  <2> QED
    BY <1>1, <1>4, <1>6, <2>1
<1>14. e \in Records /\ e.k = "result" /\ e.tok = c.tok /\ e.do = c.do /\ (e.ok <=> r.ok) /\ ~e.cut /\ e.now = Now(gdb')
       /\ e.bps = gdb'.bps /\ e.libs = gdb'.libs
  <2>1. PICK ok \in BOOLEAN : ok = r.ok
    BY <1>11
  <2>2. e = Record("result", c.tok, c.do, ok, gdb')
    BY <1>11, <1>12, <2>1
  <2>3. "result" \in {"result", "running", "stopped", "exited", "killed", "library", "group"}
    OBVIOUS
  <2>4. e \in Records /\ e.k = "result" /\ e.tok = c.tok /\ e.do = c.do /\ (e.ok <=> ok) /\ ~e.cut /\ e.now = Now(gdb')
        /\ e.bps = gdb'.bps /\ e.libs = gdb'.libs
    <3>1. gdb' \in Gdbs
      BY <1>11
    <3>2. PICK tok \in Nat : tok = c.tok
      BY <1>13
    <3>3. PICK do \in Dos \cup {Silent} : do = c.do
      BY <1>13
    <3>4. PICK k \in {"result", "running", "stopped", "exited", "killed", "library", "group"} : k = "result"
      OBVIOUS
    <3>5. e = Record(k, tok, do, ok, gdb')
      BY <2>2, <3>2, <3>3, <3>4
    <3>6. e \in Records /\ e.k = k /\ e.tok = tok /\ e.do = do /\ (e.ok <=> ok) /\ ~e.cut /\ e.now = Now(gdb')
          /\ e.bps = gdb'.bps /\ e.libs = gdb'.libs
      BY <3>1, <3>5, RecordIs
    <3> QED
      BY <3>2, <3>3, <3>4, <3>6
  <2> QED
    BY <2>1, <2>4
<1>15. Result(e)
  BY <1>14 DEF Result
<1>16. PICK after \in Seq(Records) : after = r.after
  BY <1>11
<1>17. \A i \in 1..Len(after) : /\ ~Result(after[i]) /\ ~after[i].cut
                                /\ StateNews(after[i]) /\ NoState(after, i) => after[i].k = gdb'.run
  BY <1>10, <1>11, <1>16 DEF Outcome
<1>18. PICK one \in Seq(Records) : one = <<e>>
  <2>1. <<e>> \in Seq(Records)
    BY <1>14
  <2> QED
    BY <2>1
<1>19. PICK rs : rs = one \o after
  OBVIOUS
<1>20. Joins(one, after, rs)
  BY <1>19 DEF Joins
<1>21. rs \in Seq(Records) /\ JoinedAs(one, after, rs)
  BY <1>20, Joined
<1>22. Joins(pipe, rs, pipe')
  <2>1. pipe' = pipe \o one \o after
    BY <1>9, <1>12, <1>16, <1>18
  <2>2. pipe \in Seq(Records)
    BY <1>1 DEF Types
  <2>3. pipe \o one \o after = pipe \o (one \o after)
    BY <2>2, ConcatAssociative
  <2> QED
    BY <1>19, <2>1, <2>3 DEF Joins
<1>23. pipe' \in Seq(Records) /\ q \in Seq(Records) /\ p \in Seq(Records) /\ JoinedAs(q, rs, p)
  BY <1>1, <1>21, <1>22, Adds
<1>24. Stream' = p
  OBVIOUS
<1> HIDE DEF q, p
<1>25. PICK n \in Nat : n = Len(q) + 1
  BY <1>23
<1>26. Alone(one, e)
  BY <1>18 DEF Alone
<1>27. /\ n \in 1..Len(p) /\ p[n] = e /\ n \notin 1..Len(q)
       /\ \A i \in 1..Len(p) : \/ i \in 1..Len(q) /\ p[i] = q[i] /\ i < n
                               \/ i = n /\ p[i] = e
                               \/ \E j \in 1..Len(after) : i = n + j /\ p[i] = after[j]
       /\ \A i \in 1..Len(p) : Result(p[i]) => (i \in 1..Len(q) /\ p[i] = q[i] /\ i < n) \/ (i = n /\ p[i] = e)
       /\ \A i \in 0..Len(q) : /\ NoState(p, i) => NoState(q, i) /\ NoState(after, 0)
                               /\ NoLib(p, i) => NoLib(q, i)
       /\ NoState(p, n) => NoState(after, 0)
       /\ \A j \in 1..Len(after) : NoState(p, n + j) => NoState(after, j)
       /\ after = <<>> => NoState(p, n)
  <2>1. e \in Records /\ \A i \in 1..Len(after) : ~Result(after[i])
    BY <1>14, <1>17
  <2>2. q \in Seq(Records) /\ p \in Seq(Records) /\ JoinedAs(q, rs, p) /\ JoinedAs(one, after, rs) /\ rs \in Seq(Records)
    BY <1>21, <1>23
  <2>3. Adjoined(q, e, after, p, n)
    BY <1>15, <1>25, <1>26, <2>1, <2>2, Replied
  <2> QED
    BY <2>3 DEF Adjoined
<1>28. 0 \in 0..Len(q) /\ \A i \in 1..Len(q) : i \in 0..Len(q)
  BY <1>23
<1>29. PICK t \in Nat : t = g.token
  BY <1>1
<1>30. PICK l \in Nat : l = Len(cmds')
  BY <1>4
<1>31. Len(cmds) = l + 1 /\ l + 1 <= t /\ c.tok = t - l
  BY <1>4, <1>6, <1>29, <1>30
(* The answers that have come before are to older commands. *)
<1>32. \A i \in 1..Len(q) : Result(q[i]) => q[i].tok \in Nat /\ q[i].tok > 0 /\ q[i].tok < c.tok /\ q[i].tok # t
  <2> SUFFICES ASSUME NEW i \in 1..Len(q), Result(q[i])
               PROVE  q[i].tok \in Nat /\ q[i].tok > 0 /\ q[i].tok < c.tok /\ q[i].tok # t
    OBVIOUS
  <2>1. q[i].tok > 0 /\ q[i].tok <= t - (l + 1)
    BY <1>7, <1>29, <1>31 DEF Tokens
  <2>2. q[i] \in Records
    BY <1>23
  <2>3. q[i].tok \in Nat
    BY <2>2 DEF Records
  <2>4. \A k \in Nat : k > 0 /\ k <= t - (l + 1) => k < t - l /\ k # t
    OBVIOUS
  <2> QED
    BY <1>31, <2>1, <2>3, <2>4
<1>33. \A i \in 1..Len(p) : Answer(p[i]) => i = n /\ p[i] = e /\ c.tok = g.token
  BY <1>14, <1>27, <1>29, <1>32 DEF Answer
<1>34. \A v : Answer(v)' <=> Answer(v)
  BY <1>1 DEF Answer
<1>35. /\ gdb'.prints = gdb.prints /\ gdb'.libs = gdb.libs /\ gdb'.async = gdb.async /\ (gdb'.cut <=> gdb.cut)
       /\ ~e.ok => gdb' = gdb /\ after = <<>>
       /\ c.do \notin Changers => /\ after = <<>> /\ gdb'.run = gdb.run /\ gdb'.at = gdb.at /\ gdb'.frame = gdb.frame
                                  /\ gdb'.mem = gdb.mem /\ gdb'.src = gdb.src
       /\ NoState(after, 0) =>
            /\ gdb'.run = gdb.run \/ gdb'.run = "gone"
            /\ gdb'.at = gdb.at
            /\ c.do \notin Writes => gdb'.mem = gdb.mem /\ gdb'.src = gdb.src
            /\ c.do \notin Writes \cup {"select"} => gdb'.frame = gdb.frame
       /\ gdb'.run = "gone" => gdb.run = "gone" \/ c.do \in Leaving
       /\ c.do \in {"exec", "run"} /\ e.ok => ~NoState(after, 0)
       /\ c.do \in Asks /\ e.ok => Halted(gdb)
       /\ c.do = "breaks" => e.ok
       /\ c.do \notin Alters => gdb'.bps = gdb.bps /\ gdb'.next = gdb.next
       /\ c.do = "insert" /\ e.ok => gdb'.bps # {} /\ \A b \in gdb'.bps : b \in gdb.bps \/ b.n = gdb.next
       /\ c.do = "delete" => IF \E b \in gdb.bps : b.n = c.x THEN e.ok /\ \A b \in gdb'.bps : b \in gdb.bps /\ b.n # c.x ELSE ~e.ok
  BY <1>10, <1>11, <1>14, <1>16 DEF Outcome
<1>36. Types'
  BY <1>1, <1>3, <1>11, <1>23 DEF Types
<1>37. Commanded'
  <2>1. \A i \in 1..Len(cmds') : cmds'[i].tok = g.token - Len(cmds') + i
    <3> SUFFICES ASSUME NEW i \in 1..Len(cmds') PROVE cmds'[i].tok = g.token - Len(cmds') + i
      OBVIOUS
    <3>1. PICK j \in 1..Len(cmds) : j = i + 1 /\ cmds'[i] = cmds[j]
      BY <1>5
    <3>2. cmds[j].tok = g.token - Len(cmds) + j
      BY <1>1 DEF Commanded
    <3>3. t - (l + 1) + j = t - l + i
      BY <1>30, <3>1
    <3> QED
      BY <1>29, <1>30, <1>31, <3>1, <3>2, <3>3
  <2>2. Len(cmds') <= g.token
    BY <1>29, <1>30, <1>31
  <2> QED
    BY <1>1, <2>1, <2>2 DEF Commanded
<1>38. \A i \in 1..Len(cmds') : \E j \in 1..Len(cmds) : cmds'[i] = cmds[j]
  BY <1>5
<1>39. Phases'
  <2>1. c.do \in Leaving => phase \in {"quit", "end"}
    BY <1>1, <1>2, <1>6 DEF Phases
  <2>2. \A i \in 1..Len(cmds') : cmds'[i].do \in Leaving => phase \in {"quit", "end"}
    BY <1>1, <1>38 DEF Phases
  <2>3. gdb'.run = "gone" => phase \in {"quit", "end"}
    BY <1>1, <1>35, <2>1 DEF Phases
  <2> QED
    BY <1>1, <2>2, <2>3 DEF Phases
<1>40. Stepping'
  BY <1>1 DEF Stepping
<1>41. Fitting(g)' /\ Revisions(g, ui)' /\ Unsettled(g, ui)'
  BY <1>1, <1>7, <1>38 DEF Fitting, Revisions, Unsettled, NothingKept
<1>42. Tokens(Stream)'
  <2>1. g'.token - Len(cmds') = c.tok
    BY <1>1, <1>29, <1>30, <1>31
  <2>2. PICK m \in Nat : m = c.tok
    BY <1>13
  <2>3. ASSUME NEW i \in 1..Len(p), Result(p[i])
        PROVE  /\ p[i].tok > 0 /\ p[i].tok <= m /\ ~p[i].cut /\ (p[i].do = "breaks" => p[i].ok)
               /\ \A j \in 1..Len(p) : Result(p[j]) /\ i < j => p[i].tok < p[j].tok
    <3>1. CASE i \in 1..Len(q) /\ p[i] = q[i] /\ i < n
      <4>1. q[i].tok \in Nat /\ q[i].tok > 0 /\ q[i].tok < m
        BY <1>32, <2>2, <2>3, <3>1
      <4>2. ~q[i].cut /\ (q[i].do = "breaks" => q[i].ok)
        BY <1>7, <2>3, <3>1 DEF Tokens
      <4>3. ASSUME NEW j \in 1..Len(p), Result(p[j]), i < j PROVE q[i].tok < p[j].tok
        <5>1. CASE j \in 1..Len(q) /\ p[j] = q[j]
          BY <1>7, <2>3, <3>1, <4>3, <5>1 DEF Tokens
        <5>2. CASE p[j] = e
          BY <1>14, <2>2, <4>1, <5>2
        <5> QED
          BY <1>27, <4>3, <5>1, <5>2
      <4> QED
        BY <3>1, <4>1, <4>2, <4>3
    <3>2. CASE i = n /\ p[i] = e
      <4>1. e.tok > 0 /\ e.tok <= m /\ ~e.cut /\ (e.do = "breaks" => e.ok)
        BY <1>13, <1>14, <1>35, <2>2
      <4>2. ASSUME NEW j \in 1..Len(p), Result(p[j]), n < j PROVE FALSE
        <5>1. j < n \/ j = n
          BY <1>27, <4>2
        <5> QED
          BY <4>2, <5>1
      <4> QED
        BY <3>2, <4>1, <4>2
    <3> QED
      BY <1>27, <2>3, <3>1, <3>2
  <2> QED
    BY <1>24, <2>1, <2>2, <2>3 DEF Tokens
<1>43. want # 0 /\ c.tok = want => c.do = todo[1].do /\ c.x = todo[1].x
  BY <1>2, <1>6, <1>7 DEF Asked
<1>44. want # 0 => want = g.token /\ todo # <<>> /\ todo[1].kind = "request"
  BY <1>1 DEF Commanded
<1>45. Asked(Stream)'
  <2>1. want # 0 => \A i \in 1..Len(p) : Answer(p[i]) => p[i].do = todo[1].do
    BY <1>14, <1>33, <1>43, <1>44
  <2>2. want # 0 => \A i \in 1..Len(cmds') : cmds'[i].tok = want => cmds'[i].do = todo[1].do /\ cmds'[i].x = todo[1].x
    BY <1>7, <1>38 DEF Asked
  <2> QED
    BY <1>1, <1>24, <1>34, <2>1, <2>2 DEF Asked
<1>46. late = 0 => want # 0 /\ c.tok = want
  BY <1>2, <1>6, <1>7 DEF Waited
<1>47. Waited(Stream)'
  <2>1. late = 0 => \A i \in 1..Len(cmds') : want # 0 /\ cmds'[i].tok = want
    BY <1>7, <1>38 DEF Waited
  <2>2. late = 0 => \A i \in 1..Len(p) : Result(p[i]) => want # 0 /\ p[i].tok = want
    BY <1>7, <1>14, <1>27, <1>46 DEF Waited
  <2> QED
    BY <1>1, <1>24, <2>1, <2>2 DEF Waited
<1>48. Tidings(Stream)'
  <2>1. ASSUME gdb'.run # "gone", NEW i \in 1..Len(p), StateNews(p[i]), NoState(p, i) PROVE p[i].k = gdb'.run
    <3>1. CASE i \in 1..Len(q) /\ p[i] = q[i]
      <4>1. NoState(q, i) /\ NoState(after, 0)
        BY <1>27, <1>28, <2>1, <3>1
      <4>2. gdb'.run = gdb.run
        BY <1>35, <2>1, <4>1
      <4> QED
        BY <1>7, <2>1, <3>1, <4>1, <4>2 DEF Tidings
    <3>2. CASE p[i] = e
      BY <1>14, <2>1, <3>2 DEF StateNews
    <3>3. ASSUME NEW j \in 1..Len(after), i = n + j, p[i] = after[j] PROVE p[i].k = gdb'.run
      <4>1. NoState(after, j)
        BY <1>27, <2>1, <3>3
      <4> QED
        BY <1>17, <2>1, <3>3, <4>1
    <3> QED
      BY <1>27, <3>1, <3>2, <3>3
  <2>2. ASSUME NEW i \in 1..Len(p), Result(p[i]), p[i].do \in {"exec", "run"}, p[i].ok PROVE ~NoState(p, i)
    <3>1. CASE i \in 1..Len(q) /\ p[i] = q[i]
      BY <1>7, <1>27, <1>28, <2>2, <3>1 DEF Tidings
    <3>2. CASE i = n /\ p[i] = e
      BY <1>14, <1>27, <1>35, <2>2, <3>2
    <3> QED
      BY <1>27, <2>2, <3>1, <3>2
  <2>3. ASSUME NEW i \in 1..Len(p), p[i].cut PROVE gdb'.prints > 0
    BY <1>7, <1>14, <1>17, <1>27, <1>35, <2>3 DEF Tidings
  <2>4. ~gdb'.cut
    BY <1>1, <1>7, <1>35 DEF Tidings
  <2> QED
    BY <1>24, <2>1, <2>2, <2>3, <2>4 DEF Tidings
<1>49. c.do \in Writes => NothingKept(g, ui)
  BY <1>2, <1>6, <1>7 DEF Unsettled
<1>50. Current(g', ui') = Current(g, ui)
  BY <1>1
<1>51. NoState(p, 0) => NoState(q, 0) /\ NoState(after, 0)
  BY <1>27, <1>28
<1>52. Believes(g, ui, Stream)'
  <2>1. NoState(p, 0) /\ gdb'.run # "gone" => g.state = Reported(gdb'.run)
    BY <1>7, <1>35, <1>51 DEF Believes
  <2>2. NoState(p, 0) => KeptTrue(g, ui)'
    <3>1. CASE c.do \in Writes
      BY <1>1, <1>49, <3>1 DEF NothingKept, KeptTrue
    <3>2. CASE c.do \notin Writes
      BY <1>1, <1>7, <1>35, <1>51, <3>2 DEF Believes, KeptTrue, Alike
    <3> QED
      BY <3>1, <3>2
  <2>3. NoLib(p, 0) /\ gdb'.prints = 0 => SymbolsTrue(g)'
    BY <1>1, <1>7, <1>27, <1>28, <1>35 DEF Believes, SymbolsTrue
  <2> QED
    BY <1>1, <1>24, <2>1, <2>2, <2>3 DEF Believes
<1>53. Fresh(Stream)'
  <2>1. ASSUME NEW i \in 1..Len(p), Answer(p[i]), p[i].ok, p[i].do \in Asks
        PROVE  Halted(gdb)' /\ p[i].now = Now(gdb') /\ NoState(p, i)
    <3>1. i = n /\ p[i] = e /\ c.do \in Asks /\ e.ok
      BY <1>14, <1>33, <2>1
    <3>2. c.do \notin Changers
      BY <3>1 DEF Asks, Changers, Writes
    <3> QED
      BY <1>14, <1>27, <1>35, <3>1, <3>2 DEF Halted
  <2>2. ASSUME NEW i \in 1..Len(p), Answer(p[i]) PROVE p[i].libs = gdb'.libs
    BY <1>14, <1>33, <2>2
  <2> QED
    BY <1>24, <1>34, <2>1, <2>2 DEF Fresh
<1>54. c.do \notin Changers => (NoState(q, 0) => NoState(p, 0))
  <2> SUFFICES ASSUME c.do \notin Changers, NoState(q, 0), NEW i \in 1..Len(p), i > 0 PROVE ~StateNews(p[i])
    BY DEF NoState
  <2>1. \A j \in 1..Len(after) : FALSE
    BY <1>35, NothingAfter
  <2>2. CASE i \in 1..Len(q) /\ p[i] = q[i]
    BY <2>2 DEF NoState
  <2>3. CASE p[i] = e
    BY <1>14, <2>3 DEF StateNews
  <2> QED
    BY <1>27, <2>1, <2>2, <2>3
<1>55. Calm(q) => Calm(Stream)' /\ Now(gdb') = Now(gdb)
  <2> SUFFICES ASSUME Calm(q) PROVE Calm(Stream)' /\ Now(gdb') = Now(gdb)
    OBVIOUS
  <2>1. c.do \notin Changers /\ Halted(gdb) /\ NoState(q, 0)
    BY <1>2, <1>6 DEF Calm
  <2>2. \A i \in 1..Len(cmds') : cmds'[i].do \notin Changers
    BY <1>38 DEF Calm
  <2> QED
    BY <1>24, <1>35, <1>54, <2>1, <2>2 DEF Calm, Now, Halted
<1>56. Ready(g, ui, Stream, todo)'
  <2>1. InfoFresh(g, q) => InfoFresh(g, Stream)'
    BY <1>1, <1>55 DEF InfoFresh
  <2>2. VarsFresh(g, q) => VarsFresh(g, Stream)'
    BY <1>1, <1>55 DEF VarsFresh
  <2>3. ListTrue(g, q) => ListTrue(g, Stream)'
    BY <1>1, <1>27, <1>28, <1>24, <1>35 DEF ListTrue
  <2> QED
    BY <1>1, <1>7, <2>1, <2>2, <2>3 DEF Ready, NothingKept
(* What is waited for is answered now, unless a request was given up. *)
<1>57. ASSUME late = 0
       PROVE  /\ Served' /\ ~Served /\ todo # <<>> /\ todo[1].kind = "request" /\ c.do = todo[1].do /\ c.x = todo[1].x
              /\ Answer(e) /\ cmds' = <<>>
  <2>1. want # 0 /\ c.tok = want /\ want = g.token
    BY <1>44, <1>46, <1>57
  <2>2. l = 0
    BY <1>29, <1>31, <2>1
  <2>3. cmds' = <<>>
    BY <1>3, <1>30, <2>2, EmptySeq
  <2> QED
    BY <1>1, <1>14, <1>15, <1>43, <1>44, <2>1, <2>3 DEF Served, Answer
<1>58. ASSUME late = 0
       PROVE  /\ AllOk(Stream)' <=> e.ok
              /\ AllBad(Stream)' <=> ~e.ok
  <2>1. AllOk(p) <=> e.ok
    BY <1>27, <1>33, <1>57, <1>58 DEF AllOk
  <2>2. AllBad(p) <=> ~e.ok
    BY <1>27, <1>33, <1>57, <1>58 DEF AllBad
  <2> QED
    BY <1>24, <1>34, <2>1, <2>2 DEF AllOk, AllBad
<1>59. FrameTrue(g, ui, Stream)'
  <2> SUFFICES ASSUME late = 0, NoState(p, 0)
               PROVE  FrameOwed(Stream)' \/ \A v \in Current(g, ui) : v.frame = gdb'.frame
    BY <1>1, <1>24, <1>50 DEF FrameTrue
  <2>1. FrameOwed(q) \/ \A v \in Current(g, ui) : v.frame = gdb.frame
    BY <1>7, <1>51 DEF FrameTrue
  <2>2. FrameOwed(q) => FrameOwed(Stream)'
    BY <1>1, <1>57 DEF FrameOwed
  <2>3. c.do = "select" /\ e.ok => FrameOwed(Stream)'
    BY <1>1, <1>57, <1>58 DEF FrameOwed
  <2>4. ~e.ok => gdb'.frame = gdb.frame
    BY <1>35
  <2>5. c.do \in Writes => Current(g, ui) = {}
    BY <1>49 DEF NothingKept
  <2>6. c.do \notin Writes \cup {"select"} => gdb'.frame = gdb.frame
    BY <1>35, <1>51
  <2> QED
    BY <2>1, <2>2, <2>3, <2>4, <2>5, <2>6
<1>60. BreaksTrue(g, Stream)'
  <2> SUFFICES ASSUME late = 0, phase = "loop"
               PROVE  /\ BreaksOwed(Stream)' \/ g.breaks = gdb'.bps
                      /\ \A i \in 1..Len(p) : Answer(p[i]) /\ p[i].do = "breaks" => p[i].bps = gdb'.bps
    BY <1>1, <1>24, <1>34 DEF BreaksTrue
  <2>1. BreaksOwed(q) \/ g.breaks = gdb.bps
    BY <1>7 DEF BreaksTrue
  <2>2. BreaksOwed(q) => BreaksOwed(Stream)'
    BY <1>1, <1>57 DEF BreaksOwed
  <2>3. c.do \in Alters /\ e.ok => BreaksOwed(Stream)'
    BY <1>1, <1>57, <1>58 DEF BreaksOwed
  <2>4. ~e.ok \/ c.do \notin Alters => gdb'.bps = gdb.bps
    BY <1>35
  <2>5. \A i \in 1..Len(p) : Answer(p[i]) => p[i].bps = gdb'.bps
    BY <1>14, <1>33
  <2> QED
    BY <2>1, <2>2, <2>3, <2>4, <2>5
<1>61. ASSUME late = 0, phase = "start" PROVE Temporary(q) /\ (\A i \in 1..Len(todo) : todo[i].do = "breaks" => NoAlters(todo)) /\ g.breaks = {}
  BY <1>7, <1>61 DEF Launch
<1>62. ASSUME late = 0, phase = "start" PROVE Temporary(Stream)'
  <2>1. todo' = todo /\ Served' /\ ~Served /\ todo # <<>> /\ c.do = todo[1].do /\ c.x = todo[1].x
    BY <1>1, <1>57, <1>62
  <2>2. Len(todo) \in Nat /\ 1 \in 1..Len(todo) /\ todo[1].do = c.do
    BY <1>1, <2>1
  <2>3. CASE NoAlters(todo) /\ gdb.bps = {}
    <3>1. gdb'.bps = {}
      BY <1>35, <2>2, <2>3 DEF NoAlters
    <3> QED
      BY <2>1, <2>3, <3>1 DEF Temporary, NoAlters
  <2>4. ASSUME NEW i \in 1..Len(todo), Inserting(i), gdb.bps = {}, (i = 1 /\ Served) \/ gdb.next = 1
        PROVE  Temporary(Stream)'
    <3>1. Inserting(i)' /\ i \in 1..Len(todo')
      BY <2>1, <2>4 DEF Inserting
    <3>2. gdb.next = 1
      BY <2>1, <2>4
    <3>3. CASE i = 1
      <4>1. c.do = "insert"
        BY <2>1, <2>4, <3>3 DEF Inserting
      <4>2. CASE e.ok
        <5>1. Single'
          BY <1>35, <2>4, <3>2, <4>1, <4>2 DEF Single
        <5> QED
          BY <1>58, <1>62, <2>1, <3>1, <3>3, <4>2, <5>1 DEF Temporary
      <4>3. CASE ~e.ok
        <5>1. gdb'.bps = {}
          BY <1>35, <2>4, <4>3
        <5> QED
          BY <1>58, <1>62, <2>1, <3>1, <3>3, <4>3, <5>1 DEF Temporary
      <4> QED
        BY <4>2, <4>3
    <3>4. CASE i # 1
      <4>1. c.do \notin Alters
        <5>1. 1 \notin {i, i + 1}
          BY <2>4, <3>4
        <5> QED
          BY <2>1, <2>2, <2>4, <5>1 DEF Inserting
      <4>2. gdb'.bps = {} /\ gdb'.next = 1
        BY <1>35, <2>4, <3>2, <4>1
      <4> QED
        BY <3>1, <3>4, <4>2 DEF Temporary
    <3> QED
      BY <3>3, <3>4
  <2>5. ASSUME Deleting, Single PROVE Temporary(Stream)'
    <3>1. c.do = "delete" /\ c.x = 1
      BY <2>1, <2>5 DEF Deleting
    <3>2. \E b \in gdb.bps : b.n = c.x
      BY <2>5, <3>1 DEF Single
    <3>3. \A b \in gdb'.bps : b \in gdb.bps /\ b.n # c.x
      BY <1>35, <3>1, <3>2
    <3>4. gdb'.bps = {}
      BY <2>5, <3>1, <3>3 DEF Single
    <3>5. Deleting'
      BY <2>1, <2>5 DEF Deleting
    <3> QED
      BY <2>1, <3>4, <3>5 DEF Temporary
  <2> QED
    BY <1>61, <1>62, <2>1, <2>3, <2>4, <2>5 DEF Temporary
<1>63. Launch(g, Stream)'
  <2> SUFFICES ASSUME late = 0, phase = "start"
               PROVE  \A i \in 1..Len(p) : Answer(p[i]) /\ p[i].do = "breaks" => p[i].bps = {}
    BY <1>1, <1>24, <1>34, <1>61, <1>62 DEF Launch, NoAlters
  <2> SUFFICES ASSUME NEW i \in 1..Len(p), Answer(p[i]), p[i].do = "breaks" PROVE p[i].bps = {}
    OBVIOUS
  <2>1. p[i] = e /\ c.do = "breaks"
    BY <1>14, <1>33
  <2>2. todo # <<>> /\ todo[1].do = "breaks"
    BY <1>57, <2>1
  <2>3. 1 \in 1..Len(todo)
    BY <1>1, <2>2
  <2>4. NoAlters(todo)
    BY <1>61, <2>2, <2>3
  <2>5. gdb.bps = {}
    <3>1. Temporary(q)
      BY <1>61
    <3>2. ~Deleting
      BY <2>2, <2>3 DEF Deleting
    <3>3. \A k \in 1..Len(todo) : ~Inserting(k)
      BY <2>4 DEF Inserting, NoAlters, Alters
    <3> QED
      BY <3>1, <3>2, <3>3 DEF Temporary
  <2> QED
    BY <1>14, <1>35, <2>1, <2>5 DEF Alters
<1>64. Told(g, ui, Stream)'
  BY <1>41, <1>42, <1>45, <1>47, <1>48, <1>52, <1>53, <1>56, <1>59, <1>60, <1>63 DEF Told
<1> QED
  BY <1>36, <1>37, <1>39, <1>40, <1>64 DEF Inv

(* What GDB and the program do. *)
LEMMA ExternalKeeps ==
  ASSUME Inv, External, UNCHANGED <<ui, keys>>
  PROVE  Inv'
BY ServeKeeps, StopKeeps, ExitKeeps, WriteKeeps, LoadLibraryKeeps DEF External

-----------------------------------------------------------------------------
(* A session starts                                                         *)

(* Steps that expect nothing, of which only the temporary breakpoint's may  *)
(* drop a part of the call.                                                 *)
Starts == {"set", "attach", "settled", "attached", "context", "ready", "insert", "delete", "located"}
Starting(c) ==
    /\ c \in Seq(Ops) /\ c # <<>>
    /\ \A i \in 1..Len(c) :
         /\ c[i].do \in Starts /\ c[i].bad = c[i].lost /\ Kinds(c[i]) /\ Fits(c[i])
         /\ c[i].do = "ready" => i = Len(c)
         /\ c[i].bad \in {0, All} \/ (c[i].bad = 1 /\ i + 1 < Len(c))

LEMMA StartingFlows ==
  ASSUME NEW c, Starting(c)
  PROVE  /\ Flow(c) /\ Paired(c)
         /\ ~NeedsInfo(c, 1) /\ ~NeedsVars(c, 1) /\ ~NeedsInvalid(c, 1) /\ ~NeedsList(c, 1) /\ ~HeadOnly(c, 1)
<1>1. c \in Seq(Ops) /\ Len(c) \in Nat /\ 1 \in 1..Len(c)
  BY DEF Starting
<1>2. \A i \in 1..Len(c) : c[i].do \in Starts
  BY DEF Starting
<1>3. \A i \in 1..Len(c) : ~NeedsInfo(c, i) /\ ~NeedsVars(c, i) /\ ~NeedsInvalid(c, i) /\ ~NeedsList(c, i) /\ ~HeadOnly(c, i)
  BY <1>2 DEF Starts, NeedsInfo, NeedsVars, NeedsInvalid, NeedsList, HeadOnly, Writes
<1>4. \A i \in 1..Len(c) : Plain(c, i)
  BY <1>3 DEF Plain
<1>5. \A i \in 1..Len(c) : i < Len(c) => i + 1 \in 1..Len(c)
  BY <1>1
<1>6. \A i \in 1..Len(c) : i < Len(c) => Follows(c, i)
  BY <1>3, <1>5 DEF Follows
<1>7. ASSUME NEW i \in 1..Len(c) PROVE Fails(c, i, c[i].bad) /\ c[i].lost = c[i].bad
  <2>1. c[i].do \notin {"var", "modules", "sources"}
    BY <1>2 DEF Starts
  <2>2. CASE c[i].bad = All
    BY <2>2 DEF Fails, Starting
  <2>3. CASE c[i].bad = 0
    <3>1. i + 0 <= Len(c)
      BY <1>1
    <3> QED
      BY <2>1, <2>3, <3>1 DEF Fails, Starting
  <2>4. CASE c[i].bad = 1 /\ i + 1 < Len(c)
    <3>1. i + 1 + 1 \in 1..Len(c) /\ i + 1 <= Len(c)
      BY <1>1, <2>4
    <3>2. Plain(c, i + 1 + 1)
      BY <1>4, <3>1
    <3> QED
      BY <2>4, <3>1, <3>2 DEF Fails, Starting
  <2> QED
    BY <2>2, <2>3, <2>4 DEF Starting
<1>8. Flow(c)
  BY <1>6, <1>7 DEF Flow
<1>9. Paired(c)
  BY <1>2 DEF Paired, Starts
<1> QED
  BY <1>1, <1>3, <1>8, <1>9

(* The steps of the one and of the other session. *)
LEMMA AttachStarts ==
  ASSUME NEW lines
  PROVE  Starting(StartSession(TRUE, lines)) /\ NoAlters(StartSession(TRUE, lines))
<1> DEFINE a == R("set", 0, All)
           b == R("set", 0, 0)
           d == R("attach", 0, All)
           e == L("settled", 0)
           f == L("attached", 0)
           h == L("context", TRUE)
           k == L("ready", 0)
<1>1. /\ IsR(a, "set", 0, All) /\ IsR(b, "set", 0, 0) /\ IsR(d, "attach", 0, All) /\ IsL(e, "settled", 0)
      /\ IsL(f, "attached", 0) /\ IsL(h, "context", TRUE) /\ IsL(k, "ready", 0)
  BY Request, Local, DosAre, ArgumentsAre, Zenon
<1>2. StartSession(TRUE, lines) = <<a, b, b>> \o (<<a, d, e, f>> \o <<h>> \o <<k>>)
  BY DEF StartSession, Refresh
<1> HIDE DEF a, b, d, e, f, h, k
<1>3. a \in Ops /\ b \in Ops /\ d \in Ops /\ e \in Ops /\ f \in Ops /\ h \in Ops /\ k \in Ops
  BY <1>1 DEF IsR, IsL
<1>4. PICK V \in SUBSET Ops : V = {a, b, d, e, f, h}
  BY <1>3
<1>5. PICK x \in Seq(V) : x = <<a, b, b>>
  <2>1. <<a, b, b>> \in Seq(V)
    BY <1>4
  <2> QED
    BY <2>1
<1>6. PICK y \in Seq(V) : y = <<a, d, e, f>>
  <2>1. <<a, d, e, f>> \in Seq(V)
    BY <1>4
  <2> QED
    BY <2>1
<1>7. PICK z \in Seq(V) : z = <<h>>
  <2>1. <<h>> \in Seq(V)
    BY <1>4
  <2> QED
    BY <2>1
<1>8. PICK last \in Seq(Ops) : last = <<k>> /\ Len(last) = 1 /\ last[1] = k
  <2>1. <<k>> \in Seq(Ops) /\ Len(<<k>>) = 1 /\ <<k>>[1] = k
    BY <1>3
  <2> QED
    BY <2>1, Zenon
<1>9. PICK p \in Seq(V) : p = x \o (y \o z)
  BY ConcatProperties
<1>10. x \o (y \o z \o last) = p \o last
  <2>1. x \in Seq(Ops) /\ y \in Seq(Ops) /\ z \in Seq(Ops) /\ last \in Seq(Ops)
    BY <1>3, <1>5, <1>6, <1>7, <1>8
  <2> HIDE <1>4
  <2>2. y \o z \in Seq(Ops)
    BY <2>1, ConcatProperties
  <2>3. x \o ((y \o z) \o last) = (x \o (y \o z)) \o last
    BY <2>1, <2>2, Regroup, ZenonT(40)
  <2> QED
    BY <1>9, <2>3
<1>11. PICK c : c = p \o last
  OBVIOUS
<1>12. p \in Seq(Ops)
  <2>1. V \subseteq Ops
    OBVIOUS
  <2> QED
    BY <2>1
<1>13. Joins(p, last, c)
  BY <1>11 DEF Joins
<1>14. c \in Seq(Ops) /\ JoinedAs(p, last, c)
  BY <1>8, <1>12, <1>13, Joined
<1>15. c # <<>> /\ \A i \in 1..Len(c) : c[i] \in V \/ (i = Len(c) /\ c[i] = k)
  <2>1. Len(p) \in Nat /\ Len(c) = Len(p) + 1 /\ c[Len(p) + 1] = k
    BY <1>8, <1>12, <1>14 DEF JoinedAs
  <2>2. ASSUME NEW i \in 1..Len(c) PROVE c[i] \in V \/ (i = Len(c) /\ c[i] = k)
    <3>1. i \in 1..Len(p) \/ i = Len(p) + 1
      BY <2>1
    <3>2. \A j \in 1..Len(p) : p[j] \in V
      <4> HIDE <1>4
      <4> QED
        BY <1>9
    <3>3. \A j \in 1..Len(p) : c[j] = p[j]
      BY <1>14 DEF JoinedAs
    <3> QED
      BY <2>1, <3>1, <3>2, <3>3
  <2>3. Len(c) > 0
    BY <2>1
  <2> QED
    BY <1>14, <2>2, <2>3
<1>16. /\ Kinds(a) /\ Kinds(b) /\ Kinds(d) /\ Kinds(e) /\ Kinds(f) /\ Kinds(h) /\ Kinds(k)
       /\ Fits(a) /\ Fits(b) /\ Fits(d) /\ Fits(e) /\ Fits(f) /\ Fits(h) /\ Fits(k)
  BY <1>1 DEF IsR, IsL, Kinds, Fits
<1>17. \A v \in V : /\ v.do \in Starts /\ v.bad = v.lost /\ v.bad \in {0, All} /\ v.do \notin Alters /\ v.do # "ready"
                    /\ Kinds(v) /\ Fits(v)
  BY <1>1, <1>4, <1>16 DEF IsR, IsL, Starts, Alters
<1>18. k.do \in Starts /\ k.bad = k.lost /\ k.bad \in {0, All} /\ k.do \notin Alters
  BY <1>1 DEF IsL, Starts, Alters
<1>19. Starting(c)
  BY <1>14, <1>15, <1>16, <1>17, <1>18 DEF Starting
<1>20. NoAlters(c)
  BY <1>15, <1>17, <1>18 DEF NoAlters
<1> QED
  BY <1>2, <1>5, <1>6, <1>7, <1>8, <1>10, <1>11, <1>19, <1>20

Launching(c) ==
    /\ Len(c) = 7 /\ c[4].do = "insert" /\ c[4].bad = 1 /\ c[5].do = "delete" /\ c[5].x = 1 /\ c[5].bad = 0
    /\ \A j \in 1..Len(c) : /\ c[j].do \in Alters => j \in {4, 5}
                            /\ j <= 5 => c[j].kind = "request"
                            /\ j < 4 => c[j].bad \in {0, All}

LEMMA LaunchStarts ==
  ASSUME NEW lines \in BOOLEAN
  PROVE  Starting(StartSession(FALSE, lines)) /\ Launching(StartSession(FALSE, lines))
<1> DEFINE a == R("set", 0, All)
           b == R("set", 0, 0)
           d == R("insert", 0, 1)
           e == R("delete", 1, 0)
           f == L("located", lines)
           k == L("ready", 0)
<1>1. /\ IsR(a, "set", 0, All) /\ IsR(b, "set", 0, 0) /\ IsR(d, "insert", 0, 1) /\ IsR(e, "delete", 1, 0)
      /\ IsL(f, "located", lines) /\ IsL(k, "ready", 0)
  BY Request, Local, DosAre, ArgumentsAre, Zenon
<1>2. StartSession(FALSE, lines) = <<a, b, b>> \o <<d, e, f, k>>
  BY DEF StartSession
<1> HIDE DEF a, b, d, e, f, k
<1>3. a \in Ops /\ b \in Ops /\ d \in Ops /\ e \in Ops /\ f \in Ops /\ k \in Ops
  BY <1>1 DEF IsR, IsL
<1>4. PICK x : x = <<a, b, b>> /\ x \in Seq(Ops) /\ x # <<>> /\ Len(x) = 3 /\ x[1] = a /\ x[2] = b /\ x[3] = b
  BY <1>3, ThreeOps
<1>5. PICK y : y = <<d, e, f, k>> /\ y \in Seq(Ops) /\ y # <<>> /\ Len(y) = 4 /\ y[1] = d /\ y[2] = e /\ y[3] = f /\ y[4] = k
  <2> DEFINE y == <<d, e, f, k>>
  <2>1. /\ y \in Seq(Ops) /\ y # <<>> /\ Len(y) = 4
        /\ y[1] = d /\ y[2] = e /\ y[3] = f /\ y[4] = k
    BY <1>3
  <2> HIDE DEF y
  <2>2. y = <<d, e, f, k>>
    BY DEF y
  <2> QED
    BY <2>1, <2>2, Zenon
<1>6. PICK c : c = StartSession(FALSE, lines)
  BY Zenon
<1>7. Joins(x, y, c)
  BY <1>2, <1>4, <1>5, <1>6, Zenon DEF Joins
<1>8. c \in Seq(Ops) /\ JoinedAs(x, y, c)
  BY <1>4, <1>5, <1>7, Joined
<1>9. Len(c) = 7 /\ c # <<>>
  BY <1>4, <1>5, <1>8 DEF JoinedAs
<1>10. c[1] = a /\ c[2] = b /\ c[3] = b /\ c[4] = d /\ c[5] = e /\ c[6] = f /\ c[7] = k
  <2>1. c[1] = x[1] /\ c[2] = x[2] /\ c[3] = x[3]
    BY <1>4, <1>8 DEF JoinedAs
  <2>2. c[3 + 1] = y[1] /\ c[3 + 2] = y[2] /\ c[3 + 3] = y[3] /\ c[3 + 4] = y[4]
    BY <1>4, <1>5, <1>8 DEF JoinedAs
  <2>3. c[4] = y[1] /\ c[5] = y[2] /\ c[6] = y[3] /\ c[7] = y[4]
    BY <2>2
  <2> QED
    BY <1>4, <1>5, <2>1, <2>3
<1>11. \A i \in 1..7 : i = 1 \/ i = 2 \/ i = 3 \/ i = 4 \/ i = 5 \/ i = 6 \/ i = 7
  OBVIOUS
<1>12. \A i \in 1..7 : \/ i < 4 /\ c[i] \in {a, b}
                       \/ i = 4 /\ c[i] = d
                       \/ i = 5 /\ c[i] = e
                       \/ i = 6 /\ c[i] = f
                       \/ i = 7 /\ c[i] = k
  BY <1>10, <1>11
<1>13. /\ Kinds(a) /\ Kinds(b) /\ Kinds(d) /\ Kinds(e) /\ Kinds(f) /\ Kinds(k)
       /\ Fits(a) /\ Fits(b) /\ Fits(d) /\ Fits(e) /\ Fits(f) /\ Fits(k)
  BY <1>1 DEF IsR, IsL, Kinds, Fits
<1>14. /\ a.do = "set" /\ b.do = "set" /\ d.do = "insert" /\ e.do = "delete" /\ f.do = "located" /\ k.do = "ready"
       /\ a.bad = All /\ b.bad = 0 /\ d.bad = 1 /\ e.bad = 0 /\ f.bad = 0 /\ k.bad = 0
       /\ a.lost = All /\ b.lost = 0 /\ d.lost = 1 /\ e.lost = 0 /\ f.lost = 0 /\ k.lost = 0
       /\ a.kind = "request" /\ b.kind = "request" /\ d.kind = "request" /\ e.kind = "request"
       /\ e.x = 1
  BY <1>1 DEF IsR, IsL
<1>15. \A i \in 1..7 : /\ c[i].do \in Starts /\ c[i].bad = c[i].lost /\ Kinds(c[i]) /\ Fits(c[i])
                       /\ c[i].do = "ready" => i = 7
                       /\ c[i].bad \in {0, All} \/ (c[i].bad = 1 /\ i + 1 < 7)
  BY <1>12, <1>13, <1>14 DEF Starts
<1>16. Starting(c)
  BY <1>8, <1>9, <1>15 DEF Starting
<1>17. \A j \in 1..7 : /\ c[j].do \in Alters => j \in {4, 5}
                       /\ j <= 5 => c[j].kind = "request"
                       /\ j < 4 => c[j].bad \in {0, All}
  BY <1>12, <1>14 DEF Alters
<1>18. Launching(c)
  BY <1>9, <1>10, <1>14, <1>17 DEF Launching
<1> QED
  BY <1>6, <1>16, <1>18, Zenon

(* What every session starts with. *)
Fixed == [attached |-> FALSE, state |-> "none", token |-> 0, rev |-> 1, symbols |-> 1, framesValid |-> FALSE,
          names |-> FALSE, changed |-> FALSE, defer |-> FALSE, sel |-> 0, source |-> FALSE, pc |-> {}, args |-> {},
          locals |-> {}, varsRev |-> 0, frames |-> {}, regs |-> {}, code |-> FALSE, breaks |-> {}, info |-> {},
          list |-> {}, cache |-> [rev |-> 0, address |-> {}, detail |-> {}], modules |-> {}, modulesRev |-> 0,
          sources |-> {}, sourcesRev |-> 0]

LEMMA FixedIs ==
  /\ Fixed \in Gs /\ Fixed.token = 0 /\ Fixed.rev = 1 /\ Fixed.symbols = 1 /\ Fixed.framesValid = FALSE /\ Fixed.args = {}
  /\ Fixed.locals = {} /\ Fixed.varsRev = 0 /\ Fixed.cache.rev = 0 /\ Fixed.cache.address = {} /\ Fixed.breaks = {}
  /\ Fixed.modulesRev = 0 /\ Fixed.sourcesRev = 0 /\ Fixed.state = "none" /\ Fixed.info = {} /\ Fixed.list = {}
<1>1. PICK no \in BOOLEAN : no = FALSE
  OBVIOUS
<1>2. PICK c \in Caches : c = [rev |-> 0, address |-> {}, detail |-> {}] /\ c.rev = 0 /\ c.address = {}
  <2> DEFINE c == [rev |-> 0, address |-> {}, detail |-> {}]
  <2>1. c \in Caches /\ c.rev = 0 /\ c.address = {}
    BY DEF Caches
  <2> QED
    BY <2>1
<1>3. Fixed = [attached |-> no, state |-> "none", token |-> 0, rev |-> 1, symbols |-> 1, framesValid |-> no,
          names |-> no, changed |-> no, defer |-> no, sel |-> 0, source |-> no, pc |-> {}, args |-> {},
          locals |-> {}, varsRev |-> 0, frames |-> {}, regs |-> {}, code |-> no, breaks |-> {}, info |-> {},
          list |-> {}, cache |-> c, modules |-> {}, modulesRev |-> 0,
          sources |-> {}, sourcesRev |-> 0]
  BY <1>1, <1>2, Zenon DEF Fixed
<1>4. /\ Fixed \in Gs /\ Fixed.token = 0 /\ Fixed.rev = 1 /\ Fixed.symbols = 1 /\ Fixed.framesValid = no /\ Fixed.args = {}
      /\ Fixed.locals = {} /\ Fixed.varsRev = 0 /\ Fixed.cache = c /\ Fixed.breaks = {}
      /\ Fixed.modulesRev = 0 /\ Fixed.sourcesRev = 0 /\ Fixed.state = "none" /\ Fixed.info = {} /\ Fixed.list = {}
  BY <1>3 DEF Gs, States
<1> QED
  BY <1>1, <1>2, <1>4, Zenon

LEMMA Nothing ==
  ASSUME NEW S, NEW c \in Seq(S), c = <<>>
  PROVE  Len(c) = 0 /\ \A i \in 1..Len(c) : FALSE
OBVIOUS

(* The first state. *)
LEMMA InitHolds ==
  ASSUME Init
  PROVE  Inv
<1>1. /\ cmds = <<>> /\ pipe = <<>> /\ buf = <<>> /\ want = 0 /\ late = 0 /\ phase = "start" /\ g = Fixed
      /\ keys = (IF gdb.async THEN 1 ELSE 0)
      /\ ui = [view |-> "main", code |-> "source", expanded |-> {}, drawn |-> FALSE,
               before |-> [state |-> "none", pc |-> {}]]
  BY Zenon DEF Init, SessionInit, Fixed
<1>2. PICK attach \in BOOLEAN, lines \in BOOLEAN :
        /\ gdb = [run |-> "none", async |-> attach, at |-> 0, frame |-> 0, mem |-> 0,
                  src |-> TRUE, bps |-> {}, next |-> 1, cut |-> FALSE, prints |-> 0, libs |-> 0]
        /\ todo = StartSession(attach, lines)
  BY Zenon DEF Init, SessionInit
<1>3. gdb \in Gdbs /\ gdb.run = "none" /\ gdb.bps = {} /\ gdb.next = 1 /\ gdb.cut = FALSE /\ gdb.at = 0
  <2>1. PICK no \in BOOLEAN, yes \in BOOLEAN : no = FALSE /\ yes = TRUE
    OBVIOUS
  <2>2. gdb = [run |-> "none", async |-> attach, at |-> 0, frame |-> 0, mem |-> 0,
               src |-> yes, bps |-> {}, next |-> 1, cut |-> no, prints |-> 0, libs |-> 0]
    BY <1>2, <2>1, Zenon
  <2>3. gdb \in Gdbs /\ gdb.run = "none" /\ gdb.bps = {} /\ gdb.next = 1 /\ gdb.cut = no /\ gdb.at = 0
    BY <2>2 DEF Gdbs, States
  <2> QED
    BY <2>1, <2>3, Zenon
<1>4. ui \in Uis /\ ui.expanded = {}
  <2>1. PICK no \in BOOLEAN : no = FALSE
    OBVIOUS
  <2>2. ui = [view |-> "main", code |-> "source", expanded |-> {}, drawn |-> no, before |-> [state |-> "none", pc |-> {}]]
    BY <1>1, <2>1, Zenon
  <2> QED
    BY <2>2 DEF Uis, States
<1>5. PICK q \in Seq(Records) : q = Stream /\ Len(q) = 0
  <2>1. Stream = <<>>
    BY <1>1 DEF Stream
  <2>2. <<>> \in Seq(Records) /\ Len(<<>>) = 0
    OBVIOUS
  <2> QED
    BY <2>1, <2>2, Zenon
<1>6. \A i \in 1..Len(q) : FALSE
  BY <1>5
<1>7. Len(cmds) = 0 /\ \A i \in 1..Len(cmds) : FALSE
  BY <1>1
<1>8. g \in Gs /\ g.token = 0 /\ g.rev = 1 /\ g.symbols = 1 /\ ~g.framesValid /\ g.args = {}
      /\ g.locals = {} /\ g.varsRev = 0 /\ g.cache.rev = 0 /\ g.cache.address = {} /\ g.breaks = {}
      /\ g.modulesRev = 0 /\ g.sourcesRev = 0 /\ g.state = "none" /\ g.info = {} /\ g.list = {}
  BY <1>1, FixedIs, Zenon
(* The steps of both kinds of session. *)
<1>9. Starting(todo)
  BY <1>2, AttachStarts, LaunchStarts, Zenon
<1>10. todo \in Seq(Ops) /\ todo # <<>>
  BY <1>9 DEF Starting
<1>11. Flow(todo) /\ Paired(todo)
       /\ ~NeedsInfo(todo, 1) /\ ~NeedsVars(todo, 1) /\ ~NeedsInvalid(todo, 1) /\ ~NeedsList(todo, 1) /\ ~HeadOnly(todo, 1)
  BY <1>9, StartingFlows
<1>12. \A i \in 1..Len(todo) : /\ todo[i].do \in Starts /\ Kinds(todo[i]) /\ Fits(todo[i])
                               /\ todo[i].do = "ready" => i = Len(todo)
  BY <1>9 DEF Starting
<1>13. Temporary(Stream) /\ \A i \in 1..Len(todo) : todo[i].do # "breaks"
  <2>1. \A i \in 1..Len(todo) : todo[i].do # "breaks"
    BY <1>12 DEF Starts
  <2>2. CASE attach = TRUE
    BY <1>2, <1>3, <2>1, <2>2, AttachStarts, Zenon DEF Temporary
  <2>3. CASE attach = FALSE
    <3>1. todo = StartSession(FALSE, lines)
      BY <1>2, <2>3, Zenon
    <3>2. /\ Len(todo) = 7 /\ todo[4].do = "insert" /\ todo[4].bad = 1 /\ todo[5].do = "delete" /\ todo[5].x = 1 /\ todo[5].bad = 0
          /\ \A j \in 1..Len(todo) : /\ todo[j].do \in Alters => j \in {4, 5}
                                     /\ j <= 5 => todo[j].kind = "request"
                                     /\ j < 4 => todo[j].bad \in {0, All}
      <4>1. Launching(todo)
        BY <3>1, LaunchStarts, Zenon
      <4> QED
        BY <4>1 DEF Launching
    <3>3. PICK i \in 1..Len(todo) : i = 4 /\ i # 1 /\ i + 1 = 5 /\ i < 7
      BY <3>2
    <3>4. Inserting(i)
      BY <3>2, <3>3 DEF Inserting
    <3> QED
      BY <1>3, <2>1, <3>3, <3>4, Zenon DEF Temporary
  <2> QED
    BY <2>1, <2>2, <2>3
<1>14. \A v : ~(v \in Current(g, ui))
  <2>1. g.varsRev # g.rev /\ g.cache.rev # g.rev
    BY <1>8
  <2>2. \A v : ~Kept(v, g, ui)
    BY <1>4, <2>1 DEF Kept
  <2> QED
    BY <2>2, CurrentIs
<1>15. Types
  <2>1. <<>> \in Seq(Commands) /\ <<>> \in Seq(Records)
    OBVIOUS
  <2>2. keys \in Nat
    BY <1>1
  <2> QED
    BY <1>1, <1>3, <1>4, <1>8, <1>10, <2>1, <2>2 DEF Types
<1>16. Commanded
  BY <1>1, <1>7, <1>8 DEF Commanded
<1>17. Phases
  BY <1>1, <1>3, <1>7, <1>12 DEF Phases, Starts, Leaving
<1>18. Stepping
  BY <1>1, <1>11 DEF Stepping
<1>19. Fitting(g)
  BY <1>7, <1>12 DEF Fitting, Starts
<1>20. Revisions(g, ui)
  BY <1>4, <1>8 DEF Revisions
<1>21. Tokens(q) /\ Asked(q) /\ Waited(q) /\ Tidings(q) /\ Fresh(q)
  BY <1>1, <1>3, <1>6, <1>7 DEF Tokens, Asked, Waited, Tidings, Fresh
<1>22. Believes(g, ui, q)
  <2>1. KeptTrue(g, ui)
    BY <1>8, <1>14 DEF KeptTrue
  <2>2. SymbolsTrue(g)
    BY <1>8 DEF SymbolsTrue
  <2> QED
    BY <1>3, <1>8, <2>1, <2>2 DEF Believes, Reported
<1>23. Unsettled(g, ui)
  BY <1>7 DEF Unsettled
<1>24. Ready(g, ui, q, todo)
  <2>1. todo[1].do # "revise" /\ todo[1].do # "address"
    <3>1. 1 \in 1..Len(todo)
      BY <1>10
    <3> QED
      BY <1>12, <3>1 DEF Starts
  <2> QED
    BY <1>11, <2>1 DEF Ready
<1>25. FrameTrue(g, ui, q)
  BY <1>14 DEF FrameTrue
<1>26. BreaksTrue(g, q)
  BY <1>1 DEF BreaksTrue
<1>27. Launch(g, q)
  BY <1>5, <1>6, <1>8, <1>13 DEF Launch
<1>28. Told(g, ui, Stream)
  BY <1>5, <1>19, <1>20, <1>21, <1>22, <1>23, <1>24, <1>25, <1>26, <1>27 DEF Told
<1> QED
  BY <1>15, <1>16, <1>17, <1>18, <1>28 DEF Inv

-----------------------------------------------------------------------------
(* Every step keeps the invariant                                           *)

LEMMA NextKeeps ==
  ASSUME Inv, Next
  PROVE  Inv'
<1>1. CASE (External \/ Send \/ Await \/ GiveUp \/ Settle \/ StartFailed) /\ UNCHANGED <<ui, keys>>
  BY <1>1, ExternalKeeps, SendKeeps, AwaitKeeps, GiveUpKeeps, SettleKeeps, StartFailedKeeps
<1>2. CASE LocalStep \/ Turn
  BY <1>2, LocalKeeps, TurnKeeps
<1>3. CASE KeyEscape \/ KeyEdit \/ KeySource
  BY <1>3, ShowKeys
<1>4. CASE KeyRun \/ KeyResume \/ KeyPrint \/ KeyReturn \/ KeyReturned
  BY <1>4, RunKeys
<1>5. CASE KeyBreak \/ KeyWatch \/ KeyCatch \/ KeyFunction \/ KeyBreaks \/ KeyBreakDelete \/ KeyBreakToggle
  BY <1>5, BreakKeys
<1>6. CASE KeyCondition
  BY <1>6, ConditionKey
<1>7. CASE KeyExpand \/ KeyInspect \/ KeyAssign \/ KeyFrame \/ KeyOpen \/ KeyAssembly \/ KeyFollowCall
  BY <1>7, LookKeys
<1>8. CASE KeyQuit
  BY <1>8, QuitKeeps
<1> QED
  BY <1>1, <1>2, <1>3, <1>4, <1>5, <1>6, <1>7, <1>8 DEF Next

LEMMA StutterKeeps ==
  ASSUME Inv, UNCHANGED vars
  PROVE  Inv'
<1>1. UNCHANGED <<gdb, cmds, pipe, buf, want, todo, g, phase, late, ui, keys>>
  BY DEF vars, session
<1>2. g' = g /\ ui' = ui /\ Stream' = Stream /\ Told(g, ui, Stream)
  BY <1>1 DEF Stream, Inv
<1>3. Told(g', ui', Stream')
  BY <1>2, Zenon
<1>4. Types'
  BY <1>1 DEF Inv, Types
<1> QED
  BY <1>1, <1>3, <1>4, OnlyRead

(* What is believed and kept agrees with GDB, but for what is still to be   *)
(* heard or done: the invariant that the theorems below rest on holds       *)
(* through every call, answer, news, refusal, time-out and key, those of    *)
(* gdb_transport.c, gdb.c, gdb_cache.c and app.c.                           *)
THEOREM SessionAgrees == Spec => []Inv
<1>1. Init => Inv
  BY InitHolds
<1>2. Inv /\ [Next]_vars => Inv'
  BY NextKeeps, StutterKeeps
<1> QED
  BY <1>1, <1>2, PTL DEF Spec

-----------------------------------------------------------------------------
(* What the invariant says of the properties                                *)

LEMMA AtMostOne ==
  ASSUME NEW S, \A v, w \in S : v = w
  PROVE  Cardinality(S) <= 1
<1>1. CASE S = {}
  BY <1>1, FS_EmptySet
<1>2. CASE S # {}
  <2>1. PICK v : v \in S
    BY <1>2
  <2>2. S = {v}
    BY <2>1
  <2> QED
    BY <2>2, FS_Singleton
<1> QED
  BY <1>1, <1>2

LEMMA TypeHolds ==
  ASSUME Inv
  PROVE  TypeOK
<1>1. Types /\ Commanded /\ Revisions(g, ui)
  BY DEF Inv, Told
<1>2. g \in Gs /\ phase \in {"start", "loop", "quit", "end"} /\ cmds \in Seq(Commands) /\ todo \in Seq(Ops)
  BY <1>1 DEF Types
<1>3. g.state \in {"none", "running", "stopped", "exited"}
  BY <1>2 DEF Gs, States
<1>4. want # 0 => want = g.token /\ todo # <<>> /\ Head(todo).kind = "request"
  BY <1>1, <1>2 DEF Commanded
<1>5. \A i \in 1..Len(cmds) : cmds[i].tok \in 1..g.token
  <2> SUFFICES ASSUME NEW i \in 1..Len(cmds) PROVE cmds[i].tok \in 1..g.token
    OBVIOUS
  <2>1. PICK t \in Nat, l \in Nat : t = g.token /\ l = Len(cmds)
    BY <1>2 DEF Gs
  <2>2. l <= t /\ cmds[i].tok = t - l + i
    BY <1>1, <2>1 DEF Commanded
  <2>3. t - l + i \in 1..t
    BY <2>1, <2>2
  <2> QED
    BY <2>1, <2>2, <2>3
<1>6. g.varsRev <= g.rev /\ g.cache.rev <= g.rev /\ g.modulesRev <= g.symbols /\ g.sourcesRev <= g.symbols
  BY <1>1 DEF Revisions
<1>7. Cardinality(g.args) <= 1 /\ Cardinality(g.cache.address) <= 1
  BY <1>1, AtMostOne DEF Revisions
<1> QED
  BY <1>2, <1>3, <1>4, <1>5, <1>6, <1>7 DEF TypeOK

LEMMA SelectedNone ==
  ASSUME NEW read \in Seq(Records), SelectInSeq(read, IsNews) = 0
  PROVE  \A i \in 1..Len(read) : ~IsNews(read[i])
<1> DEFINE I == {i \in 1..Len(read) : IsNews(read[i])}
<1>1. 0 = IF I # {} THEN Min(I) ELSE 0
  BY DEF SelectInSeq
<1>2. I \in SUBSET Nat
  OBVIOUS
<1>3. I # {} => Min(I) \in I
  <2> HIDE DEF I
  <2> QED
    BY <1>2, MinIn
<1> QED
  BY <1>1, <1>3

(* When all is quiet no news is to come, and nothing is left of a call. *)
LEMMA QuietHas ==
  ASSUME Inv, Quiet
  PROVE  /\ NoState(Stream, 0) /\ NoLib(Stream, 0) /\ gdb.run # "gone" /\ todo = <<>> /\ phase = "loop"
         /\ Told(g, ui, Stream) /\ g \in Gs /\ ui \in Uis
<1>1. Types /\ Phases /\ Told(g, ui, Stream)
  BY DEF Inv
<1>2. todo = <<>> /\ phase = "loop" /\ SelectInSeq(pipe, IsNews) = 0 /\ SelectInSeq(buf, IsNews) = 0
  BY DEF Quiet, Idle
<1>3. pipe \in Seq(Records) /\ buf \in Seq(Records) /\ g \in Gs /\ ui \in Uis
  BY <1>1 DEF Types
<1>4. (\A i \in 1..Len(pipe) : ~IsNews(pipe[i])) /\ (\A i \in 1..Len(buf) : ~IsNews(buf[i]))
  BY <1>2, <1>3, SelectedNone
<1>5. Joins(buf, pipe, Stream)
  BY DEF Joins, Stream
<1>6. Stream \in Seq(Records) /\ JoinedAs(buf, pipe, Stream)
  BY <1>3, <1>5, Joined
<1>7. \A i \in 1..Len(Stream) : Stream[i].k = "result"
  <2> SUFFICES ASSUME NEW i \in 1..Len(Stream) PROVE Stream[i].k = "result"
    OBVIOUS
  <2>1. Len(buf) \in Nat /\ Len(pipe) \in Nat /\ Len(Stream) = Len(buf) + Len(pipe)
    BY <1>3, <1>6 DEF JoinedAs
  <2>2. CASE i \in 1..Len(buf)
    BY <1>4, <1>6, <2>2 DEF JoinedAs, IsNews
  <2>3. CASE i \notin 1..Len(buf)
    <3>1. PICK j \in 1..Len(pipe) : i = Len(buf) + j
      <4>1. i - Len(buf) \in 1..Len(pipe) /\ i = Len(buf) + (i - Len(buf))
        BY <2>1, <2>3
      <4> QED
        BY <4>1
    <3>2. Stream[i] = pipe[j]
      BY <1>6, <3>1 DEF JoinedAs
    <3> QED
      BY <1>4, <3>2 DEF IsNews
  <2> QED
    BY <2>2, <2>3
<1>8. NoState(Stream, 0) /\ NoLib(Stream, 0)
  BY <1>7 DEF NoState, NoLib, StateNews, LibNews
<1> QED
  BY <1>1, <1>2, <1>3, <1>8 DEF Phases

LEMMA StateHolds ==
  ASSUME Inv
  PROVE  StateAgrees
<1> SUFFICES ASSUME Quiet PROVE g.state = Reported(gdb.run)
  BY DEF StateAgrees
<1> QED
  BY QuietHas DEF Told, Believes

LEMMA CurrentHolds ==
  ASSUME Inv
  PROVE  CurrentIsTrue
<1> SUFFICES ASSUME Quiet
             PROVE  /\ \A v \in Current(g, ui) : /\ [v EXCEPT !.frame = gdb.frame] = Now(gdb)
                                                 /\ late = 0 => v.frame = gdb.frame
                    /\ g.framesValid => g.frames \subseteq {gdb.at}
                    /\ gdb.prints = 0 => /\ g.modulesRev = g.symbols => g.modules \subseteq {gdb.libs}
                                         /\ g.sourcesRev = g.symbols => g.sources \subseteq {gdb.libs}
  BY DEF CurrentIsTrue
<1>1. /\ NoState(Stream, 0) /\ NoLib(Stream, 0) /\ todo = <<>> /\ Believes(g, ui, Stream) /\ FrameTrue(g, ui, Stream)
      /\ g \in Gs /\ ui \in Uis
  BY QuietHas DEF Told
<1>2. KeptTrue(g, ui) /\ (gdb.prints = 0 => SymbolsTrue(g))
  BY <1>1 DEF Believes
<1>3. late = 0 => \A v \in Current(g, ui) : v.frame = gdb.frame
  BY <1>1 DEF FrameTrue, FrameOwed
<1>4. ASSUME NEW v \in Current(g, ui)
      PROVE  [v EXCEPT !.frame = gdb.frame] = Now(gdb)
  <2>1. Kept(v, g, ui)
    BY CurrentIs
  <2>2. v \in Nows
    <3>1. g.args \subseteq Nows /\ g.locals \subseteq Nows /\ g.cache.address \subseteq Nows /\ g.cache.detail \subseteq Nows
      BY <1>1 DEF Gs, Caches
    <3>2. \A e \in ui.expanded : e.val \subseteq Nows
      BY <1>1 DEF Uis
    <3> QED
      BY <2>1, <3>1, <3>2 DEF Kept
  <2>3. v.at = gdb.at /\ v.mem = gdb.mem /\ v.src = gdb.src
    BY <1>2 DEF KeptTrue, Alike
  <2> QED
    BY <2>2, <2>3 DEF Nows, Now
<1>5. g.framesValid => g.frames \subseteq {gdb.at}
  BY <1>2 DEF KeptTrue
<1>6. gdb.prints = 0 => /\ g.modulesRev = g.symbols => g.modules \subseteq {gdb.libs}
                        /\ g.sourcesRev = g.symbols => g.sources \subseteq {gdb.libs}
  BY <1>2 DEF SymbolsTrue
<1> QED
  BY <1>3, <1>4, <1>5, <1>6

LEMMA BreaksHold ==
  ASSUME Inv
  PROVE  BreaksAgree
<1> SUFFICES ASSUME Quiet, late = 0 PROVE g.breaks = gdb.bps
  BY DEF BreaksAgree
<1> QED
  BY QuietHas DEF Told, BreaksTrue, BreaksOwed

-----------------------------------------------------------------------------
(* The properties                                                           *)

(* Every part of the session is of its kind, whatever is read, answered,    *)
(* refused, given up or typed: the command that is waited for is the newest *)
(* one (send_cmd, wait_result), no revision that something is kept under is *)
(* ahead of the current one (gdb_cache.c), and one frame's variables and    *)
(* one address are kept.                                                    *)
THEOREM TypesHold == Spec => []TypeOK
BY SessionAgrees, TypeHolds, PTL

(* With nothing left unread gd's state is the program's, except that it     *)
(* takes the end of a killed program for a stop: no order of answers, news  *)
(* and refusals, no request given up and no text of the program's own makes *)
(* handle_async and the calls of gdb.c disagree with GDB for good.          *)
THEOREM StateIsTheProgram == Spec => []StateAgrees
BY SessionAgrees, StateHolds, PTL

(* What is kept under the current revision (gdb_cache.c, refresh_context)   *)
(* is what GDB has now, and of the selected frame unless a request was      *)
(* given up; so are the stack, the modules and the sources.                 *)
THEOREM CurrentIsNow == Spec => []CurrentIsTrue
BY SessionAgrees, CurrentHolds, PTL

(* The breakpoints that gd lists are GDB's whenever a call is over, unless  *)
(* a request was given up: every call that changes them lists them again,   *)
(* and the temporary one of a launched session is gone before its loop      *)
(* begins.                                                                  *)
THEOREM BreaksAreListed == Spec => []BreaksAgree
BY SessionAgrees, BreaksHold, PTL
=============================================================================
