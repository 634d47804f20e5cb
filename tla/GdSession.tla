------------------------------- MODULE GdSession -------------------------------
(***************************************************************************)
(* gd's session with GDB: the MI transport of gdb_transport.c, the calls   *)
(* of gdb.c and the caches of gdb_cache.c.                                 *)
(*                                                                         *)
(* gd has one thread.  A call sends numbered commands one after the other  *)
(* and waits for the answer to each, and while it waits it handles every   *)
(* other record it reads.  `todo' is what is left of the call under way:   *)
(* requests, each answered, refused or given up after five seconds, and    *)
(* local steps.  Between two requests GDB works through its queue and the  *)
(* program runs on; local steps touch nothing GDB reads, so GDB's steps    *)
(* are not interleaved with them.                                          *)
(*                                                                         *)
(* GDB is external.  Its answer to a request carries what it knew when it  *)
(* answered; it serves a launched program's session only while the program *)
(* is not running, an attached one's always (mi-async).                    *)
(***************************************************************************)
EXTENDS Integers, Sequences, SequencesExt, FiniteSets

CONSTANTS Lines,      \* source lines that may get a breakpoint
          MaxStops,   \* how often the program stops
          MaxTrouble  \* requests given up, texts without a line end that the program prints
                \* and shared libraries it loads, all together

ASSUME SessionAssumption ==
    /\ IsFiniteSet(Lines)
    /\ {MaxStops, MaxTrouble} \subseteq Nat

VARIABLES
    gdb,    \* GDB and its program
    cmds,   \* commands written to GDB and not yet served
    pipe,   \* records GDB has written and gd has not read
    buf,    \* complete records in g->readbuf
    want,   \* the token wait_result waits for, 0 if none
    todo,   \* what is left of the call under way
    g,      \* struct Gdb
    phase,  \* "start", "loop", "quit" or "end"
    late    \* requests given up so far

external == <<gdb, cmds, pipe>>
session == <<gdb, cmds, pipe, buf, want, todo, g, phase, late>>

Trouble == late + gdb.prints + gdb.libs

All == 99   \* drops the rest of the call

(* A request: its command and argument, and how many of the following     *)
(* steps a refusal or a time-out drops.                                    *)
R(do, x, bad) == [kind |-> "request", do |-> do, x |-> x, bad |-> bad, lost |-> bad]
L(do, x) == [kind |-> "local", do |-> do, x |-> x, bad |-> 0, lost |-> 0]

(***************************************************************************)
(* GDB and the program, as gd's requests and handlers rely on them.        *)
(***************************************************************************)
Now(d) == [at |-> d.at, frame |-> d.frame, mem |-> d.mem, src |-> d.src]
HasSource(now) == now.frame = 1 \/ now.src
Record(k, tok, do, ok, d) == [k |-> k, tok |-> tok, do |-> do, ok |-> ok, cut |-> FALSE,
                              now |-> Now(d), bps |-> d.bps, libs |-> d.libs]
News(k, d) == Record(k, 0, "", TRUE, d)

(* A text without a line end is glued to the next record.                  *)
Emit(records, cut) == pipe' = pipe \o IF cut THEN <<[Head(records) EXCEPT !.cut = TRUE]>> \o Tail(records)
                                             ELSE records

NeedsStop == {"args", "locals", "frame", "frames", "names", "regs", "var", "children", "address", "eval", "read", "assign",
              "select", "return", "typed", "exec"}
(* Without a process, an expression may still be served from the program's *)
(* file.                                                                   *)
FromFile == {"var", "children", "address", "eval", "read"}
Answers(c, d) ==
    LET Ok(e, after) == [ok |-> TRUE, d |-> e, after |-> after]
        Refused == [ok |-> FALSE, d |-> d, after |-> <<>>]
        Running(e) == [e EXCEPT !.run = "running"]
    IN  IF c.do \in NeedsStop /\ d.run # "stopped"
        THEN {Refused} \cup (IF c.do \in FromFile /\ d.run = "killed" THEN {Ok(d, <<>>)} ELSE {}) ELSE
        CASE c.do = "exec" -> {Ok(Running(d), <<News("running", Running(d))>>)}
          [] c.do = "run" -> IF d.run \in {"none", "exited", "killed"}
                             THEN {Ok(Running(d), <<News("group", d), News("running", Running(d))>>)}
                             ELSE {Refused}
          [] c.do = "attach" -> LET e == [d EXCEPT !.run = "stopped", !.at = 1]
                                IN  {Refused, Ok(e, <<News("stopped", e)>>)}
          [] c.do = "select" -> {Ok([d EXCEPT !.frame = c.x], <<>>)}
          [] c.do = "assign" -> {Refused, Ok([d EXCEPT !.mem = @ + 1], <<>>)}
          [] c.do = "eval" -> {Refused, Ok(d, <<>>), Ok([d EXCEPT !.mem = @ + 1], <<>>)}
          [] c.do = "return" -> {Refused, Ok([d EXCEPT !.frame = 0, !.mem = @ + 1, !.src = TRUE], <<>>)}
          [] c.do = "typed" -> {Refused}
          [] c.do = "insert" -> {Refused, Ok([d EXCEPT !.bps = @ \cup {[n |-> d.next, line |-> c.x, on |-> TRUE]},
                                                       !.next = @ + 1], <<>>)}
          [] c.do = "delete" -> IF \E b \in d.bps : b.n = c.x
                                THEN {Ok([d EXCEPT !.bps = {b \in @ : b.n # c.x}], <<>>)} ELSE {Refused}
          [] c.do = "toggle" -> IF \E b \in d.bps : b.n = c.x
                                THEN {Ok([d EXCEPT !.bps = {IF b.n = c.x THEN [b EXCEPT !.on = ~@] ELSE b : b \in @}],
                                         <<>>)} ELSE {Refused}
          [] c.do = "disassemble" -> {Refused, Ok(d, <<>>)}
          [] c.do \in {"detach", "exit"} -> {Ok([d EXCEPT !.run = "gone"], <<>>)}
          [] OTHER -> {Ok(d, <<>>)}

(* GDB takes the next command.                                             *)
Serve ==
    /\ cmds # <<>>
    /\ gdb.run = "running" => gdb.async
    /\ LET c == Head(cmds)
       IN  \E r \in Answers(c, gdb) :
             /\ gdb' = r.d
             /\ pipe' = pipe \o <<Record("result", c.tok, c.do, r.ok, r.d)>> \o r.after
    /\ cmds' = Tail(cmds)
    /\ UNCHANGED <<buf, want, todo, g, phase, late>>

(* The program stops: at a breakpoint, at the end of a step, by a signal.  *)
Stop ==
    /\ gdb.run = "running" /\ gdb.at < MaxStops
    /\ \E src \in BOOLEAN :
         LET d == [gdb EXCEPT !.run = "stopped", !.at = @ + 1, !.frame = 0, !.src = src, !.cut = FALSE]
         IN  gdb' = d /\ Emit(<<News("stopped", d)>>, gdb.cut)
    /\ UNCHANGED <<cmds, buf, want, todo, g, phase, late>>

(* The program ends by itself, or a signal kills it: then nothing that was *)
(* shown of it is so any more.                                             *)
Exit ==
    /\ gdb.run = "running"
    /\ \E end \in {"exited", "killed"} :
         LET d == [gdb EXCEPT !.run = end, !.at = IF end = "killed" THEN @ + 1 ELSE @, !.cut = FALSE]
         IN  gdb' = d /\ Emit(<<News("group", d), News(end, d)>>, gdb.cut)
    /\ UNCHANGED <<cmds, buf, want, todo, g, phase, late>>

(* A launched program writes into GDB's own pipe.                          *)
Write ==
    /\ gdb.run = "running" /\ ~gdb.async /\ ~gdb.cut /\ Trouble < MaxTrouble
    /\ gdb' = [gdb EXCEPT !.cut = TRUE, !.prints = @ + 1]
    /\ UNCHANGED <<cmds, pipe, buf, want, todo, g, phase, late>>

LoadLibrary ==
    /\ gdb.run = "running" /\ Trouble < MaxTrouble
    /\ LET d == [gdb EXCEPT !.libs = @ + 1, !.cut = FALSE]
       IN  gdb' = d /\ Emit(<<News("library", d)>>, gdb.cut)
    /\ UNCHANGED <<cmds, buf, want, todo, g, phase, late>>

Waiting == todo # <<>> => (want # 0 \/ Head(todo).do \in {"settle", "settled"})
External == Waiting /\ (Serve \/ Stop \/ Exit \/ Write \/ LoadLibrary)

(***************************************************************************)
(* The records gd handles, and its caches.                                 *)
(***************************************************************************)
InvalidateValues(s) == [s EXCEPT !.rev = @ + 1, !.framesValid = FALSE]
InvalidateSymbols(s) == [s EXCEPT !.symbols = @ + 1]

(* gdb_cache drops what was kept under an older revision.                  *)
Cached(s) == IF s.cache.rev = s.rev THEN s ELSE [s EXCEPT !.cache = [rev |-> s.rev, address |-> {}, detail |-> {}]]

(* A fault: a stop is looked for at the start of the line only.           *)
HandleAsyncAtStart(s, r) ==
    CASE r.cut -> s
      [] r.k \in {"library", "group"} -> InvalidateSymbols(s)
      [] r.k \in {"running", "stopped", "killed", "exited"} ->
           [InvalidateValues(s) EXCEPT !.state = IF r.k = "killed" THEN "stopped" ELSE r.k, !.changed = TRUE, !.sel = 0]
      [] OTHER -> s

(* handle_async.  A running or stopped record is looked for anywhere in    *)
(* the line, the others at its start only.  The end of a killed program    *)
(* (exited-signalled) is no end for gd but a stop without a place.         *)
HandleAsync(s, r) ==
    CASE r.k = "library" /\ ~r.cut -> InvalidateSymbols(s)
      [] r.k = "group" /\ ~r.cut -> [InvalidateSymbols(s) EXCEPT !.names = FALSE]
      [] r.k = "running" -> [InvalidateValues(s) EXCEPT !.state = "running", !.changed = TRUE]
      [] r.k = "exited" -> [InvalidateValues(s) EXCEPT !.state = "exited", !.changed = TRUE]
      [] r.k \in {"stopped", "killed"} -> [InvalidateValues(s) EXCEPT !.state = "stopped", !.changed = TRUE, !.sel = 0,
                                                                      !.source = r.k = "stopped" /\ HasSource(r.now)]
      [] OTHER -> s

HandleAll(s, records) == FoldLeft(HandleAsync, s, records)

(***************************************************************************)
(* A request: send_cmd and wait_result.                                    *)
(***************************************************************************)
Send ==
    /\ todo # <<>> /\ Head(todo).kind = "request" /\ want = 0
    /\ g' = [g EXCEPT !.token = @ + 1]
    /\ want' = g'.token
    /\ cmds' = Append(cmds, [tok |-> g'.token, do |-> Head(todo).do, x |-> Head(todo).x])
    /\ UNCHANGED <<gdb, pipe, buf, todo, phase, late>>

Drop(n) == IF n = All THEN <<>> ELSE SubSeq(todo, 2 + n, Len(todo))

(* What the call does with the answer to its request.                      *)
Accept(s, op, r) ==
    CASE op.do \in {"exec", "run"} -> [s EXCEPT !.state = "running", !.changed = TRUE]
      [] op.do = "attach" -> [s EXCEPT !.attached = TRUE]
      [] op.do = "select" -> [s EXCEPT !.sel = op.x]
      [] op.do = "frame" -> [s EXCEPT !.sel = r.now.frame, !.pc = {r.now}]
      [] op.do = "args" -> [s EXCEPT !.args = {r.now}]
      [] op.do = "locals" -> [s EXCEPT !.locals = {r.now}]
      [] op.do = "frames" -> [s EXCEPT !.framesValid = TRUE, !.frames = {r.now.at}]
      [] op.do = "names" -> [s EXCEPT !.names = TRUE]
      [] op.do = "regs" -> [s EXCEPT !.regs = {r.now}]
      [] op.do = "disassemble" -> [s EXCEPT !.code = TRUE]
      [] op.do = "breaks" -> [s EXCEPT !.breaks = r.bps, !.changed = TRUE]
      [] op.do = "address" -> [s EXCEPT !.cache.address = @ \cup {r.now}]
      [] op.do \in {"var", "children"} -> [s EXCEPT !.info = {r.now}]
      [] op.do \in {"functions", "sources", "modules"} -> [s EXCEPT !.list = {r.libs}]
      [] OTHER -> s

Refuse(s, op) ==
    CASE op.do = "regs" -> [s EXCEPT !.names = FALSE]
      [] op.do = "children" -> [s EXCEPT !.info = {}]
      [] OTHER -> s

Own(r) == r.k = "result" /\ r.tok = want /\ ~r.cut

(* One read of wait_result: the records before the own result are handled, *)
(* the ones after it stay in the buffer.                                   *)
Await ==
    /\ want # 0
    /\ \E n \in 1..Len(pipe) :
         LET read == buf \o SubSeq(pipe, 1, n)
             own == SelectInSeq(read, Own)
             op == Head(todo)
         IN  /\ pipe' = SubSeq(pipe, n + 1, Len(pipe))
             /\ IF own = 0
                THEN /\ g' = HandleAll(g, read)
                     /\ buf' = <<>>
                     /\ UNCHANGED <<want, todo>>
                ELSE LET s == HandleAll(g, SubSeq(read, 1, own - 1))
                     IN  /\ buf' = SubSeq(read, own + 1, Len(read))
                         /\ want' = 0
                         /\ IF read[own].ok
                            THEN g' = Accept(s, op, read[own]) /\ todo' = Tail(todo)
                            ELSE g' = Refuse(s, op) /\ todo' = Drop(op.bad)
    /\ UNCHANGED <<gdb, cmds, phase, late>>

(* A fault: the token of a request given up is still waited for.          *)
GiveUpWaiting ==
    /\ want # 0 /\ Trouble < MaxTrouble
    /\ late' = late + 1
    /\ todo' = Drop(Head(todo).lost)
    /\ UNCHANGED <<gdb, cmds, pipe, buf, want, g, phase>>

(* Five seconds pass without the result.                                   *)
GiveUp ==
    /\ want # 0 /\ Trouble < MaxTrouble
    /\ ~ \E i \in 1..Len(pipe) : Own(pipe[i])
    /\ late' = late + 1
    /\ want' = 0
    /\ g' = Refuse(g, Head(todo))
    /\ todo' = Drop(Head(todo).lost)
    /\ UNCHANGED <<gdb, cmds, pipe, buf, phase>>

(***************************************************************************)
(* The calls of gdb.c as lists of steps.                                   *)
(***************************************************************************)
RefreshBreakpoints == <<R("breaks", 0, 0)>>
ExecSimple(cmd) == <<L("invalidate", 0), R(cmd, 0, 0)>>
SelectFrame(level) == <<R("select", level, All), L("context", FALSE)>>
BreakAt(line) == <<R("insert", line, All)>> \o RefreshBreakpoints
(* A fault: the entry is only taken off the screen.                       *)
DeleteBreakpointQuietly(n) == <<R("delete", n, All)>>
DeleteBreakpoint(n) == <<R("delete", n, All)>> \o RefreshBreakpoints
EnableBreakpoint(n) == <<R("toggle", n, All)>> \o RefreshBreakpoints
ToggleBreakpoint(line) == LET here == {b \in g.breaks : b.line = line}
                          IN  IF here # {} THEN DeleteBreakpoint((CHOOSE b \in here : TRUE).n) ELSE BreakAt(line)
(* Function, address, watch and catch points.                              *)
SetFunctionBreakpoint(line) == BreakAt(line)
ToggleAddressBreakpoint(line) == ToggleBreakpoint(line)
Watch == BreakAt(0)
SetCatchpoint(line) == <<R("insert", line, All)>> \o RefreshBreakpoints
ListCatchCandidates == <<R("complete", 0, 0)>>
ScopeCandidates == <<R("scope", 0, 0)>>
(* A fault: what is kept stays current when an expression is evaluated.   *)
PrintExpressionKept == <<R("eval", 0, All)>>
(* What the user types may change the program; what was assigned to is     *)
(* only read back.                                                         *)
PrintExpression == <<L("invalidate", 0), R("eval", 0, All)>>
AssignExpression == <<L("invalidate", 0), R("assign", 0, All), L("context", TRUE), R("read", 0, All)>>
ReturnType == <<R("var", 0, All), R("vardelete", 0, 0)>>
(* Without type information GDB refuses `return VALUE', and the value is   *)
(* put into rax after a return without one.                                *)
ForceReturn(raw) == <<L("invalidate", 0)>> \o
                    IF raw THEN <<[R("typed", 0, 0) EXCEPT !.lost = All], R("return", 0, All), L("context", TRUE)>> \o AssignExpression
                           ELSE <<R("return", 0, All), L("context", TRUE)>>
(* The variable object is deleted, whether its children came or not.       *)
ListChildren(bad) == <<R("var", 0, bad + 2), R("children", 0, 0), R("vardelete", 0, 0)>>
(* An address without a function is refused, and its surroundings asked    *)
(* for instead.                                                            *)
DisassembleAt == <<L("nocode", 0), R("disassemble", 0, 0), L("around", 0)>>
Disassemble == IF g.pc = {} THEN <<L("nocode", 0)>> ELSE DisassembleAt
RefreshVariables == <<L("novars", 0)>> \o (IF g.source THEN <<R("args", 0, 0), R("locals", 0, 0)>> ELSE <<>>)
                    \o <<L("vars", 0)>>
RefreshRegisters == <<L("noregs", 0)>> \o (IF g.names THEN <<>> ELSE <<R("names", 0, 1)>>) \o <<R("regs", 0, 0)>>
(* refresh_context: what is decided when it begins, and what later.        *)
Context(full) ==
    LET keep == ~full /\ g.framesValid
    IN  <<L("revise", keep), R("frame", 0, 0), L("placed", 0), L("variables", 0)>>
        \o (IF keep THEN <<>> ELSE <<L("noframes", 0), R("frames", 0, 0)>>)
        \o <<L("registers", 0), L("listing", 0)>>
        \o (IF full \/ ~keep THEN RefreshBreakpoints ELSE <<>>)
        \o <<L("changed", 0)>>
Refresh == <<L("context", TRUE)>>
(* A kept answer is used, or asked for and kept.                           *)
ExpressionAddress == IF g.state = "stopped" /\ Cached(g).cache.address = {} THEN <<R("address", 0, 0)>> ELSE <<>>
(* A pointer is followed, another variable's own address asked for; one    *)
(* that was optimized out has neither and is not kept.                     *)
InspectAddress(what) ==
    IF Cached(g).cache.detail # {} THEN <<>>
    ELSE <<R("var", 0, All), R("vardelete", 0, 0)>>
         \o CASE what = "pointer" -> <<R("read", 0, 0), L("detail", 0)>>
              [] what = "value" -> <<L("address", 0), L("detail", 0)>>
              [] what = "nowhere" -> <<>>
ListModules == IF g.modules # {} /\ g.modulesRev = g.symbols THEN <<>> ELSE <<R("modules", 0, 1), L("modules", 0)>>
ListFunctions == <<R("functions", 0, All), L("ranges", 0)>>
ListSources == IF g.sources # {} /\ g.sourcesRev = g.symbols THEN <<>> ELSE <<R("sources", 0, 1), L("sources", 0)>>
Shutdown == (IF g.attached /\ g.state # "exited"
             THEN (IF g.state = "running" THEN <<R("interrupt", 0, 0), L("settle", 0)>> ELSE <<>>) \o <<R("detach", 0, 0)>>
             ELSE <<>>) \o <<R("exit", 0, 0), L("closed", 0)>>
StartSession(attach, lines) ==
    <<R("set", 0, All), R("set", 0, 0), R("set", 0, 0)>>
    \o IF attach THEN <<R("set", 0, All), R("attach", 0, All), L("settled", 0), L("attached", 0)>> \o Refresh
                      \o <<L("ready", 0)>>
       ELSE <<R("insert", 0, 1), R("delete", 1, 0), L("located", lines), L("ready", 0)>>

(* A local step: what it makes of struct Gdb, and the steps it unfolds to. *)
Effect(op) ==
    CASE op.do = "invalidate" -> InvalidateValues(g)
      [] op.do = "rerun" -> [InvalidateSymbols(g) EXCEPT !.names = FALSE]
      [] op.do = "revise" -> [InvalidateValues(g) EXCEPT !.framesValid = op.x, !.pc = {}]
      [] op.do = "placed" -> [g EXCEPT !.source = g.pc # {} /\ \A p \in g.pc : HasSource(p)]
      [] op.do = "located" -> [g EXCEPT !.source = op.x]
      [] op.do = "novars" -> [g EXCEPT !.args = {}, !.locals = {}]
      [] op.do = "vars" -> [g EXCEPT !.varsRev = g.rev]
      [] op.do = "noframes" -> [g EXCEPT !.frames = {}]
      [] op.do = "noregs" -> [g EXCEPT !.regs = {}]
      [] op.do = "nocode" -> [g EXCEPT !.code = FALSE]
      [] op.do = "changed" -> [g EXCEPT !.changed = TRUE]
      [] op.do = "inspect" -> Cached(g)
      [] op.do = "address" -> Cached(g)
      [] op.do = "detail" -> [g EXCEPT !.cache.detail = g.info]
      [] op.do = "modules" -> [g EXCEPT !.modules = g.list, !.modulesRev = g.symbols]
      [] op.do = "sources" -> [g EXCEPT !.sources = g.list, !.sourcesRev = g.symbols]
      [] op.do = "ready" -> [g EXCEPT !.defer = TRUE]
      [] OTHER -> g

Unfold(op) ==
    CASE op.do = "context" -> Context(op.x)
      [] op.do = "variables" -> RefreshVariables
      [] op.do = "registers" -> RefreshRegisters
      [] op.do = "listing" -> IF ~g.defer \/ ~g.source THEN Disassemble ELSE <<L("nocode", 0)>>
      [] op.do = "around" -> IF ~g.code THEN <<R("disassemble", 0, 0)>> ELSE <<>>
      [] op.do = "inspect" -> InspectAddress(op.x)
      [] op.do = "address" -> ExpressionAddress
      [] op.do = "ranges" -> ListModules
      [] op.do = "catalogue" -> ListSources
      [] OTHER -> <<>>

PhaseAfter(op) == CASE op.do = "ready" -> "loop" [] op.do = "closed" -> "end" [] OTHER -> phase

(***************************************************************************)
(* gdb_poll: what a read left behind comes first, and a stop it tells of   *)
(* refreshes everything.                                                   *)
(***************************************************************************)
PollWith(s, n, then) ==
    LET read == IF buf # <<>> THEN buf ELSE SubSeq(pipe, 1, n)
        after == HandleAll(s, read)
    IN  /\ buf' = <<>>
        /\ pipe' = IF buf # <<>> THEN pipe ELSE SubSeq(pipe, n + 1, Len(pipe))
        /\ g' = after
        /\ todo' = (IF read # <<>> /\ after.changed /\ after.state = "stopped" THEN Refresh ELSE <<>>) \o then

(* gdb_attach waits for the stop, gdb_shutdown for the end of the running; *)
(* either stops waiting after five seconds.                                *)
Settled(op) == IF op.do = "settle" THEN g.state # "running" ELSE g.state = "stopped"
Settle ==
    /\ todo # <<>> /\ Head(todo).do \in {"settle", "settled"} /\ want = 0
    /\ \/ /\ Settled(Head(todo))
          /\ todo' = Tail(todo)
          /\ UNCHANGED <<pipe, buf, g, late>>
       \/ /\ ~Settled(Head(todo))
          /\ \E n \in 1..Len(pipe) \cup (IF buf # <<>> THEN {0} ELSE {}) : PollWith(g, n, todo)
          /\ UNCHANGED late
       \/ /\ ~Settled(Head(todo)) /\ buf = <<>> /\ pipe = <<>> /\ Trouble < MaxTrouble
          /\ late' = late + 1
          /\ todo' = IF Head(todo).do = "settle" THEN Tail(todo) ELSE <<>>
          /\ UNCHANGED <<pipe, buf, g>>
    /\ UNCHANGED <<gdb, cmds, want, phase>>

(* start_session failed: the application shuts the session down.           *)
StartFailed ==
    /\ phase = "start" /\ todo = <<>>
    /\ phase' = "quit"
    /\ todo' = Shutdown
    /\ UNCHANGED <<external, buf, want, g, late>>

SessionInit ==
    /\ cmds = <<>> /\ pipe = <<>> /\ buf = <<>> /\ want = 0 /\ late = 0 /\ phase = "start"
    /\ g = [attached |-> FALSE, state |-> "none", token |-> 0, rev |-> 1, symbols |-> 1, framesValid |-> FALSE,
            names |-> FALSE, changed |-> FALSE, defer |-> FALSE, sel |-> 0, source |-> FALSE, pc |-> {}, args |-> {},
            locals |-> {}, varsRev |-> 0, frames |-> {}, regs |-> {}, code |-> FALSE, breaks |-> {}, info |-> {},
            list |-> {}, cache |-> [rev |-> 0, address |-> {}, detail |-> {}], modules |-> {}, modulesRev |-> 0,
            sources |-> {}, sourcesRev |-> 0]
    /\ \E attach, lines \in BOOLEAN :
         /\ gdb = [run |-> "none", async |-> attach, at |-> 0, frame |-> 0, mem |-> 0,
                   src |-> TRUE, bps |-> {}, next |-> 1, cut |-> FALSE, prints |-> 0, libs |-> 0]
         /\ todo = StartSession(attach, lines)
================================================================================
