# linux_tools: specifications, model checking and proofs

TLA+ specifications of the parts of linux_tools whose correctness depends on
the order of things: processes that die while they are looked up, files that
change while events about them are queued, signals that arrive while a daemon
starts, answers that come after a debugger has been given up on, traces whose
lines are torn apart, tests that reboot the machine they run on. Each
specification is translated from the C source; TLC checks it on small
instances, TLAPS proves theorems about it for all values of its constants.

## 1. The system

linux_tools is a collection of terminal tools for Linux, each a program of its
own; they share no code, and no state but the kernel's.

| Component | State | Operations | Interacts with | Hard behaviour |
|---|---|---|---|---|
| **lifewatch: process monitor** (`lifewatch.c`) | `ProcessState` per target (initialized, present, start ticks, pidfd), ring of audit records | `scan_processes`, `audit_receive`, `wait_for_audit_signal`, `describe_exit` | /proc, pidfds, the audit socket | exit, reap and PID re-use between scans; records that come after the death they explain; a ring that overwrites |
| **lifewatch: file monitor** | `FileState` per file (exists, watch descriptors, last event), inotify queue | `handle_inotify`, `setup_file_watch`, `emit_file_change`, `scan_files` | inotify, the file system | events applied late, queue overflow, replaced inodes and directories, duplicate suppression |
| **lifewatch: daemon and configuration** | stop and reload flags, loop position, audit rule in the kernel, the configuration file | `run_daemon`, `reload_runtime`, `audit_start`, `save_config`, `run_default_workflow` | systemd, signals, setup sessions | signals before handlers, reload during reload, crash between write and rename, a rule that outlives its daemon |
| lifewatch: actor of a file change; notification; setup screen | recent processes and fanotify events; a log; a configuration in memory | `handle_fanotify`, `emit_event`, `run_setup` | the kernel, terminals | events without a path, late lookups in /proc |
| **strace-src: fd tracker** (`fd_tracker.c`) | per process a table of bindings, parents, per event references and jump | `fd_analysis_build` | the event list | unfinished and resumed lines, fork before the parent's line, re-used numbers |
| **strace-src: ingest and identity** (`main.c`, `filters.c`) | pending bytes, events with frames, thread identities, the strace child | `read_trace`, `feed_line`, `remember_identity`, `stop_strace` | strace, /proc | cut lines, identities read late, a strace that must be killed with data in the pipe |
| **strace-src: filters, selection, popups** (`main.c`, `filters.c`, `resolve.c`) | the visible list, the selection, a source found for each event | `rebuild_visible`, the key handler | ingest | frames that come after their event, positions in a list that is rebuilt |
| **gd: transport, calls, caches** (`gdb_transport.c`, `gdb.c`, `gdb_cache.c`) | read buffer, token, debugger state, breakpoints, values kept under revisions | `wait_result`, `gdb_poll`, every `gdb_*` call, `gdb_shutdown` | gdb | asynchronous records inside requests, time-outs with late answers, stale caches |
| **gd: main loop, views, dialogs** (`app*.c`, `variables.c`, `dialogs.c`) | changed flags, current view | `app_update_and_draw`, the keys | transport | a call that must be made after an event is made only if the event is seen in the right place |
| **pps** (`pps.c`) | a snapshot loaded row by row, the selection, a pidfd | refresh, search, sort, choose, signal | the kernel | PID re-used between snapshot, question and kill |
| **procview** (`procview.c`) | a snapshot, list and tree rows, two selections by position | timed refresh, keys, `kill_selected` | the kernel | the same, without pidfds |
| **testforge: jobs** (`testforge.c`) | `app->jobs` | `run_step`, `add_job`, `refresh_jobs` | child processes | a full table, children that others signal |
| **autotest-assist-tui: directives and scripts** (`autotest_builder.c`) | none | syntax check, expansion, counting, splitting at reboots | bash | five scanners of one text that must agree |
| **autotest-assist-tui: resume automation** | index, failures, waiting files; a unit; per reboot test a directory, a unit, a result | the generated runner and test scripts | systemd, reboots | a place kept in several files, two services started by one boot |
| **autotest-assist-tui: editor** | lines, cursor, mode, undo stack | every key | | bounded undo, a key that makes many changes |
| **autotest-assist-tui: test list** | tests, selection, filter; registry and scripts on disk | add, edit, save, discard, copy, rename, delete, `--regen-scripts` | the file system | two kinds of files written one after the other, a selection that a filter moves |
| ltree | none | list a tree | the file system | none: sequential |

What makes each correct:

- *process monitor*: only the chosen individual is followed; every loss is
  told, and promptly; a cause that can be known is told; no descriptor leaks.
- *file monitor*: no edit goes by unseen; beliefs settle on what is there; a
  file that is there is watched.
- *daemon*: the file is whole whatever crashes; a reload request is served and
  never fatal; the audit rule is there exactly while it is needed.
- *fd tracker*: the table of a process is the one the kernel has; a jump leads
  to the origin. *Ingest*: each line is handled once and whole; an event
  belongs to the process of its thread. *View*: the screen shows what the
  filters let through of what is known now.
- *gd*: once all has been heard, the state, the breakpoints and what is kept
  under the current revision are GDB's.
- *pps, procview*: a signal hits the process that was shown. *testforge*: what
  is shown of a job is true, and each child is waited for.
- *autotest*: a script that is accepted runs as it was read; tests run one
  after the other through any reboot, each is recorded once, and [OK] means
  all; undo restores what was there; the text on the screen is the one that is
  saved; scripts follow the registry.

`PROJECT.json` lists under `hazards` where in the code each of these can fail,
with the properties that cover it or the reason why none does.

## 2. The modules

| Module | Models | Checked by | Proved in |
|---|---|---|---|
| `LwProcesses` | process monitor and audit attribution | `MCLwProcesses` | `LwProcesses_proofs` |
| `LwFiles` | file monitor | `MCLwFiles` | `LwFiles_proofs` |
| `LwDaemon` | daemon life cycle, configuration file, activation | `MCLwDaemon` | `LwDaemon_proofs` |
| `StraceFd` | fd tracker against a kernel and strace's way of writing | `MCStraceFd` | |
| `StraceIngest` | pipe, ingest, thread identity, stopping strace | through `StraceView` | |
| `StraceView` | filters, selection, popups; extends `StraceIngest` | `MCStraceView` | |
| `GdSession` | MI transport, calls of `gdb.c`, caches, against a GDB | through `GdApp` | `GdApp_proofs` |
| `GdApp` | main loop and keys; extends `GdSession` | `MCGd` | `GdApp_proofs` |
| `ProcTable` | the kernel's processes (external) | through `ProcTools` | |
| `TestForge` | testforge's jobs; extends `ProcTable` | through `ProcTools` | `ProcTools_proofs` |
| `PpsPicker` | pps's screen, its signal and its command line; extends `ProcTable` | through `ProcTools` | `ProcTools_proofs` |
| `ProcView` | procview's screen and its signal; extends `ProcTable` | through `ProcTools` | `ProcTools_proofs` |
| `ProcTools` | the three tools over one table of processes | `MCProcTools` | `ProcTools_proofs` |
| `AtScript` | the scanners of a test script | through `AtRun` | |
| `AtSequence` | abstract: what a sequence of tests promises | as `Implements` | |
| `AtRun` | runner, reboot tests, boots; extends `AtScript`, implements `AtSequence` | `MCAtRun` | `AtRun_proofs` |
| `AtDocument` | abstract: what an editor with a bounded undo promises | as `Undoes` | |
| `AtEditor` | the editor's keys, as functions from record to record | through `AtBuilder` | `AtEditor_proofs` |
| `AtBuilder` | test list, registry, scripts; extends `AtEditor`, implements `AtDocument` | `MCAtBuilder` | `AtBuilder_proofs` |

A module's operators named in a comment as `mutant` or as a fault are plausible
wrong versions of the definition beside them. No specification uses them; they
serve to show that the properties can tell the right version from the wrong one.

### LwProcesses

The kernel part has one PID per target: `ticks` (start time of the process that
has it), `zombie`, and the actions `Exit`, `Reap`, `Reuse`. `Kill` takes effect
at once and its audit record is written by `KillReturns`, so that the record
can come after the death; a signal may be harmless, and its record may name
another PID than the process it ends (process groups, threads).

The daemon part follows `run_daemon` and `scan_processes`. `pc` is `poll`,
`scan` (between targets), `decide` (after `find_process`) or `wait` (in
`wait_for_audit_signal`); each branch of `scan_processes` is one action
(`FirstScan`, `SameAsBefore`, `Recovered`, `LostKnown`, `LostWait` then
`WaitHeard` or `WaitTimeout`). The kernel moves between any two of them, so that
`find_process` and `pidfd_open` can see different processes. `ProcessState`'s
`present` and `start_ticks` are one variable (`startTicks`, 0 when absent);
`pidfd` holds the start time of the process it refers to. The ring is the last
`SIGNAL_HISTORY` entries of `received`, and `horizon` is the five-second limit,
moved by `Expire`. A failing read of `/proc` makes `find_process` return nothing.

Left out: the contents of a record beyond PID and sender, several monitors of
one PID, and the text of notifications.

### LwFiles

The file system part has a directory at the watched path that `MakeDir` may
replace, names in it, and inodes that live until they are unlinked and closed
(`Evict`). Each operation puts the events the kernel would send into a queue of
`MaxQueue` events, in the kernel's order; one more becomes `Q_OVERFLOW`. An
inode is its own watch descriptor.

`HandleInotify` is one event of the loop in `handle_inotify`, for every file it
concerns: `Matches` (by inode, or by directory and name), then IN_IGNORED, then
`emit_file_change`, then `setup_file_watch`, in the order of the code. Time is
not modelled: whether the event before came within 0.15 s is a free choice
(`soon`). `scan_files` is two steps per file, `ScanStat` and `ScanArm`, since a
program can act between the `lstat` and the `inotify_add_watch`. Within one
step of the daemon several files may be set up; programs do not act between
those calls.

### LwDaemon

One daemon process: `load`, `watch`, `audit`, `handlers`, then the loop `poll`,
`scan`, `check`, and a reload's steps `reload`, `close`, `rewatch`, `reaudit`.
A signal can come between any two. Until `InstallHandlers` a signal has its
default action. `AuditStart` removes a stale rule and adds its own, and may
fail with the rule installed or not (an acknowledgement that comes too late).
`pidfds = "zero"` is the state `memset` leaves, in which each `pidfd` is 0.

The configuration file is the number of its last change, with its validity and
its durability. `save_config` is `WriteTemporary`, `Fsync`, `Rename`, each of
which can fail (`Abandon`); `PowerLoss` tears a file that was renamed before it
was durable. A change made by hand with an editor (`HandEdit`) is assumed
durable. `AskActive` and `Activate` are the two `systemctl` calls of
`run_default_workflow`. systemd may start the service whenever it is off.

### StraceFd

`fds` and `cloexec` are the kernel's tables. A call takes effect when it is
entered, and `Return` ends its line. When another process has a line begun,
strace cuts it short (`<unfinished ...>`) and later resumes it; `log` is the
list of lines as records of what the parser gets out of them: a line cut short
has arguments and no result, the one that resumes it a result and no arguments.
`Analysis` is `fd_analysis_build`, a fold over the lines, with the same tables,
parents, bindings, objects and jumps; it is evaluated anew for each log, as the
code rebuilds the analysis for each new event.

`doubt` is the observer's account of what no line tells: a close, a dup or a
change of flags that was cut short, the flag of an open that was cut short, a
duplicate of an untracked descriptor, and `dup2(n, n)`. `Agreement` excludes
these descriptors until they are set again, and nothing else. Left out: threads
and PIDs that are used again in one trace.

### StraceIngest and StraceView

The traced threads and strace are the environment: a thread's step and the line
about it are one step, since strace prints while the thread is held; a line is
two pieces in the pipe, so that a read can end inside it, and a birth may be
told in two lines. `world` is the truth about which process a thread is in.
`Read(n)` is `read_trace` on whatever prefix the pipe gives up, and feeds every
line completed by it (`process_complete_lines`, `feed_line`): an event is
appended, a frame goes to the newest event, `remember_identity` asks /proc at
that moment. `stop_strace`'s second of waiting, in which nobody reads, may end
with strace killed and its last line cut; then the pipe is drained and the
trace saved. `held` is another process that keeps the pipe open.

`StraceView` adds the loop's screen. `visible`, `selected`, `forced` and the
popups are what `App` keeps; `res` is the source of an event, which
`trace_event_resolve` looks up once and a later frame forgets. A search text is
the thread number it names.

### GdSession and GdApp

gd has one thread, and each key becomes a list `todo` of requests and local
steps: `R(command, argument, steps dropped if refused)` and `L(...)`. A request
is written to `cmds` with a token; GDB serves it from there, with its answer
and its news in `pipe`; gd reads records into `buf` and handles them in order in
`wait_result` until the token matches, or gives up after the time-out (`late`
counts these). Answers carry what GDB knew at that moment (`now`), so that a
property can compare what is kept with what is. `gdb_poll` is the reading
outside a request; it alone refreshes the context after a stop.

GDB serves a launched program's session only while the program is not running,
an attached one's always. A program's text without a line end is glued to the
record behind it (`cut`), which is then no record to a parser that looks at the
beginning of lines, yet may be one to `strstr`.

A program ends with an exit or by a signal. `HandleAsync` takes the first for
the end, and the second, `exited-signalled`, for a stop like any other
(gdb_transport.c:111-119), without a place. `StateAgrees` therefore compares
gd's state with what the code can tell of the program (`Reported`): a killed
program is "stopped" to gd, while GDB has none to continue and would start one.

### ProcTable, TestForge, PpsPicker, ProcView, ProcTools

`ProcTable` is the kernel: a PID is free, or has a process with a start time, a
parent and perhaps no life left until its parent waits. Births give start times
in order. `Signal(p, start)` reaches the process with that start time (pidfd) or
whoever has the number (kill), and may end it.

`TestForge` has one action for each key and one for each job that
`refresh_jobs` looks at. In `PpsPicker` each step between which the kernel can
act is a step of `stage`: the snapshot, each row that is loaded while it is
drawn, the question, `pidfd_open`, the identity check, the signal. `CommandLine`
is `pps TARGET --kill`, which keeps a number and asks nobody. `ProcView`
rebuilds list and tree at each refresh as the code does, with positions; where
`build_tree_rows` reads a position of the old snapshot in the new one, an index
past the end may read anything. `ProcTools` runs testforge beside one of the
two viewers; births are shared, so that a number freed by testforge's wait can
be the one a viewer has in hand.

### AtScript, AtSequence and AtRun

A script is a sequence of lines, of which only the kind matters to the scanners.
`Expand`, `ValidCustom`, `CheckCount`, `Phase` and `LooksLikeReboot` are the five
scanners, each with the state it keeps from line to line.

`AtRun` has one action for each command of the generated runner and of a reboot
test that another process, a reboot or a loss of power can come before:
`runner.todo` is the list of commands left, `proc[t]` the place of a test's
script. The files under /var/tmp are `root`, `tdir` and `result`; a file that is
being written when power goes is `Torn`, and reads as an empty string. `Boot`
starts what is enabled. `told` is what the user can find recorded for each test,
and is what maps to `outcome`:
`Sequence == INSTANCE AtSequence WITH outcome <- told`, `Implements ==
Sequence!Spec`.

### AtDocument, AtEditor and AtBuilder

The editor is one record, `e`; a key is a function from `e` to `e`, composed of
the functions the code has (motions, insertions, `editor_push_undo`, completion,
search, yank and paste, commands). A line is a sequence of glyphs, with one of
double width, since columns are kept by width. `AtBuilder` owns the record, the
list of tests, and the disk; a write of several files is a list of disks it goes
through, and `Kill` or a failed write stops in any of them. Its editor implements
`AtDocument`, with the undo stack as `past`. A key makes one change and pushes one
entry, save for the key that picks a template (`REGEX_TEMPLATES`): it puts the
text in glyph by glyph and pushes one entry for each, more than the stack may
hold. `KeyChanges` says how many a key can make in the editor's present mode, and
is the `burst` of `AtDocument`. The templates and the length of the longest are
parameters, `Templates` and `TemplateSize`.

`Start` first writes the scripts of selected tests that have none, one after the
other, each of which may fail (`missed`). With a reboot test among the selected
all must have a script, and then the registry is saved; without one those that
still have none are left out of the run, and the registry is not saved, so that
a script can be on disk that no line of the registry names. `--regen-scripts` runs while the
builder does not: `Regenerate` reads the registry, each `RegenOne` writes one
script, and `RegenEnd` writes the registry if none has failed; it can be killed
between any two of them.

## 3. The runs

Passing runs:

| Run | Properties | Bounds and why they are enough |
|---|---|---|
| `lw_processes` | `TypeOK`, `FollowsOnlyTarget`, `ToldIsBelief`, `PidfdReleased`, `UnknownOnlyUnheard`; `LossSettles`, `PidfdWakes` (liveness) | One target: `scan_processes` keeps no state across targets but the audit ring, and records about other PIDs are in the model (`Elsewhere`). Two start times: the chosen process and a stranger that re-uses its PID. Two senders and two signals: one record can overwrite the other in a ring of one. One failing read: the loss it feigns and the recovery. |
| `lw_files` | `TypeOK`, `WatchAccounted`, `NoEditMissed`; `BeliefSettles` (liveness) | Two watched files so that one can be renamed over the other, two inodes and two directories so that each can be replaced once, three operations, and a queue of three events that a single rename overflows. |
| `lw_daemon` | `TypeOK`, `ConfigWhole`, `AuditOn`, `NoStrayClose`, `StopCleans` (action); `ReloadNotLost` (liveness) | One setup session together with hand edits; two changes and two signals so that a second reload request can fall into the first; two failures so that a crash can follow a failed request, or a power loss a crash. `StdinReady = TRUE` is the service's `/dev/null`; with `FALSE`, a daemon started by hand on a terminal within `interval_ms` of boot, a reload before the first scan violates `NoStrayClose`. |
| `strace_fd` | `TypeOK`, `Agreement`, `JumpReachesOrigin` | Two processes, so that a line of one cuts short a line of the other and a child's lines can come before its parent's fork returns; two descriptors and four calls, enough for open, dup over an open number, fork or exec and a use. The same instance with three descriptors (1.4 million states) passes too, in more time. |
| `strace_session` | `NothingLost`, `PidTrue`, `ViewTrue` | A command and one more thread or process, four lines in a pipe for two, two keys, five keys and lines together: enough for a birth in two lines, an event with a frame that comes after it was resolved, a filter and a popup over it. 1.5 million states. Instances with three keys and three lines pass too. |
| `gd` | `TypeOK`, `StateAgrees`, `CurrentIsTrue`, `BreaksAgree` | One line for a breakpoint, two stops, three keys; one trouble, which is a request given up, a text that is glued to a record, or a library. A late answer needs one request given up and a second one waiting; a stale cache a key that fills it, one that changes the program and one that shows it again. The program may end in both ways. 2.3 million states; the theorems of section 4 hold for any number of each. Tokens are counted from the newest and revisions are only newest or not (`VIEW`), which is all the code compares. |
| `proc_tools` | `JobsTrue`; `SignalHitsShown` (action) | Two PIDs and three births: one number is given again. A job table of one entry, which a second child finds full. Four keys together, of which a signal needs two. 1.5 million states; four births with three keys (2.1 million) pass too. |
| `at_run` | `TypeOK`, `Sequential`, `NothingLeft`, `ScannersAgree`, `SplitKeepsValid`; `Implements` (refinement), `Concludes` (liveness) | Three projects: no reboot; a reboot test between two others, whose script reboots on a condition and mentions another reboot; two reboot tests in a row. One loss of power, at any step but those that leave a torn index (see "Known divergences"). A resumed test is done within the 600 s that the runner waits (`Patient`). All scripts of up to four lines over the thirteen kinds are compared by `ScannersAgree` and `SplitKeepsValid`. |
| `at_builder` | `TypeOK`, `EditsTheChosen`, `ScriptsFollow`; `Undoes` (refinement) | Two kept tests, room for a third, titles of which two give one file name; five operations and a key, or two operations and four keys; one kill or failed write. Undo depth two, so that four keys overflow it; four lines, which a key can fill; a template of one glyph and one of three, which is more than the undo stack holds. 0.7 million states. |

Runs that show a disagreement between a document of the repository and the code:

| Run | Property | What happens |
|---|---|---|
| `lw_hangup` | `ReloadNeverKills` | a setup session finds the service active, and the SIGHUP of its reload kills the daemon, which has not installed its handlers yet |
| `gd_stop_shown` | `StopShown` | a stop that is read while a request waits for its answer is not followed by a fetch of the context, so that the panes stay as they were |
| `at_discard` | `DiscardedIsGone` | with a filter that hides a new test, `:q!` deletes another one and keeps the new one |

`gd_stop_shown` runs without any trouble (`MaxTrouble = 0`): time-outs and text
are not needed for it.

### Fairness

- `LwProcesses`: weak fairness of the scan's steps and of waking up for a
  readable pidfd, since the loop and `poll` do nothing else. The interval is not
  assumed to elapse, except by `LossSettles`, which says so; `PidfdWakes` shows
  that it is not needed where there is a pidfd. Nothing is assumed of processes.
- `LwFiles`: weak fairness of the daemon as a whole: `poll` returns for an event
  and after `interval_ms` at the latest. Programs owe nothing; each behaviour
  has finitely many operations, so that they do stop, which `BeliefSettles` needs.
- `LwDaemon`: weak fairness of the daemon's own steps. Nobody has to save, send
  a signal or start the service.
- `AtRun`: weak fairness of each test's script, of the runner and of the direct
  run, which are processes, and of a machine's going down and coming up again,
  since the runner is written for machines that do. Power need not be lost.
- The other modules have safety properties only.

`StraceFd`, `StraceView`, `GdApp`, `ProcTools`, `AtRun` and `AtBuilder` stop when
their programs end or their bounds are used up, and their runs do not check for
deadlock; all others do.

### Known divergences

Formulas that stand in the modules, are false of the code and not run; naming
one in a configuration shows the behaviour:

- `LwProcesses!ConfirmedSenderKilled` (lifewatch.c:1291): a signal that did no
  harm is reported as the confirmed cause of a later exit.
- `LwFiles!ScanRearms` (lifewatch.c:1327): after its directory was replaced, a
  file is there and nothing of it is watched until the next scan after a change.
- `LwFiles!ToldIsBelief` (lifewatch.c:1394): two equal events in quick succession
  with a scan in between: the second change of presence is not notified.
- `StraceFd!AttributedTruly` (fd_tracker.c:391): a number that `dup2` gives to an
  untracked object keeps its old object in the display.
- `AtBuilder!NotShared` (autotest_builder.c:2356): a name is free if no file has
  it (2350-2365). A builder killed between removing a script (2415, 5186) and
  writing the registry leaves a registered test without one, and a new test can
  take its name: two tests share a script, although FEATURE_TEST_PLAN.md:19 says
  that saving does not overwrite a test with the same title-derived name. A
  repair writes the script once for each, so that the last one's commands stay.

- `GdApp!EndIsExit` (gdb_transport.c:111-119): a program that a signal kills is
  "stopped" to gd. README.md:151 of gd says that `r` is accepted after the end;
  gd refuses it then ("already started"), and GDB refuses the `c` it offers.

Behaviours met while modelling, which the models contain or which bound them:

- *autotest, runner*: an index file torn by a loss of power reads as empty, and
  the runner concludes [OK] without the remaining tests, so that `LossAt` leaves
  out the steps that write it. A test that ran just before a loss of power runs
  again. A resumed test that takes more than 600 s is recorded [NG] while it
  runs. A state directory left by a crash keeps its captured checks. IDs of
  tests are positions (5706, 5972): after a delete and a restart of the builder
  the runner waits for another test's directory.
- *autotest, scripts*: a script that only mentions a reboot has no boundary, and
  its reboot.sh falls back to `reboot` (2046). `write_command_phase` drops what
  does not fit its buffer. Only the whole script is syntax-checked, not its two
  phases; `Splits` states when that is enough.
- *autotest, builder*: `undo` after `:w` clears the dirty flag, so that `:q`
  loses the difference (3726); a failed save keeps the new text in memory; the
  registry is rewritten in place; README 310 says that `:q` discards, but it
  refuses when the text was changed (E37). In the state of `at_discard`, `:w`
  writes into another test.
- *gd*: the late answer of a request that was given up is shown as output, and
  what it did in GDB is done: a retried breakpoint is set twice (`BreaksAgree`
  has `late = 0`). After a frame selection that was given up, the data of another
  frame is taken for the current one's, and a second one can select a frame
  that gd does not even believe in (`CurrentIsTrue` promises the frame only
  where `late = 0`, and all else without it). A record
  glued to the program's text is not recognised, except `*stopped`, which is
  found anywhere.
- *strace-src*: the second line of a birth told in two does not say whether the
  child is a thread; nobody reads the pipe while strace is told to stop, so that
  a strace that waits for room in it is killed; a line cut by that is taken as an
  event; a process that holds the pipe keeps the drain from its end.
- *pps, procview, testforge*: `pps NAME --kill` checks no identity. procview's
  question names no process, its selections drift at a refresh, and its tree
  row is looked up in another snapshot (704-709). testforge's `q` leaves its
  jobs running, and a child that found the table full is never waited for.

## 4. The proofs

For every set of targets, senders, sessions and jobs, every finite set of PIDs,
every length of the ring, every list of tests, any titles and file names, any
source lines, and every bound:

| Module | Theorem | Statement |
|---|---|---|
| `LwProcesses_proofs` | `TypeCorrect` | `Spec => []TypeOK` |
| | `FollowsOnlyTheTarget` | `Spec => []FollowsOnlyTarget` |
| | `NotificationsMatch` | `Spec => []ToldIsBelief` |
| | `PidfdsReleased` | `Spec => []PidfdReleased` |
| | `UnknownIsUnheard` | `Spec => UnknownOnlyUnheard` |
| `LwFiles_proofs` | `TypeCorrect` | `Spec => []TypeOK` |
| | `WatchesAccounted` | `Spec => []WatchAccounted` |
| | `EditsNotMissed` | `Spec => []NoEditMissed` |
| `LwDaemon_proofs` | `TypeCorrect` | `Spec => []TypeOK` |
| | `ConfigurationWhole` | `Spec => []ConfigWhole` |
| | `AuditStaysOn` | `Spec => []AuditOn` |
| | `StoppingCleans` | `Spec => StopCleans` |
| | `StdinStaysOpen` | `StdinReady = TRUE` implies `Spec => []NoStrayClose` |
| `ProcTools_proofs` | `ForgeJobsTrue` | `Spec => []JobsTrue` |
| | `SignalsHitShown` | `Spec => SignalHitsShown` |
| `AtRun_proofs` | `RunTypes` | `Trusted` implies `Spec => []TypeOK` |
| | `RunsInTurn` | `Trusted` implies `Spec => []Sequential` |
| | `CleansUp` | `Trusted` implies `Spec => []NothingLeft` |
| | `RunImplementsSequence` | `Trusted` implies `Spec => Implements` |
| `GdApp_proofs` | `SessionAgrees` | `Spec => []Inv` |
| | `TypesHold` | `Spec => []TypeOK` |
| | `StateIsTheProgram` | `Spec => []StateAgrees` |
| | `CurrentIsNow` | `Spec => []CurrentIsTrue` |
| | `BreaksAreListed` | `Spec => []BreaksAgree` |
| `AtEditor_proofs` | `KeysAreSound` | a key leaves the cursor on the text and the change undoable |
| `AtBuilder_proofs` | `BuilderTypes` | `Spec => []TypeOK` |
| | `WritesToTheChosen` | `Spec => []EditsTheChosen` |
| | `ScriptsMatch` | `Spec => []ScriptsFollow` |
| | `ChangesAreUndone` | `Spec => Undoes` |

*Process monitor.* None of the invariants is inductive alone, because what
`scan_processes` stores comes from `found`, which an earlier step has read.
`IInv` adds that `found` is 0 or the configured start time (part of `TypeOK`),
that the target in hand is a configured one and that the wait for a record is
for a target believed present and found absent (`LoopInv`), and that a target
not scanned yet has neither a start time nor a pidfd
(`NothingBeforeFirstScan`). Then `FollowsOnlyTarget` holds because the branch
that would report a restart is never taken, `ToldIsBelief` because each branch
notifies what it stores, and `PidfdReleased` because the branches for an absent
target store no pidfd. `UnknownOnlyUnheard` is an action property: a loss is
notified by `LostKnown`, which has a sender, by `WaitHeard`, which has looked
at everything received and in the socket, or by `WaitTimeout`, when the socket
is empty. The lemma `FindRecentSignalType`, which rests on the existence of a
last position in a non-empty set of them, says that a record is found if there is one.

*Daemon.* `TypeOK` is proved in four parts (`Counters`, `Places`, `Flags`,
`ListensUp`), each preserved by every step without the others. `ConfigWhole`
needs that nothing ever becomes volatile (`Durable`). `RuleInv` carries
`AuditOn` back to the end of `audit_start` and adds, from there to the end of a
reload, that a rule to which nobody listens is the work of a failed request:
that is what makes `audit_stop`, which removes only a rule that it knows to be
installed, leave nothing behind. `PidfdInv` says that zeroed process states go with a
zeroed `last_scan`, except inside a reload, and that they are filled in whenever
the reload flag is looked at.

*File monitor.* `WatchAccounted` is inductive once the queue is known to hold
proper events: one that takes a watch away has no name, so that `Matches` finds
every file that has the descriptor (`Proper`). `NoEditMissed` speaks of an empty
queue only; what carries it there is `EditsQueued`, the event of an edit not
yet notified is in the queue with the descriptor that the daemon has of the
file's directory, and two facts on which that rests: such a directory is watched
(`ParentsWatched`), and a descriptor of a directory never changes once it is
there. That the events of the queue are handled for every file they concern
then takes no more than the first position of the queue.

*testforge's jobs.* `JobsTrue` speaks of the jobs that testforge shows; why they
stay true is a matter of the kernel's table. `TableOK` says that start times
are not in the future and tell processes apart. On top of it, a job shown as
running is the child with its PID and start time (`RunningOwn`), two of them
are two processes (`RunningApart`), so that a wait for one does not take the
other's end; no wait has failed (`NoneFailed`); a job shown as ended has no
process any more (`EndedGone`); and a child of testforge is in the table of jobs
unless one was dropped (`AllEntered`). A step of the kernel or of a screen is
seen by testforge as one of a few steps of the table (a birth, a death, a wait
by somebody else), and the proof has one lemma for each.

*Signals.* What a row of a snapshot says stays true in one direction: the number
is later held by nobody, by the same process, or by one that started later
(`Known`). `PpsOK` carries this for every row of pps's list, and from the
question to the signal it says which step has made sure of what (`PpsStages`):
the process in question is the one that was drawn; after the answer the list
has it still; the descriptor, once open, is for it or for a later one; the
identity check, made after the opening, rules the later one out. That the
check comes last is what the theorem rests on. By command there is no check,
and the theorem promises the number only. For procview, `ViewInv` says that the active
process is the drawn one until the answer. `OneTool` says that only one of the
two runs. A lemma for each action shows that these are kept.

*The runner.* `Trusted` says two things of the machine: that a resumed test ends
within the 600 s for which the runner waits (`Patient`), and that power is not
lost in the three steps that move the place in the list (`mark`, `await`,
`advance`; losses at all other steps are free). Without either the properties
are false of the code, as "Known divergences" says: a test that is late runs
beside the next one, and a torn index reads as the end of the list. Everything
of the runner is bound to what it has still to do, so that the invariant is a
list of the situations it can be in (`Control`): each names the commands that
are left and says what the files, the unit and the place in the list are then,
fifteen in all, and a lemma for each action shows in which of them it starts and
in which it ends. `RunsInTurn` follows from the situations alone. `Tale` adds
what has been told of each test: those before the place have their record, those
after it have none, and the one at it is told only between its verdict and the
move of the place. With it each step is a step of `AtSequence` or none of it.
`Tally` bounds the failures that are counted on disk by the tests that were
judged and the losses of power, which is the one part of `TypeOK` that is not
plain.

*gd.* The properties of `GdApp` speak of moments when all is quiet; the
invariant says at every other moment what is still to come. It is about the
`Stream` of records that GDB has written and gd has not handled, and says what
gd will believe once it has handled them. The last news of the program in it is
what the program does, so that gd's state is true when there is none
(`Tidings`, `Believes`); an answer that accepts a resumption has news behind it,
because `gdb_exec_simple` sets the state from the answer. What is kept under the
current revision is true if the stream has no such news, since news make a new
revision (`KeptTrue`). An answer to the newest command that needed a stopped
program says what GDB has now, and nothing has happened behind it (`Fresh`):
that is why what is taken from it may be called current. Before a command is
written that changes the program, nothing is current any more (`Unsettled`).
Commands are served and answered in the order of their tokens (`Commanded`,
`Tokens`), what is waited for is the head's (`Asked`, `Waited`), and unless a
request was given up nothing else is under way: with that, a frame other than
the one looked at is a `context` that is still to be done, and breakpoints
other than the listed ones are a `breaks` that is (`FrameTrue`, `BreaksTrue`);
of the temporary breakpoint of a launched session `Temporary` says where it
is until it is deleted. The rest is about the calls: a call is a list of steps
in which each expects something of the steps before it (`Flow`: that the
variable object was made, that nothing is current, that the list was read), and
`Ready` says that what the first one expects is so. `Flow` also says that a
refusal or a time-out never leaves a step whose expectation it took away, which
is where the numbers of steps dropped in `R` come from. One lemma for each call
of `gdb.c` shows that its list flows and expects nothing of what was before
it, one for each action shows that the parts of the invariant are kept, and
what handling one record does (`Handled`) is carried to a whole read by
induction, as below for the editor.

*The editor.* `Sound` is the invariant of the record: the text is not empty and
fits, the cursor is on it, a selection and a range have their ends on it and
exclude each other, the undo stack fits and each of its texts is one that the
editor could show. `Edits` says what a key may do to text and stack: nothing,
push the text as it was, or take the last one back; a template does the second
once for each of its glyphs (`Inserts`, a `Chain` of changes). `KeysAreSound`
goes through all keys in all modes, for any set of templates of any length. A key is a composition of small functions,
and so are the lemmas: of each function, whether it only moves (`Moves`) or
makes one change (`Alters`), and how the two follow each other. Completion and
the templates put a text in glyph by glyph, and a column is a sum of widths;
both are folds, and what is needed of them is shown by induction over the set of
numbers for which it holds (`NatSet`, from the least element of a set), since
the library's induction takes a predicate.

*The test list.* `Inv` is inductive: beside the types and `Sound` it says
that a test's script, if it has one, has the name that its title gives; that,
unless a write failed or was cut short, both the registry and the tests in
memory have scripts of their own with their commands (`Registered`, `Follow`);
that a repair goes through the tests of the registry while the builder is off;
and that the scripts it has done are those of its tests if no two share one
(`Repaired`). Each operation writes the script first, and a free name has no
script, which is why the other tests keep theirs (`ScriptApart`); the registry
is the list of tests with scripts, in their order (`LinesIs`). `Story` says what a step
may do to the editor's screen, and is shown of every action together with the
invariant: it opens with an empty stack and the selected test's key in
`loaded`, stays with `Edits` or `Inserts` and the same test, or closes. `WritesToTheChosen`
follows from it by induction; `ChangesAreUndone` maps the story to the actions of
`AtDocument`, where the one with arithmetic in it is the case of a template: each
glyph pushes an entry and may push the oldest one out, and `Shifted` says, after
any number of them, which of the texts before the key are left
(`ChainRecalls`).

The assumptions are `ProcessAssumption`, `FileAssumption`, `DaemonAssumption`,
`ProcTableAssumption`, `RunAssumption`, `EditorAssumption`, `BuilderAssumption`,
`SessionAssumption`, `AppAssumption` and the bounds of the other modules: names that must differ do, the ring, the
text and the undo stack have a positive length, there are finitely many files,
PIDs are finitely many positive numbers, the tests kept at the beginning have
scripts of their own and are not empty, and the bounds are numbers.

Only model-checked are:

- liveness (`LossSettles`, `PidfdWakes`, `BeliefSettles`, `ReloadNotLost`,
  `Concludes`): it needs ENABLED, which the prover does not handle;
- what `StraceFd`, `StraceIngest` and `AtScript` compute (`Agreement`,
  `JumpReachesOrigin`, `NothingLost`, `PidTrue`, `ViewTrue`, `ScannersAgree`,
  `SplitKeepsValid`): folds over a log or a script of any length, where each
  property needs an induction over the whole of the fold's state;
- `StopShown`, which is violated (`gd_stop_shown`).

## 5. Not modelled

- *lifewatch, actor of a file change.* `handle_fanotify` and the process
  connector guess a name from what /proc still says when the event is handled.
  Whether the guess is right depends on who else touches the file meanwhile; the
  code promises nothing that a property could state.
- *lifewatch, notifications and log.* `emit_event` appends a line to a log and tries to
  write to terminals; no state of it is read again.
- *lifewatch, setup screen.* Edits of a configuration in memory; the save, which
  is what matters, is in `LwDaemon`.
- *strace-src, resolver.* `resolve.c` runs addr2line and caches text; `StraceView`
  models when a source is looked up and when it is forgotten, not what it is.
  The process graph, saved traces that are loaded again and the drawing are
  functions of the event list.
- *gd, text.* Quoting and cutting apart MI records is done character by
  character over a grammar that GDB's side of the model would have to repeat;
  `GdSession` takes records as read. Source panes, rendering and project search
  hold no state of the session.
- *pps, printing commands.* `--fd`, `--threads`, `--tree`, `--limits` and the
  details read /proc once and change nothing.
- *testforge, loads and forms.* The loads are plain system calls of the child (memory,
  CPU, files); the forms edit one record.
- *autotest-assist-tui, evidence.* The scripts' captures of files and logs are
  commands of the generated script without an effect on the sequence. Help
  screens, colours and the completion's word list are not modelled; the forms
  that no key opens any more are not either.
- *ltree.* A sequential walk over a tree that prints.

## 6. What could come next

In this order: `NothingLost` for the strace session, whose invariant would
follow each line through pipe, reader and list; `SplitKeepsValid` and
`ScannersAgree` for scripts of any length; two files and three directories in
`lw_files`, for which the state space must first be cut down.
