------------------------------- MODULE TestForge -------------------------------
(***************************************************************************)
(* testforge's jobs: a step that is run is a child process, kept in a      *)
(* table of MAX_JOBS entries and waited for, one call for each, in every   *)
(* turn of the main loop.  Nothing is stopped when the user quits, and a   *)
(* child for which the table has no room is not entered.                   *)
(***************************************************************************)
EXTENDS ProcTable

CONSTANTS MaxJobs, MaxForgeKeys     \* MaxForgeKeys bounds its keys
ASSUME JobsAssumption == MaxJobs \in Nat /\ MaxForgeKeys \in Nat

VARIABLES
    jobs,     \* app->jobs, with the individual of each
    dropped,  \* children that found the table full
    forge     \* testforge itself: dry_run, the keys so far, and whether it runs

testForge == <<jobs, dropped, forge>>

(* A fault: a full table loses its oldest job to the new one.              *)
AddJobOverOldest(pid, start, state) ==
    /\ jobs' = Append(IF Len(jobs) = MaxJobs THEN Tail(jobs) ELSE jobs, [pid |-> pid, start |-> start, state |-> state])
    /\ UNCHANGED dropped

(* add_job.                                                                *)
AddJob(pid, start, state) ==
    IF Len(jobs) = MaxJobs THEN jobs' = jobs /\ dropped' = dropped \cup ({start} \ {0})
    ELSE jobs' = Append(jobs, [pid |-> pid, start |-> start, state |-> state]) /\ UNCHANGED dropped

ForgeKey(f) == forge.up /\ forge.keys < MaxForgeKeys /\ forge' = [f EXCEPT !.keys = @ + 1]

(* run_step.  Without a free number fork fails.                            *)
RunStep ==
    /\ ForgeKey(forge)
    /\ IF forge.dry THEN AddJob(0, 0, "dry_run") /\ UNCHANGED procTable
       ELSE IF Present = Pids \/ births = MaxBirths THEN UNCHANGED <<procTable, jobs, dropped>>
       ELSE \E p \in Pids \ Present :
               /\ table' = Started(p, Forge) /\ births' = births + 1
               /\ AddJob(p, births + 1, "running")

ToggleDryRun == ForgeKey([forge EXCEPT !.dry = ~@]) /\ UNCHANGED <<procTable, jobs, dropped>>

(* waitpid(pid, WNOHANG): a child of testforge that has ended is taken.    *)
Waited(p) == There(p) /\ table[p].parent = Forge /\ ~table[p].up
Waiting(p) == There(p) /\ table[p].parent = Forge /\ table[p].up

(* refresh_jobs, for the jobs of which the wait does not say 0.            *)
RefreshJob(i) ==
    LET job == jobs[i]
    IN  /\ forge.up /\ job.state = "running" /\ ~Waiting(job.pid)
        /\ jobs' = [jobs EXCEPT ![i].state = IF Waited(job.pid) THEN "ended" ELSE "wait_failed"]
        /\ table' = IF Waited(job.pid) THEN [table EXCEPT ![job.pid] = Nobody] ELSE table
        /\ UNCHANGED <<births, dropped, forge>>

QuitForge ==
    /\ ForgeKey([forge EXCEPT !.up = FALSE])
    /\ table' = Orphaned(table, Forge)
    /\ UNCHANGED <<births, jobs, dropped>>

ForgeInit == jobs = <<>> /\ dropped = {} /\ forge = [up |-> TRUE, dry |-> TRUE, keys |-> 0]
ForgeNext == RunStep \/ ToggleDryRun \/ (\E i \in DOMAIN jobs : RefreshJob(i)) \/ QuitForge

(* While testforge runs, what it shows of its jobs is true: a running job  *)
(* is its own child, ended or not, and its number nobody else's; no wait   *)
(* fails, whoever else sends signals; and a child nobody waits for is one  *)
(* that found the table full (testforge.c 1554-1612).                      *)
JobsTrue ==
    forge.up =>
      /\ \A i \in DOMAIN jobs : /\ jobs[i].state # "wait_failed"
                                /\ jobs[i].state = "running" => Who(jobs[i].pid).start = jobs[i].start
                                /\ jobs[i].state = "ended" => ~\E p \in Present : table[p].start = jobs[i].start
      /\ \A p \in Present : table[p].parent = Forge =>
            \/ table[p].start \in dropped
            \/ \E i \in DOMAIN jobs : jobs[i].pid = p /\ jobs[i].start = table[p].start /\ jobs[i].state = "running"
================================================================================
