--------------------------- MODULE MemoryPipeline ---------------------------
(***************************************************************************)
(* The memory pipeline of the upstream agent: the jobs and outputs in the  *)
(* state database (state/src/runtime/memories.rs) and the two phases that  *)
(* every session start runs over them (memories/write/src/phase1.rs and    *)
(* phase2.rs).  Phase 1 extracts a memory from each thread that has        *)
(* changed; phase 2 copies a selection of the memories into the memories   *)
(* root and lets an agent consolidate them, against a git baseline.        *)
(*                                                                         *)
(* Runs of several processes overlap.  They are kept apart by leased job   *)
(* rows only, and a lease says nothing about what its owner is doing.      *)
(*                                                                         *)
(* Time is abstracted to what the queries compare with it: a lease, a      *)
(* backoff and a cooldown hold and then are over, a thread is in use,      *)
(* idle, or out of the age window.  updated_at of a thread, which is kept  *)
(* in milliseconds and compared with watermarks in seconds, is its         *)
(* version.  A run claims a job at most once, so its name is its ownership *)
(* token.  Which outputs are inside the retention window, and how usage    *)
(* ranks them, is left open.  The watermark and the retry count of the     *)
(* global job are written and never read to decide, and left out.          *)
(***************************************************************************)
EXTENDS Naturals, FiniteSets

CONSTANTS
    Threads,     \* those with a user message and an interactive source: no
                 \* other thread ever gets a job or an output
    Active,      \* those that are used again
    External,    \* those that use web search or MCP tools
    Leaving,     \* those that are archived or left alone for long
    Runs,        \* session starts that overlap
    SessionThread, \* the thread of a run's own session, None if not in Threads
    None,        \* NULL, or no such row
    Second,      \* milliseconds in a second
    MaxTime,     \* bound on updated_at_ms
    ScanLimit,   \* THREAD_SCAN_LIMIT
    MaxRunning,  \* max_rollouts_per_startup
    MaxRetries,  \* DEFAULT_RETRY_REMAINING
    MaxInputs,   \* max_raw_memories_for_consolidation
    FaultKinds,  \* the faults that may strike
    MaxFaults    \* bound on how often they strike

\* "fail": a process ends, or one of its calls fails; the others are counted
\* apart because some properties depend on them.
Fault == {"fail", "heartbeat", "suspend", "reset"}

ASSUME PipelineAssumption ==
    /\ IsFiniteSet(Threads)
    /\ Active \cup External \cup Leaving \subseteq Threads
    /\ None \notin Threads \cup Runs
    /\ SessionThread \in [Runs -> Threads \cup {None}]
    /\ Second \in Nat \ {0}
    /\ MaxTime \in Nat /\ MaxTime >= 2 * Second - 1
    /\ ScanLimit \in Nat \ {0}
    /\ MaxRunning \in Nat \ {0}
    /\ MaxRetries \in Nat \ {0}
    /\ MaxInputs \in Nat
    /\ FaultKinds \subseteq Fault
    /\ MaxFaults \in Nat

\* timestamp(): the second that a time in milliseconds is in.
Timestamp(ms) == ms \div Second

\* A version of a thread, by its second, and the memory extracted from it.
Snapshot == [thread : Threads, source : Nat \ {0}]
Snap(t, n) == [thread |-> t, source |-> n]

\* Status 'running' is "expired" once the lease is over, 'error' is "backoff"
\* until retry_at.  input and success are the watermarks, success 0 for NULL.
Job == [status : {"running", "expired", "done", "backoff", "error"},
        owner : Runs, retries : 0..MaxRetries,
        input : Nat \ {0}, success : Nat]

\* selected is selected_for_phase2_source_updated_at, 0 for NULL; epoch, not
\* in the table, counts the resets before the output was claimed.
Output == [source : Nat \ {0}, selected : Nat, epoch : 0..MaxFaults]

\* cooling: the last run succeeded, within the cooldown.
GlobalJob ==
    [status : {"pending", "running", "expired", "done", "backoff", "error"},
     owner : Runs \cup {None}, cooling : BOOLEAN]

\* What the memories root holds: the snapshots synced into it, and those the
\* agent's summary was made from.
Content == [inputs : (SUBSET Snapshot) \cup {None},
            memory : (SUBSET Snapshot) \cup {None}]

Claim == [thread : Threads, source : Nat \ {0}, epoch : 0..MaxFaults]

\* NULL is no row, and no content.
ASSUME NoneAssumption ==
    None \notin Job \cup Output \cup GlobalJob \cup Content

VARIABLES
    version,   \* updated_at_ms of each thread, and how long ago that is
    mode,      \* its memory_mode
    jobs,      \* the memory_stage1 rows
    outputs,   \* stage1_outputs
    global,    \* the memory_consolidate_global row
    root,      \* the memories root
    baseline,  \* its git baseline
    pc,        \* where each run is
    todo,      \* phase 1: the threads its scan found
    claims,    \* phase 1: the jobs it has claimed
    inputs,    \* phase 2: the selection it has loaded
    resetting, \* a reset has cleared the database and not yet the root
    faults     \* how often each kind of fault has struck

db == << version, mode, jobs, outputs, global >>
files == << root, baseline >>
run == << pc, todo, claims, inputs >>
vars == << db, files, run, resetting, faults >>

\* The steps of a run that work on the memories root.
Consolidating ==
    {"claimed", "loaded", "synced", "agent", "completed", "confirmed",
     "committed"}

\* "lingering": the run has given up, and its agent is not stopped yet.
AtRoot == Consolidating \cup {"lingering"}
Pc == {"idle", "phase1"} \cup AtRoot

\* "fresh" within min_rollout_idle_hours, "out" once max_rollout_age_days are
\* over or the thread is archived.
Version == [ms : Second..MaxTime, age : {"fresh", "idle", "out"}]

TypeOK ==
    /\ version \in [Threads -> Version]
    /\ mode \in [Threads -> {"enabled", "polluted"}]
    /\ jobs \in [Threads -> Job \cup {None}]
    /\ outputs \in [Threads -> Output \cup {None}]
    /\ global \in GlobalJob \cup {None}
    /\ root \in Content
    /\ baseline \in Content \cup {None}
    /\ pc \in [Runs -> Pc]
    /\ todo \in [Runs -> SUBSET Snapshot]
    /\ claims \in [Runs -> SUBSET Claim]
    /\ inputs \in [Runs -> SUBSET Snapshot]
    /\ resetting \in BOOLEAN
    /\ faults \in [Fault -> 0..MaxFaults]

Empty == [inputs |-> None, memory |-> None]

Init ==
    /\ version = [t \in Threads |-> [ms |-> 2 * Second - 1, age |-> "idle"]]
    /\ mode = [t \in Threads |-> "enabled"]
    /\ jobs = [t \in Threads |-> None]
    /\ outputs = [t \in Threads |-> None]
    /\ global = None
    /\ root = Empty
    /\ baseline = None
    /\ pc = [p \in Runs |-> "idle"]
    /\ todo = [p \in Runs |-> {}]
    /\ claims = [p \in Runs |-> {}]
    /\ inputs = [p \in Runs |-> {}]
    /\ resetting = FALSE
    /\ faults = [k \in Fault |-> 0]

Strikes(k) ==
    /\ k \in FaultKinds
    /\ faults["fail"] + faults["heartbeat"] + faults["suspend"] + faults["reset"]
         < MaxFaults
    /\ faults' = [faults EXCEPT ![k] = @ + 1]

Goto(p, place) == pc' = [pc EXCEPT ![p] = place]

-----------------------------------------------------------------------------
(* The threads *)

\* A thread is used again, or unarchived: at a time that no thread is ahead
\* of, and hours after the last use of one that is not fresh.
UpdateThread(t) ==
    /\ t \in Active
    /\ \E now \in (version[t].ms + 1)..MaxTime :
        /\ \A u \in Threads :
             /\ version[u].ms <= now
             /\ version[u].age # "fresh" =>
                  Timestamp(version[u].ms) < Timestamp(now)
        /\ version' = [version EXCEPT ![t] = [ms |-> now, age |-> "fresh"]]
    /\ UNCHANGED << mode, jobs, outputs, global, files, run, resetting, faults >>

\* It has not been used for min_rollout_idle_hours ...
ThreadIdles(t) ==
    /\ version[t].age = "fresh"
    /\ version' = [version EXCEPT ![t].age = "idle"]
    /\ UNCHANGED << mode, jobs, outputs, global, files, run, resetting, faults >>

\* ... or not for max_rollout_age_days, or it is archived.
ThreadAgesOut(t) ==
    /\ t \in Leaving /\ version[t].age = "idle"
    /\ version' = [version EXCEPT ![t].age = "out"]
    /\ UNCHANGED << mode, jobs, outputs, global, files, run, resetting, faults >>

\* enqueue_global_consolidation_with_executor: the row afterwards.
Enqueued ==
    IF global = None
    THEN [status |-> "pending", owner |-> None, cooling |-> FALSE]
    ELSE IF global.status \in {"running", "expired"} THEN global
    ELSE [global EXCEPT !.status = "pending"]

\* mark_thread_memory_mode_polluted
Pollute(t) ==
    /\ t \in External /\ mode[t] # "polluted"
    /\ mode' = [mode EXCEPT ![t] = "polluted"]
    /\ global' = IF outputs[t] # None /\ outputs[t].selected # 0
                 THEN Enqueued ELSE global
    /\ UNCHANGED << version, jobs, outputs, files, run, resetting, faults >>

-----------------------------------------------------------------------------
(* Phase 1 *)

\* The conditions of the scan of claim_stage1_jobs_for_startup.
Stale(t) ==
    /\ mode[t] = "enabled"
    /\ version[t].age = "idle"
    /\ outputs[t] # None => (outputs[t].source + 1) * Second <= version[t].ms
    /\ jobs[t] # None => (jobs[t].success + 1) * Second <= version[t].ms

\* What it may find: the current thread is left out, and of more than
\* ScanLimit threads the least recently used ones.
Scans(p) ==
    LET found == {t \in Threads : Stale(t) /\ t # SessionThread[p]}
    IN  {S \in SUBSET found :
            /\ Cardinality(S) <= ScanLimit
            /\ S # found => Cardinality(S) = ScanLimit
            /\ \A t \in S, u \in found \ S : version[u].ms <= version[t].ms}

\* A run starts: outputs that have not been used for long are pruned unless
\* the last consolidation has them, then the threads are scanned.
Start(p) ==
    /\ pc[p] = "idle"
    /\ \E old \in SUBSET {t \in Threads :
                            outputs[t] # None /\ outputs[t].selected = 0} :
            outputs' = [t \in Threads |-> IF t \in old THEN None ELSE outputs[t]]
    /\ \E S \in Scans(p) :
            todo' = [todo EXCEPT ![p] =
                        {Snap(t, Timestamp(version[t].ms)) : t \in S}]
    /\ Goto(p, "phase1")
    /\ UNCHANGED << version, mode, jobs, global, files, claims, inputs,
                    resetting, faults >>

UpToDate(s) ==
    \/ outputs[s.thread] # None /\ outputs[s.thread].source >= s.source
    \/ jobs[s.thread] # None /\ jobs[s.thread].success >= s.source

Leased == {t \in Threads : jobs[t] # None /\ jobs[t].status = "running"}

\* Mutant: the retry count is not looked at.
ClaimableExhausted(s) ==
    /\ ~UpToDate(s)
    /\ Cardinality(Leased) < MaxRunning
    /\ jobs[s.thread] # None =>
         /\ jobs[s.thread].status # "running"
         /\ jobs[s.thread].status = "backoff" => s.source > jobs[s.thread].input

\* Mutant: the lease of a running job is not looked at.
ClaimableWhenEnded(s) ==
    /\ ~UpToDate(s)
    /\ Cardinality(Leased) < MaxRunning
    /\ jobs[s.thread] # None =>
         LET job == jobs[s.thread]
         IN  /\ job.status \notin {"running", "expired"}
             /\ job.status = "backoff" => s.source > job.input
             /\ job.retries = 0 => s.source > job.input

\* try_claim_stage1_job would insert the row or update it.
Claimable(s) ==
    /\ ~UpToDate(s)
    /\ Cardinality(Leased) < MaxRunning
    /\ jobs[s.thread] # None =>
         LET job == jobs[s.thread]
         IN  /\ job.status # "running"
             /\ job.status = "backoff" => s.source > job.input
             /\ job.retries = 0 => s.source > job.input

Claimed(p, s) ==
    IF jobs[s.thread] = None
    THEN [status |-> "running", owner |-> p, retries |-> MaxRetries,
          input |-> s.source, success |-> 0]
    ELSE [jobs[s.thread] EXCEPT
            !.status = "running", !.owner = p, !.input = s.source,
            !.retries = IF s.source > jobs[s.thread].input
                        THEN MaxRetries ELSE @]

\* One turn of the claim loop, from the latest thread on, with the version the
\* scan has seen.  It ends when nothing is left or MaxRunning jobs are claimed.
ClaimStage1(p) ==
    /\ pc[p] = "phase1"
    /\ \E s \in {r \in todo[p] : \A q \in todo[p] : q.source <= r.source} :
        \/ /\ Claimable(s)
           /\ jobs' = [jobs EXCEPT ![s.thread] = Claimed(p, s)]
           /\ claims' = [claims EXCEPT ![p] = @ \cup
                  {[thread |-> s.thread, source |-> s.source,
                    epoch |-> faults["reset"]]}]
           /\ todo' = [todo EXCEPT ![p] =
                  IF Cardinality(claims'[p]) < MaxRunning THEN @ \ {s} ELSE {}]
        \/ /\ ~Claimable(s)
           /\ todo' = [todo EXCEPT ![p] = @ \ {s}]
           /\ UNCHANGED << jobs, claims >>
    /\ UNCHANGED << version, mode, outputs, global, files, pc, inputs,
                    resetting, faults >>

Unfinished == {"running", "expired"}

\* Mutant: the ownership token is not compared.
OwnsAny(p, t) == jobs[t] # None /\ jobs[t].status \in Unfinished

Owns(p, t) ==
    jobs[t] # None /\ jobs[t].status \in Unfinished /\ jobs[t].owner = p

\* One of the parallel extractions is over.
Extracted(p, c) ==
    /\ pc[p] = "phase1"
    /\ todo[p] = {}
    /\ c \in claims[p]
    /\ claims' = [claims EXCEPT ![p] = @ \ {c}]
    /\ UNCHANGED << version, mode, files, pc, todo, inputs, resetting >>

Done(job) == [job EXCEPT !.status = "done", !.success = job.input]

\* mark_stage1_job_succeeded: the output of an earlier version keeps its mark.
MarkStage1Succeeded(p, c) ==
    LET t == c.thread
    IN  \/ /\ Owns(p, t)
           /\ jobs' = [jobs EXCEPT ![t] = Done(@)]
           /\ outputs' = [outputs EXCEPT ![t] =
                IF @ # None /\ @.source > c.source THEN @
                ELSE [source |-> c.source, epoch |-> c.epoch,
                      selected |-> IF @ = None THEN 0 ELSE @.selected]]
           /\ global' = Enqueued
        \/ /\ ~Owns(p, t)
           /\ UNCHANGED << jobs, outputs, global >>

\* Mutant: the output of the earlier version stays.
NoOutputKeepsRow(p, c) ==
    \/ /\ Owns(p, c.thread)
       /\ jobs' = [jobs EXCEPT ![c.thread] = Done(@)]
       /\ UNCHANGED << outputs, global >>
    \/ /\ ~Owns(p, c.thread)
       /\ UNCHANGED << jobs, outputs, global >>

\* mark_stage1_job_succeeded_no_output
MarkStage1NoOutput(p, c) ==
    LET t == c.thread
    IN  \/ /\ Owns(p, t)
           /\ jobs' = [jobs EXCEPT ![t] = Done(@)]
           /\ outputs' = [outputs EXCEPT ![t] = None]
           /\ global' = IF outputs[t] # None THEN Enqueued ELSE global
        \/ /\ ~Owns(p, t)
           /\ UNCHANGED << jobs, outputs, global >>

\* mark_stage1_job_failed
MarkStage1Failed(p, c) ==
    /\ jobs' = IF Owns(p, c.thread)
               THEN [jobs EXCEPT ![c.thread].status = "backoff",
                                 ![c.thread].retries = @ - 1]
               ELSE jobs
    /\ UNCHANGED << outputs, global >>

Extract(p) ==
    \E c \in claims[p] :
        /\ Extracted(p, c)
        /\ \/ MarkStage1Succeeded(p, c) /\ UNCHANGED faults
           \/ MarkStage1NoOutput(p, c) /\ UNCHANGED faults
           \/ MarkStage1Failed(p, c) /\ Strikes("fail")

-----------------------------------------------------------------------------
(* Phase 2 *)

\* Mutant: a running job may be claimed.
GlobalClaimableAlways ==
    global # None => global.status # "backoff" /\ ~global.cooling

\* try_claim_global_phase2_job, once phase 1 is over
GlobalClaimable ==
    global # None => global.status \notin {"running", "backoff"} /\ ~global.cooling

ClaimGlobal(p) ==
    /\ pc[p] = "phase1"
    /\ todo[p] = {} /\ claims[p] = {}
    /\ \/ /\ GlobalClaimable
          /\ global' = [status |-> "running", owner |-> p, cooling |-> FALSE]
          /\ Goto(p, "claimed")
       \/ /\ ~GlobalClaimable
          /\ Goto(p, "idle")
          /\ UNCHANGED global
    /\ UNCHANGED << version, mode, jobs, outputs, files, todo, claims, inputs,
                    resetting, faults >>

\* Mutant: the memory mode is not looked at.
SelectionsOfAll ==
    {S \in SUBSET {Snap(t, outputs[t].source) :
                      t \in {u \in Threads : outputs[u] # None}} :
        Cardinality(S) <= MaxInputs}

\* get_phase2_input_selection, whatever the window and the ranking are.
Selections ==
    {S \in SUBSET {Snap(t, outputs[t].source) :
                      t \in {u \in Threads : outputs[u] # None /\ mode[u] = "enabled"}} :
        Cardinality(S) <= MaxInputs}

\* prepare_memory_workspace: a root without a baseline becomes its own.
LoadInputs(p) ==
    /\ pc[p] = "claimed"
    /\ baseline' = IF baseline = None THEN root ELSE baseline
    /\ \E S \in Selections : inputs' = [inputs EXCEPT ![p] = S]
    /\ Goto(p, "loaded")
    /\ UNCHANGED << db, root, todo, claims, resetting, faults >>

\* sync_phase2_workspace_inputs
SyncInputs(p) ==
    /\ pc[p] = "loaded"
    /\ root' = [root EXCEPT !.inputs = inputs[p]]
    /\ Goto(p, "synced")
    /\ UNCHANGED << db, baseline, todo, claims, inputs, resetting, faults >>

OwnsGlobal(p) ==
    global # None /\ global.status \in Unfinished /\ global.owner = p

End(p) ==
    /\ Goto(p, "idle")
    /\ inputs' = [inputs EXCEPT ![p] = {}]

\* mark_global_phase2_job_succeeded: the marks move to the snapshots of this
\* run, as far as the outputs are still the same.
MarkGlobalSucceeded(p) ==
    \/ /\ OwnsGlobal(p)
       /\ global' = [global EXCEPT !.status = "done", !.cooling = TRUE]
       /\ outputs' = [t \in Threads |->
            IF outputs[t] = None THEN None
            ELSE [outputs[t] EXCEPT !.selected =
                    IF Snap(t, outputs[t].source) \in inputs[p]
                    THEN outputs[t].source ELSE 0]]
    \/ /\ ~OwnsGlobal(p)
       /\ UNCHANGED << global, outputs >>

\* job::failed; no running row is without an owner.
MarkGlobalFailed(p) ==
    global' = IF OwnsGlobal(p) THEN [global EXCEPT !.status = "backoff"]
                               ELSE global

\* Mutant: the baseline moves as soon as the diff is known.
DiffAndCommit(p) ==
    /\ pc[p] = "synced"
    /\ baseline # None
    /\ \/ /\ root = baseline
          /\ MarkGlobalSucceeded(p)
          /\ End(p)
       \/ /\ root # baseline
          /\ Goto(p, "agent")
          /\ UNCHANGED << global, outputs, inputs >>
    /\ baseline' = root
    /\ UNCHANGED << version, mode, jobs, root, todo, claims, resetting, faults >>

\* The workspace diff: nothing to do, or an agent is started.
DiffRoot(p) ==
    /\ pc[p] = "synced"
    /\ baseline # None
    /\ \/ /\ root = baseline
          /\ MarkGlobalSucceeded(p)
          /\ End(p)
       \/ /\ root # baseline
          /\ Goto(p, "agent")
          /\ UNCHANGED << global, outputs, inputs >>
    /\ UNCHANGED << version, mode, jobs, files, todo, claims, resetting, faults >>

\* The agent has brought its summary in line with the inputs: those in the
\* diff it was given, or those it finds in the root.
AgentCompletes(p) ==
    /\ pc[p] = "agent"
    /\ \E seen \in {inputs[p], root.inputs} :
            root' = [root EXCEPT !.memory = seen]
    /\ Goto(p, "completed")
    /\ UNCHANGED << db, baseline, todo, claims, inputs, resetting, faults >>

\* heartbeat_global_phase2_job; an owner whose lease is over gets a new one.
Renewed == [global EXCEPT !.status = "running"]

\* A heartbeat while the agent works; without the lock the run gives up.
Heartbeat(p) ==
    /\ pc[p] = "agent"
    /\ \/ OwnsGlobal(p) /\ global' = Renewed /\ UNCHANGED pc
       \/ ~OwnsGlobal(p) /\ Goto(p, "lingering") /\ UNCHANGED global
    /\ UNCHANGED << version, mode, jobs, outputs, files, todo, claims, inputs,
                    resetting, faults >>

\* The update of a heartbeat fails: job::failed releases the row, unless its
\* own update fails too, while the agent goes on.
HeartbeatFails(p) ==
    /\ pc[p] = "agent"
    /\ Strikes("heartbeat")
    /\ MarkGlobalFailed(p) \/ UNCHANGED global
    /\ Goto(p, "lingering")
    /\ UNCHANGED << version, mode, jobs, outputs, files, todo, claims, inputs,
                    resetting >>

\* shutdown_consolidation_agent, in a task of its own: the agent is stopped,
\* or has come to the end of its work before.
AgentStops(p) ==
    /\ pc[p] = "lingering"
    /\ \/ UNCHANGED root
       \/ \E seen \in {inputs[p], root.inputs} :
            root' = [root EXCEPT !.memory = seen]
    /\ End(p)
    /\ UNCHANGED << db, baseline, todo, claims, resetting, faults >>

\* The heartbeat before the baseline is touched.
ConfirmOwnership(p) ==
    /\ pc[p] = "completed"
    /\ \/ /\ OwnsGlobal(p)
          /\ global' = Renewed
          /\ Goto(p, "confirmed")
          /\ UNCHANGED inputs
       \/ ~OwnsGlobal(p) /\ End(p) /\ UNCHANGED global
    /\ UNCHANGED << version, mode, jobs, outputs, files, todo, claims,
                    resetting, faults >>

\* reset_memory_workspace_baseline
ResetBaseline(p) ==
    /\ pc[p] = "confirmed"
    /\ baseline' = root
    /\ Goto(p, "committed")
    /\ UNCHANGED << db, root, todo, claims, inputs, resetting, faults >>

Succeed(p) ==
    /\ pc[p] = "committed"
    /\ MarkGlobalSucceeded(p)
    /\ End(p)
    /\ UNCHANGED << version, mode, jobs, files, todo, claims, resetting, faults >>

\* A step on the root fails, the agent itself ends badly, ownership cannot be
\* confirmed, or a reset has removed the repository.
Phase2Fails(p) ==
    /\ \/ /\ pc[p] \in Consolidating \ {"committed"}
          /\ Strikes("fail")
       \/ /\ pc[p] = "synced" /\ baseline = None
          /\ UNCHANGED faults
    /\ MarkGlobalFailed(p)
    /\ End(p)
    /\ UNCHANGED << version, mode, jobs, outputs, files, todo, claims, resetting >>

-----------------------------------------------------------------------------
(* Faults, resets and the passage of time *)

\* The process of a run ends; its rows stay.
Crash(p) ==
    /\ pc[p] # "idle"
    /\ Strikes("fail")
    /\ pc' = [pc EXCEPT ![p] = "idle"]
    /\ todo' = [todo EXCEPT ![p] = {}]
    /\ claims' = [claims EXCEPT ![p] = {}]
    /\ inputs' = [inputs EXCEPT ![p] = {}]
    /\ UNCHANGED << db, files, resetting >>

\* memory/reset and the debug command: the database, then the root.
ClearMemoryData ==
    /\ ~resetting
    /\ Strikes("reset")
    /\ jobs' = [t \in Threads |-> None]
    /\ outputs' = [t \in Threads |-> None]
    /\ global' = None
    /\ resetting' = TRUE
    /\ UNCHANGED << version, mode, files, run >>

ClearMemoryRoot ==
    /\ resetting
    /\ root' = Empty
    /\ baseline' = None
    /\ resetting' = FALSE
    /\ UNCHANGED << db, run, faults >>

Abandoned(t) == \A c \in claims[jobs[t].owner] : c.thread # t
GlobalAbandoned == pc[global.owner] \notin Consolidating

\* The lease of a stage-1 job is over.  Its owner is gone, or takes longer
\* than an hour, as a process on a suspended machine does.
Stage1LeaseEnds(t) ==
    /\ jobs[t] # None /\ jobs[t].status = "running"
    /\ \/ Abandoned(t) /\ UNCHANGED faults
       \/ ~Abandoned(t) /\ Strikes("suspend")
    /\ jobs' = [jobs EXCEPT ![t].status = "expired"]
    /\ UNCHANGED << version, mode, outputs, global, files, run, resetting >>

GlobalLeaseEnds ==
    /\ global # None /\ global.status = "running"
    /\ \/ GlobalAbandoned /\ UNCHANGED faults
       \/ ~GlobalAbandoned /\ Strikes("suspend")
    /\ global' = [global EXCEPT !.status = "expired"]
    /\ UNCHANGED << version, mode, jobs, outputs, files, run, resetting >>

BackoffEnds ==
    /\ \/ \E t \in Threads :
            /\ jobs[t] # None /\ jobs[t].status = "backoff"
            /\ jobs' = [jobs EXCEPT ![t].status = "error"]
            /\ UNCHANGED global
       \/ /\ global # None /\ global.status = "backoff"
          /\ global' = [global EXCEPT !.status = "error"]
          /\ UNCHANGED jobs
    /\ UNCHANGED << version, mode, outputs, files, run, resetting, faults >>

CooldownEnds ==
    /\ global # None /\ global.cooling
    /\ global' = [global EXCEPT !.cooling = FALSE]
    /\ UNCHANGED << version, mode, jobs, outputs, files, run, resetting, faults >>

-----------------------------------------------------------------------------
Phase1(p) == Start(p) \/ ClaimStage1(p) \/ Extract(p)

Phase2(p) ==
    \/ ClaimGlobal(p) \/ LoadInputs(p) \/ SyncInputs(p) \/ DiffRoot(p)
    \/ AgentCompletes(p) \/ ConfirmOwnership(p) \/ ResetBaseline(p) \/ Succeed(p)
    \/ AgentStops(p)

Time ==
    \/ \E t \in Threads : Stage1LeaseEnds(t)
    \/ GlobalLeaseEnds \/ BackoffEnds \/ CooldownEnds

Next ==
    \/ \E t \in Threads : \/ UpdateThread(t) \/ ThreadIdles(t)
                          \/ ThreadAgesOut(t) \/ Pollute(t)
    \/ \E p \in Runs : \/ Phase1(p) \/ Phase2(p) \/ Heartbeat(p)
                       \/ HeartbeatFails(p) \/ Phase2Fails(p) \/ Crash(p)
    \/ ClearMemoryData \/ ClearMemoryRoot
    \/ Time

Spec == Init /\ [][Next]_vars

\* Sessions keep starting, and a run that is not hit by a fault goes on.  Time
\* passes for the threads and for the global job: leases, backoffs and cooldowns
\* are over some time, and a thread that is not used is idle.
FairSpec ==
    /\ Spec
    /\ \A p \in Runs : WF_vars(Phase1(p) \/ Phase2(p) \/ Phase2Fails(p))
    /\ WF_vars(\E t \in Threads : ThreadIdles(t) \/ Stage1LeaseEnds(t))
    /\ WF_vars(GlobalLeaseEnds \/ CooldownEnds \/ BackoffEnds)
    /\ WF_vars(ClearMemoryRoot)

-----------------------------------------------------------------------------
(* Properties *)

\* What a thread's output was made from is the version its job last succeeded
\* with, over all interleavings of stale scans, lost leases and resets: a
\* change is neither missed nor extracted again (try_claim_stage1_job,
\* mark_stage1_job_succeeded).
OutputMatchesWatermark ==
    \A t \in Threads : outputs[t] # None =>
        jobs[t] # None /\ jobs[t].success = outputs[t].source

\* No memory that was claimed before a reset comes back into the table after
\* it (clear_memory_data and the ownership tokens).
ResetIsFinal ==
    \A t \in Threads : outputs[t] # None => outputs[t].epoch = faults["reset"]

\* As long as nobody resets the memory and no live run is suspended beyond
\* its lease, two runs are never at work on the memories root.  The one way in
\* which a run may meet another there is the agent of a run whose heartbeat
\* could not be written: agent::handle releases the row before it stops it.
OneConsolidation ==
    faults["reset"] = 0 /\ faults["suspend"] = 0 =>
        \A p, q \in Runs :
            pc[p] \in AtRoot /\ pc[q] \in AtRoot /\ p # q =>
                faults["heartbeat"] > 0 /\ "lingering" \in {pc[p], pc[q]}

\* If in addition no heartbeat fails, the baseline never runs ahead of the
\* agent: what is in it has been consolidated, so that a diff without changes
\* means that there is nothing to do (run and agent::handle of phase 2), also
\* when runs crash or fail at any point.
BaselineIsConsolidated ==
    /\ faults["reset"] = 0 /\ faults["suspend"] = 0 /\ faults["heartbeat"] = 0
    /\ baseline # None
    => baseline.inputs = baseline.memory

\* A polluted thread leaves the root and the agent's summary in the end.
Forgotten(t) ==
    /\ root.inputs # None => \A s \in root.inputs : s.thread # t
    /\ root.memory # None => \A s \in root.memory : s.thread # t
PollutedIsForgotten ==
    []<>(\A t \in Threads : mode[t] = "polluted" => Forgotten(t))

\* Threads whose retries are used up still match the scan, which takes the
\* latest ones: ScanLimit of them keep an earlier thread from being found.
Exhausted(t) ==
    /\ jobs[t] # None
    /\ jobs[t].retries = 0 /\ jobs[t].input = Timestamp(version[t].ms)
CrowdedOut(t) ==
    ScanLimit <= Cardinality({u \in Threads \ {t} :
        Stale(u) /\ Exhausted(u) /\ version[t].ms <= version[u].ms})

\* The last version of every thread is extracted in the end, whatever scans,
\* leases, crashes and failures come in between, unless the thread is polluted,
\* leaves the age window or is crowded out, or its retries are used up.
Settled(t) ==
    \/ mode[t] = "polluted" \/ version[t].age = "out"
    \/ jobs[t] # None /\ jobs[t].success = Timestamp(version[t].ms)
    \/ Exhausted(t) \/ CrowdedOut(t)
EveryVersionIsExtracted == <>[](\A t \in Threads : Settled(t))

\* Only one consolidation inspects or mutates the memories root at a time.
OneConsolidationAlways ==
    \A p, q \in Runs : pc[p] \in AtRoot /\ pc[q] \in AtRoot => p = q
=============================================================================
