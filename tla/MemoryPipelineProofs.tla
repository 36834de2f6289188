------------------------ MODULE MemoryPipelineProofs ------------------------
(***************************************************************************)
(* Proofs about MemoryPipeline, for any number of threads, runs, versions, *)
(* retries and faults: type correctness, what the job rows and the         *)
(* ownership tokens keep true of the outputs, and what the global lease    *)
(* keeps true of the memories root.                                        *)
(***************************************************************************)
EXTENDS MemoryPipeline, TLAPS

USE PipelineAssumption

-----------------------------------------------------------------------------
(* The inductive invariants.                                               *)

\* A job in somebody's hands can still fail once: mark_stage1_job_failed
\* never counts below zero.
RetriesLeft ==
    \A t \in Threads :
        jobs[t] # None /\ jobs[t].status \in Unfinished => jobs[t].retries > 0

TypeInv == TypeOK /\ RetriesLeft

\* Only a run in phase 1 holds scanned or claimed threads.
WorkIsPhase1 ==
    \A p \in Runs : pc[p] = "phase1" \/ (todo[p] = {} /\ claims[p] = {})

\* A run looks at each thread once: at one version of it, and not again
\* after it has claimed it.
EachThreadOnce ==
    \A p \in Runs :
        /\ \A s, r \in todo[p] : s.thread = r.thread => s = r
        /\ \A s \in todo[p], c \in claims[p] : s.thread # c.thread

\* The ownership token: as long as the row names the run, the row is about
\* the version the run has claimed, and no reset has come between.
TokensAreCurrent ==
    \A p \in Runs : \A c \in claims[p] :
        Owns(p, c.thread) => /\ jobs[c.thread].input = c.source
                             /\ c.epoch = faults["reset"]

\* A job is only ever claimed for a version beyond the last success.
ClaimedIsNewer ==
    \A t \in Threads :
        jobs[t] # None /\ jobs[t].status \in Unfinished
            => jobs[t].success < jobs[t].input

JobsInv ==
    /\ WorkIsPhase1 /\ EachThreadOnce /\ TokensAreCurrent /\ ClaimedIsNewer
    /\ OutputMatchesWatermark /\ ResetIsFinal

\* Nobody has reset the memory, and no live run was suspended.
Undisturbed == faults["reset"] = 0 /\ faults["suspend"] = 0

\* A run at work on the root holds the running lease.
LeaseHeld ==
    \A p \in Runs : pc[p] \in Consolidating =>
        global # None /\ global.status = "running" /\ global.owner = p

\* An agent outlives its run only after a heartbeat that could not be written.
LingeringAfterFailure ==
    \A p \in Runs : pc[p] = "lingering" => faults["heartbeat"] > 0

LeaseInOrder == ~resetting /\ LeaseHeld /\ LingeringAfterFailure
LeaseInv == Undisturbed => LeaseInOrder

\* The root is empty or has a baseline, and has one from the first step on.
BaselineExists ==
    /\ baseline = None => root = Empty
    /\ \A p \in Runs : pc[p] \in Consolidating \ {"claimed"} => baseline # None

\* From the sync on, the root holds the selection of the run at work ...
RootIsSynced ==
    \A p \in Runs :
        pc[p] \in {"synced", "agent", "completed", "confirmed", "committed"}
            => root.inputs = inputs[p]

\* ... and once the agent is done, a summary of it.
RootIsConsolidated ==
    \A p \in Runs :
        pc[p] \in {"completed", "confirmed"} => root.memory = root.inputs

RootInOrder ==
    /\ BaselineExists /\ RootIsSynced /\ RootIsConsolidated
    /\ baseline # None => baseline.inputs = baseline.memory

\* No agent is left at the root beside the run at work.
Alone == faults["heartbeat"] = 0
RootInv == Undisturbed /\ Alone => RootInOrder

-----------------------------------------------------------------------------
(* Types                                                                   *)

\* No fault strikes beyond the bound on their sum.
LEMMA StrikesType ==
    ASSUME faults \in [Fault -> 0..MaxFaults], NEW k \in Fault, Strikes(k)
    PROVE  faults' \in [Fault -> 0..MaxFaults]
  <1>1. faults[k] + 1 \in 0..MaxFaults
    BY DEF Strikes, Fault
  <1> QED
    BY <1>1 DEF Strikes

\* A strike is counted once, under its own kind.
LEMMA StrikesCounts ==
    ASSUME faults \in [Fault -> 0..MaxFaults], NEW k \in Fault, Strikes(k)
    PROVE  /\ faults'[k] = faults[k] + 1
           /\ \A j \in Fault \ {k} : faults'[j] = faults[j]
  BY DEF Strikes

\* The second of a time.
LEMMA TimestampType ==
    ASSUME NEW ms \in Second..MaxTime
    PROVE  Timestamp(ms) \in Nat \ {0}
  BY DEF Timestamp

LEMMA EnqueuedType ==
    ASSUME global \in GlobalJob \cup {None}
    PROVE  Enqueued \in GlobalJob
  BY DEF Enqueued, GlobalJob

LEMMA ClaimedType ==
    ASSUME jobs \in [Threads -> Job \cup {None}],
           NEW p \in Runs, NEW s \in Snapshot, Claimable(s)
    PROVE  /\ Claimed(p, s) \in Job /\ Claimed(p, s).retries > 0
           /\ Claimed(p, s).status = "running" /\ Claimed(p, s).owner = p
           /\ Claimed(p, s).input = s.source
           /\ Claimed(p, s).success < s.source
           /\ jobs[s.thread] # None =>
                Claimed(p, s).success = jobs[s.thread].success
  <1>1. s.thread \in Threads /\ s.source \in Nat \ {0}
    BY DEF Snapshot
  <1>2. CASE jobs[s.thread] = None
    BY <1>1, <1>2 DEF Claimed, Job
  <1>3. CASE jobs[s.thread] # None
    <2> DEFINE job == jobs[s.thread]
    <2>1. job \in Job
      BY <1>1, <1>3
    <2>2. job.retries = 0 => s.source > job.input
      BY <1>3 DEF Claimable
    <2>3. job.success < s.source
      BY <1>1, <1>3, <2>1 DEF Claimable, UpToDate, Job
    <2>4. job.retries \in 0..MaxRetries
      BY <2>1 DEF Job
    <2> DEFINE left == IF s.source > job.input THEN MaxRetries ELSE job.retries
    <2>5. left \in 1..MaxRetries
      BY <2>2, <2>4
    <2>6. job.success \in Nat
      BY <2>1 DEF Job
    <2>7. Claimed(p, s) = [status |-> "running", owner |-> p, retries |-> left,
                           input |-> s.source, success |-> job.success]
      BY <1>3, <2>1 DEF Claimed, Job
    <2> HIDE DEF left, job
    <2>8. Claimed(p, s).success = job.success
      BY <2>7
    <2> QED
      BY <1>1, <2>3, <2>5, <2>6, <2>7, <2>8 DEF Job, job
  <1> QED
    BY <1>2, <1>3

LEMMA InitType ==
    ASSUME Init
    PROVE  TypeInv
  <1>0. Empty \in Content
    BY DEF Empty, Content
  <1>1. TypeOK
    <2>1. version \in [Threads -> Version] /\ faults \in [Fault -> 0..MaxFaults]
      BY DEF Init, Version
    <2>2. pc \in [Runs -> Pc] /\ mode \in [Threads -> {"enabled", "polluted"}]
      BY DEF Init, Pc
    <2>3. /\ todo \in [Runs -> SUBSET Snapshot]
          /\ claims \in [Runs -> SUBSET Claim]
          /\ inputs \in [Runs -> SUBSET Snapshot]
      BY DEF Init
    <2> QED
      BY <1>0, <2>1, <2>2, <2>3 DEF Init, TypeOK
  <1>2. RetriesLeft
    BY DEF Init, RetriesLeft
  <1> QED
    BY <1>1, <1>2 DEF TypeInv

LEMMA StartType ==
    ASSUME TypeInv, NEW p \in Runs, Start(p)
    PROVE  TypeInv'
  <1> USE DEF TypeInv
  <1>1. outputs' \in [Threads -> Output \cup {None}]
    BY DEF Start, TypeOK
  <1>2. ASSUME NEW S \in Scans(p)
        PROVE  {Snap(t, Timestamp(version[t].ms)) : t \in S} \subseteq Snapshot
    <2>1. \A t \in Threads : Timestamp(version[t].ms) \in Nat \ {0}
      BY TimestampType DEF TypeOK, Version
    <2>2. S \subseteq Threads
      BY DEF Scans
    <2> QED
      BY <2>1, <2>2 DEF Snap, Snapshot
  <1>3. todo' \in [Runs -> SUBSET Snapshot]
    BY <1>2 DEF Start, TypeOK
  <1>4. pc' \in [Runs -> Pc]
    BY DEF Start, Goto, Pc, TypeOK
  <1> QED
    BY <1>1, <1>3, <1>4 DEF Start, TypeOK, RetriesLeft, files

LEMMA ClaimStage1Type ==
    ASSUME TypeInv, NEW p \in Runs, ClaimStage1(p)
    PROVE  TypeInv'
  <1> USE DEF TypeInv
  <1>0. PICK s \in todo[p] :
          \/ /\ Claimable(s)
             /\ jobs' = [jobs EXCEPT ![s.thread] = Claimed(p, s)]
             /\ claims' = [claims EXCEPT ![p] = @ \cup
                    {[thread |-> s.thread, source |-> s.source,
                      epoch |-> faults["reset"]]}]
             /\ todo' = [todo EXCEPT ![p] =
                    IF Cardinality(claims'[p]) < MaxRunning THEN @ \ {s} ELSE {}]
          \/ /\ ~Claimable(s)
             /\ todo' = [todo EXCEPT ![p] = @ \ {s}]
             /\ UNCHANGED << jobs, claims >>
    BY DEF ClaimStage1
  <1>1. s \in Snapshot
    BY DEF TypeOK
  <1>2. todo' \in [Runs -> SUBSET Snapshot]
    BY <1>0 DEF TypeOK
  <1>3. claims' \in [Runs -> SUBSET Claim]
    BY <1>0, <1>1 DEF TypeOK, Claim, Snapshot, Fault
  <1>4. jobs' \in [Threads -> Job \cup {None}] /\ RetriesLeft'
    <2>1. CASE Claimable(s)
      BY <1>0, <1>1, <2>1, ClaimedType DEF TypeOK, RetriesLeft, Snapshot
    <2>2. CASE ~Claimable(s)
      BY <1>0, <2>2 DEF TypeOK, RetriesLeft
    <2> QED
      BY <2>1, <2>2
  <1> QED
    BY <1>2, <1>3, <1>4 DEF ClaimStage1, TypeOK, files

\* A succeeded job is a job, no longer in anybody's hands.
LEMMA DoneType ==
    ASSUME NEW job \in Job
    PROVE  /\ Done(job) \in Job /\ Done(job).status = "done"
           /\ Done(job).success = job.input
  <1> DEFINE ended == [job EXCEPT !.status = "done"]
  <1>1. ended \in Job /\ ended.status = "done" /\ ended.input = job.input
    BY DEF Job
  <1>2. Done(job) = [ended EXCEPT !.success = ended.input]
    BY <1>1 DEF Done
  <1> HIDE DEF ended
  <1>3. [ended EXCEPT !.success = ended.input] \in Job
    BY <1>1 DEF Job
  <1>4. /\ [ended EXCEPT !.success = ended.input].status = ended.status
        /\ [ended EXCEPT !.success = ended.input].success = ended.input
    BY <1>1 DEF Job
  <1> QED
    BY <1>1, <1>2, <1>3, <1>4

\* A failed job is a job, with the retries it is left.
LEMMA FailedType ==
    ASSUME NEW job \in Job, NEW n \in 0..MaxRetries
    PROVE  LET failed == [job EXCEPT !.status = "backoff", !.retries = n]
           IN  /\ failed \in Job /\ failed.status = "backoff"
               /\ failed.success = job.success
  <1> DEFINE ended == [job EXCEPT !.status = "backoff"]
  <1>1. /\ ended \in Job /\ ended.status = "backoff"
        /\ ended.success = job.success
    BY DEF Job
  <1>2. [job EXCEPT !.status = "backoff", !.retries = n]
          = [ended EXCEPT !.retries = n]
    OBVIOUS
  <1> HIDE DEF ended
  <1>3. [ended EXCEPT !.retries = n] \in Job
    BY <1>1 DEF Job
  <1>4. /\ [ended EXCEPT !.retries = n].status = ended.status
        /\ [ended EXCEPT !.retries = n].success = ended.success
    BY <1>1 DEF Job
  <1> QED
    BY <1>1, <1>2, <1>3, <1>4

\* The three ways an extraction ends keep the types of the rows.
LEMMA MarkType ==
    ASSUME TypeInv, NEW p \in Runs, NEW c \in Claim,
           \/ MarkStage1Succeeded(p, c) /\ UNCHANGED faults
           \/ MarkStage1NoOutput(p, c) /\ UNCHANGED faults
           \/ MarkStage1Failed(p, c) /\ Strikes("fail")
    PROVE  /\ jobs' \in [Threads -> Job \cup {None}] /\ RetriesLeft'
           /\ outputs' \in [Threads -> Output \cup {None}]
           /\ global' \in GlobalJob \cup {None}
           /\ faults' \in [Fault -> 0..MaxFaults]
  <1> USE DEF TypeInv
  <1> DEFINE t == c.thread
  <1>1. t \in Threads /\ c.source \in Nat \ {0} /\ c.epoch \in 0..MaxFaults
    BY DEF Claim
  <1>2. Owns(p, t) => jobs[t] \in Job /\ Done(jobs[t]) \in Job
                      /\ Done(jobs[t]).status = "done"
    BY <1>1, DoneType DEF Owns, TypeOK
  <1>3. faults' \in [Fault -> 0..MaxFaults]
    BY StrikesType DEF TypeOK, Fault
  <1>4. Enqueued \in GlobalJob
    BY EnqueuedType DEF TypeOK
  <1>5. CASE MarkStage1Succeeded(p, c)
    <2>1. CASE Owns(p, t)
      <3> DEFINE out == IF outputs[t] # None /\ outputs[t].source > c.source
                        THEN outputs[t]
                        ELSE [source |-> c.source, epoch |-> c.epoch,
                              selected |-> IF outputs[t] = None THEN 0
                                           ELSE outputs[t].selected]
      <3>1. out \in Output
        BY <1>1 DEF Output, TypeOK
      <3>2. /\ jobs' = [jobs EXCEPT ![t] = Done(jobs[t])]
            /\ outputs' = [outputs EXCEPT ![t] = out]
            /\ global' = Enqueued
        BY <1>5, <2>1 DEF MarkStage1Succeeded
      <3> HIDE DEF out
      <3> QED
        BY <1>1, <1>2, <1>3, <1>4, <2>1, <3>1, <3>2
           DEF TypeOK, RetriesLeft, Unfinished
    <2>2. CASE ~Owns(p, t)
      BY <1>3, <1>5, <2>2 DEF MarkStage1Succeeded, TypeOK, RetriesLeft
    <2> QED
      BY <2>1, <2>2
  <1>6. CASE MarkStage1NoOutput(p, c)
    <2>1. CASE Owns(p, t)
      <3>1. /\ jobs' = [jobs EXCEPT ![t] = Done(jobs[t])]
            /\ outputs' = [outputs EXCEPT ![t] = None]
            /\ global' \in {Enqueued, global}
        BY <1>6, <2>1 DEF MarkStage1NoOutput
      <3> QED
        BY <1>1, <1>2, <1>3, <1>4, <2>1, <3>1
           DEF TypeOK, RetriesLeft, Unfinished
    <2>2. CASE ~Owns(p, t)
      BY <1>3, <1>6, <2>2 DEF MarkStage1NoOutput, TypeOK, RetriesLeft
    <2> QED
      BY <2>1, <2>2
  <1>7. CASE MarkStage1Failed(p, c)
    <2>1. CASE Owns(p, t)
      <3> DEFINE failed == [jobs[t] EXCEPT !.status = "backoff",
                                           !.retries = jobs[t].retries - 1]
      <3>1. jobs[t].retries \in 1..MaxRetries
        BY <1>1, <1>2, <2>1 DEF Owns, RetriesLeft, Job
      <3>2. failed \in Job /\ failed.status = "backoff"
        <4>1. jobs[t] \in Job /\ jobs[t].retries - 1 \in 0..MaxRetries
          BY <1>2, <2>1, <3>1
        <4> QED
          BY <4>1, FailedType, Zenon
      <3>3. jobs' = [jobs EXCEPT ![t] = failed]
        BY <1>1, <1>7, <2>1 DEF MarkStage1Failed, TypeOK
      <3> HIDE DEF failed
      <3> QED
        BY <1>1, <1>3, <1>7, <3>2, <3>3
           DEF MarkStage1Failed, TypeOK, RetriesLeft, Unfinished
    <2>2. CASE ~Owns(p, t)
      BY <1>3, <1>7, <2>2 DEF MarkStage1Failed, TypeOK, RetriesLeft
    <2> QED
      BY <2>1, <2>2
  <1> QED
    BY <1>5, <1>6, <1>7

LEMMA ExtractType ==
    ASSUME TypeInv, NEW p \in Runs, Extract(p)
    PROVE  TypeInv'
  <1>1. PICK c \in claims[p] :
          /\ Extracted(p, c)
          /\ \/ MarkStage1Succeeded(p, c) /\ UNCHANGED faults
             \/ MarkStage1NoOutput(p, c) /\ UNCHANGED faults
             \/ MarkStage1Failed(p, c) /\ Strikes("fail")
    BY DEF Extract
  <1>2. c \in Claim
    BY DEF TypeInv, TypeOK
  <1>3. claims' \in [Runs -> SUBSET Claim]
    BY <1>1 DEF Extracted, TypeInv, TypeOK
  <1> QED
    BY <1>1, <1>2, <1>3, MarkType DEF Extracted, TypeInv, TypeOK, files

\* The steps that move a run to another place and give it a selection.
LEMMA EndType ==
    ASSUME TypeInv, NEW p \in Runs, End(p)
    PROVE  pc' \in [Runs -> Pc] /\ inputs' \in [Runs -> SUBSET Snapshot]
  BY DEF End, Goto, Pc, TypeInv, TypeOK

LEMMA MarkGlobalType ==
    ASSUME TypeInv, NEW p \in Runs,
           \/ MarkGlobalSucceeded(p)
           \/ MarkGlobalFailed(p) /\ UNCHANGED outputs
    PROVE  /\ global' \in GlobalJob \cup {None}
           /\ outputs' \in [Threads -> Output \cup {None}]
  <1> USE DEF TypeInv, TypeOK
  <1>1. OwnsGlobal(p) => global \in GlobalJob
    BY DEF OwnsGlobal
  <1>2. CASE MarkGlobalSucceeded(p)
    <2>1. CASE OwnsGlobal(p)
      <3>1. global' \in GlobalJob
        BY <1>1, <1>2, <2>1 DEF MarkGlobalSucceeded, GlobalJob
      <3>2. ASSUME NEW t \in Threads, outputs[t] # None
            PROVE  [outputs[t] EXCEPT !.selected =
                      IF Snap(t, outputs[t].source) \in inputs[p]
                      THEN outputs[t].source ELSE 0] \in Output
        BY <3>2 DEF Output
      <3>3. outputs' = [t \in Threads |->
                IF outputs[t] = None THEN None
                ELSE [outputs[t] EXCEPT !.selected =
                        IF Snap(t, outputs[t].source) \in inputs[p]
                        THEN outputs[t].source ELSE 0]]
        BY <1>2, <2>1 DEF MarkGlobalSucceeded
      <3> QED
        BY <3>1, <3>2, <3>3
    <2>2. CASE ~OwnsGlobal(p)
      BY <1>2, <2>2 DEF MarkGlobalSucceeded
    <2> QED
      BY <2>1, <2>2
  <1>3. CASE MarkGlobalFailed(p) /\ UNCHANGED outputs
    BY <1>1, <1>3 DEF MarkGlobalFailed, GlobalJob
  <1> QED
    BY <1>2, <1>3

LEMMA GotoType ==
    ASSUME TypeInv, NEW p \in Runs, NEW place \in Pc, Goto(p, place)
    PROVE  pc' \in [Runs -> Pc]
  BY DEF Goto, TypeInv, TypeOK

LEMMA RetriesKept ==
    ASSUME RetriesLeft, UNCHANGED jobs
    PROVE  RetriesLeft'
  BY DEF RetriesLeft

LEMMA Phase2Type ==
    ASSUME TypeInv, NEW p \in Runs,
           Phase2(p) \/ Heartbeat(p) \/ HeartbeatFails(p) \/ Phase2Fails(p)
    PROVE  TypeInv'
  <1> USE DEF TypeInv, files, db
  <1>0. OwnsGlobal(p) => global \in GlobalJob /\ Renewed \in GlobalJob
    BY DEF OwnsGlobal, Renewed, GlobalJob, TypeOK
  <1>1. CASE ClaimGlobal(p)
    <2>1. pc' \in [Runs -> Pc] /\ RetriesLeft'
      BY <1>1, GotoType, RetriesKept DEF ClaimGlobal, Pc, AtRoot, Consolidating
    <2>2. [status |-> "running", owner |-> p, cooling |-> FALSE] \in GlobalJob
      BY DEF GlobalJob
    <2> QED
      BY <1>1, <2>1, <2>2 DEF ClaimGlobal, TypeOK
  <1>2. CASE LoadInputs(p)
    <2>1. pc' \in [Runs -> Pc] /\ RetriesLeft'
      BY <1>2, GotoType, RetriesKept DEF LoadInputs, Pc, AtRoot, Consolidating
    <2>2. \A S \in Selections : S \in SUBSET Snapshot
      BY DEF Selections, Snap, Snapshot, Output, TypeOK
    <2>3. inputs' \in [Runs -> SUBSET Snapshot]
      BY <1>2, <2>2 DEF LoadInputs, TypeOK
    <2> QED
      BY <1>2, <2>1, <2>3 DEF LoadInputs, TypeOK
  <1>3. CASE SyncInputs(p)
    <2>1. pc' \in [Runs -> Pc] /\ RetriesLeft'
      BY <1>3, GotoType, RetriesKept DEF SyncInputs, Pc, AtRoot, Consolidating
    <2>2. root' \in Content
      BY <1>3 DEF SyncInputs, Content, TypeOK
    <2> QED
      BY <1>3, <2>1, <2>2 DEF SyncInputs, TypeOK
  <1>4. CASE DiffRoot(p)
    <2>1. RetriesLeft'
      BY <1>4, RetriesKept DEF DiffRoot
    <2>2. CASE MarkGlobalSucceeded(p) /\ End(p)
      BY <1>4, <2>1, <2>2, EndType, MarkGlobalType DEF DiffRoot, TypeOK
    <2>3. CASE Goto(p, "agent") /\ UNCHANGED << global, outputs, inputs >>
      <3>1. pc' \in [Runs -> Pc]
        BY <2>3, GotoType DEF Pc, AtRoot, Consolidating
      <3> QED
        BY <1>4, <2>1, <2>3, <3>1 DEF DiffRoot, TypeOK
    <2> QED
      BY <1>4, <2>2, <2>3 DEF DiffRoot
  <1>5. CASE AgentCompletes(p)
    <2>1. pc' \in [Runs -> Pc] /\ RetriesLeft'
      BY <1>5, GotoType, RetriesKept DEF AgentCompletes, Pc, AtRoot, Consolidating
    <2>2. root' \in Content
      BY <1>5 DEF AgentCompletes, Content, TypeOK
    <2> QED
      BY <1>5, <2>1, <2>2 DEF AgentCompletes, TypeOK
  <1>6. CASE Heartbeat(p)
    <2>1. RetriesLeft'
      BY <1>6, RetriesKept DEF Heartbeat
    <2>2. pc' \in [Runs -> Pc]
      BY <1>6, GotoType DEF Heartbeat, Pc, AtRoot, TypeOK
    <2> QED
      BY <1>0, <1>6, <2>1, <2>2 DEF Heartbeat, TypeOK
  <1>7. CASE ConfirmOwnership(p)
    <2>1. RetriesLeft'
      BY <1>7, RetriesKept DEF ConfirmOwnership
    <2>2. pc' \in [Runs -> Pc]
      BY <1>7, EndType, GotoType DEF ConfirmOwnership, Pc, AtRoot, Consolidating
    <2> QED
      BY <1>0, <1>7, <2>1, <2>2, EndType DEF ConfirmOwnership, TypeOK
  <1>8. CASE ResetBaseline(p)
    <2>1. pc' \in [Runs -> Pc] /\ RetriesLeft'
      BY <1>8, GotoType, RetriesKept DEF ResetBaseline, Pc, AtRoot, Consolidating
    <2> QED
      BY <1>8, <2>1 DEF ResetBaseline, TypeOK
  <1>9. CASE Succeed(p)
    <2>1. RetriesLeft'
      BY <1>9, RetriesKept DEF Succeed
    <2> QED
      BY <1>9, <2>1, EndType, MarkGlobalType DEF Succeed, TypeOK
  <1>10. CASE Phase2Fails(p)
    <2>1. faults' \in [Fault -> 0..MaxFaults]
      BY <1>10, StrikesType DEF Phase2Fails, Fault, TypeOK
    <2>2. RetriesLeft'
      BY <1>10, RetriesKept DEF Phase2Fails
    <2> QED
      BY <1>10, <2>1, <2>2, EndType, MarkGlobalType DEF Phase2Fails, TypeOK
  <1>11. CASE HeartbeatFails(p)
    <2>1. faults' \in [Fault -> 0..MaxFaults]
      BY <1>11, StrikesType DEF HeartbeatFails, Fault, TypeOK
    <2>2. pc' \in [Runs -> Pc] /\ RetriesLeft'
      BY <1>11, GotoType, RetriesKept DEF HeartbeatFails, Pc, AtRoot
    <2>3. global' \in GlobalJob \cup {None}
      BY <1>11, MarkGlobalType DEF HeartbeatFails, TypeOK
    <2> QED
      BY <1>11, <2>1, <2>2, <2>3 DEF HeartbeatFails, TypeOK
  <1>12. CASE AgentStops(p)
    <2>1. RetriesLeft'
      BY <1>12, RetriesKept DEF AgentStops
    <2>2. root' \in Content
      BY <1>12 DEF AgentStops, Content, TypeOK
    <2> QED
      BY <1>12, <2>1, <2>2, EndType DEF AgentStops, TypeOK
  <1> QED
    BY <1>1, <1>2, <1>3, <1>4, <1>5, <1>6, <1>7, <1>8, <1>9, <1>10, <1>11,
       <1>12 DEF Phase2

\* The steps of the threads.
ThreadStep(t) ==
    UpdateThread(t) \/ ThreadIdles(t) \/ ThreadAgesOut(t) \/ Pollute(t)

LEMMA OtherStepsType ==
    ASSUME TypeInv,
           \/ \E t \in Threads : ThreadStep(t)
           \/ \E p \in Runs : Crash(p)
           \/ ClearMemoryData \/ ClearMemoryRoot \/ Time
    PROVE  TypeInv'
  <1> USE DEF TypeInv, TypeOK, files, db, run
  <1>1. ASSUME NEW t \in Threads, UpdateThread(t) PROVE TypeInv'
    <2>1. PICK now \in (version[t].ms + 1)..MaxTime :
            version' = [version EXCEPT ![t] = [ms |-> now, age |-> "fresh"]]
      BY <1>1 DEF UpdateThread
    <2>2. [ms |-> now, age |-> "fresh"] \in Version
      BY DEF Version
    <2> QED
      BY <1>1, <2>1, <2>2 DEF UpdateThread, RetriesLeft
  <1>10. ASSUME NEW t \in Threads, ThreadIdles(t) \/ ThreadAgesOut(t)
         PROVE  TypeInv'
    <2>1. PICK a \in {"idle", "out"} :
            version' = [version EXCEPT ![t] = [version[t] EXCEPT !.age = a]]
      BY <1>10 DEF ThreadIdles, ThreadAgesOut
    <2>2. [version[t] EXCEPT !.age = a] \in Version
      BY DEF Version
    <2> QED
      BY <1>10, <2>1, <2>2 DEF ThreadIdles, ThreadAgesOut, RetriesLeft
  <1>2. ASSUME NEW t \in Threads, Pollute(t) PROVE TypeInv'
    BY <1>2, EnqueuedType DEF Pollute, RetriesLeft
  <1>3. ASSUME NEW p \in Runs, Crash(p) PROVE TypeInv'
    <2>1. faults' \in [Fault -> 0..MaxFaults]
      BY <1>3, StrikesType DEF Crash, Fault
    <2> QED
      BY <1>3, <2>1 DEF Crash, Pc, RetriesLeft
  <1>4. CASE ClearMemoryData
    <2>1. faults' \in [Fault -> 0..MaxFaults]
      BY <1>4, StrikesType DEF ClearMemoryData, Fault
    <2> QED
      BY <1>4, <2>1 DEF ClearMemoryData, RetriesLeft
  <1>5. CASE ClearMemoryRoot
    BY <1>5 DEF ClearMemoryRoot, Empty, Content, RetriesLeft
  <1>6. ASSUME NEW t \in Threads, Stage1LeaseEnds(t) PROVE TypeInv'
    <2>1. faults' \in [Fault -> 0..MaxFaults]
      BY <1>6, StrikesType DEF Stage1LeaseEnds, Fault
    <2>2. jobs' = [jobs EXCEPT ![t] = [jobs[t] EXCEPT !.status = "expired"]]
      BY <1>6 DEF Stage1LeaseEnds
    <2>3. /\ [jobs[t] EXCEPT !.status = "expired"] \in Job
          /\ [jobs[t] EXCEPT !.status = "expired"].retries = jobs[t].retries
          /\ jobs[t].retries > 0
      BY <1>6 DEF Stage1LeaseEnds, Job, RetriesLeft, Unfinished
    <2>4. jobs' \in [Threads -> Job \cup {None}] /\ RetriesLeft'
      BY <2>2, <2>3 DEF RetriesLeft
    <2> QED
      BY <1>6, <2>1, <2>4 DEF Stage1LeaseEnds
  <1>7. CASE GlobalLeaseEnds
    <2>1. faults' \in [Fault -> 0..MaxFaults]
      BY <1>7, StrikesType DEF GlobalLeaseEnds, Fault
    <2>2. global' \in GlobalJob
      BY <1>7 DEF GlobalLeaseEnds, GlobalJob
    <2> QED
      BY <1>7, <2>1, <2>2 DEF GlobalLeaseEnds, RetriesLeft
  <1>8. CASE BackoffEnds
    <2>1. ASSUME NEW t \in Threads, jobs[t] # None, jobs[t].status = "backoff",
                 jobs' = [jobs EXCEPT ![t].status = "error"], UNCHANGED global
          PROVE  TypeInv'
      <3>1. /\ [jobs[t] EXCEPT !.status = "error"] \in Job
            /\ [jobs[t] EXCEPT !.status = "error"].status = "error"
        BY <2>1 DEF Job
      <3>2. jobs' \in [Threads -> Job \cup {None}] /\ RetriesLeft'
        BY <2>1, <3>1 DEF RetriesLeft, Unfinished
      <3> QED
        BY <1>8, <2>1, <3>2 DEF BackoffEnds
    <2>2. ASSUME global # None,
                 global' = [global EXCEPT !.status = "error"], UNCHANGED jobs
          PROVE  TypeInv'
      <3>1. global' \in GlobalJob
        BY <2>2 DEF GlobalJob
      <3> QED
        BY <1>8, <2>2, <3>1 DEF BackoffEnds, RetriesLeft
    <2> QED
      BY <1>8, <2>1, <2>2 DEF BackoffEnds
  <1>9. CASE CooldownEnds
    <2>1. global' \in GlobalJob
      BY <1>9 DEF CooldownEnds, GlobalJob
    <2> QED
      BY <1>9, <2>1 DEF CooldownEnds, RetriesLeft
  <1> QED
    BY <1>1, <1>2, <1>3, <1>4, <1>5, <1>6, <1>7, <1>8, <1>9, <1>10
       DEF Time, ThreadStep

LEMMA NextType ==
    ASSUME TypeInv, [Next]_vars
    PROVE  TypeInv'
  <1>1. CASE UNCHANGED vars
    BY <1>1 DEF vars, db, files, run, TypeInv, TypeOK, RetriesLeft
  <1>2. CASE Next
    BY <1>2, StartType, ClaimStage1Type, ExtractType, Phase2Type, OtherStepsType
       DEF Next, Phase1, ThreadStep
  <1> QED
    BY <1>1, <1>2

\* Type correctness of the pipeline: every row, count and place a run can be
\* in stays in its range; the retry count of mark_stage1_job_failed never
\* falls below zero.
THEOREM TypeCorrect == Spec => []TypeOK
  <1>1. Init => TypeInv
    BY InitType
  <1>2. TypeInv /\ [Next]_vars => TypeInv'
    BY NextType
  <1>3. TypeInv => TypeOK
    BY DEF TypeInv
  <1> QED
    BY <1>1, <1>2, <1>3, PTL DEF Spec

-----------------------------------------------------------------------------
(* Phase 1: the job rows and the outputs                                   *)

\* Most steps leave the rows alone: they may only remove outputs or change
\* their marks.
LEMMA JobsInvKept ==
    ASSUME JobsInv, UNCHANGED << jobs, todo, claims >>,
           faults'["reset"] = faults["reset"],
           \A p \in Runs : pc[p] = "phase1" =>
               pc'[p] = "phase1" \/ (todo[p] = {} /\ claims[p] = {}),
           \A t \in Threads : outputs'[t] # None =>
               /\ outputs[t] # None
               /\ outputs'[t].source = outputs[t].source
               /\ outputs'[t].epoch = outputs[t].epoch
    PROVE  JobsInv'
  <1>1. WorkIsPhase1' /\ EachThreadOnce' /\ ClaimedIsNewer'
    BY DEF JobsInv, WorkIsPhase1, EachThreadOnce, ClaimedIsNewer
  <1>2. TokensAreCurrent'
    BY DEF JobsInv, TokensAreCurrent, Owns
  <1>3. OutputMatchesWatermark' /\ ResetIsFinal'
    BY DEF JobsInv, OutputMatchesWatermark, ResetIsFinal
  <1> QED
    BY <1>1, <1>2, <1>3 DEF JobsInv

\* The marks of mark_global_phase2_job_succeeded do not touch what an output
\* was made from.
LEMMA MarkGlobalKeepsOutputs ==
    ASSUME TypeOK, NEW p \in Runs,
           MarkGlobalSucceeded(p) \/ UNCHANGED outputs
    PROVE  \A t \in Threads : outputs'[t] # None =>
               /\ outputs[t] # None
               /\ outputs'[t].source = outputs[t].source
               /\ outputs'[t].epoch = outputs[t].epoch
  <1> SUFFICES ASSUME NEW t \in Threads, outputs'[t] # None,
                      MarkGlobalSucceeded(p), OwnsGlobal(p)
               PROVE  /\ outputs[t] # None
                      /\ outputs'[t].source = outputs[t].source
                      /\ outputs'[t].epoch = outputs[t].epoch
    BY DEF MarkGlobalSucceeded
  <1> DEFINE mark == IF Snap(t, outputs[t].source) \in inputs[p]
                     THEN outputs[t].source ELSE 0
  <1>1. outputs'[t] = IF outputs[t] = None THEN None
                      ELSE [outputs[t] EXCEPT !.selected = mark]
    BY DEF MarkGlobalSucceeded
  <1>2. outputs[t] \in Output
    BY <1>1 DEF TypeOK
  <1> HIDE DEF mark
  <1> QED
    BY <1>1, <1>2 DEF Output

LEMMA StartJobs ==
    ASSUME TypeInv, JobsInv, NEW p \in Runs, Start(p)
    PROVE  JobsInv'
  <1> USE DEF TypeInv, TypeOK
  <1>0. PICK S \in Scans(p) :
          todo' = [todo EXCEPT ![p] =
                     {Snap(t, Timestamp(version[t].ms)) : t \in S}]
    BY DEF Start
  <1>1. /\ pc' = [pc EXCEPT ![p] = "phase1"]
        /\ UNCHANGED << jobs, claims, faults >>
    BY DEF Start, Goto
  <1>2. claims[p] = {}
    BY DEF Start, JobsInv, WorkIsPhase1
  <1>3. WorkIsPhase1'
    BY <1>0, <1>1 DEF JobsInv, WorkIsPhase1
  <1>4. EachThreadOnce'
    <2>1. \A s, r \in todo'[p] : s.thread = r.thread => s = r
      BY <1>0 DEF Snap
    <2> QED
      BY <1>0, <1>1, <1>2, <2>1 DEF JobsInv, EachThreadOnce
  <1>5. TokensAreCurrent' /\ ClaimedIsNewer'
    BY <1>1 DEF JobsInv, TokensAreCurrent, ClaimedIsNewer, Owns
  <1>6. \A t \in Threads : outputs'[t] # None => outputs'[t] = outputs[t]
    BY DEF Start
  <1>7. OutputMatchesWatermark' /\ ResetIsFinal'
    BY <1>1, <1>6 DEF JobsInv, OutputMatchesWatermark, ResetIsFinal
  <1> QED
    BY <1>3, <1>4, <1>5, <1>7 DEF JobsInv

\* A claim takes the token from whoever had it.
LEMMA ClaimStage1Jobs ==
    ASSUME TypeInv, JobsInv, NEW p \in Runs, ClaimStage1(p)
    PROVE  JobsInv'
  <1> USE DEF TypeInv
  <1>0. PICK s \in todo[p] :
          \/ /\ Claimable(s)
             /\ jobs' = [jobs EXCEPT ![s.thread] = Claimed(p, s)]
             /\ claims' = [claims EXCEPT ![p] = @ \cup
                    {[thread |-> s.thread, source |-> s.source,
                      epoch |-> faults["reset"]]}]
             /\ todo' = [todo EXCEPT ![p] =
                    IF Cardinality(claims'[p]) < MaxRunning THEN @ \ {s} ELSE {}]
          \/ /\ ~Claimable(s)
             /\ todo' = [todo EXCEPT ![p] = @ \ {s}]
             /\ UNCHANGED << jobs, claims >>
    BY DEF ClaimStage1
  <1>1. /\ s \in Snapshot /\ s.thread \in Threads /\ pc[p] = "phase1"
        /\ UNCHANGED << pc, outputs, faults >>
    BY DEF ClaimStage1, TypeOK, Snapshot
  <1>2. WorkIsPhase1'
    BY <1>0, <1>1 DEF JobsInv, WorkIsPhase1, TypeOK
  <1>3. CASE Claimable(s)
    <2> DEFINE t == s.thread
               new == Claimed(p, s)
               c == [thread |-> s.thread, source |-> s.source,
                     epoch |-> faults["reset"]]
    <2>1. /\ new \in Job /\ new.status = "running" /\ new.owner = p
          /\ new.input = s.source /\ new.success < s.source
          /\ jobs[t] # None => new.success = jobs[t].success
      BY <1>1, <1>3, ClaimedType DEF TypeOK
    <2>2. /\ jobs' = [jobs EXCEPT ![t] = new]
          /\ claims' = [claims EXCEPT ![p] = claims[p] \cup {c}]
          /\ todo'[p] \subseteq todo[p] \ {s}
          /\ \A q \in Runs \ {p} : todo'[q] = todo[q]
      BY <1>0, <1>3 DEF TypeOK
    <2>3. c.thread = t /\ c.source = s.source /\ c.epoch = faults["reset"]
      OBVIOUS
    <2> HIDE DEF new, c
    <2>4. EachThreadOnce'
      BY <1>1, <2>2, <2>3 DEF JobsInv, EachThreadOnce, TypeOK
    <2>5. TokensAreCurrent'
      <3> SUFFICES ASSUME NEW q \in Runs, NEW d \in claims'[q],
                          Owns(q, d.thread)'
                   PROVE  /\ jobs'[d.thread].input = d.source
                          /\ d.epoch = faults["reset"]
        BY <1>1 DEF TokensAreCurrent
      <3>1. CASE d.thread = t
        <4>1. jobs'[t] = new
          BY <1>1, <2>2 DEF TypeOK
        <4>2. q = p
          BY <2>1, <3>1, <4>1 DEF Owns
        <4>3. d = c
          BY <2>2, <3>1, <4>2 DEF JobsInv, EachThreadOnce, TypeOK
        <4> QED
          BY <2>1, <2>3, <3>1, <4>1, <4>3
      <3>2. CASE d.thread # t
        <4>1. d \in claims[q] /\ d.thread \in Threads
          BY <2>2, <2>3, <3>2 DEF TypeOK, Claim
        <4>2. jobs'[d.thread] = jobs[d.thread]
          BY <2>2, <3>2, <4>1 DEF TypeOK
        <4>3. Owns(q, d.thread)
          BY <4>2 DEF Owns
        <4> QED
          BY <4>1, <4>2, <4>3 DEF JobsInv, TokensAreCurrent
      <3> QED
        BY <3>1, <3>2
    <2>6. ClaimedIsNewer'
      BY <1>1, <2>1, <2>2 DEF JobsInv, ClaimedIsNewer, TypeOK
    <2>7. OutputMatchesWatermark'
      <3>1. new # None
        BY <2>1, NoneAssumption
      <3> QED
        BY <1>1, <2>1, <2>2, <3>1 DEF JobsInv, OutputMatchesWatermark, TypeOK
    <2>8. ResetIsFinal'
      BY <1>1 DEF JobsInv, ResetIsFinal
    <2> QED
      BY <1>2, <2>4, <2>5, <2>6, <2>7, <2>8 DEF JobsInv
  <1>4. CASE ~Claimable(s)
    <2>1. UNCHANGED << jobs, claims >> /\ todo' = [todo EXCEPT ![p] = @ \ {s}]
      BY <1>0, <1>4
    <2>2. EachThreadOnce'
      BY <2>1 DEF JobsInv, EachThreadOnce, TypeOK
    <2>3. TokensAreCurrent' /\ ClaimedIsNewer'
      BY <1>1, <2>1 DEF JobsInv, TokensAreCurrent, ClaimedIsNewer, Owns
    <2>4. OutputMatchesWatermark' /\ ResetIsFinal'
      BY <1>1, <2>1 DEF JobsInv, OutputMatchesWatermark, ResetIsFinal
    <2> QED
      BY <1>2, <2>2, <2>3, <2>4 DEF JobsInv
  <1> QED
    BY <1>3, <1>4

\* A row that leaves the hands of its owner, or changes within them, without
\* another version: what the expiry of a lease, a failure and the end of a
\* backoff do.
LEMMA RowChanges ==
    ASSUME TypeInv, JobsInv, NEW t \in Threads, NEW new \in Job,
           jobs[t] # None, jobs' = [jobs EXCEPT ![t] = new],
           new.success = jobs[t].success,
           new.status \in Unfinished =>
               /\ jobs[t].status \in Unfinished
               /\ new.owner = jobs[t].owner /\ new.input = jobs[t].input,
           UNCHANGED << outputs, pc, todo >>,
           \A p \in Runs : claims'[p] \subseteq claims[p],
           faults'["reset"] = faults["reset"]
    PROVE  JobsInv'
  <1> USE DEF TypeInv, TypeOK
  <1>1. WorkIsPhase1' /\ EachThreadOnce'
    BY DEF JobsInv, WorkIsPhase1, EachThreadOnce
  <1>2. TokensAreCurrent'
    <2> SUFFICES ASSUME NEW q \in Runs, NEW d \in claims'[q],
                        Owns(q, d.thread)'
                 PROVE  /\ jobs'[d.thread].input = d.source
                        /\ d.epoch = faults["reset"]
      BY DEF TokensAreCurrent
    <2>1. d \in claims[q] /\ d.thread \in Threads
      BY DEF Claim
    <2>2. Owns(q, d.thread) /\ jobs'[d.thread].input = jobs[d.thread].input
      BY <2>1 DEF Owns
    <2> QED
      BY <2>1, <2>2 DEF JobsInv, TokensAreCurrent
  <1>3. ClaimedIsNewer'
    BY DEF JobsInv, ClaimedIsNewer
  <1>4. OutputMatchesWatermark' /\ ResetIsFinal'
    BY NoneAssumption DEF JobsInv, OutputMatchesWatermark, ResetIsFinal
  <1> QED
    BY <1>1, <1>2, <1>3, <1>4 DEF JobsInv

\* The output a run stores is made from the version its token is for, and
\* that version becomes the watermark with it.
LEMMA ExtractJobs ==
    ASSUME TypeInv, JobsInv, NEW p \in Runs, Extract(p)
    PROVE  JobsInv'
  <1> USE DEF TypeInv
  <1>0. PICK c \in claims[p] :
          /\ Extracted(p, c)
          /\ \/ MarkStage1Succeeded(p, c) /\ UNCHANGED faults
             \/ MarkStage1NoOutput(p, c) /\ UNCHANGED faults
             \/ MarkStage1Failed(p, c) /\ Strikes("fail")
    BY DEF Extract
  <1> DEFINE t == c.thread
  <1>1. /\ t \in Threads /\ c.source \in Nat \ {0}
        /\ claims' = [claims EXCEPT ![p] = @ \ {c}]
        /\ \A q \in Runs : claims'[q] \subseteq claims[q]
        /\ UNCHANGED << pc, todo >>
    BY <1>0 DEF Extracted, TypeOK, Claim
  <1>2. faults'["reset"] = faults["reset"]
    BY <1>0, StrikesCounts DEF TypeOK, Fault
  <1>3. WorkIsPhase1' /\ EachThreadOnce'
    BY <1>1 DEF JobsInv, WorkIsPhase1, EachThreadOnce
  <1>4. CASE ~Owns(p, t)
    <2>1. UNCHANGED << jobs, outputs >>
      BY <1>0, <1>4
         DEF MarkStage1Succeeded, MarkStage1NoOutput, MarkStage1Failed
    <2>2. TokensAreCurrent' /\ ClaimedIsNewer'
      BY <1>1, <1>2, <2>1 DEF JobsInv, TokensAreCurrent, ClaimedIsNewer, Owns
    <2>3. OutputMatchesWatermark' /\ ResetIsFinal'
      BY <1>2, <2>1 DEF JobsInv, OutputMatchesWatermark, ResetIsFinal
    <2> QED
      BY <1>3, <2>2, <2>3 DEF JobsInv
  <1>5. CASE Owns(p, t) /\ MarkStage1Failed(p, c)
    <2> DEFINE failed == [jobs[t] EXCEPT !.status = "backoff",
                                         !.retries = jobs[t].retries - 1]
    <2>1. jobs[t] # None /\ jobs[t] \in Job
      BY <1>1, <1>5 DEF Owns, TypeOK
    <2>2. jobs[t].retries - 1 \in 0..MaxRetries
      BY <1>1, <1>5, <2>1 DEF Owns, RetriesLeft, Job
    <2>3. /\ failed \in Job /\ failed.status = "backoff"
          /\ failed.success = jobs[t].success
      BY <2>1, <2>2, FailedType, Zenon
    <2>4. jobs' = [jobs EXCEPT ![t] = failed] /\ UNCHANGED outputs
      BY <1>1, <1>5 DEF MarkStage1Failed, TypeOK
    <2> HIDE DEF failed
    <2> QED
      BY <1>1, <1>2, <2>1, <2>3, <2>4, RowChanges DEF Unfinished
  <1>6. CASE /\ Owns(p, t)
             /\ MarkStage1Succeeded(p, c) \/ MarkStage1NoOutput(p, c)
    <2>1. jobs[t] # None /\ jobs[t] \in Job /\ jobs[t].status \in Unfinished
      BY <1>1, <1>6 DEF Owns, TypeOK
    <2>2. jobs[t].input = c.source /\ c.epoch = faults["reset"]
      BY <1>0, <1>6 DEF JobsInv, TokensAreCurrent
    <2> DEFINE done == Done(jobs[t])
    <2>3. done \in Job /\ done.status = "done" /\ done.success = c.source
      BY <2>1, <2>2, DoneType
    <2>4. jobs' = [jobs EXCEPT ![t] = done]
      BY <1>6 DEF MarkStage1Succeeded, MarkStage1NoOutput
    <2> HIDE DEF done
    <2>5. TokensAreCurrent'
      <3> SUFFICES ASSUME NEW q \in Runs, NEW d \in claims'[q],
                          Owns(q, d.thread)'
                   PROVE  /\ jobs'[d.thread].input = d.source
                          /\ d.epoch = faults["reset"]
        BY <1>2 DEF TokensAreCurrent
      <3>1. d \in claims[q] /\ d.thread \in Threads
        BY <1>1 DEF TypeOK, Claim
      <3>2. d.thread # t /\ jobs'[d.thread] = jobs[d.thread]
        BY <1>1, <2>3, <2>4, <3>1 DEF Owns, Unfinished, TypeOK
      <3> QED
        BY <3>1, <3>2 DEF JobsInv, TokensAreCurrent, Owns
    <2>6. ClaimedIsNewer'
      BY <1>1, <2>3, <2>4 DEF JobsInv, ClaimedIsNewer, Unfinished, TypeOK
    <2>7. outputs'[t] # None =>
            outputs'[t].source = c.source /\ outputs'[t].epoch = faults["reset"]
      <3>1. CASE MarkStage1NoOutput(p, c)
        BY <1>1, <1>6, <3>1 DEF MarkStage1NoOutput, TypeOK
      <3>2. CASE MarkStage1Succeeded(p, c)
        <4>1. ~(outputs[t] # None /\ outputs[t].source > c.source)
          <5>1. outputs[t] # None => outputs[t].source = jobs[t].success
            BY <1>1 DEF JobsInv, OutputMatchesWatermark
          <5>2. jobs[t].success < jobs[t].input
            BY <1>1, <2>1 DEF JobsInv, ClaimedIsNewer
          <5>3. jobs[t].success \in Nat /\ jobs[t].input \in Nat
            BY <2>1 DEF Job
          <5> QED
            BY <2>2, <5>1, <5>2, <5>3
        <4>2. outputs'[t] = [source |-> c.source, epoch |-> c.epoch,
                             selected |-> IF outputs[t] = None THEN 0
                                          ELSE outputs[t].selected]
          BY <1>1, <1>6, <3>2, <4>1 DEF MarkStage1Succeeded, TypeOK
        <4> QED
          BY <2>2, <4>2
      <3> QED
        BY <1>6, <3>1, <3>2
    <2>8. \A u \in Threads \ {t} :
            outputs'[u] = outputs[u] /\ jobs'[u] = jobs[u]
      BY <1>1, <1>6, <2>4
         DEF MarkStage1Succeeded, MarkStage1NoOutput, TypeOK
    <2>9. jobs'[t] # None /\ jobs'[t].success = c.source
      BY <1>1, <2>3, <2>4, NoneAssumption DEF TypeOK
    <2>10. OutputMatchesWatermark' /\ ResetIsFinal'
      BY <1>2, <2>7, <2>8, <2>9 DEF JobsInv, OutputMatchesWatermark, ResetIsFinal
    <2> QED
      BY <1>3, <2>5, <2>6, <2>10 DEF JobsInv
  <1> QED
    BY <1>0, <1>4, <1>5, <1>6

LEMMA Phase2Jobs ==
    ASSUME TypeInv, JobsInv, NEW p \in Runs,
           Phase2(p) \/ Heartbeat(p) \/ HeartbeatFails(p) \/ Phase2Fails(p)
    PROVE  JobsInv'
  <1> USE DEF TypeInv, db, files
  <1>1. UNCHANGED << jobs, todo, claims >>
    BY DEF Phase2, ClaimGlobal, LoadInputs, SyncInputs, DiffRoot,
           AgentCompletes, Heartbeat, ConfirmOwnership, ResetBaseline, Succeed,
           Phase2Fails, HeartbeatFails, AgentStops
  <1>2. faults'["reset"] = faults["reset"]
    <2>1. UNCHANGED faults \/ Strikes("fail") \/ Strikes("heartbeat")
      BY DEF Phase2, ClaimGlobal, LoadInputs, SyncInputs, DiffRoot,
             AgentCompletes, Heartbeat, ConfirmOwnership, ResetBaseline,
             Succeed, Phase2Fails, HeartbeatFails, AgentStops
    <2> QED
      BY <2>1, StrikesCounts DEF TypeOK, Fault
  <1>3. \A q \in Runs : pc[q] = "phase1" =>
          pc'[q] = "phase1" \/ (todo[q] = {} /\ claims[q] = {})
    <2>1. CASE ClaimGlobal(p)
      BY <2>1 DEF ClaimGlobal, Goto, TypeOK
    <2>2. CASE ~ClaimGlobal(p)
      <3>1. pc[p] # "phase1"
        BY <2>2 DEF Phase2, LoadInputs, SyncInputs, DiffRoot,
             AgentCompletes, Heartbeat, ConfirmOwnership, ResetBaseline,
             Succeed, Phase2Fails, HeartbeatFails, AgentStops, Consolidating
      <3>2. \A q \in Runs \ {p} : pc'[q] = pc[q]
        BY <2>2 DEF Phase2, LoadInputs, SyncInputs, DiffRoot,
             AgentCompletes, Heartbeat, ConfirmOwnership, ResetBaseline,
             Succeed, Phase2Fails, HeartbeatFails, AgentStops, End, Goto, TypeOK
      <3> QED
        BY <3>1, <3>2
    <2> QED
      BY <2>1, <2>2
  <1>4. MarkGlobalSucceeded(p) \/ UNCHANGED outputs
    BY DEF Phase2, ClaimGlobal, LoadInputs, SyncInputs, DiffRoot,
           AgentCompletes, Heartbeat, ConfirmOwnership, ResetBaseline, Succeed,
           Phase2Fails, HeartbeatFails, AgentStops
  <1> QED
    BY <1>1, <1>2, <1>3, <1>4, MarkGlobalKeepsOutputs, JobsInvKept

LEMMA OtherStepsJobs ==
    ASSUME TypeInv, JobsInv,
           \/ \E t \in Threads : ThreadStep(t)
           \/ \E p \in Runs : Crash(p)
           \/ ClearMemoryData \/ ClearMemoryRoot \/ Time
    PROVE  JobsInv'
  <1> USE DEF TypeInv, files, db, run
  <1>1. ASSUME NEW t \in Threads, ThreadStep(t) PROVE JobsInv'
    BY <1>1, JobsInvKept
       DEF ThreadStep, UpdateThread, ThreadIdles, ThreadAgesOut, Pollute
  <1>2. ASSUME NEW p \in Runs, Crash(p) PROVE JobsInv'
    <2>1. faults'["reset"] = faults["reset"] /\ UNCHANGED << jobs, outputs >>
      BY <1>2, StrikesCounts DEF Crash, TypeOK, Fault
    <2>2. /\ pc' = [pc EXCEPT ![p] = "idle"] /\ todo' = [todo EXCEPT ![p] = {}]
          /\ claims' = [claims EXCEPT ![p] = {}]
      BY <1>2 DEF Crash
    <2>3. WorkIsPhase1' /\ EachThreadOnce'
      BY <2>2 DEF JobsInv, WorkIsPhase1, EachThreadOnce, TypeOK
    <2>4. TokensAreCurrent' /\ ClaimedIsNewer'
      BY <2>1, <2>2
         DEF JobsInv, TokensAreCurrent, ClaimedIsNewer, Owns, TypeOK
    <2>5. OutputMatchesWatermark' /\ ResetIsFinal'
      BY <2>1 DEF JobsInv, OutputMatchesWatermark, ResetIsFinal
    <2> QED
      BY <2>3, <2>4, <2>5 DEF JobsInv
  <1>3. CASE ClearMemoryData
    <2>1. /\ \A t \in Threads : jobs'[t] = None /\ outputs'[t] = None
          /\ UNCHANGED << pc, todo, claims >>
      BY <1>3 DEF ClearMemoryData
    <2>2. WorkIsPhase1' /\ EachThreadOnce' /\ ClaimedIsNewer'
      BY <2>1 DEF JobsInv, WorkIsPhase1, EachThreadOnce, ClaimedIsNewer
    <2>3. TokensAreCurrent'
      BY <2>1 DEF TokensAreCurrent, Owns, TypeOK, Claim
    <2>4. OutputMatchesWatermark' /\ ResetIsFinal'
      BY <2>1 DEF OutputMatchesWatermark, ResetIsFinal
    <2> QED
      BY <2>2, <2>3, <2>4 DEF JobsInv
  <1>4. CASE ClearMemoryRoot
    BY <1>4, JobsInvKept DEF ClearMemoryRoot
  <1>5. ASSUME NEW t \in Threads, Stage1LeaseEnds(t) PROVE JobsInv'
    <2> DEFINE ended == [jobs[t] EXCEPT !.status = "expired"]
    <2>1. /\ jobs[t] # None /\ jobs[t] \in Job /\ jobs[t].status = "running"
          /\ UNCHANGED << outputs, pc, todo, claims >>
      BY <1>5 DEF Stage1LeaseEnds, TypeOK
    <2>2. /\ ended \in Job /\ ended.owner = jobs[t].owner
          /\ ended.success = jobs[t].success /\ ended.input = jobs[t].input
      BY <2>1 DEF Job
    <2>3. faults'["reset"] = faults["reset"]
      BY <1>5, StrikesCounts DEF Stage1LeaseEnds, TypeOK, Fault
    <2>4. jobs' = [jobs EXCEPT ![t] = ended]
      BY <1>5 DEF Stage1LeaseEnds
    <2> HIDE DEF ended
    <2> QED
      BY <2>1, <2>2, <2>3, <2>4, RowChanges DEF Unfinished
  <1>6. CASE GlobalLeaseEnds
    <2>1. faults'["reset"] = faults["reset"]
      BY <1>6, StrikesCounts DEF GlobalLeaseEnds, TypeOK, Fault
    <2> QED
      BY <1>6, <2>1, JobsInvKept DEF GlobalLeaseEnds
  <1>7. CASE BackoffEnds
    <2>1. ASSUME NEW t \in Threads, jobs[t] # None,
                 jobs' = [jobs EXCEPT ![t].status = "error"]
          PROVE  JobsInv'
      <3> DEFINE ended == [jobs[t] EXCEPT !.status = "error"]
      <3>1. jobs[t] \in Job
        BY <2>1 DEF TypeOK
      <3>2. /\ ended \in Job /\ ended.status = "error"
            /\ ended.success = jobs[t].success
        BY <3>1 DEF Job
      <3>3. jobs' = [jobs EXCEPT ![t] = ended]
        BY <2>1
      <3>4. UNCHANGED << outputs, pc, todo, claims, faults >>
        BY <1>7 DEF BackoffEnds
      <3> HIDE DEF ended
      <3> QED
        BY <2>1, <3>2, <3>3, <3>4, RowChanges DEF Unfinished
    <2>2. CASE UNCHANGED jobs
      BY <1>7, <2>2, JobsInvKept DEF BackoffEnds
    <2> QED
      BY <1>7, <2>1, <2>2 DEF BackoffEnds
  <1>8. CASE CooldownEnds
    BY <1>8, JobsInvKept DEF CooldownEnds
  <1> QED
    BY <1>1, <1>2, <1>3, <1>4, <1>5, <1>6, <1>7, <1>8 DEF Time

LEMMA InitJobs ==
    ASSUME Init
    PROVE  JobsInv
  BY DEF Init, JobsInv, WorkIsPhase1, EachThreadOnce, TokensAreCurrent,
         ClaimedIsNewer, OutputMatchesWatermark, ResetIsFinal

LEMMA NextJobs ==
    ASSUME TypeInv, JobsInv, [Next]_vars
    PROVE  JobsInv'
  <1>1. CASE UNCHANGED vars
    BY <1>1, JobsInvKept DEF vars, db, files, run
  <1>2. CASE Next
    BY <1>2, StartJobs, ClaimStage1Jobs, ExtractJobs, Phase2Jobs, OtherStepsJobs
       DEF Next, Phase1, ThreadStep
  <1> QED
    BY <1>1, <1>2

\* What the rows and the tokens keep true of the outputs, however the scans,
\* claims, extractions, lost leases, crashes and resets of any number of runs
\* interleave.
LEMMA JobsInvariant == Spec => []JobsInv
  <1>1. Init => TypeInv /\ JobsInv
    BY InitType, InitJobs
  <1>2. TypeInv /\ JobsInv /\ [Next]_vars => TypeInv' /\ JobsInv'
    BY NextType, NextJobs
  <1> QED
    BY <1>1, <1>2, PTL DEF Spec

\* The output of a thread was made from the version its job last succeeded
\* with (try_claim_stage1_job, mark_stage1_job_succeeded): a change is
\* neither missed nor extracted again.
THEOREM OutputsMatchWatermarks == Spec => []OutputMatchesWatermark
  <1>1. JobsInv => OutputMatchesWatermark
    BY DEF JobsInv
  <1> QED
    BY <1>1, JobsInvariant, PTL

\* An extraction that was claimed before clear_memory_data never stores its
\* output after it.
THEOREM ResetsAreFinal == Spec => []ResetIsFinal
  <1>1. JobsInv => ResetIsFinal
    BY DEF JobsInv
  <1> QED
    BY <1>1, JobsInvariant, PTL

-----------------------------------------------------------------------------
(* Phase 2: the lease                                                      *)

\* A step counts at most one fault.
LEMMA StepsStrike ==
    ASSUME [Next]_vars
    PROVE  UNCHANGED faults \/ \E k \in Fault : Strikes(k)
  BY DEF Next, vars, Phase1, Start, ClaimStage1, Extract, Phase2, ClaimGlobal,
         LoadInputs, SyncInputs, DiffRoot, AgentCompletes, ConfirmOwnership,
         ResetBaseline, Succeed, AgentStops, Heartbeat, HeartbeatFails,
         Phase2Fails, Crash, UpdateThread, ThreadIdles, ThreadAgesOut,
         Pollute, ClearMemoryData, ClearMemoryRoot, Time, Stage1LeaseEnds,
         GlobalLeaseEnds, BackoffEnds, CooldownEnds, Fault

\* What has struck once is never forgotten.
LEMMA FaultsGrow ==
    ASSUME TypeInv, [Next]_vars
    PROVE  /\ \A k \in Fault : faults[k] \in Nat /\ faults'[k] >= faults[k]
           /\ Undisturbed' => Undisturbed
           /\ Alone' => Alone
  <1>1. \A k \in Fault : faults[k] \in Nat
    BY DEF TypeInv, TypeOK
  <1>2. CASE UNCHANGED faults
    BY <1>1, <1>2 DEF Undisturbed, Alone
  <1>3. ASSUME NEW k \in Fault, Strikes(k)
        PROVE  \A j \in Fault : faults'[j] >= faults[j]
    BY <1>1, <1>3, StrikesCounts DEF TypeInv, TypeOK
  <1>4. \A j \in Fault : faults'[j] >= faults[j]
    BY <1>1, <1>2, <1>3, StepsStrike
  <1>5. faults' \in [Fault -> 0..MaxFaults]
    BY NextType DEF TypeInv, TypeOK
  <1> QED
    BY <1>1, <1>4, <1>5 DEF Undisturbed, Alone, Fault

\* Neither a reset nor a suspension has struck where nothing is disturbed,
\* and no failing heartbeat where a run is alone.
LEMMA StrikesDisturb ==
    ASSUME TypeOK
    PROVE  /\ Undisturbed' => ~Strikes("reset") /\ ~Strikes("suspend")
           /\ Alone' => ~Strikes("heartbeat")
           /\ Strikes("heartbeat") => faults'["heartbeat"] > 0
  <1>1. \A k \in Fault : faults[k] \in Nat
    BY DEF TypeOK
  <1>2. \A k \in Fault : Strikes(k) => faults'[k] = faults[k] + 1
    BY StrikesCounts DEF TypeOK
  <1> QED
    BY <1>1, <1>2 DEF Undisturbed, Alone, Fault

\* The lease admits one run.
LEMMA OneAtWork ==
    ASSUME LeaseHeld, NEW p \in Runs, NEW q \in Runs,
           pc[p] \in Consolidating, pc[q] \in Consolidating
    PROVE  p = q
  BY DEF LeaseHeld

\* Steps that leave the row alone, and let no run begin to work on the root.
LEMMA LeaseKept ==
    ASSUME LeaseHeld, UNCHANGED global,
           \A q \in Runs : pc'[q] = pc[q] \/ pc'[q] \notin Consolidating
    PROVE  LeaseHeld'
  BY DEF LeaseHeld

\* A running row is not touched when work is enqueued.
LEMMA EnqueuedLease ==
    ASSUME LeaseHeld, UNCHANGED pc, global' \in {Enqueued, global}
    PROVE  LeaseHeld'
  BY DEF LeaseHeld, Enqueued

\* A run that leaves the root takes the lease with it, or gives it up: nobody
\* else was at work.
LEMMA LeaveLease ==
    ASSUME TypeInv, LeaseHeld, NEW p \in Runs, pc[p] \in Consolidating,
           NEW place \in {"idle", "lingering"}, Goto(p, place)
    PROVE  /\ LeaseHeld'
           /\ \A q \in Runs : pc'[q] \notin Consolidating
  <1>1. \A q \in Runs : pc'[q] \notin Consolidating
    BY OneAtWork DEF Goto, Consolidating, TypeInv, TypeOK
  <1> QED
    BY <1>1 DEF LeaseHeld

\* While a run is at work it owns the row.
LEMMA AtWorkOwns ==
    ASSUME LeaseHeld, NEW p \in Runs, pc[p] \in Consolidating
    PROVE  OwnsGlobal(p)
  BY DEF LeaseHeld, OwnsGlobal, Unfinished

\* A step of the run at work from one place of phase 2 to the next.
LEMMA AdvanceFacts ==
    ASSUME TypeInv, LeaseHeld, NEW p \in Runs, pc[p] \in Consolidating,
           NEW place \in Consolidating, Goto(p, place),
           UNCHANGED global \/ global' = Renewed
    PROVE  /\ LeaseHeld'
           /\ pc'[p] = place
           /\ \A q \in Runs : pc'[q] \in Consolidating => q = p
  <1>1. /\ pc'[p] = place
        /\ \A q \in Runs : pc'[q] \in Consolidating => q = p
    BY OneAtWork DEF Goto, TypeInv, TypeOK
  <1>2. global # None /\ global \in GlobalJob /\ global.status = "running"
        /\ global.owner = p
    BY DEF LeaseHeld, TypeInv, TypeOK
  <1>3. global' # None /\ global'.status = "running" /\ global'.owner = p
    <2>1. Renewed \in GlobalJob /\ Renewed.status = "running"
          /\ Renewed.owner = p
      BY <1>2 DEF Renewed, GlobalJob
    <2> QED
      BY <1>2, <2>1, NoneAssumption
  <1> QED
    BY <1>1, <1>3 DEF LeaseHeld

\* The steps of phase 2: one run claims a row that nobody holds, keeps it while
\* it is at work, and gives it up when it leaves.
LEMMA Phase2Lease ==
    ASSUME TypeInv, LeaseHeld, NEW p \in Runs,
           Phase2(p) \/ Heartbeat(p) \/ HeartbeatFails(p) \/ Phase2Fails(p)
    PROVE  LeaseHeld'
  <1> USE DEF files, db
  <1>1. CASE ClaimGlobal(p)
    <2>1. CASE GlobalClaimable
      <3>1. \A q \in Runs : pc[q] \notin Consolidating
        BY <2>1 DEF GlobalClaimable, LeaseHeld
      <3>2. /\ global' = [status |-> "running", owner |-> p, cooling |-> FALSE]
            /\ Goto(p, "claimed")
        BY <1>1, <2>1 DEF ClaimGlobal
      <3>3. [status |-> "running", owner |-> p, cooling |-> FALSE] \in GlobalJob
        BY DEF GlobalJob
      <3>4. global' # None /\ global'.status = "running" /\ global'.owner = p
        BY <3>2, <3>3, NoneAssumption
      <3>5. \A q \in Runs \ {p} : pc'[q] = pc[q]
        BY <3>2 DEF Goto, TypeInv, TypeOK
      <3> QED
        BY <3>1, <3>4, <3>5 DEF LeaseHeld
    <2>2. CASE ~GlobalClaimable
      <3>1. UNCHANGED global /\ Goto(p, "idle")
        BY <1>1, <2>2 DEF ClaimGlobal
      <3>2. \A q \in Runs : pc'[q] = pc[q] \/ pc'[q] \notin Consolidating
        BY <3>1 DEF Goto, Consolidating, TypeInv, TypeOK
      <3> QED
        BY <3>1, <3>2, LeaseKept
    <2> QED
      BY <2>1, <2>2
  <1>2. CASE LoadInputs(p) \/ SyncInputs(p) \/ AgentCompletes(p) \/ ResetBaseline(p)
    <2>1. PICK place \in Consolidating : Goto(p, place)
      BY <1>2 DEF LoadInputs, SyncInputs, AgentCompletes, ResetBaseline,
                  Consolidating
    <2>2. pc[p] \in Consolidating /\ UNCHANGED global
      BY <1>2 DEF LoadInputs, SyncInputs, AgentCompletes, ResetBaseline,
                  Consolidating
    <2> QED
      BY <2>1, <2>2, AdvanceFacts
  <1>3. CASE DiffRoot(p)
    <2>1. pc[p] \in Consolidating /\ "agent" \in Consolidating
      BY <1>3 DEF DiffRoot, Consolidating
    <2>2. CASE End(p)
      BY <2>1, <2>2, LeaveLease DEF End
    <2>3. CASE Goto(p, "agent") /\ UNCHANGED global
      BY <2>1, <2>3, AdvanceFacts
    <2> QED
      BY <1>3, <2>2, <2>3 DEF DiffRoot
  <1>4. CASE Heartbeat(p)
    <2>1. /\ pc[p] \in Consolidating
          /\ global' = Renewed /\ UNCHANGED pc
      BY <1>4, AtWorkOwns DEF Heartbeat, Consolidating
    <2>2. Goto(p, pc[p])
      BY <2>1 DEF Goto, TypeInv, TypeOK
    <2> QED
      BY <2>1, <2>2, AdvanceFacts
  <1>5. CASE ConfirmOwnership(p)
    <2>1. /\ pc[p] \in Consolidating /\ "confirmed" \in Consolidating
          /\ Goto(p, "confirmed") /\ global' = Renewed
      BY <1>5, AtWorkOwns DEF ConfirmOwnership, Consolidating
    <2> QED
      BY <2>1, AdvanceFacts
  <1>6. CASE Succeed(p) \/ Phase2Fails(p)
    <2>1. pc[p] \in Consolidating /\ Goto(p, "idle")
      BY <1>6 DEF Succeed, Phase2Fails, End, Consolidating
    <2> QED
      BY <2>1, LeaveLease
  <1>7. CASE HeartbeatFails(p)
    <2>1. pc[p] \in Consolidating /\ Goto(p, "lingering")
      BY <1>7 DEF HeartbeatFails, Consolidating
    <2> QED
      BY <2>1, LeaveLease
  <1>8. CASE AgentStops(p)
    <2>1. \A q \in Runs : pc'[q] = pc[q] \/ pc'[q] \notin Consolidating
      BY <1>8 DEF AgentStops, End, Goto, Consolidating, TypeInv, TypeOK
    <2> QED
      BY <1>8, <2>1, LeaseKept DEF AgentStops
  <1> QED
    BY <1>1, <1>2, <1>3, <1>4, <1>5, <1>6, <1>7, <1>8 DEF Phase2

\* In phase 1 a run does not touch a running row.
LEMMA Phase1Lease ==
    ASSUME TypeInv, LeaseHeld, NEW p \in Runs, Phase1(p)
    PROVE  LeaseHeld'
  <1>1. CASE Start(p)
    <2>1. \A q \in Runs : pc'[q] = pc[q] \/ pc'[q] \notin Consolidating
      BY <1>1 DEF Start, Goto, Consolidating, TypeInv, TypeOK
    <2> QED
      BY <1>1, <2>1, LeaseKept DEF Start
  <1>2. CASE ClaimStage1(p)
    BY <1>2, LeaseKept DEF ClaimStage1
  <1>3. CASE Extract(p)
    BY <1>3, EnqueuedLease DEF Extract, Extracted, MarkStage1Succeeded,
                               MarkStage1NoOutput, MarkStage1Failed
  <1> QED
    BY <1>1, <1>2, <1>3 DEF Phase1

\* Without a reset or a suspension, time and the other steps leave the lease
\* of a run at work alone.
LEMMA OtherStepsLease ==
    ASSUME TypeInv, LeaseInOrder, Undisturbed',
           \/ \E t \in Threads : ThreadStep(t)
           \/ \E p \in Runs : Crash(p)
           \/ ClearMemoryData \/ ClearMemoryRoot \/ Time
    PROVE  LeaseHeld'
  <1> USE DEF files, db, run, LeaseInOrder
  <1>1. ASSUME NEW t \in Threads, ThreadStep(t) PROVE LeaseHeld'
    BY <1>1, EnqueuedLease
       DEF ThreadStep, UpdateThread, ThreadIdles, ThreadAgesOut, Pollute
  <1>2. ASSUME NEW p \in Runs, Crash(p) PROVE LeaseHeld'
    <2>1. \A q \in Runs : pc'[q] = pc[q] \/ pc'[q] \notin Consolidating
      BY <1>2 DEF Crash, Consolidating, TypeInv, TypeOK
    <2> QED
      BY <1>2, <2>1, LeaseKept DEF Crash
  <1>3. CASE ClearMemoryData
    BY <1>3, StrikesDisturb DEF ClearMemoryData, TypeInv
  <1>4. CASE ClearMemoryRoot
    BY <1>4 DEF ClearMemoryRoot
  <1>5. ASSUME NEW t \in Threads, Stage1LeaseEnds(t) PROVE LeaseHeld'
    BY <1>5, LeaseKept DEF Stage1LeaseEnds
  <1>6. CASE GlobalLeaseEnds
    <2>1. pc[global.owner] \notin Consolidating
      BY <1>6, StrikesDisturb DEF GlobalLeaseEnds, GlobalAbandoned, TypeInv
    <2>2. \A q \in Runs : pc[q] \notin Consolidating
      BY <2>1 DEF LeaseHeld
    <2> QED
      BY <1>6, <2>2 DEF GlobalLeaseEnds, LeaseHeld
  <1>7. CASE BackoffEnds
    BY <1>7 DEF BackoffEnds, LeaseHeld
  <1>8. CASE CooldownEnds
    <2>1. ASSUME global \in GlobalJob
          PROVE  /\ [global EXCEPT !.cooling = FALSE] \in GlobalJob
                 /\ [global EXCEPT !.cooling = FALSE].status = global.status
                 /\ [global EXCEPT !.cooling = FALSE].owner = global.owner
      BY <2>1 DEF GlobalJob
    <2>2. /\ global' # None
          /\ global'.status = global.status /\ global'.owner = global.owner
          /\ UNCHANGED pc
      BY <1>8, <2>1, NoneAssumption DEF CooldownEnds, TypeInv, TypeOK
    <2> QED
      BY <2>2 DEF LeaseHeld
  <1> QED
    BY <1>1, <1>2, <1>3, <1>4, <1>5, <1>6, <1>7, <1>8 DEF Time

\* Only a heartbeat that fails leaves an agent behind: a run at work never
\* finds its lease lost.
LEMMA NextLingering ==
    ASSUME TypeInv, LeaseInOrder, [Next]_vars
    PROVE  LingeringAfterFailure'
  <1> SUFFICES ASSUME NEW p \in Runs, pc'[p] = "lingering"
               PROVE  faults'["heartbeat"] > 0
    BY DEF LingeringAfterFailure
  <1>1. pc[p] = "lingering" => faults'["heartbeat"] > 0
    <2>1. /\ faults["heartbeat"] \in Nat
          /\ faults'["heartbeat"] >= faults["heartbeat"]
      BY FaultsGrow DEF Fault
    <2>2. faults'["heartbeat"] \in Nat
      BY NextType DEF TypeInv, TypeOK, Fault
    <2> QED
      BY <2>1, <2>2 DEF LeaseInOrder, LingeringAfterFailure
  <1>2. ASSUME NEW r \in Runs, Heartbeat(r) PROVE UNCHANGED pc
    <2>1. OwnsGlobal(r)
      BY <1>2, AtWorkOwns DEF Heartbeat, LeaseInOrder, Consolidating
    <2> QED
      BY <1>2, <2>1 DEF Heartbeat
  <1>3. ASSUME NEW r \in Runs, HeartbeatFails(r)
        PROVE  faults'["heartbeat"] > 0
    BY <1>3, StrikesDisturb DEF HeartbeatFails, TypeInv
  <1>4. ASSUME NEW r \in Runs, Phase1(r) \/ Phase2(r) \/ Phase2Fails(r) \/ Crash(r)
        PROVE  pc[p] = "lingering"
    <2>1. \/ UNCHANGED pc
          \/ \E place \in Pc \ {"lingering"} : pc' = [pc EXCEPT ![r] = place]
      BY <1>4 DEF Phase1, Start, ClaimStage1, Extract, Extracted, Phase2,
                  ClaimGlobal, LoadInputs, SyncInputs, DiffRoot,
                  AgentCompletes, ConfirmOwnership, ResetBaseline, Succeed,
                  AgentStops, Phase2Fails, Crash, End, Goto, Pc, AtRoot,
                  Consolidating
    <2> QED
      BY <2>1 DEF TypeInv, TypeOK
  <1>5. ASSUME \/ \E t \in Threads : ThreadStep(t)
               \/ ClearMemoryData \/ ClearMemoryRoot \/ Time \/ UNCHANGED vars
        PROVE  pc[p] = "lingering"
    BY <1>5 DEF ThreadStep, UpdateThread, ThreadIdles, ThreadAgesOut, Pollute,
                ClearMemoryData, ClearMemoryRoot, Time, Stage1LeaseEnds,
                GlobalLeaseEnds, BackoffEnds, CooldownEnds, vars, run
  <1>6. \/ \E t \in Threads : ThreadStep(t)
        \/ ClearMemoryData \/ ClearMemoryRoot \/ Time \/ UNCHANGED vars
        \/ \E r \in Runs : \/ Phase1(r) \/ Phase2(r) \/ Phase2Fails(r) \/ Crash(r)
                          \/ Heartbeat(r) \/ HeartbeatFails(r)
    BY DEF Next, ThreadStep
  <1> QED
    BY <1>1, <1>2, <1>3, <1>4, <1>5, <1>6

LEMMA NextLease ==
    ASSUME TypeInv, LeaseInv, [Next]_vars
    PROVE  LeaseInv'
  <1> SUFFICES ASSUME Undisturbed'
               PROVE  LeaseInOrder'
    BY DEF LeaseInv
  <1>1. LeaseInOrder
    BY FaultsGrow DEF LeaseInv
  <1>2. LeaseHeld'
    <2>1. CASE UNCHANGED vars
      BY <1>1, <2>1, LeaseKept DEF vars, db, run, LeaseInOrder
    <2>2. CASE Next
      BY <1>1, <2>2, Phase1Lease, Phase2Lease, OtherStepsLease
         DEF Next, LeaseInOrder, ThreadStep
    <2> QED
      BY <2>1, <2>2
  <1>3. ~resetting'
    <2>1. ~ClearMemoryData
      BY StrikesDisturb DEF ClearMemoryData, TypeInv
    <2>2. UNCHANGED resetting \/ resetting' = FALSE
      BY <2>1 DEF Next, vars, Phase1, Start, ClaimStage1, Extract, Extracted,
           Phase2, ClaimGlobal, LoadInputs, SyncInputs, DiffRoot,
           AgentCompletes, ConfirmOwnership, ResetBaseline, Succeed,
           AgentStops, Heartbeat, HeartbeatFails, Phase2Fails, Crash,
           UpdateThread, ThreadIdles, ThreadAgesOut, Pollute, ClearMemoryRoot,
           Time, Stage1LeaseEnds, GlobalLeaseEnds, BackoffEnds, CooldownEnds
    <2> QED
      BY <1>1, <2>2 DEF LeaseInOrder
  <1> QED
    BY <1>1, <1>2, <1>3, NextLingering DEF LeaseInOrder

LEMMA InitLease ==
    ASSUME Init
    PROVE  LeaseInv
  BY DEF Init, LeaseInv, LeaseInOrder, LeaseHeld, LingeringAfterFailure,
         Consolidating

\* What the lease keeps true of the runs, while nobody resets the memory and
\* no live run is suspended.
LEMMA LeaseInvariant == Spec => []LeaseInv
  <1>1. Init => TypeInv /\ LeaseInv
    BY InitType, InitLease
  <1>2. TypeInv /\ LeaseInv /\ [Next]_vars => TypeInv' /\ LeaseInv'
    BY NextType, NextLease
  <1> QED
    BY <1>1, <1>2, PTL DEF Spec

\* The lease of try_claim_global_phase2_job keeps two runs from working on
\* the memories root, as long as nobody resets the memory and no live run is
\* suspended beyond its lease, up to the agent that agent::handle has not
\* stopped yet when a heartbeat could not be written.
THEOREM ConsolidationIsExclusive == Spec => []OneConsolidation
  <1>1. ASSUME LeaseInv PROVE OneConsolidation
    <2> SUFFICES ASSUME Undisturbed, NEW p \in Runs, NEW q \in Runs,
                        pc[p] \in AtRoot, pc[q] \in AtRoot, p # q
                 PROVE  /\ faults["heartbeat"] > 0
                        /\ "lingering" \in {pc[p], pc[q]}
      BY DEF OneConsolidation, Undisturbed
    <2>1. pc[p] = "lingering" \/ pc[q] = "lingering"
      BY <1>1, OneAtWork DEF LeaseInv, LeaseInOrder, AtRoot
    <2> QED
      BY <1>1, <2>1 DEF LeaseInv, LeaseInOrder, LingeringAfterFailure
  <1> QED
    BY <1>1, LeaseInvariant, PTL

-----------------------------------------------------------------------------
(* Phase 2: the memories root                                              *)

\* Steps that leave the files alone; a run may leave phase 2, and enter it.
LEMMA RootKept ==
    ASSUME RootInOrder, UNCHANGED << root, baseline >>,
           \A q \in Runs :
               \/ pc'[q] = pc[q] /\ inputs'[q] = inputs[q]
               \/ pc'[q] \notin Consolidating \ {"claimed"}
    PROVE  RootInOrder'
  <1>1. BaselineExists'
    BY DEF RootInOrder, BaselineExists
  <1>2. RootIsSynced' /\ RootIsConsolidated'
    BY DEF RootInOrder, RootIsSynced, RootIsConsolidated, Consolidating
  <1> QED
    BY <1>1, <1>2 DEF RootInOrder

\* The run at work leaves the root as it is.
LEMMA EndRoot ==
    ASSUME TypeInv, LeaseHeld, RootInOrder, NEW p \in Runs,
           pc[p] \in Consolidating, End(p), UNCHANGED << root, baseline >>
    PROVE  RootInOrder'
  <1>1. \A q \in Runs : pc'[q] \notin Consolidating
    BY LeaveLease DEF End
  <1> QED
    BY <1>1, RootKept

\* The steps of phase 2, while no agent is left behind.
LEMMA Phase2Root ==
    ASSUME TypeInv, LeaseInOrder, Alone, RootInOrder, NEW p \in Runs,
           Phase2(p) \/ Heartbeat(p) \/ Phase2Fails(p)
    PROVE  RootInOrder'
  <1> USE DEF files, db
  <1>0. LeaseHeld /\ pc[p] # "lingering"
    BY DEF LeaseInOrder, LingeringAfterFailure, Alone
  <1>1. CASE ClaimGlobal(p)
    <2>1. \A q \in Runs :
            pc'[q] = pc[q] \/ pc'[q] \notin Consolidating \ {"claimed"}
      BY <1>1 DEF ClaimGlobal, Goto, Consolidating, TypeInv, TypeOK
    <2> QED
      BY <1>1, <2>1, RootKept DEF ClaimGlobal
  <1>2. CASE LoadInputs(p)
    <2>1. /\ pc'[p] = "loaded"
          /\ \A q \in Runs : pc'[q] \in Consolidating => q = p
      BY <1>0, <1>2, AdvanceFacts DEF LoadInputs, Consolidating
    <2>2. baseline' = IF baseline = None THEN root ELSE baseline
      BY <1>2 DEF LoadInputs
    <2>3. baseline' # None /\ baseline'.inputs = baseline'.memory
      BY <2>2, NoneAssumption
         DEF RootInOrder, BaselineExists, Empty, TypeInv, TypeOK
    <2>4. BaselineExists' /\ RootIsSynced' /\ RootIsConsolidated'
      BY <2>1, <2>3
         DEF BaselineExists, RootIsSynced, RootIsConsolidated, Consolidating
    <2> QED
      BY <1>2, <2>1, <2>3, <2>4 DEF LoadInputs, RootInOrder
  <1>3. CASE SyncInputs(p)
    <2>1. /\ pc'[p] = "synced"
          /\ \A q \in Runs : pc'[q] \in Consolidating => q = p
      BY <1>0, <1>3, AdvanceFacts DEF SyncInputs, Consolidating
    <2>2. root'.inputs = inputs'[p] /\ UNCHANGED << baseline >>
      BY <1>3 DEF SyncInputs, Content, TypeInv, TypeOK
    <2>3. baseline # None
      BY <1>3 DEF SyncInputs, RootInOrder, BaselineExists, Consolidating
    <2>4. BaselineExists' /\ RootIsSynced' /\ RootIsConsolidated'
      BY <2>1, <2>2, <2>3
         DEF BaselineExists, RootIsSynced, RootIsConsolidated, Consolidating
    <2> QED
      BY <2>1, <2>2, <2>4 DEF RootInOrder
  <1>4. CASE DiffRoot(p)
    <2>1. CASE End(p)
      BY <1>0, <1>4, <2>1, EndRoot DEF DiffRoot, Consolidating
    <2>2. CASE Goto(p, "agent") /\ UNCHANGED << global, outputs, inputs >>
      <3>1. /\ pc'[p] = "agent"
            /\ \A q \in Runs : pc'[q] \in Consolidating => q = p
        BY <1>0, <1>4, <2>2, AdvanceFacts DEF DiffRoot, Consolidating
      <3>2. root.inputs = inputs[p] /\ baseline # None
        BY <1>4 DEF DiffRoot, RootInOrder, RootIsSynced
      <3>3. BaselineExists' /\ RootIsSynced' /\ RootIsConsolidated'
        BY <1>4, <2>2, <3>1, <3>2 DEF DiffRoot, BaselineExists, RootIsSynced,
                                      RootIsConsolidated, Consolidating
      <3> QED
        BY <1>4, <3>1, <3>3 DEF DiffRoot, RootInOrder
    <2> QED
      BY <1>4, <2>1, <2>2 DEF DiffRoot
  <1>5. CASE AgentCompletes(p)
    <2>1. /\ pc'[p] = "completed"
          /\ \A q \in Runs : pc'[q] \in Consolidating => q = p
      BY <1>0, <1>5, AdvanceFacts DEF AgentCompletes, Consolidating
    <2>2. root.inputs = inputs[p] /\ baseline # None
      BY <1>5 DEF AgentCompletes, RootInOrder, RootIsSynced, BaselineExists,
                  Consolidating
    <2>3. /\ root'.inputs = inputs'[p] /\ root'.memory = root'.inputs
          /\ UNCHANGED << baseline >>
      BY <1>5, <2>2 DEF AgentCompletes, Content, TypeInv, TypeOK
    <2>4. BaselineExists' /\ RootIsSynced' /\ RootIsConsolidated'
      BY <2>1, <2>2, <2>3
         DEF BaselineExists, RootIsSynced, RootIsConsolidated, Consolidating
    <2> QED
      BY <2>1, <2>3, <2>4 DEF RootInOrder
  <1>6. CASE Heartbeat(p)
    <2>1. UNCHANGED << pc, inputs, root, baseline >>
      BY <1>0, <1>6, AtWorkOwns DEF Heartbeat, Consolidating
    <2> QED
      BY <2>1, RootKept
  <1>7. CASE ConfirmOwnership(p)
    <2>1. /\ pc[p] = "completed" /\ Goto(p, "confirmed") /\ global' = Renewed
          /\ UNCHANGED << inputs, root, baseline >>
      BY <1>0, <1>7, AtWorkOwns DEF ConfirmOwnership, Consolidating
    <2>2. /\ pc'[p] = "confirmed"
          /\ \A q \in Runs : pc'[q] \in Consolidating => q = p
      BY <1>0, <2>1, AdvanceFacts DEF Consolidating
    <2>3. /\ root.inputs = inputs[p] /\ root.memory = root.inputs
          /\ baseline # None
      BY <2>1 DEF RootInOrder, RootIsSynced, RootIsConsolidated,
                  BaselineExists, Consolidating
    <2>4. BaselineExists' /\ RootIsSynced' /\ RootIsConsolidated'
      BY <2>1, <2>2, <2>3
         DEF BaselineExists, RootIsSynced, RootIsConsolidated, Consolidating
    <2> QED
      BY <2>1, <2>2, <2>4 DEF RootInOrder
  <1>8. CASE ResetBaseline(p)
    <2>1. /\ pc'[p] = "committed"
          /\ \A q \in Runs : pc'[q] \in Consolidating => q = p
      BY <1>0, <1>8, AdvanceFacts DEF ResetBaseline, Consolidating
    <2>2. root.inputs = inputs[p] /\ root.memory = root.inputs
      BY <1>8 DEF ResetBaseline, RootInOrder, RootIsSynced, RootIsConsolidated
    <2>3. baseline' = root /\ UNCHANGED << root, inputs >>
      BY <1>8 DEF ResetBaseline
    <2>4. baseline' # None
      BY <2>3, NoneAssumption DEF TypeInv, TypeOK
    <2>5. BaselineExists' /\ RootIsSynced' /\ RootIsConsolidated'
      BY <2>1, <2>2, <2>3, <2>4
         DEF BaselineExists, RootIsSynced, RootIsConsolidated, Consolidating
    <2> QED
      BY <2>1, <2>2, <2>3, <2>5 DEF RootInOrder
  <1>9. CASE Succeed(p)
    BY <1>0, <1>9, EndRoot DEF Succeed, Consolidating
  <1>10. CASE Phase2Fails(p)
    BY <1>0, <1>10, EndRoot DEF Phase2Fails, Consolidating
  <1>11. ~AgentStops(p)
    BY <1>0 DEF AgentStops
  <1> QED
    BY <1>1, <1>2, <1>3, <1>4, <1>5, <1>6, <1>7, <1>8, <1>9, <1>10, <1>11
       DEF Phase2

\* In phase 1 a run does not touch the files.
LEMMA Phase1Root ==
    ASSUME TypeInv, RootInOrder, NEW p \in Runs, Phase1(p)
    PROVE  RootInOrder'
  <1> USE DEF files
  <1>1. CASE Start(p)
    <2>1. \A q \in Runs : pc'[q] = pc[q] \/ pc'[q] \notin Consolidating
      BY <1>1 DEF Start, Goto, Consolidating, TypeInv, TypeOK
    <2> QED
      BY <1>1, <2>1, RootKept DEF Start
  <1>2. CASE ClaimStage1(p)
    BY <1>2, RootKept DEF ClaimStage1
  <1>3. CASE Extract(p)
    BY <1>3, RootKept DEF Extract, Extracted
  <1> QED
    BY <1>1, <1>2, <1>3 DEF Phase1

\* Neither do the threads, a crash or time; the root is not cleared.
LEMMA OtherStepsRoot ==
    ASSUME TypeInv, LeaseInOrder, RootInOrder,
           \/ \E t \in Threads : ThreadStep(t)
           \/ \E p \in Runs : Crash(p)
           \/ ClearMemoryData \/ ClearMemoryRoot \/ Time
    PROVE  RootInOrder'
  <1> USE DEF files, db, run
  <1>1. ASSUME NEW p \in Runs, Crash(p) PROVE RootInOrder'
    <2>1. \A q \in Runs :
            \/ pc'[q] = pc[q] /\ inputs'[q] = inputs[q]
            \/ pc'[q] \notin Consolidating
      BY <1>1 DEF Crash, Consolidating, TypeInv, TypeOK
    <2> QED
      BY <1>1, <2>1, RootKept DEF Crash
  <1>2. CASE ClearMemoryRoot
    BY <1>2 DEF ClearMemoryRoot, LeaseInOrder
  <1>3. CASE \/ \E t \in Threads : ThreadStep(t)
             \/ ClearMemoryData \/ Time
    <2>1. UNCHANGED << pc, inputs, root, baseline >>
      BY <1>3 DEF ThreadStep, UpdateThread, ThreadIdles, ThreadAgesOut,
                  Pollute, ClearMemoryData, Time, Stage1LeaseEnds,
                  GlobalLeaseEnds, BackoffEnds, CooldownEnds
    <2> QED
      BY <2>1, RootKept
  <1> QED
    BY <1>1, <1>2, <1>3

LEMMA NextRoot ==
    ASSUME TypeInv, LeaseInv, RootInv, [Next]_vars
    PROVE  RootInv'
  <1> SUFFICES ASSUME Undisturbed', Alone'
               PROVE  RootInOrder'
    BY DEF RootInv
  <1>1. LeaseInOrder /\ RootInOrder /\ Alone
    BY FaultsGrow DEF LeaseInv, RootInv
  <1>2. CASE UNCHANGED vars
    BY <1>1, <1>2, RootKept DEF vars, files, run
  <1>3. CASE Next
    <2>1. \A p \in Runs : ~HeartbeatFails(p)
      BY StrikesDisturb DEF HeartbeatFails, TypeInv
    <2> QED
      BY <1>1, <1>3, <2>1, Phase1Root, Phase2Root, OtherStepsRoot
         DEF Next, ThreadStep
  <1> QED
    BY <1>2, <1>3

LEMMA InitRoot ==
    ASSUME Init
    PROVE  RootInv
  <1>1. BaselineExists /\ RootIsSynced /\ RootIsConsolidated
    BY DEF Init, BaselineExists, RootIsSynced, RootIsConsolidated, Consolidating
  <1> QED
    BY <1>1 DEF Init, RootInv, RootInOrder

\* If in addition no heartbeat fails, reset_memory_workspace_baseline only
\* commits what an agent has consolidated, wherever runs crash or fail.
THEOREM BaselinesAreConsolidated == Spec => []BaselineIsConsolidated
  <1>1. Init => TypeInv /\ LeaseInv /\ RootInv
    BY InitType, InitLease, InitRoot
  <1>2. TypeInv /\ LeaseInv /\ RootInv /\ [Next]_vars
          => TypeInv' /\ LeaseInv' /\ RootInv'
    BY NextType, NextLease, NextRoot
  <1>3. RootInv => BaselineIsConsolidated
    BY DEF RootInv, RootInOrder, BaselineIsConsolidated, Undisturbed, Alone
  <1> QED
    BY <1>1, <1>2, <1>3, PTL DEF Spec
=============================================================================
