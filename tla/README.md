# A TLA+ model of CodexStudy

CodexStudy is a desktop application (Tauri + React), a command line tool and a
fork of the Codex agent. Its own idea is *safe mode* ("codex-new"): the agent
never works on the user's project. Every task gets an isolated copy of it, the
engine shows what changed, the user reviews the change and merges files or
hunks back, and every merge can be undone. This directory models that part and
the parts around it that carry state of their own, and three protocols of the
forked agent that the desktop application depends on: remote control, the memory
pipeline and processes on a remote executor. TLC checks the models, and TLAPS
proves the central safety properties.

## 1. Inventory

All paths are below `src/`.

| component | code | state it keeps | operations |
|---|---|---|---|
| safe-mode task engine | `codex-rs/codex-new-core/src/`: `engine.rs`, `fsx.rs`, `workspace.rs`, `traceback.rs`, `diff.rs`, `recovery.rs`, `review.rs`, `manifest.rs` | on disk, per task: `task.json`, `manifest.json` (changed files with `before_hash`, `after_ai_hash`, `after_merge_hash`, merged hunks, `accepted`), `snapshots/before`, `snapshots/traceback`; the workspace tree | create, fork, resume, archive, refresh, merge, rollback, restore, review, summary, test |
| merge locks | `recovery.rs` | `locks/merge-<task>.lock`, `locks/path-<path>.lock` | acquire (test, then create), drop |
| chat agent loop | `codex-rs/chat-agent-core/src/`: `loop_control/`, `planner/`, `runtime.rs`, `session/tool_approval.rs` | a run state (status, steps, pending turn), guardrail counters | plan a turn, gate it by the access mode, execute a tool, record the step, stop |
| chat agent commands | `desktop/src-tauri/src/chat_agent/` | the registry of runs: shared state, cancelled flag, the request it was started with | start, cancel, resume, confirm; the tasks they spawn |
| chat agent tools | `chat-agent-core/src/executor/` | none | read, search, edit, run a command |
| task sessions | `codex-new-core/src/sessions.rs` | `sessions/<conversation>.json` | resolve or create the task of a conversation |
| command runs, activity feed | `codex-new-core/src/activity.rs` | `runs/*.json`, `timeline.jsonl` | run a command, stream its output, poll events after a number |
| project memory | `codex-new-core/src/memory.rs` | candidate and accepted memories | apply, reject, list |
| desktop store | `desktop/src-tauri/src/codex_new_store_io.rs` | `desktop-state.json` | load, replace, recover |
| desktop glue, CLI, daemon | `codex_new*.rs`, `cli/src/codex_new_cmd.rs`, `bin/codexstudy_daemon.rs` | none of their own | one engine or chat call per command |
| remote mode | `desktop/src-tauri/src/remote_backend/` | the connection to the daemon | sends commands and tool calls to a daemon, some of them again after a disconnect |
| front end | `desktop/src/` | React view state | sends the commands |
| remote control | `codex-rs/app-server-transport/src/transport/remote_control/`: `websocket.rs`, `client_tracker.rs`, `segment.rs` | sequence numbers and unacknowledged envelopes per stream; the table of remote clients, their outbound tasks, partly assembled messages, the subscribe cursor | connect, take, split, write, acknowledge; initialize, forward, reassemble, close, sweep |
| memory pipeline | `codex-rs/state/src/runtime/memories.rs`, `codex-rs/memories/write/src/` | SQLite: `jobs` with leases and watermarks, `stage1_outputs`; the memories root and its git baseline | claim, extract, mark; consolidate: claim, load, sync, diff, run the agent, confirm, reset the baseline, mark; pollute, reset |
| executor processes | `codex-rs/exec-server/src/`: `local_process.rs`, `client.rs`, `process.rs`; `rmcp-client/src/executor_process_transport.rs`, `core/src/unified_exec/process.rs` | numbered events and retained output at the server; the ordered publisher, event log and failure of a session at the client; the consumer's cursor | start, output, exit, close; publish, fail; receive, read, wake |
| agent core, app server, TUI, sandboxes, providers, SDKs | the other upstream Codex crates | | not this repository's own logic |

**Interaction.** The safe-mode parts meet on the file system. The desktop's
commands and the CLI each build a `CodexNewCore` on the same state root and call
it without a common lock; the user's editor and the agent write the two trees at
any time. The chat agent lives in the memory of the desktop process: every
command is an async function on a shared registry, and every start, resume or
confirmation spawns a task that works on its own copy of the run state and writes
it back at callbacks. Remote control carries the app server's messages over a
websocket that is replaced whenever it breaks; the backend at its other end
acknowledges, and replays from a cursor. The memory pipeline runs in every process
that starts a session, over one database and one directory. An executor is
another process behind a JSON-RPC connection; the MCP client and unified exec each
follow the processes they start there in their own way.

**What is hard.** In the engine: hashes that are stale when the file is
written, refreshes that rebuild the manifest between two user actions, merges
that stop half way, locks that survive their process, and long sequences of legal
calls (merge, refresh, edit, merge, rollback, restore) nobody wrote a test for.
In the chat agent: a status that is checked before an await and used after it,
a cancellation that races the model or a tool, a task that fails without a
callback, counters that start anew with each task, and two commands at once.
In the transports: connections that break between any two steps,
acknowledgements and replays that cross them, notifications that overtake each
other, bounded queues and logs that are full. In the memory pipeline: leases that
end while their owner works, snapshots that are stale when they are claimed,
crashes between the steps of a consolidation, and a reset in the middle of it.

**What makes each part correct.**

* *Engine*: a merge never overwrites an edit the user made since the baseline was
  recorded; a rollback undoes exactly the merge; the snapshot of a merged file is
  its baseline; every listed change can be traced back; the two status files
  agree.
* *Merge calls*: a rollback puts back what the last merge overwrote, however often
  the task was merged and whoever failed or died in between; a call that returns
  leaves a lock behind only if writing or removing the lock file itself failed; no
  call waits forever.
* *Chat agent*: no edit or command without consent, none twice for one consent
  unless the connection broke while it ran, no run that is registered but dead, a
  history that has every effect, and executions that end.
* *Remote control*: what the backend has not received is kept, in order and
  within the bound; a client's messages reach its connection once, in order and
  without a gap, whatever is replayed; tracker, tasks and app server agree on what
  is open.
* *Memory pipeline*: an output is what its job last succeeded with; one
  consolidation at a time, up to an agent that outlives its run, and a baseline
  that never runs ahead of it; a reset is final; every version the scan can find is
  extracted and polluted threads are forgotten in the end.
* *Executor processes*: events are published in the order of their numbers, no
  output is delivered twice or passed over while it is still retained, an
  end that is reported as clean is one, and every consumer learns of the end.

## 2. Modules

| module | models | checked by |
|---|---|---|
| `TaskEngine` | the engine, one atomic action per operation | `MCTaskEngine` (bounds), `TaskHistory` (history variables for the promises of `codex-new.md`) |
| `TaskEngineProofs` | theorems about `TaskEngine` | TLAPS |
| `MergeProtocol` | merge and rollback at the grain of their file operations, locks, crashes | `MCMergeProtocol` |
| `MergeProtocolProofs` | theorems about `MergeProtocol` | TLAPS |
| `ChatAgent` | the agent loop composed with the desktop commands | `MCChatAgent` |
| `ChatAgentProofs` | theorems about `ChatAgent` | TLAPS |
| `OrderedDelivery` | what the outgoing half of remote control promises | (abstract specification) |
| `RemoteDelivery` | the outgoing half: queue, writer, outbound buffer, acknowledgements | `MCRemoteDelivery` |
| `RemoteDeliveryProofs` | theorems about `RemoteDelivery`, with the safety part of its refinement | TLAPS |
| `RemoteClients` | the incoming half: reader, reassembly, client table, outbound tasks | `MCRemoteClients` |
| `RemoteClientsProofs` | theorems about `RemoteClients` | TLAPS |
| `MemoryPipeline` | both phases of the memory pipeline over their tables and directory | `MCMemoryPipeline` |
| `MemoryPipelineProofs` | theorems about `MemoryPipeline` | TLAPS |
| `ExecProcess` | a process on an executor, the client's session and either consumer | `MCExecProcess` |
| `ExecProcessProofs` | theorems about `ExecProcess` | TLAPS |
| `Subsequences` | what `filter` and `retain` leave of a sequence | used by `RemoteDelivery`, `RemoteClients` and `ExecProcess` |
| `SubsequenceProofs` | the lemmas about it | TLAPS |

`TaskEngine` and `MergeProtocol` are two grains of the same code: the first has
every operation and takes `merge` and `rollback` as atomic, the second has only
these two and interleaves their file operations. What `refresh_changes` computes
is modelled in the first and appears in the second as one step.

### TaskEngine

*State.* A tree is a function from paths to contents or `Missing`; a content is
compared only for equality, which is all the code does with a SHA-256. `manifest`
is `manifest.json` with `changed_files` as the set `paths` and one function per
field. `record` is the status in `task.json`. `beforeSnap` and `traceback` are
the snapshot directories. They are indexed by file *name*: `encode_path`
(`fsx.rs`) replaces separators by `__`, so two paths may share a file. The
constant `BlobName` gives the name of a path, `Saved` writes one of the contents
that share a name, and nothing assumes that names differ; properties that need it
say so (`InjectiveBlobs`).

*Actions.* `CreateTask`, `ForkTask`, `ResumeTask`, `ArchiveTask`,
`RefreshChanges`, `Merge` (`MergeConflict` or `MergeApply`), `Rollback`
(`RollbackConflict` or `RollbackApply`), `RestoreProject`, `RestoreWorkspace` and
their desktop forms that refresh afterwards, `ReviewTask`, `WriteTaskSummary`,
`TestStart`/`TestEnd` (the command runs in between and other operations may
come), `RefreshEnvironmentLinks`. The refresh inside `merge` is part of the merge
action, the traceback entries included. `UserEdit`, `AgentEdit` and
`WorkspaceLost` are the environment.

*Abstractions.* Which text a set of hunks produces is nondeterministic
(`MergeResults`): all hunks give the workspace version, a proper subset any
content. Sensitive, ignored and generated paths are sets. Workspaces are a copy,
or a worktree of `HEAD` when the strategy asks for one and git agrees.

### MergeProtocol

A call is a process that runs one merge or rollback: refresh, test and create the
merge lock, check each file, then for each file test and create the path lock,
save, copy, record and drop; then write the manifest and drop the merge lock. A
task may have any number of calls, one after the other or overlapping, and the
user and the agents edit in between. Testing and creating a lock are two steps
because the code calls `exists()` and then `File::create`; creating it and writing
the name into it are two calls as well, and when the write fails
(`MergeLockWriteFails`, `PathLockWriteFails`) the file is there and no guard is.
`ErrorReturn` is a file operation that fails at any step: the guards are dropped,
and what the loop has done is not recorded. A guard ignores the result of
`remove_file`, so `Remove` may leave the file. `Crash` kills a call between any two
steps and leaves its locks. A file is written as a whole or not at all.

History: `raced` (somebody else wrote a file between its snapshot and its copy),
`overwritten` (what the last copy of a file by a task overwrote, unless it was
raced), `overlapped` (two calls of the task were at work together) and `orphaned`
(the lock files that were left behind).

### ChatAgent

*State.* `registry`, `shared`, `cancelled` and `policy` are the run records;
`ex` is the executions (the spawned tasks) with their private run state and
guardrails; `cmd` the commands between their status check and their spawn.
`calls` is history: one entry per edit or command the model asked for, with the
number of times it ran, whether the request was sent again and whether the user
allowed it; a turn's `id` is its position there.

*Actions.* `SupersedeRuns` and `InsertRun` are the two halves of a start around
its await; `AcceptResume`/`AcceptConfirm` and `SpawnCommand` those of the answers;
`CancelRun`. An execution reads the shared state (`ReadShared`, or `TakePending`
for a confirmed tool), and then alternates between `LoopTop` (cancellation,
guardrails), the model (`Plan`, `PlanFails`, `PlanUnparsable`) and the tool
(`ToolReturns`, `ToolFails`); it ends in `PublishAndEnd`, `Fail` and `RemoveRun`.
In remote mode a tool call goes to a daemon, and `call_remote` sends it
once more on a new connection when the first one breaks
(`remote_backend/mod.rs:122-137`; `chat_agent_execute_tool` is among the methods it
does this for). `ToolResent` is this step: the tool has run once or not at all by
then, and the second request may run it again.
Steps interleave where the code awaits, or copies the shared state and writes it
back later. The model and the tools answer anything.

### RemoteDelivery and OrderedDelivery

*State.* `queue` is `server_event_rx`, `buffer` is `buffer_by_stream`, `used` its
watched counter, `todo` what the writer of the current websocket is about to
write, `wire` what is between it and the backend, `got` what the backend has
received. A message is the number of envelopes it is split into.

*Actions.* `Enqueue` (a client task), `Take` (number, split, buffer and count, in
one step under the lock), `Write`, `Connect` and `StartServing` (the buffer is
written again, then the queue is served), `Break` (what is on the wire is lost),
`Receive`, `Ack` with any envelope received so far as its cursor, so that late and
repeated acknowledgements are included.

*Refinement.* `OrderedDelivery` has two variables: the messages accepted for a
stream and the number of the last one handed over. `RemoteDelivery` implements it
with `accepted` as what was numbered followed by what is queued, and `delivered`
as the last message of which the backend has every envelope; messages above the
size limit are dropped by `split_server_envelope_for_transport` and are the
`TooLarge` ones. The abstract specification includes liveness: every other
message is delivered.

### RemoteClients

The backend keeps a log of what remote clients send; a websocket delivers it from
the subscribe cursor or, after a reconnect, from any earlier place. `Initialize`
opens a connection of the app server with an outbound task; `Message` forwards,
unless its number was seen; chunks go through the reassembler (`RejectChunk`,
`IgnoreChunk`, `DropChunk`, `KeepChunk`, `CompleteChunk`, with eviction of the
oldest assembly); `HandleClosed`, `CloseExpiredClients` and `Shutdown` close;
`TaskEnds` and `BookkeepJoinSet` are the end of an outbound task and its join.
`connections` is indexed by connection id and remembers for each what was
forwarded to it.

### MemoryPipeline

*State.* `jobs`, `outputs` and `global` are the tables, `root` and `baseline` the
directory and its git baseline; a run of the pipeline has a place `pc`, what its
scan found, what it has claimed, and the inputs it loaded. Time is reduced to what
the queries compare with it: a lease, a backoff and a cooldown hold, and then are
over. A lease whose owner has died ends freely; one whose owner is alive and
renews it ends only as the fault `suspend`.

`version` is what the scan sees of a thread: `updated_at_ms`, which the query
compares with watermarks in seconds and the claim truncates to seconds
(`Timestamp`), and its age: *fresh* (used within `min_rollout_idle_hours`), *idle*,
or *out* (archived, or older than `max_rollout_age_days`). `Scans` is the query of
`claim_stage1_jobs_for_startup` with all of its filters: memory mode, age, the
current thread of the session (`SessionThread`), the comparison of each watermark,
and of more than `ScanLimit` threads the latest ones. `Threads` are those with an
interactive source and a user message, which never change; the others never get a
job. The constants `Active`, `External` and `Leaving` say which threads are used
again, meet external context, and leave the window. A thread that was idle is used
again in a later second, because the idle time is at least an hour
(`config/types.rs:355`): two versions that both get extracted never fall into one
second.

*Actions.* `Start` (prune and scan), `ClaimStage1`, `Extract` (with
`MarkStage1Succeeded`, `...NoOutput`, `...Failed`), `ClaimGlobal`, `LoadInputs`,
`SyncInputs`, `DiffRoot`, `AgentCompletes`, `Heartbeat`, `ConfirmOwnership`,
`ResetBaseline`, `Succeed`, `Phase2Fails`; `UpdateThread`, `ThreadIdles`,
`ThreadAgesOut`, `Pollute`; `ClearMemoryData` and `ClearMemoryRoot` (the two halves
of a reset); `Crash` at any place. The agent may see the inputs its run has synced
or those another run has put into the root since. When the update of a heartbeat
fails (`HeartbeatFails`), `agent::handle` gives up, `job::failed` releases the
row, and the agent, which is still writing, is shut down in a task of its own: the
run is *lingering* until `AgentStops`. A failure that finds the agent ended
(`Phase2Fails`) has nothing left to stop.

### ExecProcess

*Server.* Three tasks, one per output stream and one for the exit, number an event
under the lock (`StreamChunk`, `Exits`, `MaybeEmitClosed`) and send it afterwards
(`SendNotification`). `proc.output` keeps the last chunks, `Forget` removes the
entry of a closed process.

*Client.* `HandleNotification` puts events in order (`PublishOrdered`) into `log`;
`LatchDisconnect` and `FailAllSessions` are the two steps of a disconnect,
`RegisterSession` may come between them. *Consumers.* The MCP transport receives
(`Subscribe`, `ReceiveReplayed`, `ReceiveLive`) and reads when it lags
(`ReceiveLagged`, `ServerRead`, `RecoverLagged`); unified exec reads when it is
woken (`PollOutput`, `AwaitWake`). `Break` may lose any suffix of what is under
way; this client does not reconnect, so the server's later steps are left out.
Chunks have one size, so the byte limits are numbers of chunks.

## 3. Runs

| run | instance | shows |
|---|---|---|
| `task_lifecycle` | one task, one file, two contents, two hunks, 2 edits, every operation | `TypeOK`, `StatusAgreement`, `RollbackIsExact` |
| `task_recovery` | two tasks, one file that is generated and sensitive, worktrees, 3 edits or recovery operations | `SnapshotMatchesBaseline`, `TracebackCoversChanges`, `MergeKeepsProjectEdits` |
| `concurrent_merges` | two merges and a rollback of one task in any order and overlap, one file, three contents, 2 edits of the project or the workspace, failing file operations, crashes | `TypeOK`, `LocksHaveOwners`, `RollbackUndoesMerge` |
| `merges_end` | the same calls with two contents and 1 edit, fairness | `EveryCallEnds` |
| `chat_one_command` | one run, all three access modes, 2 answers one at a time, 2 turns per execution, cancellation, failures, parse retry, tool calls sent again | `TypeOK`, `ToolsRunWithConsent`, `AllowOnce`, `PausedRunsShowTheirEffects`, `StepsAreKept` |
| `chat_two_commands` | one run, 2 answers that may overlap, fairness | `NoOrphanRun`, `EveryExecutionEnds` |
| `remote_delivery` | two streams, 3 messages of up to 2 segments or too large, capacity 2, 2 broken connections, fairness | `TypeOK`, `NothingUnreceivedIsForgotten`, `NoGaps`, `BufferIsBounded`, `ImplementsOrderedDelivery` |
| `remote_clients` | two clients, three streams, 3 envelopes, one assembly at a time, 1 broken connection, fairness | `TypeOK`, `OpenConnectionsAgree`, `ForwardedInOrder`, `NothingIsPassedOver`, `EndedTaskIsClosed` |
| `memory_runs` | two overlapping runs, one thread that is used again, 2 faults of any kind | `TypeOK`, `OutputMatchesWatermark`, `ResetIsFinal`, `OneConsolidation`, `BaselineIsConsolidated` |
| `memory_progress` | two runs, one of them of a session that resumes a thread; two threads, one polluted, the other used again or leaving the window; a scan of one thread, one input, a crash or a failure, fairness | `PollutedIsForgotten`, `EveryVersionIsExtracted` |
| `exec_process` | two output streams, 2 chunks, retained output and log of one entry, either consumer, fairness | `TypeOK`, `PublishedInOrder`, `ReceivedInOrder`, `NothingElseIsLost`, `CloseIsFinal`, `EveryConsumerEnds` |

One more run, `merge_is_undoable`, checks a sentence of the documentation and
finds it violated; see section 6.

**Bounds.** In the `TaskEngine` runs only edits (and in `task_recovery` the
recovery operations) are counted against `MaxSteps`; refreshes, merges, rollbacks
and status operations are unlimited, so every order of them is explored. Two
contents suffice to tell a baseline from a change; two hunks are the least for a
partial merge. One file is enough for properties about one path at a time;
partial selections of several files, shared baselines of other paths and ignored
files are covered by the proofs, which have no bound. `MergeProtocol` needs three
contents for the original, a merge and a different merge on top of it, and two
edits for a second merge with another version and an edit of the user; one file
makes all calls meet on it. That other tasks merge into the same file is covered
by the theorems (and `task_recovery` has two tasks). In `ChatAgent` two execution
slots let two tasks work on one run at once. `chat_one_command` allows two turns
per execution, and one failure and one edit of a file, so that these two guardrails
and the parse retries are reached before the turn limit; the one for identical
actions is not, it ends an execution in the same way. In `chat_two_commands` an
execution has one turn (and the tool it was confirmed for), and the other limits
are out of the way so that the turn limit is what ends it. `MaxSteps` bounds the history of a run: an execution
that reached it would stand still at the head of the loop and violate
`EveryExecutionEnds`, and raising it in `chat_one_command` adds no state, so it
cuts nothing off. In `remote_delivery` a message of two segments that is taken
when one place is left exceeds the capacity, and with two breaks an
acknowledgement of the first connection can arrive during the third. In
`remote_clients` three envelopes are an initialize, a message and a second
initialize or the two chunks of a message, in streams of the same or of another
client; one assembly at a time makes every second one an eviction. In
`memory_runs` two faults are enough for a crash during the recovery from another
one, and two versions for a change between scan and claim; a second has two
milliseconds, the first version is in the last one of its second and the other in
the first one of the next, so the comparison of milliseconds with seconds meets
both of its ends; the fault-free runs are unlimited. Pollution is left to
`memory_progress` there and, for the safety properties, to the theorems. In `memory_progress` a scan of
one thread makes the limit bite: a thread whose retries are used up stands before
the other one (`CrowdedOut`). One of the two runs belongs to a session that resumes
a thread and so never finds it; the other has to. In `exec_process` a log of one entry makes a consumer lag, or
replay less than everything, after two events, and the one retained chunk makes
the first be evicted by the second; the two streams and the exit give every
order in which notifications can overtake each other. Deadlock is not
checked: when the budgets are used up and all calls have ended the system may
stop.

**Symmetry** is used in `chat_one_command` over the execution slots and in
`memory_runs` over the runs, which are interchangeable, and in no run with
liveness.

**Fairness.** `MergeProtocol!FairSpec` is weak fairness of each call's own steps:
the operating system runs every live process; crashes and edits are not fair.
`ChatAgent!FairSpec` is weak fairness of each execution and of each accepted
command: Tokio polls spawned tasks, the HTTP client and the shell tool have
timeouts and return, and none of the awaits depends on another command. Nothing
is assumed of the user (cancel, resume and confirm are not fair), nor of *what*
the model answers. `RemoteDelivery`: the run loop reconnects as long as remote
control is on, the writer task goes on, and the backend reads and acknowledges;
since breaks are bounded, the connections last in the end. `RemoteClients`: the
loop reconnects, the reader polls the websocket and the join set, and a cancelled
task sees its token; that a task ends by itself is not fair. `MemoryPipeline`:
sessions keep being started (each start is a run of the pipeline), also ones that
do not resume the thread in question, a run that is not hit by a fault goes on, and
time passes: leases, backoffs and cooldowns are over some time, and a thread that
is no longer used becomes idle. Crashes, failures, uses of threads, their
leaving the window and resets are not fair. `ExecProcess`: the
Tokio tasks of both sides take some step as long as one is left; neither the
process nor the network owes anything, so `EveryConsumerEnds` starts from a process
that has ended or a connection that is lost.

## 4. Proofs

The theorems hold for every value of the constants that satisfies the named
assumptions of the module: any number of tasks, files, calls, runs, executions,
clients, streams, threads and faults, where a run of TLC has two or three. The
bounds in the guards (`MaxLog`, `MaxEdits`, `MaxCommands` ...) are arbitrary
naturals. Every inductive invariant was checked by TLC before it was proved.

### TaskEngineProofs

From `MissingAssumption` and `ConstantsAssumption`:

* `TypeCorrect`: `Spec => []TypeOK`. One lemma per operation with a computed
  manifest (merge, rollback, fork, resume), the rest case by case.
* `SnapshotsAreBaselines`: with `InjectiveBlobs`, `Spec =>
  []SnapshotMatchesBaseline`. The invariant is inductive together with `TypeOK`:
  a refresh empties `accepted`; a merge saves exactly the blobs of the files it
  accepts, from a project it has just compared with the baseline; a rollback only
  shrinks `accepted`. Injectivity is needed in one place (`SavedBlob`): saving one
  path must leave the blobs of the others.
* `RollbackUndoesTheMerge`: with `InjectiveBlobs`, `Spec => RollbackIsExact`. The
  action property follows from `SnapshotMatchesBaseline`: what a rollback puts back
  is the blob, hence the baseline.
* `MergeSparesProjectEdits`: `Spec => MergeKeepsProjectEdits`. A refresh keeps the
  baseline of a listed path, so one whose project content differs blocks the merge
  or is not selected.
* `ChangesAreTraced`: with `InjectiveBlobs`, `Spec => []TracebackCoversChanges`.
  A path whose workspace version changed since the last refresh raises an event,
  and the event saves the new blob.
* `StatusFilesAgree`: `Spec => []StatusAgreement`. The property is about tasks that
  were created; the invariant (`StatusesAgree`) is about all, because a
  fork of a task without workspace leaves both files as they are.

Without `InjectiveBlobs` the second, third and fifth are false, and TLC shows it
(section 6, `RollbackRestoresPreMerge`).

### MergeProtocolProofs

From `ProtocolAssumption`:

* `TypeCorrect`: `Spec => []TypeOK`, with `AtFileHasFile`: a call that is at a file
  has one left.
* `LocksAreDropped`: `Spec => []LocksHaveOwners`. Each step removes exactly the
  locks of the stages it leaves, or puts them into `orphaned`.
* `RollbacksUndoMerges`: `Spec => RollbackUndoesMerge`, for any number of calls of
  any tasks. What a rollback restores is the before snapshot, and a second merge
  overwrites it; so the invariant (`UndoInv`) has to say that whatever is *offered*
  for rollback is a file whose snapshot is what its last copy overwrote: in the
  manifest on disk (`OfferIsUndoable`) and in that of a call (`CallIsUndoable`).
  Inductive with: merge stages belong to merges (`StagesOfMerge`); between saving
  and copying the snapshot is the file unless it is raced (`SavedIsCurrent`); calls
  of a task that have not overlapped are at work one at a time (`OneAtATime`); and
  a merge has marked only files that are behind its loop (`MarkedEntries`). It is
  the refresh at the head of a merge that takes the offers of the earlier merge
  back before the first snapshot is replaced, also when the new merge then fails.

### ChatAgentProofs

From `ConstantsAssumption`, which also says that the names for "no run" and "no
action" are no runs and no tools:

* `TypeCorrect`: `Spec => []TypeOK`. A turn names a call by its number, so the type
  of every state depends on `Len(calls)`; `TypesGrow` lifts it when a call is added.
  Needed besides: an idle slot is the only one without a run, and a task that
  executes has a turn.
* `NoRunIsOrphaned`: `Spec => []NoOrphanRun`, for any number of handlers that
  overlap. Every ending of a task leaves the run waiting or keeps the slot until
  `RemoveRun` has removed the record.
* `ToolsHaveConsent`, `AllowedOnce`, `EffectsAreShown` and `StepsOnlyGrow`:
  `OneHandler /\ Spec` implies `[]ToolsRunWithConsent`, `[]AllowOnce`,
  `[]PausedRunsShowTheirEffects` and `StepsAreKept`. All four come from `SoloInv`:
  no run has two tasks at work (`Solo`); a task at work holds the same state as the
  registry, its run is in a working status, nothing is pending unless it is a
  confirmation that has not begun, and the call it executes has consent and has
  not run, or at most once if its request was sent again (`ExecOK`); a command under way is for a run that still waits, and for
  the call it answers (`CmdOK`); a pending call is one of its run, had to be asked
  about and has not run (`PendingOK`); a run that was not started has no traces
  (`NotStarted`); a call that ran is shown, or its second request is under way
  (`InFlight`), or its run is dead: not waiting, not completed, without a task; and
  it ran twice only if it was sent again (`CallOK`). Each step is about one run: `Elsewhere`
  shows once that such a step keeps what the invariant says of the others.

`OneHandler` says that resume and confirm commands come one after the other; any
number of starts, cancellations, runs and executions overlap freely. The window
sends one answer at a time (its buttons are disabled while an answer is under way),
but nothing in the commands enforces it; without it the
four are false (section 6).

### SubsequenceProofs

Three components keep some elements of a sequence in their order (`retain` and
`filter` in the code). `Subsequences` defines this without walking through the
sequence: `Rank` counts the kept places up to one, `Place` is the place with a
rank. Every rank has one place and the places ascend with their ranks
(`RankFacts`, `PlaceFacts`), so the kept elements are there, in order, and no more
(`SubsequenceFacts`); and the result is known when the sequence grows
(`AppendOutside`, `AppendInside`) or loses its head (`TailFacts`). What is needed
of numbers (a least and a greatest one) comes from `NatLessThanWellFounded`, and
no step is an induction over the sequence. This module has lemmas only.

### RemoteDeliveryProofs

From `DeliveryAssumption`: `TypeCorrect` (`TypeOK`), `NothingIsForgotten`
(`NothingUnreceivedIsForgotten`), `TheBackendSeesNoGaps` (`NoGaps`),
`TheBufferIsBounded` (`BufferIsBounded`) and `DeliversInOrder`, which is
`Spec => Abstract!Safety`: the refinement of `OrderedDelivery` without its
fairness. They follow from one inductive invariant, per stream:

* `Safe`: what arrived has no gap, the buffer ascends, and what did not arrive is
  in it. This alone is not inductive: an envelope that arrives must find all
  earlier ones there, so the invariant has to follow them over the wire.
* `Flowing`: of each envelope on the wire, and of each the writer still has to
  write, the earlier ones have arrived or are in front of it (`Fed`); and as long
  as there is a connection, all that was numbered has arrived, is on the wire or is
  still to be written. That is why the writer must resend the whole buffer before
  it serves the queue.
* `WriterInv`: without a connection nothing is on the wire or to be written, and a
  writer that waits for the queue has written everything.

The bound is proved by counting places: a step changes the buffer of one stream,
so `Cardinality(Places(buffer))` changes by the difference of two lengths
(`PlacesChange`). For the refinement, `Enqueue` is `Accept`; `Take` moves the head
of the queue to the end of the numbered messages, which leaves `accepted` as it is
(`QueueMoves`), and completes nothing, since nothing of the new message has arrived
(`LastOfMore`); `Receive` is `Deliver` when the envelope is the last one missing of
its message, and by `NoGaps` that is the next message that has envelopes
(`LastMoves`); all other steps stutter.

### RemoteClientsProofs

From `ClientsAssumption`: `ConnectionsAgree` (`OpenConnectionsAgree`),
`MessagesAreInOrder` (`ForwardedInOrder`) and `NoMessageIsPassedOver`
(`NothingIsPassedOver`), as one induction. The numbers of a stream in the backend's
log are dense and ascend (`LogInv`); an entry of the table is a connection of its
stream; `last_inbound_seq_id` is the number of an envelope and bounds what was
forwarded; what counts as seen was forwarded (`SeenIsForwarded`); and
`NothingBeforeCursor`: every message before the subscribe cursor of a stream's open
connection was forwarded. The last one came out of the proof: after a second
reconnect the backend may begin at a cursor beyond the place the first one had
reached, which the run with `MaxBreaks = 1` never sees. TLC agreed with
`MaxBreaks = 2` and two streams. `TypeCorrect` (`TypeOK`) adds the reader: a chunk
finds fewer than `MaxAssemblies` other assemblies, because its client's own has
left or `evict_assemblies_if_full` has made a place (`RoomForOne`).

### MemoryPipelineProofs

From `PipelineAssumption` and `NoneAssumption` (the missing row is no row):

* `TypeCorrect`: `Spec => []TypeOK`, with `RetriesLeft`: a job in somebody's hands
  has a retry left, so that the count never goes below zero.
* `OutputsMatchWatermarks` and `ResetsAreFinal`: `[]OutputMatchesWatermark` and
  `[]ResetIsFinal`, by `JobsInv`: a run has scans and claims only in phase 1, each
  thread once; a claim whose token is still that of the job has the job's input
  watermark and was made in this epoch (`TokensAreCurrent`); and it is newer than
  what the job last succeeded with (`ClaimedIsNewer`).
* `ConsolidationIsExclusive`: `[]OneConsolidation`, by `LeaseInv`: as long as nobody
  resets and no run is suspended, a run that consolidates holds the lease
  (`LeaseHeld`), and an agent lingers only after a failed heartbeat
  (`LingeringAfterFailure`).
* `BaselinesAreConsolidated`: `[]BaselineIsConsolidated`, by `RootInv`: if moreover
  no heartbeat fails, the root has a baseline, after the sync the inputs in
  the root are the run's, and after the agent they are consolidated.

### ExecProcessProofs

From `ExecAssumption`: `TypeCorrect` (`TypeOK`), `EventsArePublishedInOrder`
(`PublishedInOrder`), `ChunksAreReceivedInOrder` (`ReceivedInOrder`),
`OnlyDroppedChunksAreLost` (`NothingElseIsLost`) and `ClosingIsTheLastWord`
(`CloseIsFinal`), for either consumer. The inductive invariant goes with an event
from the server to the consumer:

* `ServerInv`: the numbers given are those of the chunks, the exit and the close,
  the close comes last, after the exit and with no open stream; the retained chunks
  ascend, have the newest, and every other one is in `evicted`.
* `InTransit`: what a task has yet to send, what is in the inbox and what waits for
  an earlier number is an event as the server numbered it.
* `Published`: the log has exactly the events up to `last_published_seq`, in order;
  a failure may stand between them.
* `ConsumerInv`: the cursor bounds what was received; a consumer that receives has
  settled every chunk before its place in the log (`Passed`); and an answer to a
  read covers everything between the cursor and its `next_seq`, so that a lagging
  consumer may jump there (`Answer`). `Passed` and `Answer` are what makes the loss
  of events from the bounded channel harmless.

### Only model-checked

Every safety invariant and every action property that a passing run checks is
stated by a theorem. Liveness (`EveryCallEnds`, `EveryExecutionEnds`,
`EndedTaskIsClosed`, `PollutedIsForgotten`, `EveryVersionIsExtracted`,
`EveryConsumerEnds`, the fairness of `ImplementsOrderedDelivery`) and the absence
of deadlock stay with TLC: the prover has no rules for fairness and `ENABLED`. So
do the statements of section 6, which are false.

## 5. Hazards

`PROJECT.json` lists what is hard to test in this code, at the line where it
bites, with the property that would catch it. Every property has a mutant: a
variant of one modelled operation with a plausible slip (`...Unchecked`,
`...NeverBlocked`, `...Leaky`), defined beside the original and used by no
specification, under which the property fails.

## 6. Where the code and its documents disagree

The run `merge_is_undoable` (`MergeIsUndoable.cfg`) has TLC find a documented
sentence violated: `codex-new.md:55` says "每次合并都必须可撤销。", but a refresh after
a merge forgets `accepted` and `after_merge_hash` (`engine.rs:1226`), and then
neither a rollback nor the traceback returns to the content before.

The following statements are in the modules without a run of their own. TLC
refutes each one when it is named in a configuration like the one given.

In the safe mode and the chat agent:

| property | configuration | document | the code |
|---|---|---|---|
| `BaselineIsTaskStart` | `MergeIsUndoable.cfg` | `codex-new.md:843` "1. 读取任务开始时原文件 hash。", `:706` "合并时逐文件校验原文件是否从任务开始后变化。" | `engine.rs:1206`: the baseline is read at the first refresh that lists a file, not at the start of the task; an edit in between is overwritten by a merge of a file the agent never touched |
| `WritesOverBaselineOnly` | `ConcurrentMerges.cfg` with `Calls = {c1, c4}`, `Tasks = {t1, t2}` and `MaxEdits = 0` | `codex-new.md:2353` "merge 前比较 `before_hash`", "不同则进入 `MergeConflict`" | `engine.rs:333`: hashes are checked before the path locks are taken; of two tasks with the same file the second overwrites the first without a conflict |
| `FailedMergeIsUndoable` | the same with `NPaths = 2` | `codex-new.md:851` "失败时不能留下半合并状态。", `:857` "已成功文件可一键撤销。" | `engine.rs:333`: a merge that fails on its second file has written the first, and the manifest does not say so |
| `AccessModeIsHonoured` | `ChatOneCommand.cfg` | `docs/agent执行进度.md:133` "resume 传入当前 composer `accessMode`，后端重算 `tool_approval_policy`" | `chat_agent/mod.rs:360`: a mode chosen with a resume holds for that execution only; the next confirmation goes back to the mode of the start |
| `RepeatedActionAsksUser` | `ChatOneCommand.cfg` with only `edit` and `OnRequest`, `MaxTurns = 4`, `MaxCommands = 3` | `docs/聊天模型Agent执行设计.md:624` "重复动作: 连续 3 次相同动作 → 强制 AskUser" | `run_loop.rs:260`: guardrails start at zero after each confirmed tool, so the same edit may be made any number of times in a row |
| `RollbackRestoresPreMerge` | `MergeIsUndoable.cfg` with two paths and `BlobName <- SharedBlob` | `codex-new.md:923` "从 `before` 快照恢复。" | `fsx.rs:170`: `a/b.txt` and `a__b.txt` share one blob, so a rollback of one writes the content of the other |
| `UndoKeepsUserEdits` | `MergeIsUndoable.cfg` | `codex-new.md:930` "如果用户在合并后又手动修改了同一文件：" "- 不自动覆盖。" | `traceback.rs:130`: a restore copies without comparing hashes |
| `IgnoredFilesAreKept` | `MergeIsUndoable.cfg` with `Ignored = {p1}` | `codex-new.md:1278` "不能在“全部接受”里静默删除" | `engine.rs:1241`: files under `target/`, `dist/` ... are not copied, are then listed as deleted, and are removed by accepting everything |
| `BlockedReviewStopsMerge` | `MergeIsUndoable.cfg` with `Sensitive = {p1}` | `review.rs:63` "Change is blocked by policy and needs intervention." | `engine.rs:291`: merge reads no review |
| `LocksExclude` | `ConcurrentMerges.cfg` | `codex-new.md:2337` "merge 到原项目时按文件加锁" | `recovery.rs:112`: test, then create; both of two calls hold the lock |
| `AllowOnce`, `ToolsRunWithConsent` | `ChatTwoCommands.cfg` | `docs/agent执行进度.md:93-95` | `chat_agent/mod.rs:331`, `execution.rs:113`: two overlapping confirmations both find the call pending and both run it, or the second runs the call after it |
| `AwaitingRunsAreResumable` | `ChatOneCommand.cfg` | `docs/聊天模型Agent执行设计.md:611` "最多重试 2 次，否则进入 AskUser" | `run_loop.rs:111`: the run is shown as awaiting the user and its record removed |
| `OneLiveRunPerThread` | `ChatOneCommand.cfg` with `Runs = {r1, r2}` | `docs/agent执行进度.md:109` "新任务取代旧 run" | `chat_agent/mod.rs:126`: two starts that overlap do not see each other |
| `CancelEndsTheRun` | `ChatTwoCommands.cfg` | `docs/聊天模型Agent执行设计.md:1518` "取消运行。" | `chat_agent/mod.rs:231`: a waiting run has no task that would read the flag |

`AllowOnce` and `ToolsRunWithConsent` therefore hold for answers that come one at
a time, which is what `chat_one_command` checks and `ChatAgentProofs` proves, and
not beyond. Even then "allow once" (`docs/agent执行进度.md:93-95`) does not mean
that a tool runs once: in remote mode a tool call is sent again after a disconnect
(`remote_backend/mod.rs:122-137`, `:179`), although the daemon may have run it.
`AllowOnce` says that this is the only way, and that it adds one run at most.

`RollbackUndoesMerge` makes two exceptions, and both are needed. Two calls of
one task may overlap: rollback takes no lock, merge rewrites the manifest before
it takes its own, and both of two merges may pass the test of the merge lock
(`recovery.rs:112`), after which the second saves as "before" what the first has
written. And what somebody writes between `snapshot_file` and
`copy_file_or_remove` is in no snapshot.

In the forked agent:

| property | configuration | document | the code |
|---|---|---|---|
| `TaskClosesItsOwnConnection` | `RemoteClients.cfg` with `MaxLog = 2` | the test `cancelled_outbound_task_emits_connection_closed` (`client_tracker.rs:428`): the end of a task closes the connection of that task | `client_tracker.rs:62`: an ended task is reported by its key; when a stream is initialized again, the key of the old, cancelled task closes the connection that was just opened |
| `OneConsolidationAlways` | `MemoryRuns.cfg` | `memories/README.md:87` "claims a single global phase-2 lock before touching the memories root (so only one consolidation" | `memories.rs:32`: a reset deletes the lock row of a consolidation that is under way, and the next one starts beside it; a process suspended beyond its lease goes on when it wakes up; and with neither of these, `phase2.rs:428-441`: when a heartbeat cannot be written the row is released before the agent is stopped |
| `ReplayIsComplete` | `ExecProcess.cfg` | `executor_process_transport.rs:101` "process event log will replay anything that landed before this subscriber was attached." | `process.rs:103`: the history is bounded, and what it has dropped is missing from the replay without a `Lagged` that would start a recovery |
| `FailureIsLast` | `ExecProcess.cfg` | `client.rs:509` "Only the reader task drains sessions so queued process notifications stay ordered before disconnect." | `client.rs:677`: a read that meets the closed transport publishes the failure itself, before the notifications the reader still has |

More observations, which no property states. An agent that outlives its run
because of a failed heartbeat may write its summary after the next run has
confirmed its ownership and before that run resets the baseline: with the proviso
on heartbeats left out, TLC refutes `BaselineIsConsolidated`, and with `heartbeat`
among the `FaultKinds` of `MemoryProgress.cfg` also `PollutedIsForgotten` (the
lingering agent writes from the inputs it was started with, and nothing asks for
another consolidation). `memories/README.md:46-53` lists the filters of the scan: a version
that leaves the window before a run has come to it is never extracted, and
`EveryVersionIsExtracted` excludes it. It does not say that a thread whose retries
are used up keeps matching, so that enough such threads crowd older ones out of
the scan limit (`memories.rs:204`, `CrowdedOut`). A suspended process whose lease ends between
`ConfirmOwnership` and `ResetBaseline` commits the inputs another run has synced
(`phase2.rs:383`: "Do not reset the workspace baseline if we lost the lock.");
`BaselineIsConsolidated` therefore excludes suspension. `memories/README.md` lets
memories that were never used fall back to `generated_at`, the query takes
`source_updated_at` (`memories.rs:389`). A consolidation that is under way during a
reset writes memories from before it into the root, though not into the table.
`detach` of an executor session (`session_registry.rs:243`) clears the notification
sender in a step of its own, after which a client that has resumed the session in
between gets no notifications.

## 7. Not modelled

Text: diffs, prompts, JSON, summaries, path and command checks of the tools.
Probing of the machine: environments, git, test suggestions. Parts without state
of their own: CLI, daemon, glue, front end. Failing file operations of the engine
outside of merge and rollback; in these two every operation may fail, the writing
and removing of a lock file included, but a file that is partly written is left
out.
Of remote control: enrollment, tokens, the status watch, pings, clients without a
stream id, segmented initialize messages. Of the memory pipeline: the rate-limit
guard, the ranking by usage, `thread/memoryMode/set`, pruning and scanning as two
steps, threads of other sources or without a user message (the scan never finds
them), timestamps set back by a backfill, the text of the memories. Of the executor: writing to a process, `wait_ms`
and `max_bytes` of a read (both consumers pass zero and none), session resume,
starts cut off by a disconnect, HTTP bodies, file system calls. The other upstream
Codex crates: they are most of the code of the repository (terminal UI, protocol
types, configuration, sandboxes, providers), mostly without a protocol of their
own.

## 8. Plan

1. `ActivityFeed`: `timeline.jsonl` with several writers and polling readers;
   numbers counted from lines (`activity.rs:21`), the first event, which a reader
   that continues after 0 never gets (`:67`), command runs.
2. `DesktopStore`: the write, remove, rename sequence of `codex_new_store_io.rs`
   with crashes and recovery at load; abstract specification: an atomic register.
3. `TaskSessions` and `ProjectMemory`: bindings of a conversation to its task, lost
   updates of the memory file (`memory.rs:154`).
4. `HunkMerge`: `diff.rs` against a reference definition over bounded files.
5. Refinement: `MergeProtocol` without overlap implements the merge and rollback
   of `TaskEngine`.
6. Executor sessions: resume, `Starting` entries left by a dropped request
   (`server/processor.rs:104`).
