---------------------------- MODULE MergeProtocol ----------------------------
(***************************************************************************)
(* merge and rollback of codex-new-core/src/engine.rs, opened up into      *)
(* their file-system steps.                                                *)
(*                                                                         *)
(* The desktop's commands and the CLI call the engine from different       *)
(* processes on the same state root.  merge protects itself with lock      *)
(* files (recovery.rs MergeLockGuard): it tests whether the file exists    *)
(* and creates it afterwards, gives up when it is there, and removes it    *)
(* when the guard is dropped.  rollback takes no lock.  A process may die  *)
(* at any point, a file operation may fail at any point, and the user      *)
(* edits the project and the agent its workspace at any point.             *)
(*                                                                         *)
(* A call handles one request; a task may be merged and rolled back by     *)
(* several calls.  Files are handled in the order of changed_files, which  *)
(* compare_roots sorts by path.  refresh_changes is one step here: what it *)
(* computes is the subject of module TaskEngine.  A file is written as a   *)
(* whole or not at all.                                                    *)
(***************************************************************************)
EXTENDS Naturals, FiniteSets, FiniteSetsExt

CONSTANTS
    Calls,      \* calls of merge or rollback, each by a process of its own
    KindOf,     \* "merge" or "rollback"
    TaskOf,     \* the task a call is about
    Tasks,
    NPaths,     \* paths are 1..NPaths in the order of changed_files
    Contents,
    Original,   \* what every project file holds at first
    Missing,    \* the content of a file that does not exist
    None,       \* no content
    MaxEdits    \* bound on the edits of the user and of the agents

ASSUME ProtocolAssumption ==
    /\ KindOf \in [Calls -> {"merge", "rollback"}]
    /\ TaskOf \in [Calls -> Tasks]
    /\ NPaths \in Nat
    /\ Original \in Contents /\ Missing \in Contents
    /\ None \notin Contents
    /\ MaxEdits \in Nat

Paths == 1..NPaths
Tree == [Paths -> Contents]
MergeLock(t) == << "merge", t >>
PathLock(p) == << "path", p >>
Locks == {MergeLock(t) : t \in Tasks} \cup {PathLock(p) : p \in Paths}

\* The fields of manifest.json that merge and rollback use.
Manifest == [ paths : SUBSET Paths, before : Tree, afterMerge : Tree,
              accepted : SUBSET Paths ]

\* Where a call is.  "done" is Ok, "failed" an error return, "crashed" a
\* process that died.
Final == { "done", "failed", "crashed" }
Stage == Final \cup
    { "idle", "refreshed", "lockTested", "checking", "applying", "pathTested",
      "pathLocked", "saved", "copied", "written", "rbChecking", "rbRestoring" }

VARIABLES
    project,    \* the user's project
    workspace,  \* the isolated trees
    manifest,   \* manifest.json of each task
    snapshot,   \* snapshots/before of each task
    locks,      \* lock files that exist
    stage,      \* per call: the stage it is in
    local,      \* per call: its manifest in memory
    selected,   \* per call: the files of its request
    todo,       \* per call: selected files still to check or to handle
    edits,      \* number of edits so far
    \* History: what the properties are stated about.
    raced,      \* per call: someone else wrote the file it is about to copy
    overwritten, \* per task: what its last copy of a file overwrote; None if
                \* there was none or it was raced
    overlapped, \* per task: two calls of it have been at work together
    orphaned    \* lock files a call has left behind

disk == << project, workspace, manifest, snapshot, locks >>
history == << raced, overwritten, overlapped, orphaned >>
vars == << disk, stage, local, selected, todo, edits, history >>

EmptyManifest ==
    [ paths |-> {}, before |-> [p \in Paths |-> Original],
      afterMerge |-> [p \in Paths |-> Original], accepted |-> {} ]

Init ==
    /\ project = [p \in Paths |-> Original]
    /\ workspace \in [Tasks -> Tree]
    /\ manifest = [t \in Tasks |-> EmptyManifest]
    /\ snapshot = [t \in Tasks |-> [p \in Paths |-> Missing]]
    /\ locks = {}
    /\ stage = [c \in Calls |-> "idle"]
    /\ local = [c \in Calls |-> EmptyManifest]
    /\ selected = [c \in Calls |-> {}]
    /\ todo = [c \in Calls |-> {}]
    /\ edits = 0
    /\ raced = [c \in Calls |-> FALSE]
    /\ overwritten = [t \in Tasks |-> [p \in Paths |-> None]]
    /\ overlapped = [t \in Tasks |-> FALSE]
    /\ orphaned = {}

-----------------------------------------------------------------------------
AtWork(c) == stage[c] \notin Final \cup {"idle"}
Goto(c, s) == stage' = [stage EXCEPT ![c] = s]

\* A call ends; what it had in memory is gone.
memory == << local, selected, todo, raced >>
End(c, s) ==
    /\ Goto(c, s)
    /\ local' = [local EXCEPT ![c] = EmptyManifest]
    /\ selected' = [selected EXCEPT ![c] = {}]
    /\ todo' = [todo EXCEPT ![c] = {}]
    /\ raced' = [raced EXCEPT ![c] = FALSE]

\* The file a call handles next, and the step on to the one after it.
Current(c) == Min(todo[c])
Handled(c) == todo' = [todo EXCEPT ![c] = @ \ {Current(c)}]

\* Stages in which a call has created a lock and not dropped it, and the lock
\* files its guards remove.
HoldsMergeLock(c) ==
    stage[c] \in { "checking", "applying", "pathTested", "pathLocked", "saved",
                   "copied", "written" }
HoldsPathLock(c) == stage[c] \in {"pathLocked", "saved", "copied"}
Guards(c) ==
    (IF HoldsMergeLock(c) THEN {MergeLock(TaskOf[c])} ELSE {}) \cup
    (IF HoldsPathLock(c) THEN {PathLock(Current(c))} ELSE {})

\* The guards remove their files; a file that cannot be removed stays.
Remove(L) ==
    \E kept \in SUBSET (L \cap locks) :
        /\ locks' = (locks \ L) \cup kept
        /\ orphaned' = (orphaned \ L) \cup kept

\* A call starts while another call of its task is at work.
MarkOverlap(c) ==
    overlapped' = [overlapped EXCEPT ![TaskOf[c]] =
        @ \/ \E d \in Calls : TaskOf[d] = TaskOf[c] /\ AtWork(d)]

\* Calls that have saved p and are about to overwrite it.
AboutToCopy(p) == {d \in Calls : stage[d] = "saved" /\ Current(d) = p}
WriteProject(p, v) ==
    /\ project' = [project EXCEPT ![p] = v]
    /\ raced' = [d \in Calls |-> raced[d] \/ d \in AboutToCopy(p)]

\* refresh_changes: listed files keep their baseline, merges are forgotten.
Refreshed(t) ==
    LET old == manifest[t]
        before == [p \in Paths |-> IF p \in old.paths THEN old.before[p]
                                                      ELSE project[p]]
    IN  [ paths |-> {p \in Paths : before[p] # workspace[t][p]},
          before |-> before, afterMerge |-> before, accepted |-> {} ]

\* merge refreshes and reads the result back.
StartMerge(c, sel) ==
    LET m == Refreshed(TaskOf[c])
    IN  /\ stage[c] = "idle" /\ KindOf[c] = "merge"
        /\ manifest' = [manifest EXCEPT ![TaskOf[c]] = m]
        /\ local' = [local EXCEPT ![c] = m]
        /\ selected' = [selected EXCEPT ![c] = m.paths \cap sel]
        /\ todo' = [todo EXCEPT ![c] = m.paths \cap sel]
        /\ Goto(c, "refreshed")
        /\ MarkOverlap(c)
        /\ UNCHANGED << project, workspace, snapshot, locks, edits, raced,
                        overwritten, orphaned >>

\* Mutant: wait until the lock file is gone.
TestMergeLockWaits(c) ==
    /\ stage[c] = "refreshed"
    /\ MergeLock(TaskOf[c]) \notin locks
    /\ Goto(c, "lockTested")
    /\ UNCHANGED << disk, local, selected, todo, edits, history >>

\* MergeLockGuard::acquire, first half: an error return if the file exists.
TestMergeLock(c) ==
    /\ stage[c] = "refreshed"
    /\ IF MergeLock(TaskOf[c]) \in locks
       THEN End(c, "failed")
       ELSE Goto(c, "lockTested") /\ UNCHANGED memory
    /\ UNCHANGED << disk, edits, overwritten, overlapped, orphaned >>

\* Second half: File::create succeeds on an existing file, too.
CreateMergeLock(c) ==
    /\ stage[c] = "lockTested"
    /\ locks' = locks \cup {MergeLock(TaskOf[c])}
    /\ Goto(c, "checking")
    /\ UNCHANGED << project, workspace, manifest, snapshot, local, selected,
                    todo, edits, history >>

\* The file is created, writing the task's name into it fails: there is no
\* guard yet that would remove it.
MergeLockWriteFails(c) ==
    /\ stage[c] = "lockTested"
    /\ locks' = locks \cup {MergeLock(TaskOf[c])}
    /\ orphaned' = orphaned \cup {MergeLock(TaskOf[c])}
    /\ End(c, "failed")
    /\ UNCHANGED << project, workspace, manifest, snapshot, edits, overwritten,
                    overlapped >>

\* The hash check of the next selected file.
CheckFile(c) ==
    /\ stage[c] = "checking" /\ todo[c] # {}
    /\ project[Current(c)] = local[c].before[Current(c)]
    /\ Handled(c)
    /\ UNCHANGED << disk, stage, local, selected, edits, history >>

\* The file changed: the manifest is persisted, the error return drops the
\* guard.
CheckFails(c) ==
    /\ stage[c] = "checking" /\ todo[c] # {}
    /\ project[Current(c)] # local[c].before[Current(c)]
    /\ manifest' = [manifest EXCEPT ![TaskOf[c]] = local[c]]
    /\ Remove(Guards(c))
    /\ End(c, "failed")
    /\ UNCHANGED << project, workspace, snapshot, edits, overwritten, overlapped >>

\* All files are checked; the second loop starts.
StartApplying(c) ==
    /\ stage[c] = "checking" /\ todo[c] = {}
    /\ todo' = [todo EXCEPT ![c] = selected[c]]
    /\ Goto(c, "applying")
    /\ UNCHANGED << disk, local, selected, edits, history >>

\* Mutant: the error return forgets the merge lock.
TestPathLockLeaky(c) ==
    /\ stage[c] = "applying" /\ todo[c] # {}
    /\ IF PathLock(Current(c)) \in locks
       THEN End(c, "failed")
       ELSE Goto(c, "pathTested") /\ UNCHANGED memory
    /\ UNCHANGED << disk, edits, overwritten, overlapped, orphaned >>

\* acquire_path: the error return drops the merge lock and forgets what the
\* loop has done so far.
TestPathLock(c) ==
    /\ stage[c] = "applying" /\ todo[c] # {}
    /\ IF PathLock(Current(c)) \in locks
       THEN Remove(Guards(c)) /\ End(c, "failed")
       ELSE Goto(c, "pathTested") /\ UNCHANGED << locks, orphaned, memory >>
    /\ UNCHANGED << project, workspace, manifest, snapshot, edits, overwritten,
                    overlapped >>

CreatePathLock(c) ==
    /\ stage[c] = "pathTested"
    /\ locks' = locks \cup {PathLock(Current(c))}
    /\ Goto(c, "pathLocked")
    /\ UNCHANGED << project, workspace, manifest, snapshot, local, selected,
                    todo, edits, history >>

\* The same failure for a path lock; the guard of the merge lock is dropped.
PathLockWriteFails(c) ==
    /\ stage[c] = "pathTested"
    /\ \E kept \in SUBSET (Guards(c) \cap locks) :
         /\ locks' = (locks \ Guards(c)) \cup kept \cup {PathLock(Current(c))}
         /\ orphaned' = (orphaned \ Guards(c)) \cup kept \cup {PathLock(Current(c))}
    /\ End(c, "failed")
    /\ UNCHANGED << project, workspace, manifest, snapshot, edits, overwritten,
                    overlapped >>

\* Mutant: a file that has a blob from an earlier merge is not saved again.
SaveFileOnce(c) ==
    /\ stage[c] = "pathLocked"
    /\ snapshot' = [snapshot EXCEPT ![TaskOf[c]][Current(c)] =
                        IF @ = Missing THEN project[Current(c)] ELSE @]
    /\ Goto(c, "saved")
    /\ UNCHANGED << project, workspace, manifest, locks, local, selected, todo,
                    edits, history >>

\* snapshot_file into snapshots/before.
SaveFile(c) ==
    /\ stage[c] = "pathLocked"
    /\ snapshot' = [snapshot EXCEPT ![TaskOf[c]][Current(c)] = project[Current(c)]]
    /\ Goto(c, "saved")
    /\ UNCHANGED << project, workspace, manifest, locks, local, selected, todo,
                    edits, history >>

\* copy_file_or_remove from the workspace.
CopyFile(c) ==
    LET p == Current(c)
        t == TaskOf[c]
    IN  /\ stage[c] = "saved"
        /\ project' = [project EXCEPT ![p] = workspace[t][p]]
        /\ overwritten' = [overwritten EXCEPT
             ![t][p] = IF raced[c] THEN None ELSE project[p]]
        /\ raced' = [d \in Calls |-> d # c /\ (raced[d] \/ d \in AboutToCopy(p))]
        /\ Goto(c, "copied")
        /\ UNCHANGED << workspace, manifest, snapshot, locks, local, selected,
                        todo, edits, overlapped, orphaned >>

\* Mutant: the result goes into the next entry.
RecordFileOffByOne(c) ==
    LET p == Current(c)
    IN  /\ stage[c] = "copied"
        /\ local' = [local EXCEPT ![c].accepted = @ \cup {p + 1}]
        /\ Remove({PathLock(p)})
        /\ Handled(c)
        /\ Goto(c, "applying")
        /\ UNCHANGED << project, workspace, manifest, snapshot, selected, edits,
                        raced, overwritten, overlapped >>

\* The hash of the result goes into the entry; the path lock is dropped.
RecordFile(c) ==
    LET p == Current(c)
    IN  /\ stage[c] = "copied"
        /\ local' = [local EXCEPT ![c].afterMerge[p] = project[p],
                                  ![c].accepted = @ \cup {p}]
        /\ Remove({PathLock(p)})
        /\ Handled(c)
        /\ Goto(c, "applying")
        /\ UNCHANGED << project, workspace, manifest, snapshot, selected, edits,
                        raced, overwritten, overlapped >>

\* The manifest is written, by merge and by rollback ...
WriteManifest(c) ==
    /\ stage[c] \in {"applying", "rbRestoring"} /\ todo[c] = {}
    /\ manifest' = [manifest EXCEPT ![TaskOf[c]] = local[c]]
    /\ IF KindOf[c] = "merge"
       THEN Goto(c, "written") /\ UNCHANGED memory
       ELSE End(c, "done")
    /\ UNCHANGED << project, workspace, snapshot, locks, edits, overwritten,
                    overlapped, orphaned >>

\* ... and merge returns, which drops the merge lock.
DropMergeLock(c) ==
    /\ stage[c] = "written"
    /\ Remove(Guards(c))
    /\ End(c, "done")
    /\ UNCHANGED << project, workspace, manifest, snapshot, edits, overwritten,
                    overlapped >>

\* rollback reads the manifest; without a merged file it is an error.
StartRollback(c, sel) ==
    LET m == manifest[TaskOf[c]]
    IN  /\ stage[c] = "idle" /\ KindOf[c] = "rollback"
        /\ IF m.accepted \cap sel = {}
           THEN End(c, "failed")
           ELSE /\ local' = [local EXCEPT ![c] = m]
                /\ selected' = [selected EXCEPT ![c] = m.accepted \cap sel]
                /\ todo' = [todo EXCEPT ![c] = m.accepted \cap sel]
                /\ Goto(c, "rbChecking")
                /\ UNCHANGED raced
        /\ MarkOverlap(c)
        /\ UNCHANGED << disk, edits, overwritten, orphaned >>

RollbackCheckFile(c) ==
    /\ stage[c] = "rbChecking" /\ todo[c] # {}
    /\ project[Current(c)] = local[c].afterMerge[Current(c)]
    /\ Handled(c)
    /\ UNCHANGED << disk, stage, local, selected, edits, history >>

RollbackCheckFails(c) ==
    /\ stage[c] = "rbChecking" /\ todo[c] # {}
    /\ project[Current(c)] # local[c].afterMerge[Current(c)]
    /\ manifest' = [manifest EXCEPT ![TaskOf[c]] = local[c]]
    /\ End(c, "failed")
    /\ UNCHANGED << project, workspace, snapshot, locks, edits, overwritten,
                    overlapped, orphaned >>

StartRestoring(c) ==
    /\ stage[c] = "rbChecking" /\ todo[c] = {}
    /\ todo' = [todo EXCEPT ![c] = selected[c]]
    /\ Goto(c, "rbRestoring")
    /\ UNCHANGED << disk, local, selected, edits, history >>

\* restore_snapshot of the next file, and its entry.
RestoreFile(c) ==
    LET p == Current(c)
        t == TaskOf[c]
    IN  /\ stage[c] = "rbRestoring" /\ todo[c] # {}
        /\ WriteProject(p, snapshot[t][p])
        /\ local' = [local EXCEPT ![c].accepted = @ \ {p}]
        /\ Handled(c)
        /\ UNCHANGED << workspace, manifest, snapshot, locks, stage, selected,
                        edits, overwritten, overlapped, orphaned >>

\* A file operation fails and the call returns with the error, which drops
\* its guards; what the loop has done so far is not recorded.
ErrorReturn(c) ==
    /\ AtWork(c)
    /\ Remove(Guards(c))
    /\ End(c, "failed")
    /\ UNCHANGED << project, workspace, manifest, snapshot, edits, overwritten,
                    overlapped >>

\* The process dies: nothing is dropped, the lock files stay.
Crash(c) ==
    /\ AtWork(c)
    /\ orphaned' = orphaned \cup (Guards(c) \cap locks)
    /\ End(c, "crashed")
    /\ UNCHANGED << disk, edits, overwritten, overlapped >>

UserEdit(p, v) ==
    /\ edits < MaxEdits
    /\ project[p] # v
    /\ edits' = edits + 1
    /\ WriteProject(p, v)
    /\ UNCHANGED << workspace, manifest, snapshot, locks, stage, local, selected,
                    todo, overwritten, overlapped, orphaned >>

AgentEdit(t, p, v) ==
    /\ edits < MaxEdits
    /\ workspace[t][p] # v
    /\ edits' = edits + 1
    /\ workspace' = [workspace EXCEPT ![t][p] = v]
    /\ UNCHANGED << project, manifest, snapshot, locks, stage, local, selected,
                    todo, history >>

-----------------------------------------------------------------------------
\* What a call that has started does next.
Step(c) ==
    \/ TestMergeLock(c) \/ CreateMergeLock(c) \/ CheckFile(c) \/ CheckFails(c)
    \/ StartApplying(c) \/ TestPathLock(c) \/ CreatePathLock(c) \/ SaveFile(c)
    \/ CopyFile(c) \/ RecordFile(c) \/ WriteManifest(c) \/ DropMergeLock(c)
    \/ RollbackCheckFile(c) \/ RollbackCheckFails(c) \/ StartRestoring(c)
    \/ RestoreFile(c)

\* What may go wrong with it.
Fault(c) ==
    MergeLockWriteFails(c) \/ PathLockWriteFails(c) \/ ErrorReturn(c) \/ Crash(c)

Next ==
    \/ \E c \in Calls, sel \in SUBSET Paths :
         StartMerge(c, sel) \/ StartRollback(c, sel)
    \/ \E c \in Calls : Step(c) \/ Fault(c)
    \/ \E p \in Paths, v \in Contents :
         UserEdit(p, v) \/ \E t \in Tasks : AgentEdit(t, p, v)

Spec == Init /\ [][Next]_vars

\* The operating system runs every process that has not died.
FairSpec == Spec /\ \A c \in Calls : WF_vars(Step(c))

-----------------------------------------------------------------------------
\* Every variable holds what the code can put there.
TypeOK ==
    /\ project \in Tree
    /\ workspace \in [Tasks -> Tree]
    /\ manifest \in [Tasks -> Manifest]
    /\ snapshot \in [Tasks -> Tree]
    /\ locks \subseteq Locks
    /\ stage \in [Calls -> Stage]
    /\ local \in [Calls -> Manifest]
    /\ selected \in [Calls -> SUBSET Paths]
    /\ todo \in [Calls -> SUBSET Paths]
    /\ edits \in 0..MaxEdits
    /\ raced \in [Calls -> BOOLEAN]
    /\ overwritten \in [Tasks -> [Paths -> Contents \cup {None}]]
    /\ overlapped \in [Tasks -> BOOLEAN]
    /\ orphaned \subseteq locks

\* A lock file belongs to a call that is still at work, or it was left behind
\* in one of three ways: its process died, the write that follows
\* File::create failed, or remove_file failed.  Every other return of merge,
\* with or without error, alone or beside a second holder of the same lock,
\* removes what it took; a lock left behind refuses every later merge of the
\* task or file.
LocksHaveOwners ==
    \A l \in locks \ orphaned : \E c \in Calls : l \in Guards(c)

\* A rollback puts back what the task's last merge of the file overwrote,
\* however often the task was merged before, whatever other tasks merged
\* into the file, and wherever calls failed or died: an edit of the file
\* after the hash check is in the snapshot as well.  Not so if the calls of
\* the task overlap (rollback takes no lock, merge rewrites the manifest
\* before it takes its own) or if somebody writes the file between
\* snapshot_file and copy_file_or_remove.
RollbackUndoesMerge ==
    [][ \A c \in Calls : RestoreFile(c) /\ ~overlapped[TaskOf[c]] =>
          overwritten[TaskOf[c]][Current(c)] \in {None, project'[Current(c)]} ]_vars

\* Nobody waits for a lock: every call comes to an end, even behind the lock
\* files of a dead process.
EveryCallEnds ==
    \A c \in Calls : stage[c] # "idle" ~> stage[c] \in Final

\* codex-new.md 26.10.2: a merge into the project locks by file.  Two calls
\* never hold the same lock.
LocksExclude ==
    \A c, d \in Calls : c # d =>
        /\ HoldsMergeLock(c) /\ HoldsMergeLock(d) => TaskOf[c] # TaskOf[d]
        /\ HoldsPathLock(c) /\ HoldsPathLock(d) => Current(c) # Current(d)

\* codex-new.md 26.10.3: of two tasks that changed the same file the second
\* merge finds another hash than its baseline and ends in MergeConflict, so
\* a file is only ever overwritten while it holds the baseline.
WritesOverBaselineOnly ==
    [][ \A c \in Calls : CopyFile(c) =>
          project[Current(c)] = local[c].before[Current(c)] ]_vars

\* codex-new.md 11.5: a failed merge leaves no half-merged state, what it
\* has written can be undone at once: the manifest lists it as merged.
FailedMergeIsUndoable ==
    [][ \A c \in Calls : HoldsMergeLock(c) /\ stage'[c] = "failed" =>
          local[c].accepted \subseteq manifest'[TaskOf[c]].accepted ]_vars
=============================================================================
