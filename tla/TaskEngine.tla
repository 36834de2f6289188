----------------------------- MODULE TaskEngine -----------------------------
(***************************************************************************)
(* The safe-mode task engine of CodexStudy                                 *)
(* (codex-rs/codex-new-core/src/engine.rs).                                *)
(*                                                                         *)
(* Every task works on an isolated copy ("workspace") of the user's        *)
(* project.  The engine compares the two trees (refresh_changes), copies   *)
(* selected files or hunks back (merge), undoes a merge from its `before'  *)
(* snapshots (rollback) and restores files from the traceback snapshots    *)
(* it records at every refresh (restore_traceback).  The user edits the    *)
(* project and the agent edits the workspace at any time in between.       *)
(*                                                                         *)
(* Each public method of CodexNewCore is one atomic action (two when it    *)
(* can end in a conflict); module MergeProtocol opens merge up into its    *)
(* file-system steps.  File contents are abstract values compared for      *)
(* equality only, which is what their SHA-256 hashes are used for.         *)
(***************************************************************************)
EXTENDS Naturals, FiniteSets

CONSTANTS
    Tasks,          \* task identifiers (uuids of create_task)
    Paths,          \* relative file paths
    Contents,       \* file contents
    Missing,        \* "no such file": file_hash = None
    BlobName,       \* encode_path: the file that holds a path's snapshot,
                    \* named by one of the paths that share it
    HunkIds,        \* hunk indices of a file's diff
    Ignored,        \* paths a fresh workspace leaves out (DEFAULT_IGNORES)
    Sensitive,      \* paths that match sensitive_file_patterns
    EnvPaths,       \* the generated .codex/config.toml ({} without a binding)
    EnvContent,     \* what write_shell_environment_config writes there
    Head,           \* the tree of the last git commit
    GitProject,     \* the project lies in a git repository
    UseWorktree     \* settings.workspace_strategy = Worktree

Version == Contents \cup {Missing}
Tree == [Paths -> Version]
NoFiles == [p \in Paths |-> Missing]
NoHunks == [p \in Paths |-> {}]

ASSUME MissingAssumption == Missing \notin Contents
ASSUME ConstantsAssumption ==
    /\ BlobName \in [Paths -> Paths]
    /\ Ignored \subseteq Paths
    /\ Sensitive \subseteq Paths
    /\ EnvPaths \subseteq Paths
    /\ EnvContent \in Contents
    /\ Head \in Tree
    /\ GitProject \in BOOLEAN /\ UseWorktree \in BOOLEAN

\* The TaskStatus values that engine.rs and recovery.rs assign.
Status ==
    { "WorkspaceReady", "ChangesDetected", "MergeConflict", "MergeReady",
      "RollbackAvailable", "RollbackFailed", "WorkspaceConflict",
      "EnvironmentBroken", "SummaryReady", "ReviewPassed", "ReviewBlocked",
      "TestingRunning", "TestingPassed", "TestingFailed", "Archived" }

\* manifest.json.  changed_files is the set `paths' with one function per
\* field; a path outside it has the default value of every field.
Manifest ==
    [ status     : Status,
      paths      : SUBSET Paths,
      before     : Tree,
      afterAi    : Tree,
      afterMerge : Tree,
      hunks      : [Paths -> SUBSET HunkIds],
      accepted   : SUBSET Paths ]

EmptyManifest ==
    [ status |-> "WorkspaceReady", paths |-> {}, before |-> NoFiles,
      afterAi |-> NoFiles, afterMerge |-> NoFiles, hunks |-> NoHunks,
      accepted |-> {} ]

\* snapshots/traceback: index.json and the two blob directories.
Traceback == [ paths : SUBSET Paths, original : Tree, workspace : Tree ]
EmptyTraceback == [ paths |-> {}, original |-> NoFiles, workspace |-> NoFiles ]

VARIABLES
    project,        \* the user's project tree (original_root)
    created,        \* tasks that exist
    wsExists,       \* tasks whose workspace_root directory exists
    workspace,      \* the isolated tree of each task
    manifest,       \* tasks/<id>/manifest.json
    record,         \* status in tasks/<id>/task.json
    beforeSnap,     \* tasks/<id>/snapshots/before; no blob restores as Missing
    traceback,      \* tasks/<id>/snapshots/traceback
    testing         \* tasks with a run_test_command_request in progress

vars == << project, created, wsExists, workspace, manifest, record,
           beforeSnap, traceback, testing >>

-----------------------------------------------------------------------------
(* Helpers: workspace preparation, comparison of the trees, selections.    *)

\* copy_project leaves the ignored paths out.
Copied(tree) == [p \in Paths |-> IF p \in Ignored THEN Missing ELSE tree[p]]

\* prepare_workspace: a worktree of HEAD when the strategy asks for one, a
\* copy otherwise and whenever git refuses.  Under Auto a worktree is only
\* used for a clean project, where it equals the copy.
FreshTrees ==
    {Copied(project)} \cup (IF GitProject /\ UseWorktree THEN {Head} ELSE {})

\* recover_task_workspace asks git for a worktree whatever the strategy.
RecoveryTrees == {Copied(project)} \cup (IF GitProject THEN {Head} ELSE {})

\* configure_isolated_workspace_environment writes the shell configuration.
WithEnvironment(tree) ==
    [p \in Paths |-> IF p \in EnvPaths THEN EnvContent ELSE tree[p]]

FileStatus(before, after) ==
    IF before = Missing THEN "Added"
    ELSE IF after = Missing THEN "Deleted" ELSE "Modified"

\* Mutant: every refresh takes the project's present hash as the baseline.
BeforeHashOfToday(prev, orig, p) == orig[p]

\* compare_roots keeps the before_hash of a path that was already listed and
\* takes the project's present hash for a new one.
BeforeHash(prev, orig, p) == IF p \in prev.paths THEN prev.before[p] ELSE orig[p]

ChangedPaths(prev, orig, ws) ==
    { p \in Paths : /\ orig[p] # Missing \/ ws[p] # Missing
                    /\ BeforeHash(prev, orig, p) # ws[p] }

\* The manifest refresh_changes writes: every entry is built anew, so the
\* merge fields of the previous entries are gone.
Refreshed(prev, orig, ws) ==
    LET changed == ChangedPaths(prev, orig, ws)
    IN  [ status     |-> IF changed = {} THEN "WorkspaceReady"
                                         ELSE "ChangesDetected",
          paths      |-> changed,
          before     |-> [p \in Paths |-> IF p \in changed
                                          THEN BeforeHash(prev, orig, p)
                                          ELSE Missing],
          afterAi    |-> [p \in Paths |-> IF p \in changed
                                          THEN ws[p] ELSE Missing],
          afterMerge |-> NoFiles,
          hunks      |-> NoHunks,
          accepted   |-> {} ]

\* Mutant: only paths that were not listed before raise an event.
ChangeEventsNewOnly(prev, next) == next.paths \ prev.paths

\* detect_changed_file_events: entries that are new or look different.
ChangeEvents(prev, next) ==
    { p \in next.paths :
        \/ p \notin prev.paths
        \/ prev.afterAi[p] # next.afterAi[p]
        \/ FileStatus(prev.before[p], prev.afterAi[p])
             # FileStatus(next.before[p], next.afterAi[p]) }

\* snapshot_file for every path of ps, in turn: of two paths with the same
\* encoding (a/b and a__b) the blob keeps the one that comes last.
Saved(store, ps, tree) ==
    [b \in Paths |->
        LET sharing == {p \in ps : BlobName[p] = b}
        IN  IF sharing = {} THEN store[b] ELSE tree[CHOOSE p \in sharing : TRUE]]

\* record_edit_traceback for every event: the project's file is saved when
\* the path is first indexed, the workspace's file every time.
Traced(trace, events, orig, ws) ==
    [ paths     |-> trace.paths \cup events,
      original  |-> Saved(trace.original, events \ trace.paths, orig),
      workspace |-> Saved(trace.workspace, events, ws) ]

\* MergeSelection / RollbackSelection.  All is sel = Paths; Lines selects
\* whole files too (hunk_selections returns nothing for it).
FileRequests == [ sel : SUBSET Paths, hunks : {NoHunks} ]
HunkRequests == { [ sel |-> {p \in Paths : h[p] # {}}, hunks |-> h ] :
                    h \in [Paths -> SUBSET HunkIds] }
Requests == FileRequests \cup HunkRequests

\* What apply_selected_hunks / copy_file_or_remove can leave in the project:
\* a missing workspace file removes it, a whole file is copied, selected
\* hunks give some text.
MergeResults(ws, p, hs) ==
    IF ws[p] = Missing THEN {Missing} ELSE IF hs = {} THEN {ws[p]} ELSE Contents

-----------------------------------------------------------------------------
Init ==
    /\ project \in Tree
    /\ created = {}
    /\ wsExists = {}
    /\ workspace = [t \in Tasks |-> NoFiles]
    /\ manifest = [t \in Tasks |-> EmptyManifest]
    /\ record = [t \in Tasks |-> "WorkspaceReady"]
    /\ beforeSnap = [t \in Tasks |-> NoFiles]
    /\ traceback = [t \in Tasks |-> EmptyTraceback]
    /\ testing = {}

(* The world outside the engine. *)

\* The user, an editor or a build writes or deletes a project file.
UserEdit(p, v) ==
    /\ project[p] # v
    /\ project' = [project EXCEPT ![p] = v]
    /\ UNCHANGED << created, wsExists, workspace, manifest, record,
                    beforeSnap, traceback, testing >>

\* The agent writes or deletes a file of its workspace (its cwd).
AgentEdit(t, p, v) ==
    /\ t \in wsExists
    /\ workspace[t][p] # v
    /\ workspace' = [workspace EXCEPT ![t][p] = v]
    /\ UNCHANGED << project, created, wsExists, manifest, record,
                    beforeSnap, traceback, testing >>

\* The workspace directory disappears (cleaned up by hand): the case
\* recover_task_workspace exists for.
WorkspaceLost(t) ==
    /\ t \in wsExists
    /\ wsExists' = wsExists \ {t}
    /\ workspace' = [workspace EXCEPT ![t] = NoFiles]
    /\ UNCHANGED << project, created, manifest, record, beforeSnap,
                    traceback, testing >>

(* Operations of CodexNewCore. *)

\* Mutant: the task directory is prepared but its record is never written.
CreateTaskUnrecorded(t) ==
    /\ t \notin created
    /\ wsExists' = wsExists \cup {t}
    /\ workspace' = [workspace EXCEPT ![t] = Copied(project)]
    /\ UNCHANGED << project, created, manifest, record, beforeSnap,
                    traceback, testing >>

CreateTask(t) ==
    /\ t \notin created
    /\ created' = created \cup {t}
    /\ wsExists' = wsExists \cup {t}
    /\ \E tree \in FreshTrees :
         workspace' = [workspace EXCEPT ![t] = WithEnvironment(tree)]
    /\ manifest' = [manifest EXCEPT ![t] = EmptyManifest]
    /\ record' = [record EXCEPT ![t] = "WorkspaceReady"]
    /\ UNCHANGED << project, beforeSnap, traceback, testing >>

\* The effect of refresh_changes on task t, whose manifest is prev, when the
\* project is orig and the workspace ws.
DoRefresh(t, prev, orig, ws) ==
    LET next == Refreshed(prev, orig, ws)
    IN  /\ manifest' = [manifest EXCEPT ![t] = next]
        /\ record' = [record EXCEPT ![t] = next.status]
        /\ traceback' = [traceback EXCEPT
                           ![t] = Traced(@, ChangeEvents(prev, next), orig, ws)]

\* fork_task: a new task whose workspace is overlaid with the source's files
\* (copy_project adds and overwrites, it never deletes) and then refreshed.
ForkTask(s, t) ==
    /\ s \in created /\ t \notin created
    /\ created' = created \cup {t}
    /\ wsExists' = wsExists \cup {t}
    /\ \E tree \in FreshTrees :
         LET fresh == WithEnvironment(tree)
             copied == Copied(workspace[s])
             ws == [p \in Paths |-> IF copied[p] # Missing THEN copied[p]
                                                           ELSE fresh[p]]
         IN  IF s \in wsExists
             THEN /\ workspace' = [workspace EXCEPT ![t] = ws]
                  /\ DoRefresh(t, EmptyManifest, project, ws)
             ELSE /\ workspace' = [workspace EXCEPT ![t] = fresh]
                  /\ UNCHANGED << manifest, record, traceback >>
    /\ UNCHANGED << project, beforeSnap, testing >>

\* hash_index fails on a missing workspace before anything is written.
RefreshChanges(t) ==
    /\ t \in wsExists
    /\ DoRefresh(t, manifest[t], project, workspace[t])
    /\ UNCHANGED << project, created, wsExists, workspace, beforeSnap, testing >>

\* The entries merge works on: it refreshes first.
MergeBase(t) == Refreshed(manifest[t], project, workspace[t])
MergeSet(t, req) == MergeBase(t).paths \cap req.sel

\* Mutant: merge applies without looking at the current hashes.
MergeNeverBlocked(t, req) == FALSE

MergeBlocked(t, req) ==
    \E p \in MergeSet(t, req) : project[p] # MergeBase(t).before[p]

RefreshTraceback(t) ==
    traceback' = [traceback EXCEPT
        ![t] = Traced(@, ChangeEvents(manifest[t], MergeBase(t)),
                      project, workspace[t])]

\* merge ends in Err(MergeConflict): a selected file changed since the
\* baseline; nothing is applied, the status is persisted.
MergeConflict(t, req) ==
    /\ t \in wsExists
    /\ MergeBlocked(t, req)
    /\ manifest' = [manifest EXCEPT
                      ![t] = [MergeBase(t) EXCEPT !.status = "MergeConflict"]]
    /\ record' = [record EXCEPT ![t] = "MergeConflict"]
    /\ RefreshTraceback(t)
    /\ UNCHANGED << project, created, wsExists, workspace, beforeSnap, testing >>

\* The manifest after the entries in acc were applied with that result.
MergedManifest(base, acc, result, hunks) ==
    [ base EXCEPT
        !.status = "RollbackAvailable",
        !.afterMerge = [p \in Paths |-> IF p \in acc THEN result[p] ELSE @[p]],
        !.hunks = [p \in Paths |-> IF p \in acc THEN hunks[p] ELSE @[p]],
        !.accepted = acc ]

\* merge applies every selected entry: before snapshot, copy or hunks, and
\* the entry's merge fields from the file that results.
MergeApply(t, req) ==
    LET acc == MergeSet(t, req)
    IN  /\ t \in wsExists
        /\ ~MergeBlocked(t, req)
        /\ beforeSnap' = [beforeSnap EXCEPT ![t] = Saved(@, acc, project)]
        /\ \E result \in [acc -> Version] :
             /\ \A p \in acc :
                  result[p] \in MergeResults(workspace[t], p, req.hunks[p])
             /\ project' = [p \in Paths |-> IF p \in acc THEN result[p]
                                                         ELSE project[p]]
             /\ manifest' = [manifest EXCEPT
                  ![t] = MergedManifest(MergeBase(t), acc, result, req.hunks)]
        /\ record' = [record EXCEPT ![t] = "RollbackAvailable"]
        /\ RefreshTraceback(t)
        /\ UNCHANGED << created, wsExists, workspace, testing >>

Merge(t, req) == MergeConflict(t, req) \/ MergeApply(t, req)

\* selected_rollback_paths: only merged entries can be rolled back.
RollbackSet(t, req) == manifest[t].accepted \cap req.sel

\* Mutant: rollback restores without looking at the current hashes.
RollbackNeverBlocked(t, req) == FALSE

RollbackBlocked(t, req) ==
    \E p \in RollbackSet(t, req) : project[p] # manifest[t].afterMerge[p]

\* Hunks of p that stay merged after a hunk rollback; {} restores the file.
RemainingHunks(t, req, p) ==
    IF req.hunks[p] = {} THEN {} ELSE manifest[t].hunks[p] \ req.hunks[p]

RollbackConflict(t, req) ==
    /\ t \in created
    /\ RollbackBlocked(t, req)
    /\ manifest' = [manifest EXCEPT ![t].status = "RollbackFailed"]
    /\ record' = [record EXCEPT ![t] = "RollbackFailed"]
    /\ UNCHANGED << project, created, wsExists, workspace, beforeSnap,
                    traceback, testing >>

\* Files that keep some merged hunks, and the entries that stay merged.
PartialSet(t, req) ==
    {p \in RollbackSet(t, req) : RemainingHunks(t, req, p) # {}}
KeptSet(t, req) ==
    manifest[t].accepted \ (RollbackSet(t, req) \ PartialSet(t, req))

RolledBackManifest(t, req, result) ==
    [ manifest[t] EXCEPT
        !.status = IF KeptSet(t, req) # {} THEN "RollbackAvailable"
                                           ELSE "MergeReady",
        !.accepted = KeptSet(t, req),
        !.afterMerge = [p \in Paths |->
           IF p \in PartialSet(t, req) THEN result[p]
           ELSE IF p \in RollbackSet(t, req) THEN Missing ELSE @[p]],
        !.hunks = [p \in Paths |->
           IF p \in RollbackSet(t, req) THEN RemainingHunks(t, req, p)
                                        ELSE @[p]] ]

\* rollback restores every selected file from its before snapshot and, for
\* a hunk rollback, applies the remaining hunks again.
RollbackApply(t, req) ==
    /\ t \in created
    /\ RollbackSet(t, req) # {}
    /\ ~RollbackBlocked(t, req)
    /\ \E result \in [PartialSet(t, req) -> Version] :
         /\ \A p \in PartialSet(t, req) :
              result[p] \in MergeResults(workspace[t], p,
                                         RemainingHunks(t, req, p))
         /\ project' = [p \in Paths |->
              IF p \in PartialSet(t, req) THEN result[p]
              ELSE IF p \in RollbackSet(t, req) THEN beforeSnap[t][BlobName[p]]
              ELSE project[p]]
         /\ manifest' = [manifest EXCEPT ![t] = RolledBackManifest(t, req, result)]
    /\ record' = [record EXCEPT ![t] = manifest'[t].status]
    /\ UNCHANGED << created, wsExists, workspace, beforeSnap, traceback,
                    testing >>

Rollback(t, req) == RollbackConflict(t, req) \/ RollbackApply(t, req)

\* restore_traceback to the project: the first saved copy is put back, with
\* no look at what the project holds now.
RestoreProject(t, p) ==
    /\ t \in created /\ p \in traceback[t].paths
    /\ project' = [project EXCEPT ![p] = traceback[t].original[BlobName[p]]]
    /\ UNCHANGED << created, wsExists, workspace, manifest, record,
                    beforeSnap, traceback, testing >>

\* restore_traceback to the workspace: copying a blob recreates the
\* directory when it is gone.
RestoreWorkspace(t, p) ==
    LET blob == traceback[t].workspace[BlobName[p]]
    IN  /\ t \in created /\ p \in traceback[t].paths
        /\ workspace' = [workspace EXCEPT ![t][p] = blob]
        /\ wsExists' = IF blob # Missing THEN wsExists \cup {t} ELSE wsExists
        /\ UNCHANGED << project, created, manifest, record, beforeSnap,
                        traceback, testing >>

\* review_manifest: Blocked as soon as a changed path is sensitive; the other
\* dispositions (lockfiles, large change sets) are the same to review_task.
ReviewOutcome(m) ==
    IF m.paths \cap Sensitive # {} THEN "ReviewBlocked" ELSE "ReviewPassed"

ReviewTask(t) ==
    /\ t \in created
    /\ record' = [record EXCEPT ![t] = ReviewOutcome(manifest[t])]
    /\ UNCHANGED << project, created, wsExists, workspace, manifest,
                    beforeSnap, traceback, testing >>

WriteTaskSummary(t) ==
    /\ t \in created
    /\ record' = [record EXCEPT ![t] = "SummaryReady"]
    /\ UNCHANGED << project, created, wsExists, workspace, manifest,
                    beforeSnap, traceback, testing >>

\* run_test_command_request up to the start of the command ...
TestStart(t) ==
    /\ t \in created \ testing
    /\ testing' = testing \cup {t}
    /\ record' = [record EXCEPT ![t] = "TestingRunning"]
    /\ UNCHANGED << project, created, wsExists, workspace, manifest,
                    beforeSnap, traceback >>

\* ... and from its end: the outcome, or an error return that leaves the
\* record as it is.
TestEnd(t, outcome) ==
    /\ t \in testing
    /\ testing' = testing \ {t}
    /\ record' = IF outcome = "error" THEN record
                 ELSE [record EXCEPT ![t] = outcome]
    /\ UNCHANGED << project, created, wsExists, workspace, manifest,
                    beforeSnap, traceback >>

\* Mutant: archive_task stops after the task record.
ArchiveTaskRecordOnly(t) ==
    /\ t \in created
    /\ record' = [record EXCEPT ![t] = "Archived"]
    /\ UNCHANGED << project, created, wsExists, workspace, manifest,
                    beforeSnap, traceback, testing >>

ArchiveTask(t) ==
    /\ t \in created
    /\ record' = [record EXCEPT ![t] = "Archived"]
    /\ manifest' = [manifest EXCEPT ![t].status = "Archived"]
    /\ UNCHANGED << project, created, wsExists, workspace, beforeSnap,
                    traceback, testing >>

\* recover_manifest, with the workspace back in place.
Recovered(m, envValid) ==
    [m EXCEPT !.status =
        IF ~envValid THEN "EnvironmentBroken"
        ELSE IF @ \in { "TestingFailed", "WorkspaceConflict",
                        "EnvironmentBroken", "MergeConflict", "RollbackFailed" }
             THEN IF m.paths = {} THEN "WorkspaceReady" ELSE "ChangesDetected"
             ELSE @]

\* resume_task: a lost workspace is prepared again; the
\* changed files of the manifest are kept.
ResumeTask(t, envValid) ==
    /\ t \in created
    /\ envValid \/ EnvPaths # {}
    /\ wsExists' = wsExists \cup {t}
    /\ IF t \in wsExists
       THEN /\ UNCHANGED workspace
            /\ manifest' = [manifest EXCEPT ![t] = Recovered(@, envValid)]
       ELSE /\ \E tree \in RecoveryTrees :
                 workspace' = [workspace EXCEPT ![t] = tree]
            /\ manifest' = [manifest EXCEPT
                 ![t] = Recovered([@ EXCEPT !.status = "WorkspaceReady"], envValid)]
    /\ record' = [record EXCEPT ![t] = manifest'[t].status]
    /\ UNCHANGED << project, created, beforeSnap, traceback, testing >>

\* refresh_environment_links rewrites the configuration file (and creates
\* its directory).
RefreshEnvironmentLinks(t) ==
    /\ t \in created
    /\ EnvPaths # {}
    /\ workspace' = [workspace EXCEPT ![t] = WithEnvironment(@)]
    /\ wsExists' = wsExists \cup {t}
    /\ UNCHANGED << project, created, manifest, record, beforeSnap,
                    traceback, testing >>

(* What the desktop adds: codex_new_restore_traceback_impl refreshes after *)
(* the restore.  With the workspace gone the refresh fails and the restore *)
(* alone remains, which is RestoreProject.                                 *)
RestoreProjectAndRefresh(t, p) ==
    LET orig == [project EXCEPT ![p] = traceback[t].original[BlobName[p]]]
    IN  /\ t \in wsExists /\ p \in traceback[t].paths
        /\ project' = orig
        /\ DoRefresh(t, manifest[t], orig, workspace[t])
        /\ UNCHANGED << created, wsExists, workspace, beforeSnap, testing >>

RestoreWorkspaceAndRefresh(t, p) ==
    LET ws == [workspace[t] EXCEPT ![p] = traceback[t].workspace[BlobName[p]]]
    IN  /\ t \in wsExists /\ p \in traceback[t].paths
        /\ workspace' = [workspace EXCEPT ![t] = ws]
        /\ DoRefresh(t, manifest[t], project, ws)
        /\ UNCHANGED << project, created, wsExists, beforeSnap, testing >>

-----------------------------------------------------------------------------
Edits ==
    \/ \E p \in Paths, v \in Version : UserEdit(p, v)
    \/ \E t \in Tasks, p \in Paths, v \in Version : AgentEdit(t, p, v)

\* The everyday flow: create, diff, merge, undo.
ChangeFlow ==
    \/ \E t \in Tasks : CreateTask(t) \/ RefreshChanges(t)
    \/ \E t \in Tasks, req \in Requests : Merge(t, req) \/ Rollback(t, req)

\* Snapshots put back, workspaces lost and recovered, forks.
Recovery ==
    \/ \E t \in Tasks, p \in Paths :
         \/ RestoreProject(t, p) \/ RestoreWorkspace(t, p)
         \/ RestoreProjectAndRefresh(t, p) \/ RestoreWorkspaceAndRefresh(t, p)
    \/ \E t \in Tasks :
         \/ WorkspaceLost(t) \/ RefreshEnvironmentLinks(t)
         \/ \E valid \in BOOLEAN : ResumeTask(t, valid)
    \/ \E s, t \in Tasks : ForkTask(s, t)

\* Operations on the task's status only.
StatusFlow ==
    \E t \in Tasks :
      \/ ReviewTask(t) \/ WriteTaskSummary(t) \/ ArchiveTask(t) \/ TestStart(t)
      \/ \E o \in {"TestingPassed", "TestingFailed", "error"} : TestEnd(t, o)

Next == Edits \/ ChangeFlow \/ Recovery \/ StatusFlow

Spec == Init /\ [][Next]_vars


-----------------------------------------------------------------------------
(* Properties.                                                             *)

\* Every variable holds what the files of the state root can hold.
TypeOK ==
    /\ project \in Tree
    /\ created \subseteq Tasks
    /\ wsExists \subseteq created
    /\ workspace \in [Tasks -> Tree]
    /\ manifest \in [Tasks -> Manifest]
    /\ record \in [Tasks -> Status]
    /\ beforeSnap \in [Tasks -> Tree]
    /\ traceback \in [Tasks -> Traceback]
    /\ testing \subseteq created

\* The `before' blob of a merged file is the content its before_hash names,
\* whatever refreshes, merges of other selections, rollbacks and restores
\* came since: a rollback puts back the content the merge was checked
\* against (engine.rs merge and rollback, fsx.rs snapshot_file).
SnapshotMatchesBaseline ==
    \A t \in Tasks : \A p \in manifest[t].accepted :
        /\ p \in manifest[t].paths
        /\ beforeSnap[t][BlobName[p]] = manifest[t].before[p]

\* Different paths have different snapshot files.
InjectiveBlobs == \A p, q \in Paths : BlobName[p] = BlobName[q] => p = q

\* Every listed change has a traceback entry whose workspace blob is the
\* version the manifest shows (refresh_changes records an entry only for the
\* paths detect_changed_file_events returns, so a skipped event would leave
\* an older blob behind the path).
TracebackCoversChanges ==
    \A t \in Tasks : \A p \in manifest[t].paths :
        /\ p \in traceback[t].paths
        /\ traceback[t].workspace[BlobName[p]] = manifest[t].afterAi[p]

\* task.json and manifest.json agree on the status, except for the statuses
\* only task.json ever gets (summary, review and test results).
RecordOnly == { "SummaryReady", "ReviewPassed", "ReviewBlocked",
                "TestingRunning", "TestingPassed", "TestingFailed" }
StatusAgreement ==
    \A t \in created : record[t] \in RecordOnly \/ record[t] = manifest[t].status

\* A file already listed as changed and edited in the project since its
\* baseline is never written by a merge, although merge refreshes the
\* manifest before it checks (compare_roots must keep the old before_hash).
MergeKeepsProjectEdits ==
    [][ \A t \in Tasks, p \in Paths :
          /\ p \in manifest[t].paths
          /\ project[p] # manifest[t].before[p]
          /\ \E req \in Requests : Merge(t, req)
          => project'[p] = project[p] ]_vars

\* A rollback undoes exactly the merge: a file it gives up goes back to the
\* content the merge was checked against, a file it rewrites still held what
\* the merge left, and every other file stays as it is.
RollbackIsExact ==
    [][ \A t \in Tasks :
          (\E req \in Requests : Rollback(t, req)) =>
            /\ \A p \in manifest[t].accepted \ manifest'[t].accepted :
                 project'[p] = manifest[t].before[p]
            /\ \A p \in Paths : project'[p] # project[p] =>
                 /\ p \in manifest[t].accepted
                 /\ project[p] = manifest[t].afterMerge[p] ]_vars
=============================================================================
