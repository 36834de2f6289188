---------------------------- MODULE TaskHistory ----------------------------
(***************************************************************************)
(* TaskEngine with history variables, to state what codex-new.md promises  *)
(* the user about his project in terms of what happened to it, not of what *)
(* the manifest remembers.                                                 *)
(***************************************************************************)
EXTENDS TaskEngine

CONSTANTS t1, p1, p2, c1, c2, c3, MaxEdits

VARIABLES
    start,      \* the project when the task was created
    userOwned,  \* paths whose present project content the user wrote
    merged,     \* paths whose present project content the task's merge wrote
    preMerge,   \* what the project held before that merge
    handEdited, \* paths the user changed after the task's merge wrote them
    edits       \* edits so far, at most MaxEdits

history == << start, userOwned, merged, preMerge, handEdited, edits >>
allvars == << vars, history >>

MCHead == [p \in Paths |-> c1]
OwnBlobs == [p \in Paths |-> p]
\* p1 is a/b and p2 is a__b.
SharedBlob == [p \in Paths |-> p1]

HInit ==
    /\ Init
    /\ project = Head
    /\ start = [t \in Tasks |-> project]
    /\ userOwned = {}
    /\ merged = [t \in Tasks |-> {}]
    /\ preMerge = [t \in Tasks |-> NoFiles]
    /\ handEdited = [t \in Tasks |-> {}]
    /\ edits = 0

HUserEdit(p, v) ==
    /\ edits < MaxEdits
    /\ UserEdit(p, v)
    /\ userOwned' = userOwned \cup {p}
    /\ merged' = [t \in Tasks |-> merged[t] \ {p}]
    /\ handEdited' = [t \in Tasks |-> handEdited[t] \cup (merged[t] \cap {p})]
    /\ edits' = edits + 1
    /\ UNCHANGED << start, preMerge >>

HAgentEdit(t, p, v) ==
    /\ edits < MaxEdits
    /\ AgentEdit(t, p, v)
    /\ edits' = edits + 1
    /\ UNCHANGED << start, userOwned, merged, preMerge, handEdited >>

HCreate(t) ==
    /\ CreateTask(t)
    /\ start' = [start EXCEPT ![t] = project]
    /\ UNCHANGED << userOwned, merged, preMerge, handEdited, edits >>

\* Whole files only: nothing here depends on how hunks are put together.
HMerge(t, req) ==
    /\ Merge(t, req)
    /\ LET wrote == {p \in Paths : project'[p] # project[p]}
       IN  /\ userOwned' = userOwned \ wrote
           /\ merged' = [s \in Tasks |-> IF s = t THEN merged[s] \cup wrote
                                                  ELSE merged[s] \ wrote]
           /\ preMerge' = [preMerge EXCEPT ![t] =
                [p \in Paths |-> IF p \in wrote THEN project[p] ELSE @[p]]]
           /\ handEdited' = [s \in Tasks |-> handEdited[s] \ wrote]
    /\ UNCHANGED << start, edits >>

HUndo(t) ==
    /\ \/ \E req \in FileRequests : Rollback(t, req)
       \/ \E p \in Paths : RestoreProject(t, p)
    /\ LET wrote == {p \in Paths : project'[p] # project[p]}
       IN  /\ userOwned' = userOwned \ wrote
           /\ merged' = [s \in Tasks |-> merged[s] \ wrote]
           /\ handEdited' = [s \in Tasks |-> handEdited[s] \ wrote]
    /\ UNCHANGED << start, preMerge, edits >>

HStatus(t) ==
    /\ RefreshChanges(t) \/ ReviewTask(t)
    /\ UNCHANGED history

HNext ==
    \/ \E p \in Paths, v \in Version : HUserEdit(p, v)
    \/ \E t \in Tasks, p \in Paths, v \in Version : HAgentEdit(t, p, v)
    \/ \E t \in Tasks : HCreate(t) \/ HUndo(t) \/ HStatus(t)
    \/ \E t \in Tasks, req \in FileRequests : HMerge(t, req)

HSpec == HInit /\ [][HNext]_allvars

-----------------------------------------------------------------------------
\* codex-new.md 9.3 and 11.4: a merge checks every file against its hash at
\* the start of the task.  So a file the user changed after the task was
\* created is not written by a merge.
BaselineIsTaskStart ==
    [][ \A t \in Tasks, p \in Paths :
          /\ \E req \in FileRequests : Merge(t, req)
          /\ p \in userOwned
          /\ project[p] # start[t][p]
          => project'[p] = project[p] ]_allvars

\* codex-new.md 2.5: every merge can be undone.  As long as the project holds
\* what the task's merge wrote, either a rollback of the file is accepted and
\* brings back the content before the merge, or the traceback does.
MergeIsUndoable ==
    \A t \in Tasks : \A p \in merged[t] :
        \/ p \in manifest[t].accepted /\ beforeSnap[t][BlobName[p]] = preMerge[t][p]
        \/ p \in traceback[t].paths /\ traceback[t].original[BlobName[p]] = preMerge[t][p]

\* codex-new.md 12.3: rollback restores from the before snapshot.  A file
\* that rollback gives up holds again what it held before the merge.
RollbackRestoresPreMerge ==
    [][ \A t \in Tasks, p \in Paths :
          /\ \E req \in FileRequests : Rollback(t, req)
          /\ p \in merged[t] /\ p \in manifest[t].accepted \ manifest'[t].accepted
          => project'[p] = preMerge[t][p] ]_allvars

\* codex-new.md 12.4: a file the user edited by hand after the merge is not
\* overwritten by the way back, be it rollback or a traceback restore.
UndoKeepsUserEdits ==
    [][ \A t \in Tasks, p \in Paths :
          HUndo(t) /\ p \in handEdited[t] => project'[p] = project[p] ]_allvars

\* codex-new.md 9.2 and 18.4: ignored directories are not part of the
\* workspace, and accepting everything deletes no file silently.  So a merge
\* leaves the ignored files of the project alone.
IgnoredFilesAreKept ==
    [][ \A t \in Tasks, p \in Ignored :
          (\E req \in FileRequests : Merge(t, req))
             => project'[p] = project[p] ]_allvars

\* review.rs: "Change is blocked by policy and needs intervention."  A merge
\* requested while the task is ReviewBlocked does not write the project.
BlockedReviewStopsMerge ==
    [][ \A t \in Tasks :
          (\E req \in FileRequests : Merge(t, req)) /\ record[t] = "ReviewBlocked"
             => project' = project ]_allvars
=============================================================================
