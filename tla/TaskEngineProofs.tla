-------------------------- MODULE TaskEngineProofs --------------------------
(***************************************************************************)
(* Proofs about TaskEngine, for any number of tasks, paths, contents and   *)
(* hunks: type correctness, and the two invariants rollback and traceback  *)
(* rest on.                                                                *)
(***************************************************************************)
EXTENDS TaskEngine, TLAPS

USE MissingAssumption, ConstantsAssumption

-----------------------------------------------------------------------------
(* Types of the helpers.                                                   *)

\* What compare_roots builds is a manifest.
LEMMA RefreshedType ==
    ASSUME NEW prev \in Manifest, NEW orig \in Tree, NEW ws \in Tree
    PROVE  Refreshed(prev, orig, ws) \in Manifest
  <1> DEFINE changed == ChangedPaths(prev, orig, ws)
  <1>1. changed \subseteq Paths
    BY DEF ChangedPaths
  <1>2. \A p \in Paths : BeforeHash(prev, orig, p) \in Version
    BY DEF BeforeHash, Manifest, Tree
  <1>3. [p \in Paths |-> IF p \in changed THEN BeforeHash(prev, orig, p)
                                          ELSE Missing] \in Tree
    BY <1>2 DEF Tree, Version
  <1>4. [p \in Paths |-> IF p \in changed THEN ws[p] ELSE Missing] \in Tree
    BY DEF Tree, Version
  <1>5. NoFiles \in Tree /\ NoHunks \in [Paths -> SUBSET HunkIds]
    BY DEF NoFiles, NoHunks, Tree, Version
  <1> QED
    BY <1>1, <1>3, <1>4, <1>5 DEF Refreshed, Manifest, Status

\* snapshot_file writes one blob per path: a tree of blobs again ...
LEMMA SavedType ==
    ASSUME NEW store \in Tree, NEW ps \in SUBSET Paths, NEW tree \in Tree
    PROVE  Saved(store, ps, tree) \in Tree
  <1> SUFFICES ASSUME NEW b \in Paths
               PROVE  Saved(store, ps, tree)[b] \in Version
    BY DEF Saved, Tree
  <1> DEFINE sharing == {p \in ps : BlobName[p] = b}
  <1>1. CASE sharing = {}
    BY <1>1 DEF Saved, Tree
  <1>2. CASE sharing # {}
    <2>1. (CHOOSE p \in sharing : TRUE) \in Paths
      BY <1>2
    <2> QED
      BY <1>2, <2>1 DEF Saved, Tree
  <1> QED
    BY <1>1, <1>2

\* ... in which, when no two paths share a blob, every saved path finds its
\* own content and every other path what was there before.
LEMMA SavedBlob ==
    ASSUME InjectiveBlobs, NEW store, NEW ps \in SUBSET Paths, NEW tree,
           NEW p \in Paths
    PROVE  Saved(store, ps, tree)[BlobName[p]]
             = IF p \in ps THEN tree[p] ELSE store[BlobName[p]]
  <1> DEFINE sharing == {q \in ps : BlobName[q] = BlobName[p]}
  <1>1. BlobName[p] \in Paths
    BY ConstantsAssumption
  <1>2. CASE p \in ps
    <2>1. sharing = {p}
      BY <1>2 DEF InjectiveBlobs
    <2>2. (CHOOSE q \in sharing : TRUE) = p
      BY <2>1
    <2> QED
      BY <1>1, <1>2, <2>1, <2>2 DEF Saved
  <1>3. CASE p \notin ps
    <2>1. sharing = {}
      BY <1>3 DEF InjectiveBlobs
    <2> QED
      BY <1>1, <1>3, <2>1 DEF Saved
  <1> QED
    BY <1>2, <1>3

\* What record_edit_traceback leaves is a traceback store.
LEMMA TracedType ==
    ASSUME NEW trace \in Traceback, NEW events \in SUBSET Paths,
           NEW orig \in Tree, NEW ws \in Tree
    PROVE  Traced(trace, events, orig, ws) \in Traceback
  BY SavedType DEF Traced, Traceback

LEMMA ChangeEventsType ==
    ASSUME NEW prev, NEW next \in Manifest
    PROVE  ChangeEvents(prev, next) \subseteq Paths
  BY DEF ChangeEvents, Manifest

LEMMA EmptyTypes ==
    /\ NoFiles \in Tree
    /\ NoHunks \in [Paths -> SUBSET HunkIds]
    /\ EmptyManifest \in Manifest
    /\ EmptyTraceback \in Traceback
  BY DEF NoFiles, NoHunks, Tree, Version, EmptyManifest, Manifest, Status,
         EmptyTraceback, Traceback

\* A fresh workspace is a tree, with or without the shell configuration.
LEMMA FreshType ==
    ASSUME project \in Tree, NEW tree \in FreshTrees
    PROVE  tree \in Tree /\ WithEnvironment(tree) \in Tree
  BY ConstantsAssumption DEF FreshTrees, Copied, WithEnvironment, Tree, Version

LEMMA RecoveryTreeType ==
    ASSUME project \in Tree, NEW tree \in RecoveryTrees
    PROVE  tree \in Tree
  BY ConstantsAssumption DEF RecoveryTrees, Copied, Tree, Version

LEMMA RequestType ==
    ASSUME NEW req \in Requests
    PROVE  req.sel \subseteq Paths /\ req.hunks \in [Paths -> SUBSET HunkIds]
  BY EmptyTypes DEF Requests, FileRequests, HunkRequests

\* refresh_changes, wherever it is called from, keeps the types of the three
\* stores it writes.
LEMMA DoRefreshType ==
    ASSUME TypeOK, NEW t \in Tasks, NEW prev \in Manifest, NEW orig \in Tree,
           NEW ws \in Tree, DoRefresh(t, prev, orig, ws)
    PROVE  /\ manifest' \in [Tasks -> Manifest]
           /\ record' \in [Tasks -> Status]
           /\ traceback' \in [Tasks -> Traceback]
  <1> DEFINE next == Refreshed(prev, orig, ws)
  <1>1. next \in Manifest
    BY RefreshedType
  <1>2. next.status \in Status
    BY <1>1 DEF Manifest
  <1>3. ChangeEvents(prev, next) \in SUBSET Paths
    BY <1>1, ChangeEventsType
  <1>4. Traced(traceback[t], ChangeEvents(prev, next), orig, ws) \in Traceback
    BY <1>3, TracedType DEF TypeOK
  <1> HIDE DEF next
  <1>5. /\ manifest' = [manifest EXCEPT ![t] = next]
        /\ record' = [record EXCEPT ![t] = next.status]
        /\ traceback' = [traceback EXCEPT
             ![t] = Traced(traceback[t], ChangeEvents(prev, next), orig, ws)]
    BY DEF DoRefresh, next
  <1> QED
    BY <1>1, <1>2, <1>4, <1>5 DEF TypeOK

\* The file contents a merge or a hunk rollback can write are versions.
LEMMA MergeResultsType ==
    ASSUME NEW ws \in Tree, NEW p \in Paths, NEW hs
    PROVE  MergeResults(ws, p, hs) \subseteq Version
  BY DEF MergeResults, Version, Tree

-----------------------------------------------------------------------------
(* Type correctness.                                                       *)

LEMMA StatusUpdateType ==
    ASSUME NEW m \in Manifest, NEW s \in Status
    PROVE  [m EXCEPT !.status = s] \in Manifest
  BY DEF Manifest

LEMMA MergeBaseType ==
    ASSUME TypeOK, NEW t \in Tasks
    PROVE  MergeBase(t) \in Manifest
  BY RefreshedType DEF MergeBase, TypeOK

LEMMA RefreshTracebackType ==
    ASSUME TypeOK, NEW t \in Tasks, RefreshTraceback(t)
    PROVE  traceback' \in [Tasks -> Traceback]
  <1>1. ChangeEvents(manifest[t], MergeBase(t)) \in SUBSET Paths
    BY MergeBaseType, ChangeEventsType
  <1>2. Traced(traceback[t], ChangeEvents(manifest[t], MergeBase(t)),
               project, workspace[t]) \in Traceback
    BY <1>1, TracedType DEF TypeOK
  <1> QED
    BY <1>2 DEF RefreshTraceback, TypeOK

LEMMA MergeType ==
    ASSUME TypeOK, NEW t \in Tasks, NEW req \in Requests, Merge(t, req)
    PROVE  TypeOK'
  <1> DEFINE base == MergeBase(t)
             acc  == MergeSet(t, req)
  <1>1. base \in Manifest
    BY MergeBaseType
  <1>2. acc \subseteq Paths
    BY RequestType DEF MergeSet
  <1>3. req.hunks \in [Paths -> SUBSET HunkIds]
    BY RequestType
  <1> HIDE DEF base, acc
  <1>4. CASE MergeConflict(t, req)
    <2>1. [base EXCEPT !.status = "MergeConflict"] \in Manifest
      BY <1>1 DEF Manifest, Status
    <2>2. traceback' \in [Tasks -> Traceback]
      BY <1>4, RefreshTracebackType DEF MergeConflict
    <2> QED
      BY <1>4, <2>1, <2>2 DEF MergeConflict, base, TypeOK, Status
  <1>5. CASE MergeApply(t, req)
    <2>1. PICK result \in [acc -> Version] :
            /\ project' = [p \in Paths |-> IF p \in acc THEN result[p]
                                                        ELSE project[p]]
            /\ manifest' = [manifest EXCEPT
                 ![t] = MergedManifest(base, acc, result, req.hunks)]
      BY <1>5 DEF MergeApply, base, acc
    <2>2. project' \in Tree
      BY <1>2, <2>1 DEF TypeOK, Tree
    <2>3. [p \in Paths |-> IF p \in acc THEN result[p]
                                       ELSE base.afterMerge[p]] \in Tree
      BY <1>1, <1>2 DEF Manifest, Tree
    <2>4. [p \in Paths |-> IF p \in acc THEN req.hunks[p] ELSE base.hunks[p]]
             \in [Paths -> SUBSET HunkIds]
      BY <1>1, <1>3 DEF Manifest
    <2>5. MergedManifest(base, acc, result, req.hunks) \in Manifest
      BY <1>1, <1>2, <2>3, <2>4 DEF MergedManifest, Manifest, Status
    <2>9. manifest' \in [Tasks -> Manifest]
      BY <2>1, <2>5 DEF TypeOK
    <2>6. traceback' \in [Tasks -> Traceback]
      BY <1>5, RefreshTracebackType DEF MergeApply
    <2>7. Saved(beforeSnap[t], acc, project) \in Tree
      BY <1>2, SavedType DEF TypeOK
    <2>8. beforeSnap' = [beforeSnap EXCEPT
                           ![t] = Saved(beforeSnap[t], acc, project)]
      BY <1>5 DEF MergeApply, acc
    <2> QED
      BY <1>5, <2>2, <2>6, <2>7, <2>8, <2>9 DEF MergeApply, TypeOK, Status
  <1> QED
    BY <1>4, <1>5 DEF Merge

LEMMA RollbackType ==
    ASSUME TypeOK, NEW t \in Tasks, NEW req \in Requests, Rollback(t, req)
    PROVE  TypeOK'
  <1>1. CASE RollbackConflict(t, req)
    <2>1. manifest' = [manifest EXCEPT
             ![t] = [manifest[t] EXCEPT !.status = "RollbackFailed"]]
      BY <1>1 DEF RollbackConflict
    <2>2. [manifest[t] EXCEPT !.status = "RollbackFailed"] \in Manifest
      BY StatusUpdateType DEF TypeOK, Status
    <2> QED
      BY <1>1, <2>1, <2>2 DEF RollbackConflict, TypeOK, Status
  <1>2. CASE RollbackApply(t, req)
    <2> DEFINE set     == RollbackSet(t, req)
               partial == PartialSet(t, req)
    <2>1. set \subseteq Paths /\ partial \subseteq set
      BY DEF RollbackSet, PartialSet, TypeOK, Manifest
    <2>2. KeptSet(t, req) \subseteq Paths
      BY DEF KeptSet, TypeOK, Manifest
    <2>3. \A p \in Paths : RemainingHunks(t, req, p) \subseteq HunkIds
      BY RequestType DEF RemainingHunks, TypeOK, Manifest
    <2>4. PICK result \in [partial -> Version] :
            /\ project' = [p \in Paths |->
                 IF p \in partial THEN result[p]
                 ELSE IF p \in set THEN beforeSnap[t][BlobName[p]] ELSE project[p]]
            /\ manifest' = [manifest EXCEPT
                 ![t] = RolledBackManifest(t, req, result)]
      BY <1>2 DEF RollbackApply
    <2> HIDE DEF set, partial
    <2>5. project' \in Tree
      <3>1. /\ beforeSnap[t] \in Tree /\ project \in Tree
            /\ BlobName \in [Paths -> Paths]
        BY ConstantsAssumption DEF TypeOK
      <3> QED
        BY <2>1, <2>4, <3>1 DEF Tree
    <2>6. [p \in Paths |-> IF p \in partial THEN result[p]
                           ELSE IF p \in set THEN Missing
                                            ELSE manifest[t].afterMerge[p]]
             \in Tree
      BY <2>1 DEF TypeOK, Manifest, Tree, Version
    <2>7. [p \in Paths |-> IF p \in set THEN RemainingHunks(t, req, p)
                                        ELSE manifest[t].hunks[p]]
             \in [Paths -> SUBSET HunkIds]
      BY <2>3 DEF TypeOK, Manifest
    <2>8. RolledBackManifest(t, req, result) \in Manifest
      <3>1. manifest[t] \in Manifest
        BY DEF TypeOK
      <3> QED
        BY <2>2, <2>6, <2>7, <3>1
           DEF RolledBackManifest, Manifest, Status, set, partial
    <2>9. manifest' \in [Tasks -> Manifest]
      BY <2>4, <2>8 DEF TypeOK
    <2>10. record' \in [Tasks -> Status]
      <3>1. manifest'[t].status \in Status
        BY <2>9 DEF Manifest
      <3> QED
        BY <1>2, <3>1 DEF RollbackApply, TypeOK
    <2> QED
      BY <1>2, <2>5, <2>9, <2>10 DEF RollbackApply, TypeOK
  <1> QED
    BY <1>1, <1>2 DEF Rollback

LEMMA ForkType ==
    ASSUME TypeOK, NEW s \in Tasks, NEW t \in Tasks, ForkTask(s, t)
    PROVE  TypeOK'
  <1>1. PICK tree \in FreshTrees :
          LET fresh == WithEnvironment(tree)
              copied == Copied(workspace[s])
              ws == [p \in Paths |-> IF copied[p] # Missing THEN copied[p]
                                                            ELSE fresh[p]]
          IN  IF s \in wsExists
              THEN /\ workspace' = [workspace EXCEPT ![t] = ws]
                   /\ DoRefresh(t, EmptyManifest, project, ws)
              ELSE /\ workspace' = [workspace EXCEPT ![t] = fresh]
                   /\ UNCHANGED << manifest, record, traceback >>
    BY DEF ForkTask
  <1> DEFINE fresh == WithEnvironment(tree)
             copied == Copied(workspace[s])
             ws == [p \in Paths |-> IF copied[p] # Missing THEN copied[p]
                                                           ELSE fresh[p]]
  <1>2. fresh \in Tree
    BY FreshType DEF TypeOK
  <1>3. copied \in Tree
    BY DEF Copied, TypeOK, Tree, Version
  <1>4. ws \in Tree
    BY <1>2, <1>3 DEF Tree
  <1> HIDE DEF fresh, copied, ws
  <1>5. IF s \in wsExists
        THEN /\ workspace' = [workspace EXCEPT ![t] = ws]
             /\ DoRefresh(t, EmptyManifest, project, ws)
        ELSE /\ workspace' = [workspace EXCEPT ![t] = fresh]
             /\ UNCHANGED << manifest, record, traceback >>
    BY <1>1 DEF fresh, copied, ws
  <1>6. /\ manifest' \in [Tasks -> Manifest]
        /\ record' \in [Tasks -> Status]
        /\ traceback' \in [Tasks -> Traceback]
    <2>1. CASE s \in wsExists
      BY <1>4, <1>5, <2>1, EmptyTypes, DoRefreshType DEF TypeOK
    <2>2. CASE s \notin wsExists
      BY <1>5, <2>2 DEF TypeOK
    <2> QED
      BY <2>1, <2>2
  <1>7. workspace' \in [Tasks -> Tree]
    BY <1>2, <1>4, <1>5 DEF TypeOK
  <1> QED
    BY <1>6, <1>7 DEF ForkTask, TypeOK

LEMMA ResumeType ==
    ASSUME TypeOK, NEW t \in Tasks, NEW valid \in BOOLEAN, ResumeTask(t, valid)
    PROVE  TypeOK'
  <1>1. \A mf \in Manifest : Recovered(mf, valid) \in Manifest
    BY DEF Recovered, Manifest, Status
  <1>2. [manifest[t] EXCEPT !.status = "WorkspaceReady"] \in Manifest
    <2>1. manifest[t] \in Manifest
      BY DEF TypeOK
    <2>2. "WorkspaceReady" \in Status
      BY DEF Status
    <2> QED
      BY <2>1, <2>2, StatusUpdateType
  <1>3. manifest' \in [Tasks -> Manifest]
    BY <1>1, <1>2 DEF ResumeTask, TypeOK
  <1>4. workspace' \in [Tasks -> Tree]
    BY RecoveryTreeType DEF ResumeTask, TypeOK
  <1>5. record' \in [Tasks -> Status]
    <2>1. manifest'[t].status \in Status
      BY <1>3 DEF Manifest
    <2> QED
      BY <2>1 DEF ResumeTask, TypeOK
  <1> QED
    BY <1>3, <1>4, <1>5 DEF ResumeTask, TypeOK

\* The stores always hold well-formed trees, manifests, records and
\* tracebacks, and a workspace or a running test belongs to a created task.
THEOREM TypeCorrect == Spec => []TypeOK
  <1>1. Init => TypeOK
    BY EmptyTypes DEF Init, TypeOK, Status
  <1>2. TypeOK /\ [Next]_vars => TypeOK'
    <2> SUFFICES ASSUME TypeOK, [Next]_vars PROVE TypeOK'
      OBVIOUS
    <2>1. ASSUME NEW p \in Paths, NEW v \in Version, UserEdit(p, v)
          PROVE  TypeOK'
      BY <2>1 DEF UserEdit, TypeOK, Tree
    <2>2. ASSUME NEW t \in Tasks, NEW p \in Paths, NEW v \in Version,
                 AgentEdit(t, p, v)
          PROVE  TypeOK'
      <3>1. [workspace[t] EXCEPT ![p] = v] \in Tree
        BY DEF TypeOK, Tree
      <3> QED
        BY <2>2, <3>1 DEF AgentEdit, TypeOK
    <2>3. ASSUME NEW t \in Tasks, CreateTask(t) PROVE TypeOK'
      BY <2>3, FreshType, EmptyTypes DEF CreateTask, TypeOK, Status
    <2>4. ASSUME NEW t \in Tasks, RefreshChanges(t) PROVE TypeOK'
      <3>1. manifest[t] \in Manifest /\ workspace[t] \in Tree /\ project \in Tree
        BY DEF TypeOK
      <3>2. /\ manifest' \in [Tasks -> Manifest]
            /\ record' \in [Tasks -> Status]
            /\ traceback' \in [Tasks -> Traceback]
        BY <2>4, <3>1, DoRefreshType DEF RefreshChanges
      <3> QED
        BY <2>4, <3>2 DEF RefreshChanges, TypeOK
    <2>5. ASSUME NEW t \in Tasks, NEW req \in Requests,
                 Merge(t, req) \/ Rollback(t, req)
          PROVE  TypeOK'
      BY <2>5, MergeType, RollbackType
    <2>6. ASSUME NEW t \in Tasks, NEW p \in Paths, RestoreProject(t, p)
          PROVE  TypeOK'
      <3>1. traceback[t].original[BlobName[p]] \in Version
        BY ConstantsAssumption DEF TypeOK, Traceback, Tree
      <3> QED
        BY <2>6, <3>1 DEF RestoreProject, TypeOK, Tree
    <2>7. ASSUME NEW t \in Tasks, NEW p \in Paths, RestoreWorkspace(t, p)
          PROVE  TypeOK'
      <3>1. [workspace[t] EXCEPT ![p] = traceback[t].workspace[BlobName[p]]] \in Tree
        BY ConstantsAssumption DEF TypeOK, Traceback, Tree
      <3>2. /\ workspace' \in [Tasks -> Tree]
            /\ wsExists' \subseteq created
        BY <2>7, <3>1 DEF RestoreWorkspace, TypeOK
      <3> QED
        BY <2>7, <3>2 DEF RestoreWorkspace, TypeOK
    <2>8. ASSUME NEW t \in Tasks, NEW p \in Paths,
                 RestoreProjectAndRefresh(t, p)
          PROVE  TypeOK'
      <3> DEFINE orig == [project EXCEPT ![p] = traceback[t].original[BlobName[p]]]
      <3>1. orig \in Tree
        BY ConstantsAssumption DEF TypeOK, Traceback, Tree
      <3>2. manifest[t] \in Manifest /\ workspace[t] \in Tree
        BY DEF TypeOK
      <3> HIDE DEF orig
      <3>3. project' = orig /\ DoRefresh(t, manifest[t], orig, workspace[t])
        BY <2>8 DEF RestoreProjectAndRefresh, orig
      <3>4. /\ manifest' \in [Tasks -> Manifest]
            /\ record' \in [Tasks -> Status]
            /\ traceback' \in [Tasks -> Traceback]
        BY <3>1, <3>2, <3>3, DoRefreshType
      <3> QED
        BY <2>8, <3>1, <3>3, <3>4 DEF RestoreProjectAndRefresh, TypeOK
    <2>9. ASSUME NEW t \in Tasks, NEW p \in Paths,
                 RestoreWorkspaceAndRefresh(t, p)
          PROVE  TypeOK'
      <3> DEFINE ws == [workspace[t] EXCEPT ![p] = traceback[t].workspace[BlobName[p]]]
      <3>1. ws \in Tree
        BY ConstantsAssumption DEF TypeOK, Traceback, Tree
      <3>2. manifest[t] \in Manifest /\ project \in Tree
        BY DEF TypeOK
      <3> HIDE DEF ws
      <3>3. /\ workspace' = [workspace EXCEPT ![t] = ws]
            /\ DoRefresh(t, manifest[t], project, ws)
        BY <2>9 DEF RestoreWorkspaceAndRefresh, ws
      <3>4. /\ manifest' \in [Tasks -> Manifest]
            /\ record' \in [Tasks -> Status]
            /\ traceback' \in [Tasks -> Traceback]
        BY <3>1, <3>2, <3>3, DoRefreshType
      <3>5. workspace' \in [Tasks -> Tree]
        BY <3>1, <3>3 DEF TypeOK
      <3> QED
        BY <2>9, <3>4, <3>5 DEF RestoreWorkspaceAndRefresh, TypeOK
    <2>10. ASSUME NEW t \in Tasks, WorkspaceLost(t) PROVE TypeOK'
      BY <2>10, EmptyTypes DEF WorkspaceLost, TypeOK
    <2>11. ASSUME NEW t \in Tasks, RefreshEnvironmentLinks(t) PROVE TypeOK'
      <3>1. WithEnvironment(workspace[t]) \in Tree
        BY DEF WithEnvironment, TypeOK, Tree, Version
      <3> QED
        BY <2>11, <3>1 DEF RefreshEnvironmentLinks, TypeOK
    <2>12. ASSUME NEW t \in Tasks, NEW valid \in BOOLEAN, ResumeTask(t, valid)
           PROVE  TypeOK'
      BY <2>12, ResumeType
    <2>13. ASSUME NEW s \in Tasks, NEW t \in Tasks, ForkTask(s, t)
           PROVE  TypeOK'
      BY <2>13, ForkType
    <2>14. ASSUME NEW t \in Tasks, ReviewTask(t) \/ WriteTaskSummary(t)
           PROVE  TypeOK'
      BY <2>14 DEF ReviewTask, ReviewOutcome, WriteTaskSummary, TypeOK, Status
    <2>15. ASSUME NEW t \in Tasks, ArchiveTask(t) PROVE TypeOK'
      <3>1. [manifest[t] EXCEPT !.status = "Archived"] \in Manifest
        BY StatusUpdateType DEF TypeOK, Status
      <3>2. manifest' = [manifest EXCEPT
               ![t] = [manifest[t] EXCEPT !.status = "Archived"]]
        BY <2>15 DEF ArchiveTask
      <3> QED
        BY <2>15, <3>1, <3>2 DEF ArchiveTask, TypeOK, Status
    <2>16. ASSUME NEW t \in Tasks, TestStart(t) PROVE TypeOK'
      BY <2>16 DEF TestStart, TypeOK, Status
    <2>17. ASSUME NEW t \in Tasks,
                  NEW o \in {"TestingPassed", "TestingFailed", "error"},
                  TestEnd(t, o)
           PROVE  TypeOK'
      BY <2>17 DEF TestEnd, TypeOK, Status
    <2>18. CASE UNCHANGED vars
      BY <2>18 DEF vars, TypeOK
    <2> QED
      BY <2>1, <2>2, <2>3, <2>4, <2>5, <2>6, <2>7, <2>8, <2>9, <2>10, <2>11,
         <2>12, <2>13, <2>14, <2>15, <2>16, <2>17, <2>18
         DEF Next, Edits, ChangeFlow, Recovery, StatusFlow
  <1> QED
    BY <1>1, <1>2, PTL DEF Spec

-----------------------------------------------------------------------------
(* The before snapshots.                                                   *)

\* A refresh forgets every merge of its task, so it cannot break the link.
LEMMA DoRefreshSnapshot ==
    ASSUME TypeOK, SnapshotMatchesBaseline, NEW t \in Tasks, NEW prev,
           NEW orig, NEW ws, DoRefresh(t, prev, orig, ws), UNCHANGED beforeSnap
    PROVE  SnapshotMatchesBaseline'
  <1>1. manifest'[t].accepted = {}
    BY DEF DoRefresh, Refreshed, TypeOK
  <1>2. \A s \in Tasks \ {t} : manifest'[s] = manifest[s]
    BY DEF DoRefresh, TypeOK
  <1> QED
    BY <1>1, <1>2 DEF SnapshotMatchesBaseline

\* A merge saves the very content it was checked against.
LEMMA MergeSnapshot ==
    ASSUME InjectiveBlobs, TypeOK, SnapshotMatchesBaseline, NEW t \in Tasks,
           NEW req \in Requests, Merge(t, req)
    PROVE  SnapshotMatchesBaseline'
  <1>0. MergeBase(t) \in Manifest
    BY MergeBaseType
  <1>1. CASE MergeConflict(t, req)
    <2>1. manifest'[t].accepted = {}
      BY <1>1 DEF MergeConflict, MergeBase, Refreshed, TypeOK
    <2>2. \A s \in Tasks \ {t} : manifest'[s] = manifest[s]
      BY <1>1 DEF MergeConflict, TypeOK
    <2> QED
      BY <1>1, <2>1, <2>2 DEF MergeConflict, SnapshotMatchesBaseline
  <1>2. CASE MergeApply(t, req)
    <2> DEFINE acc == MergeSet(t, req)
    <2>1. PICK result \in [acc -> Version] :
            manifest' = [manifest EXCEPT
               ![t] = MergedManifest(MergeBase(t), acc, result, req.hunks)]
      BY <1>2 DEF MergeApply
    <2>2. /\ manifest'[t].accepted = acc
          /\ manifest'[t].paths = MergeBase(t).paths
          /\ manifest'[t].before = MergeBase(t).before
      BY <1>0, <2>1 DEF TypeOK, MergedManifest, Manifest
    <2>3. \A p \in acc : /\ p \in MergeBase(t).paths
                         /\ p \in Paths
                         /\ project[p] = MergeBase(t).before[p]
      BY <1>2, RequestType DEF MergeApply, MergeBlocked, MergeSet
    <2>4. \A p \in acc : beforeSnap'[t][BlobName[p]] = project[p]
      <3>1. beforeSnap'[t] = Saved(beforeSnap[t], acc, project)
        BY <1>2 DEF MergeApply, TypeOK
      <3>2. acc \in SUBSET Paths
        BY <2>3
      <3> QED
        BY <2>3, <3>1, <3>2, SavedBlob
    <2>5. \A s \in Tasks \ {t} : /\ manifest'[s] = manifest[s]
                                 /\ beforeSnap'[s] = beforeSnap[s]
      BY <1>2, <2>1 DEF MergeApply, TypeOK
    <2> QED
      BY <2>2, <2>3, <2>4, <2>5 DEF SnapshotMatchesBaseline
  <1> QED
    BY <1>1, <1>2 DEF Merge

\* A rollback only shrinks the set of merged entries.
LEMMA RollbackKeeps ==
    ASSUME TypeOK, NEW t \in Tasks, NEW req \in Requests, Rollback(t, req)
    PROVE  /\ manifest'[t].accepted \subseteq manifest[t].accepted
           /\ manifest'[t].paths = manifest[t].paths
           /\ manifest'[t].before = manifest[t].before
           /\ manifest'[t].afterAi = manifest[t].afterAi
           /\ \A s \in Tasks \ {t} : manifest'[s] = manifest[s]
           /\ beforeSnap' = beforeSnap
  <1>0. manifest[t] \in Manifest
    BY DEF TypeOK
  <1>1. CASE RollbackConflict(t, req)
    BY <1>0, <1>1 DEF RollbackConflict, TypeOK, Manifest
  <1>2. CASE RollbackApply(t, req)
    <2>1. PICK result : manifest' = [manifest EXCEPT
                          ![t] = RolledBackManifest(t, req, result)]
      BY <1>2 DEF RollbackApply
    <2>2. manifest'[t] = RolledBackManifest(t, req, result)
      BY <2>1 DEF TypeOK
    <2> QED
      BY <1>0, <1>2, <2>1, <2>2
         DEF RollbackApply, RolledBackManifest, KeptSet, Manifest, TypeOK
  <1> QED
    BY <1>1, <1>2 DEF Rollback

\* resume_task changes the status and nothing else of a manifest.
LEMMA ResumeKeeps ==
    ASSUME TypeOK, NEW t \in Tasks, NEW valid \in BOOLEAN, ResumeTask(t, valid)
    PROVE  \A s \in Tasks : /\ manifest'[s].accepted = manifest[s].accepted
                            /\ manifest'[s].paths = manifest[s].paths
                            /\ manifest'[s].before = manifest[s].before
                            /\ manifest'[s].afterAi = manifest[s].afterAi
  <1>1. \A mf \in Manifest :
           /\ Recovered(mf, valid).accepted = mf.accepted
           /\ Recovered(mf, valid).paths = mf.paths
           /\ Recovered(mf, valid).before = mf.before
           /\ Recovered(mf, valid).afterAi = mf.afterAi
    BY DEF Recovered, Manifest
  <1>2. manifest[t] \in Manifest
    BY DEF TypeOK
  <1> DEFINE ready == [manifest[t] EXCEPT !.status = "WorkspaceReady"]
  <1>3. /\ ready \in Manifest
        /\ ready.accepted = manifest[t].accepted
        /\ ready.paths = manifest[t].paths
        /\ ready.before = manifest[t].before
        /\ ready.afterAi = manifest[t].afterAi
    BY <1>2 DEF Manifest, Status
  <1>4. \/ manifest' = [manifest EXCEPT ![t] = Recovered(manifest[t], valid)]
        \/ manifest' = [manifest EXCEPT ![t] = Recovered(ready, valid)]
    BY DEF ResumeTask
  <1> HIDE DEF ready
  <1> QED
    BY <1>1, <1>2, <1>3, <1>4 DEF TypeOK

\* No step breaks the link between a merged entry and its before blob.
LEMMA SnapshotStep ==
    ASSUME InjectiveBlobs, TypeOK, SnapshotMatchesBaseline, [Next]_vars
    PROVE  SnapshotMatchesBaseline'
  <1> DEFINE Kept(s) == /\ manifest'[s].accepted = manifest[s].accepted
                        /\ manifest'[s].paths = manifest[s].paths
                        /\ manifest'[s].before = manifest[s].before
  <1>1. ASSUME UNCHANGED beforeSnap,
               \A s \in Tasks : Kept(s) \/ manifest'[s].accepted = {}
        PROVE  SnapshotMatchesBaseline'
    BY <1>1 DEF SnapshotMatchesBaseline
  <1>2. ASSUME UNCHANGED << manifest, beforeSnap >>
        PROVE  SnapshotMatchesBaseline'
    BY <1>2 DEF SnapshotMatchesBaseline
  <1>3. CASE Edits
    BY <1>2, <1>3 DEF Edits, UserEdit, AgentEdit
  <1>4. CASE ChangeFlow
    <2>1. ASSUME NEW t \in Tasks, CreateTask(t) PROVE SnapshotMatchesBaseline'
      BY <1>1, <2>1 DEF CreateTask, EmptyManifest, TypeOK
    <2>2. ASSUME NEW t \in Tasks, RefreshChanges(t)
          PROVE  SnapshotMatchesBaseline'
      BY <2>2, DoRefreshSnapshot DEF RefreshChanges
    <2>3. ASSUME NEW t \in Tasks, NEW req \in Requests, Merge(t, req)
          PROVE  SnapshotMatchesBaseline'
      BY <2>3, MergeSnapshot
    <2>4. ASSUME NEW t \in Tasks, NEW req \in Requests, Rollback(t, req)
          PROVE  SnapshotMatchesBaseline'
      BY <2>4, RollbackKeeps DEF SnapshotMatchesBaseline
    <2> QED
      BY <1>4, <2>1, <2>2, <2>3, <2>4 DEF ChangeFlow
  <1>5. CASE Recovery
    <2>1. ASSUME NEW t \in Tasks, NEW p \in Paths,
                 RestoreProject(t, p) \/ RestoreWorkspace(t, p)
          PROVE  SnapshotMatchesBaseline'
      BY <1>2, <2>1 DEF RestoreProject, RestoreWorkspace
    <2>2. ASSUME NEW t \in Tasks, NEW p \in Paths,
                 \/ RestoreProjectAndRefresh(t, p)
                 \/ RestoreWorkspaceAndRefresh(t, p)
          PROVE  SnapshotMatchesBaseline'
      BY <2>2, DoRefreshSnapshot
         DEF RestoreProjectAndRefresh, RestoreWorkspaceAndRefresh
    <2>3. ASSUME NEW t \in Tasks, WorkspaceLost(t) \/ RefreshEnvironmentLinks(t)
          PROVE  SnapshotMatchesBaseline'
      BY <1>2, <2>3 DEF WorkspaceLost, RefreshEnvironmentLinks
    <2>4. ASSUME NEW t \in Tasks, NEW valid \in BOOLEAN, ResumeTask(t, valid)
          PROVE  SnapshotMatchesBaseline'
      BY <1>1, <2>4, ResumeKeeps DEF ResumeTask
    <2>5. ASSUME NEW s \in Tasks, NEW t \in Tasks, ForkTask(s, t)
          PROVE  SnapshotMatchesBaseline'
      <3>1. \/ UNCHANGED manifest
            \/ \E ws : DoRefresh(t, EmptyManifest, project, ws)
        BY <2>5 DEF ForkTask
      <3> QED
        BY <1>2, <2>5, <3>1, DoRefreshSnapshot DEF ForkTask
    <2> QED
      BY <1>5, <2>1, <2>2, <2>3, <2>4, <2>5 DEF Recovery
  <1>6. CASE StatusFlow
    <2>1. ASSUME NEW t \in Tasks, ArchiveTask(t) PROVE SnapshotMatchesBaseline'
      <3>1. \A s \in Tasks : Kept(s)
        BY <2>1 DEF ArchiveTask, TypeOK, Manifest
      <3> QED
        BY <1>1, <2>1, <3>1 DEF ArchiveTask
    <2> QED
      BY <1>2, <1>6, <2>1
         DEF StatusFlow, ReviewTask, WriteTaskSummary, TestStart, TestEnd
  <1>7. CASE UNCHANGED vars
    BY <1>2, <1>7 DEF vars
  <1> QED
    BY <1>3, <1>4, <1>5, <1>6, <1>7 DEF Next

\* Every merged file has a before snapshot that is its recorded baseline,
\* provided encode_path tells the paths of the project apart.
THEOREM SnapshotsAreBaselines ==
    InjectiveBlobs => (Spec => []SnapshotMatchesBaseline)
  <1> SUFFICES ASSUME InjectiveBlobs
               PROVE  Spec => []SnapshotMatchesBaseline
    OBVIOUS
  <1>1. Init => SnapshotMatchesBaseline
    BY DEF Init, SnapshotMatchesBaseline, EmptyManifest
  <1>2. TypeOK /\ SnapshotMatchesBaseline /\ [Next]_vars
          => SnapshotMatchesBaseline'
    BY SnapshotStep
  <1> QED
    BY <1>1, <1>2, TypeCorrect, PTL DEF Spec

\* What the guards of rollback and the snapshots give together: a rollback
\* undoes exactly what the merge did and overwrites nothing newer.
THEOREM RollbackUndoesTheMerge == InjectiveBlobs => (Spec => RollbackIsExact)
  <1> SUFFICES ASSUME InjectiveBlobs PROVE Spec => RollbackIsExact
    OBVIOUS
  <1> DEFINE Exact(t) ==
        /\ \A p \in manifest[t].accepted \ manifest'[t].accepted :
             project'[p] = manifest[t].before[p]
        /\ \A p \in Paths : project'[p] # project[p] =>
             /\ p \in manifest[t].accepted
             /\ project[p] = manifest[t].afterMerge[p]
  <1>1. ASSUME TypeOK, SnapshotMatchesBaseline, NEW t \in Tasks,
               NEW req \in Requests, Rollback(t, req)
        PROVE  Exact(t)
    <2>0. manifest[t] \in Manifest /\ manifest[t].accepted \subseteq Paths
      BY <1>1 DEF TypeOK, Manifest
    <2>1. CASE RollbackConflict(t, req)
      BY <1>1, <2>0, <2>1 DEF RollbackConflict, TypeOK, Manifest
    <2>2. CASE RollbackApply(t, req)
      <3>1. PICK result : manifest' = [manifest EXCEPT
                            ![t] = RolledBackManifest(t, req, result)]
        BY <2>2 DEF RollbackApply
      <3>2. manifest'[t].accepted = KeptSet(t, req)
        BY <1>1, <2>0, <3>1 DEF TypeOK, RolledBackManifest, Manifest
      <3>3. \A p \in manifest[t].accepted \ manifest'[t].accepted :
               p \in RollbackSet(t, req) \ PartialSet(t, req)
        BY <3>2 DEF KeptSet
      <3>4. \A p \in RollbackSet(t, req) \ PartialSet(t, req) :
               project'[p] = beforeSnap[t][BlobName[p]]
        BY <2>0, <2>2 DEF RollbackApply, RollbackSet
      <3>5. \A p \in RollbackSet(t, req) : /\ p \in manifest[t].accepted
                                           /\ project[p] = manifest[t].afterMerge[p]
        BY <2>2 DEF RollbackApply, RollbackBlocked, RollbackSet
      <3>6. \A p \in Paths \ RollbackSet(t, req) : project'[p] = project[p]
        BY <2>2 DEF RollbackApply, PartialSet
      <3> QED
        BY <1>1, <3>3, <3>4, <3>5, <3>6 DEF SnapshotMatchesBaseline
    <2> QED
      BY <1>1, <2>1, <2>2 DEF Rollback
  <1>2. TypeOK /\ SnapshotMatchesBaseline =>
          [ \A t \in Tasks : (\E req \in Requests : Rollback(t, req))
                                => Exact(t) ]_vars
    BY <1>1
  <1>3. Spec => []SnapshotMatchesBaseline
    BY SnapshotsAreBaselines
  <1> QED
    BY <1>2, <1>3, TypeCorrect, PTL DEF RollbackIsExact

\* compare_roots keeps the baseline of a listed file, so the hash check of
\* merge stands between every later project edit and the workspace copy.
THEOREM MergeSparesProjectEdits == Spec => MergeKeepsProjectEdits
  <1>1. ASSUME TypeOK, NEW t \in Tasks, NEW p \in Paths,
               p \in manifest[t].paths, project[p] # manifest[t].before[p],
               NEW req \in Requests, Merge(t, req)
        PROVE  project'[p] = project[p]
    <2>1. CASE MergeConflict(t, req)
      BY <2>1 DEF MergeConflict
    <2>2. CASE MergeApply(t, req)
      <3>1. p \in MergeSet(t, req) =>
               MergeBase(t).before[p] = manifest[t].before[p]
        BY <1>1 DEF MergeSet, MergeBase, Refreshed, BeforeHash
      <3>2. p \notin MergeSet(t, req)
        BY <1>1, <2>2, <3>1 DEF MergeApply, MergeBlocked
      <3> QED
        BY <2>2, <3>2 DEF MergeApply
    <2> QED
      BY <1>1, <2>1, <2>2 DEF Merge
  <1>2. TypeOK =>
          [ \A t \in Tasks, p \in Paths :
              /\ p \in manifest[t].paths
              /\ project[p] # manifest[t].before[p]
              /\ \E req \in Requests : Merge(t, req)
              => project'[p] = project[p] ]_vars
    BY <1>1
  <1> QED
    BY <1>2, TypeCorrect, PTL DEF MergeKeepsProjectEdits
-----------------------------------------------------------------------------
(* The traceback.                                                          *)

\* TracebackCoversChanges for one manifest and one traceback store.
Covered(mf, trace) ==
    \A p \in mf.paths : /\ p \in trace.paths
                        /\ trace.workspace[BlobName[p]] = mf.afterAi[p]

\* A path that raises no event was listed before with the same version, so
\* the blob recorded then still is the right one.
LEMMA RefreshCovers ==
    ASSUME InjectiveBlobs, NEW prev \in Manifest, NEW trace \in Traceback,
           NEW orig \in Tree, NEW ws \in Tree, Covered(prev, trace)
    PROVE  LET next == Refreshed(prev, orig, ws)
           IN  Covered(next, Traced(trace, ChangeEvents(prev, next), orig, ws))
  <1> DEFINE next == Refreshed(prev, orig, ws)
             events == ChangeEvents(prev, next)
             tr == Traced(trace, events, orig, ws)
  <1>1. next \in Manifest
    BY RefreshedType
  <1>2. \A p \in next.paths : p \in Paths /\ next.afterAi[p] = ws[p]
    BY <1>1 DEF Refreshed, Manifest
  <1>3. events \in SUBSET Paths
    BY <1>1, ChangeEventsType
  <1> SUFFICES ASSUME NEW p \in next.paths
               PROVE  /\ p \in tr.paths
                      /\ tr.workspace[BlobName[p]] = next.afterAi[p]
    BY DEF Covered
  <1>4. /\ tr.paths = trace.paths \cup events
        /\ tr.workspace[BlobName[p]] =
             IF p \in events THEN ws[p] ELSE trace.workspace[BlobName[p]]
    BY <1>2, <1>3, SavedBlob DEF Traced
  <1>5. p \notin events => p \in prev.paths /\ prev.afterAi[p] = next.afterAi[p]
    BY DEF ChangeEvents
  <1> HIDE DEF tr, events, next
  <1> QED
    BY <1>2, <1>4, <1>5 DEF Covered

\* So refresh_changes keeps the property, wherever it is called from.
LEMMA DoRefreshCovers ==
    ASSUME InjectiveBlobs, TypeOK, TracebackCoversChanges, NEW t \in Tasks,
           NEW prev \in {manifest[t], EmptyManifest}, NEW orig \in Tree,
           NEW ws \in Tree, DoRefresh(t, prev, orig, ws)
    PROVE  TracebackCoversChanges'
  <1> DEFINE next == Refreshed(prev, orig, ws)
             tr == Traced(traceback[t], ChangeEvents(prev, next), orig, ws)
  <1>1. prev \in Manifest /\ traceback[t] \in Traceback
    BY EmptyTypes DEF TypeOK
  <1>2. Covered(prev, traceback[t])
    BY DEF TracebackCoversChanges, Covered, EmptyManifest
  <1>3. Covered(next, tr)
    BY <1>1, <1>2, RefreshCovers
  <1>4. /\ manifest' = [manifest EXCEPT ![t] = next]
        /\ traceback' = [traceback EXCEPT ![t] = tr]
    BY DEF DoRefresh
  <1> HIDE DEF next, tr
  <1>5. /\ manifest'[t] = next /\ traceback'[t] = tr
        /\ \A s \in Tasks \ {t} : /\ manifest'[s] = manifest[s]
                                  /\ traceback'[s] = traceback[s]
    BY <1>4 DEF TypeOK
  <1> QED
    BY <1>3, <1>5 DEF TracebackCoversChanges, Covered

LEMMA MergeCovers ==
    ASSUME InjectiveBlobs, TypeOK, TracebackCoversChanges, NEW t \in Tasks,
           NEW req \in Requests, Merge(t, req)
    PROVE  TracebackCoversChanges'
  <1> DEFINE base == MergeBase(t)
             tr == Traced(traceback[t], ChangeEvents(manifest[t], base),
                          project, workspace[t])
  <1>1. /\ manifest[t] \in Manifest /\ traceback[t] \in Traceback
        /\ project \in Tree /\ workspace[t] \in Tree
    BY DEF TypeOK
  <1>2. Covered(base, tr)
    <2>1. Covered(manifest[t], traceback[t])
      BY DEF TracebackCoversChanges, Covered
    <2> QED
      BY <1>1, <2>1, RefreshCovers DEF MergeBase
  <1>3. base \in Manifest
    BY MergeBaseType
  <1>4. traceback' = [traceback EXCEPT ![t] = tr]
    BY DEF Merge, MergeConflict, MergeApply, RefreshTraceback
  <1> HIDE DEF base, tr
  <1>5. /\ manifest'[t].paths = base.paths
        /\ manifest'[t].afterAi = base.afterAi
        /\ \A s \in Tasks \ {t} : manifest'[s] = manifest[s]
    <2>1. CASE MergeConflict(t, req)
      BY <1>3, <2>1 DEF MergeConflict, TypeOK, Manifest, base
    <2>2. CASE MergeApply(t, req)
      <3>1. PICK acc, result : manifest' = [manifest EXCEPT
                 ![t] = MergedManifest(base, acc, result, req.hunks)]
        BY <2>2 DEF MergeApply, base
      <3> QED
        BY <1>3, <3>1 DEF MergedManifest, TypeOK, Manifest
    <2> QED
      BY <2>1, <2>2 DEF Merge
  <1>6. /\ traceback'[t] = tr
        /\ \A s \in Tasks \ {t} : traceback'[s] = traceback[s]
    BY <1>4 DEF TypeOK
  <1> QED
    BY <1>2, <1>5, <1>6 DEF TracebackCoversChanges, Covered

LEMMA TracebackStep ==
    ASSUME InjectiveBlobs, TypeOK, TracebackCoversChanges, [Next]_vars
    PROVE  TracebackCoversChanges'
  <1> DEFINE Kept(s) == /\ manifest'[s].paths = manifest[s].paths
                        /\ manifest'[s].afterAi = manifest[s].afterAi
  <1>0. /\ \A t \in Tasks : manifest[t] \in Manifest /\ workspace[t] \in Tree
        /\ project \in Tree
    BY DEF TypeOK
  <1>1. ASSUME UNCHANGED traceback,
               \A s \in Tasks : Kept(s) \/ manifest'[s].paths = {}
        PROVE  TracebackCoversChanges'
    BY <1>1 DEF TracebackCoversChanges
  <1>2. ASSUME UNCHANGED << manifest, traceback >>
        PROVE  TracebackCoversChanges'
    BY <1>2 DEF TracebackCoversChanges
  <1>3. CASE Edits
    BY <1>2, <1>3 DEF Edits, UserEdit, AgentEdit
  <1>4. CASE ChangeFlow
    <2>1. ASSUME NEW t \in Tasks, CreateTask(t) PROVE TracebackCoversChanges'
      BY <1>1, <2>1 DEF CreateTask, EmptyManifest, TypeOK
    <2>2. ASSUME NEW t \in Tasks, RefreshChanges(t)
          PROVE  TracebackCoversChanges'
      BY <1>0, <2>2, DoRefreshCovers DEF RefreshChanges
    <2>3. ASSUME NEW t \in Tasks, NEW req \in Requests, Merge(t, req)
          PROVE  TracebackCoversChanges'
      BY <2>3, MergeCovers
    <2>4. ASSUME NEW t \in Tasks, NEW req \in Requests, Rollback(t, req)
          PROVE  TracebackCoversChanges'
      <3>1. UNCHANGED traceback
        BY <2>4 DEF Rollback, RollbackConflict, RollbackApply
      <3> QED
        BY <1>1, <2>4, <3>1, RollbackKeeps
    <2> QED
      BY <1>4, <2>1, <2>2, <2>3, <2>4 DEF ChangeFlow
  <1>5. CASE Recovery
    <2>1. ASSUME NEW t \in Tasks, NEW p \in Paths,
                 RestoreProject(t, p) \/ RestoreWorkspace(t, p)
          PROVE  TracebackCoversChanges'
      BY <1>2, <2>1 DEF RestoreProject, RestoreWorkspace
    <2>2. ASSUME NEW t \in Tasks, NEW p \in Paths, RestoreProjectAndRefresh(t, p)
          PROVE  TracebackCoversChanges'
      <3> DEFINE orig == [project EXCEPT ![p] = traceback[t].original[BlobName[p]]]
      <3>1. orig \in Tree
        BY ConstantsAssumption DEF TypeOK, Traceback, Tree
      <3>2. DoRefresh(t, manifest[t], orig, workspace[t])
        BY <2>2 DEF RestoreProjectAndRefresh
      <3> HIDE DEF orig
      <3> QED
        BY <1>0, <3>1, <3>2, DoRefreshCovers
    <2>3. ASSUME NEW t \in Tasks, NEW p \in Paths,
                 RestoreWorkspaceAndRefresh(t, p)
          PROVE  TracebackCoversChanges'
      <3> DEFINE ws == [workspace[t] EXCEPT
                          ![p] = traceback[t].workspace[BlobName[p]]]
      <3>1. ws \in Tree
        BY ConstantsAssumption DEF TypeOK, Traceback, Tree
      <3>2. DoRefresh(t, manifest[t], project, ws)
        BY <2>3 DEF RestoreWorkspaceAndRefresh
      <3> HIDE DEF ws
      <3> QED
        BY <1>0, <3>1, <3>2, DoRefreshCovers
    <2>4. ASSUME NEW t \in Tasks, WorkspaceLost(t) \/ RefreshEnvironmentLinks(t)
          PROVE  TracebackCoversChanges'
      BY <1>2, <2>4 DEF WorkspaceLost, RefreshEnvironmentLinks
    <2>5. ASSUME NEW t \in Tasks, NEW valid \in BOOLEAN, ResumeTask(t, valid)
          PROVE  TracebackCoversChanges'
      BY <1>1, <2>5, ResumeKeeps DEF ResumeTask
    <2>6. ASSUME NEW s \in Tasks, NEW t \in Tasks, ForkTask(s, t)
          PROVE  TracebackCoversChanges'
      <3>1. CASE UNCHANGED << manifest, traceback >>
        BY <1>2, <3>1
      <3>2. CASE \E ws \in Tree : DoRefresh(t, EmptyManifest, project, ws)
        BY <1>0, <3>2, DoRefreshCovers
      <3>3. \A tree \in FreshTrees :
              [p \in Paths |-> IF Copied(workspace[s])[p] # Missing
                               THEN Copied(workspace[s])[p]
                               ELSE WithEnvironment(tree)[p]] \in Tree
        BY <1>0, FreshType DEF Copied, Tree, Version
      <3> QED
        BY <2>6, <3>1, <3>2, <3>3 DEF ForkTask
    <2> QED
      BY <1>5, <2>1, <2>2, <2>3, <2>4, <2>5, <2>6 DEF Recovery
  <1>6. CASE StatusFlow
    <2>1. ASSUME NEW t \in Tasks, ArchiveTask(t) PROVE TracebackCoversChanges'
      <3>1. \A s \in Tasks : Kept(s)
        BY <2>1 DEF ArchiveTask, TypeOK, Manifest
      <3> QED
        BY <1>1, <2>1, <3>1 DEF ArchiveTask
    <2> QED
      BY <1>2, <1>6, <2>1
         DEF StatusFlow, ReviewTask, WriteTaskSummary, TestStart, TestEnd
  <1>7. CASE UNCHANGED vars
    BY <1>2, <1>7 DEF vars
  <1> QED
    BY <1>3, <1>4, <1>5, <1>6, <1>7 DEF Next

\* Every listed change can be taken back from the traceback, in the version
\* the manifest shows, although a refresh saves only the paths that raise an
\* event.
THEOREM ChangesAreTraced ==
    InjectiveBlobs => (Spec => []TracebackCoversChanges)
  <1> SUFFICES ASSUME InjectiveBlobs
               PROVE  Spec => []TracebackCoversChanges
    OBVIOUS
  <1>1. Init => TracebackCoversChanges
    BY DEF Init, TracebackCoversChanges, EmptyManifest
  <1>2. TypeOK /\ TracebackCoversChanges /\ [Next]_vars
          => TracebackCoversChanges'
    BY TracebackStep
  <1> QED
    BY <1>1, <1>2, TypeCorrect, PTL DEF Spec

-----------------------------------------------------------------------------
(* The two status fields.  The invariant speaks of every task, because a   *)
(* fork of a task without workspace leaves both files as they are.         *)

StatusesAgree ==
    \A t \in Tasks : record[t] \in RecordOnly \/ record[t] = manifest[t].status

\* The two files are written together ...
LEMMA BothWritten ==
    ASSUME TypeOK, StatusesAgree, NEW t \in Tasks, NEW m, NEW v, v = m.status,
           manifest' = [manifest EXCEPT ![t] = m],
           record' = [record EXCEPT ![t] = v]
    PROVE  StatusesAgree'
  BY DEF StatusesAgree, TypeOK

\* ... or task.json gets one of its own statuses.
LEMMA RecordWritten ==
    ASSUME TypeOK, StatusesAgree, NEW t \in Tasks, NEW v \in RecordOnly,
           record' = [record EXCEPT ![t] = v], UNCHANGED manifest
    PROVE  StatusesAgree'
  BY DEF StatusesAgree, TypeOK

LEMMA DoRefreshAgrees ==
    ASSUME TypeOK, StatusesAgree, NEW t \in Tasks, NEW prev, NEW orig, NEW ws,
           DoRefresh(t, prev, orig, ws)
    PROVE  StatusesAgree'
  <1> DEFINE next == Refreshed(prev, orig, ws)
  <1>1. /\ manifest' = [manifest EXCEPT ![t] = next]
        /\ record' = [record EXCEPT ![t] = next.status]
    BY DEF DoRefresh
  <1> HIDE DEF next
  <1> QED
    BY <1>1, BothWritten

LEMMA MergeAgrees ==
    ASSUME TypeOK, StatusesAgree, NEW t \in Tasks, NEW req \in Requests,
           Merge(t, req)
    PROVE  StatusesAgree'
  <1>1. MergeBase(t) \in Manifest
    BY MergeBaseType
  <1>2. CASE MergeConflict(t, req)
    <2> DEFINE m == [MergeBase(t) EXCEPT !.status = "MergeConflict"]
    <2>1. m.status = "MergeConflict"
      BY <1>1 DEF Manifest
    <2>2. /\ manifest' = [manifest EXCEPT ![t] = m]
          /\ record' = [record EXCEPT ![t] = "MergeConflict"]
      BY <1>2 DEF MergeConflict
    <2> HIDE DEF m
    <2> QED
      BY <2>1, <2>2, BothWritten
  <1>3. CASE MergeApply(t, req)
    <2> DEFINE acc == MergeSet(t, req)
    <2>1. PICK result \in [acc -> Version] :
            manifest' = [manifest EXCEPT
              ![t] = MergedManifest(MergeBase(t), acc, result, req.hunks)]
      BY <1>3 DEF MergeApply
    <2> DEFINE m == MergedManifest(MergeBase(t), acc, result, req.hunks)
    <2>2. m.status = "RollbackAvailable"
      BY <1>1 DEF MergedManifest, Manifest
    <2>3. record' = [record EXCEPT ![t] = "RollbackAvailable"]
      BY <1>3 DEF MergeApply
    <2>4. manifest' = [manifest EXCEPT ![t] = m]
      BY <2>1
    <2> HIDE DEF m, acc
    <2> QED
      BY <2>2, <2>3, <2>4, BothWritten
  <1> QED
    BY <1>2, <1>3 DEF Merge

\* rollback and resume_task write to task.json what manifest.json got.
LEMMA CopiedStatus ==
    ASSUME TypeOK, StatusesAgree, NEW t \in Tasks, NEW m,
           manifest' = [manifest EXCEPT ![t] = m],
           record' = [record EXCEPT ![t] = manifest'[t].status]
    PROVE  StatusesAgree'
  <1>1. manifest'[t] = m
    BY DEF TypeOK
  <1> QED
    BY <1>1, BothWritten

LEMMA RollbackAgrees ==
    ASSUME TypeOK, StatusesAgree, NEW t \in Tasks, NEW req \in Requests,
           Rollback(t, req)
    PROVE  StatusesAgree'
  <1>1. CASE RollbackConflict(t, req)
    <2> DEFINE m == [manifest[t] EXCEPT !.status = "RollbackFailed"]
    <2>1. m.status = "RollbackFailed"
      BY DEF TypeOK, Manifest
    <2>2. /\ manifest' = [manifest EXCEPT ![t] = m]
          /\ record' = [record EXCEPT ![t] = "RollbackFailed"]
      BY <1>1 DEF RollbackConflict
    <2> HIDE DEF m
    <2> QED
      BY <2>1, <2>2, BothWritten
  <1>2. CASE RollbackApply(t, req)
    <2>1. \E result : manifest' = [manifest EXCEPT
                                     ![t] = RolledBackManifest(t, req, result)]
      BY <1>2 DEF RollbackApply
    <2>2. record' = [record EXCEPT ![t] = manifest'[t].status]
      BY <1>2 DEF RollbackApply
    <2> QED
      BY <2>1, <2>2, CopiedStatus
  <1> QED
    BY <1>1, <1>2 DEF Rollback

LEMMA StatusStep ==
    ASSUME TypeOK, StatusesAgree, [Next]_vars
    PROVE  StatusesAgree'
  <1>1. ASSUME UNCHANGED << manifest, record >> PROVE StatusesAgree'
    BY <1>1 DEF StatusesAgree
  <1>2. CASE Edits
    BY <1>1, <1>2 DEF Edits, UserEdit, AgentEdit
  <1>3. CASE ChangeFlow
    <2>1. ASSUME NEW t \in Tasks, CreateTask(t) PROVE StatusesAgree'
      <3>1. EmptyManifest.status = "WorkspaceReady"
        BY DEF EmptyManifest
      <3> QED
        BY <2>1, <3>1, BothWritten DEF CreateTask
    <2>2. ASSUME NEW t \in Tasks, RefreshChanges(t) PROVE StatusesAgree'
      BY <2>2, DoRefreshAgrees DEF RefreshChanges
    <2> QED
      BY <1>3, <2>1, <2>2, MergeAgrees, RollbackAgrees DEF ChangeFlow
  <1>4. CASE Recovery
    <2>1. ASSUME NEW t \in Tasks, NEW p \in Paths,
                 RestoreProject(t, p) \/ RestoreWorkspace(t, p)
          PROVE  StatusesAgree'
      BY <1>1, <2>1 DEF RestoreProject, RestoreWorkspace
    <2>2. ASSUME NEW t \in Tasks, NEW p \in Paths,
                 RestoreProjectAndRefresh(t, p) \/ RestoreWorkspaceAndRefresh(t, p)
          PROVE  StatusesAgree'
      <3>1. \E orig, ws : DoRefresh(t, manifest[t], orig, ws)
        BY <2>2, Zenon DEF RestoreProjectAndRefresh, RestoreWorkspaceAndRefresh
      <3> QED
        BY <3>1, DoRefreshAgrees
    <2>3. ASSUME NEW t \in Tasks, WorkspaceLost(t) \/ RefreshEnvironmentLinks(t)
          PROVE  StatusesAgree'
      BY <1>1, <2>3 DEF WorkspaceLost, RefreshEnvironmentLinks
    <2>4. ASSUME NEW t \in Tasks, NEW valid \in BOOLEAN, ResumeTask(t, valid)
          PROVE  StatusesAgree'
      <3>1. \E m : manifest' = [manifest EXCEPT ![t] = m]
        BY <2>4, Zenon DEF ResumeTask
      <3>2. record' = [record EXCEPT ![t] = manifest'[t].status]
        BY <2>4 DEF ResumeTask
      <3> QED
        BY <3>1, <3>2, CopiedStatus
    <2>5. ASSUME NEW s \in Tasks, NEW t \in Tasks, ForkTask(s, t)
          PROVE  StatusesAgree'
      <3>1. \/ UNCHANGED << manifest, record >>
            \/ \E ws : DoRefresh(t, EmptyManifest, project, ws)
        BY <2>5, Zenon DEF ForkTask
      <3> QED
        BY <1>1, <3>1, DoRefreshAgrees
    <2> QED
      BY <1>4, <2>1, <2>2, <2>3, <2>4, <2>5 DEF Recovery
  <1>5. CASE StatusFlow
    <2>1. ASSUME NEW t \in Tasks,
                 ReviewTask(t) \/ WriteTaskSummary(t) \/ TestStart(t)
          PROVE  StatusesAgree'
      BY <2>1, RecordWritten
         DEF ReviewTask, ReviewOutcome, WriteTaskSummary, TestStart, RecordOnly
    <2>2. ASSUME NEW t \in Tasks,
                 NEW o \in {"TestingPassed", "TestingFailed", "error"},
                 TestEnd(t, o)
          PROVE  StatusesAgree'
      <3>1. CASE o = "error"
        BY <1>1, <2>2, <3>1 DEF TestEnd
      <3>2. CASE o # "error"
        BY <2>2, <3>2, RecordWritten DEF TestEnd, RecordOnly
      <3> QED
        BY <3>1, <3>2
    <2>3. ASSUME NEW t \in Tasks, ArchiveTask(t) PROVE StatusesAgree'
      <3> DEFINE m == [manifest[t] EXCEPT !.status = "Archived"]
      <3>1. m.status = "Archived"
        BY DEF TypeOK, Manifest
      <3>2. /\ manifest' = [manifest EXCEPT ![t] = m]
            /\ record' = [record EXCEPT ![t] = "Archived"]
        BY <2>3 DEF ArchiveTask
      <3> HIDE DEF m
      <3> QED
        BY <3>1, <3>2, BothWritten
    <2> QED
      BY <1>5, <2>1, <2>2, <2>3 DEF StatusFlow
  <1>6. CASE UNCHANGED vars
    BY <1>1, <1>6 DEF vars
  <1> QED
    BY <1>2, <1>3, <1>4, <1>5, <1>6 DEF Next

\* Whatever operations follow each other, task.json and manifest.json agree
\* on the status of a task, but for the statuses only task.json ever gets
\* (write_task_status).
THEOREM StatusFilesAgree == Spec => []StatusAgreement
  <1>1. Init => StatusesAgree
    BY DEF Init, StatusesAgree, EmptyManifest
  <1>2. TypeOK /\ StatusesAgree /\ [Next]_vars => StatusesAgree'
    BY StatusStep
  <1>3. TypeOK /\ StatusesAgree => StatusAgreement
    BY DEF TypeOK, StatusesAgree, StatusAgreement
  <1> QED
    BY <1>1, <1>2, <1>3, TypeCorrect, PTL DEF Spec
=============================================================================
