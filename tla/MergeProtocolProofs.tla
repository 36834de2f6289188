------------------------- MODULE MergeProtocolProofs -------------------------
(***************************************************************************)
(* Proofs about MergeProtocol, for any number of calls, tasks, files and   *)
(* edits: type correctness, where lock files without an owner come from,   *)
(* and that a rollback puts back what the last merge overwrote.            *)
(***************************************************************************)
EXTENDS MergeProtocol, WellFoundedInduction, TLAPS

USE ProtocolAssumption

-----------------------------------------------------------------------------
(* The inductive invariants.                                               *)

\* Stages between the test of a path lock and its release: there is a file
\* the call is at.
AtFile == {"pathTested", "pathLocked", "saved", "copied"}

AtFileHasFile == \A c \in Calls : stage[c] \in AtFile => todo[c] # {}

TypeInv == TypeOK /\ AtFileHasFile

\* What only merge does.
MergeStages ==
    {"refreshed", "lockTested", "checking", "applying", "written"} \cup AtFile

StagesOfMerge ==
    \A c \in Calls : stage[c] \in MergeStages => KindOf[c] = "merge"

\* Between snapshot_file and copy_file_or_remove the snapshot is the file,
\* unless somebody has written the file in between.
SavedIsCurrent ==
    \A c \in Calls : stage[c] = "saved" /\ ~raced[c] =>
        snapshot[TaskOf[c]][Current(c)] = project[Current(c)]

\* Calls of a task that have not overlapped are at work one at a time.
OneAtATime ==
    \A c, d \in Calls :
        TaskOf[c] = TaskOf[d] /\ AtWork(c) /\ AtWork(d) /\ ~overlapped[TaskOf[c]]
            => c = d

\* The before snapshot of the file is what the task's last copy overwrote.
Undoable(t, p) == overwritten[t][p] \in {None, snapshot[t][p]}

\* Which entries a call has marked as merged: none before the second loop of
\* merge, then only files that are behind the loop; in a rollback all that
\* are left.
MarkedEntries(c) ==
    /\ stage[c] \in {"refreshed", "lockTested", "checking"} => local[c].accepted = {}
    /\ stage[c] \in {"applying"} \cup AtFile => local[c].accepted \cap todo[c] = {}
    /\ stage[c] = "rbChecking" => selected[c] \subseteq local[c].accepted
    /\ stage[c] = "rbRestoring" => todo[c] \subseteq local[c].accepted

\* While a merge is at work the manifest on disk offers nothing for rollback,
\* and what the call itself has merged can be undone.
CallIsUndoable(c) ==
    AtWork(c) /\ ~overlapped[TaskOf[c]] =>
        /\ stage[c] \in MergeStages \ {"written"} => manifest[TaskOf[c]].accepted = {}
        /\ \A p \in local[c].accepted : Undoable(TaskOf[c], p)
        /\ stage[c] = "copied" => Undoable(TaskOf[c], Current(c))

\* What the manifest offers for rollback can be undone.
OfferIsUndoable(t) ==
    ~overlapped[t] => \A p \in manifest[t].accepted : Undoable(t, p)

UndoInv ==
    /\ StagesOfMerge /\ SavedIsCurrent /\ OneAtATime
    /\ \A c \in Calls : MarkedEntries(c) /\ CallIsUndoable(c)
    /\ \A t \in Tasks : OfferIsUndoable(t)

-----------------------------------------------------------------------------
(* The operators of the model                                              *)

\* The loops come to a file of the selection, the first one that is left.
LEMMA MinIsMember ==
    ASSUME NEW S \in SUBSET Nat, S # {}
    PROVE  Min(S) \in S
  <1> DEFINE less == {ss \in Nat \X Nat : ss[1] < ss[2]}
  <1>1. IsWellFoundedOn(less, Nat)
    BY NatLessThanWellFounded DEF OpToRel
  <1>2. \A x, y \in Nat : << y, x >> \in less <=> y < x
    OBVIOUS
  <1> HIDE DEF less
  <1>3. PICK x \in S : \A y \in S : ~(<< y, x >> \in less)
    <2>1. S \subseteq Nat
      OBVIOUS
    <2>2. \E x \in S : \A y \in S : ~(<< y, x >> \in less)
      BY ONLY <1>1, <2>1, S # {}, WFMin, Zenon
    <2> QED
      BY <2>2
  <1>4. ASSUME NEW y \in S PROVE x =< y
    <2>1. x \in Nat /\ y \in Nat
      OBVIOUS
    <2>2. ~(y < x)
      BY <1>2, <1>3, <2>1, Zenon
    <2> QED
      BY <2>1, <2>2
  <1> QED
    BY <1>4 DEF Min

LEMMA CurrentInTodo ==
    ASSUME todo \in [Calls -> SUBSET Paths], NEW c \in Calls, todo[c] # {}
    PROVE  Current(c) \in todo[c] /\ Current(c) \in Paths
  <1>1. todo[c] \in SUBSET Nat
    BY DEF Paths
  <1> QED
    BY <1>1, MinIsMember DEF Current

\* A refreshed manifest is a manifest.
LEMMA RefreshedType ==
    ASSUME TypeOK, NEW t \in Tasks
    PROVE  Refreshed(t) \in Manifest
  <1> DEFINE before == [p \in Paths |-> IF p \in manifest[t].paths
                                        THEN manifest[t].before[p] ELSE project[p]]
  <1>1. before \in Tree
    BY DEF TypeOK, Manifest, Tree
  <1>2. Refreshed(t) = [ paths |-> {p \in Paths : before[p] # workspace[t][p]},
                         before |-> before, afterMerge |-> before,
                         accepted |-> {} ]
    BY DEF Refreshed
  <1> HIDE DEF before
  <1> QED
    BY <1>1, <1>2 DEF Manifest

\* So is one in which a merged or rolled back file is recorded.
LEMMA RecordedType ==
    ASSUME NEW m \in Manifest, NEW p \in Paths, NEW v \in Contents
    PROVE  /\ [m EXCEPT !.afterMerge[p] = v, !.accepted = @ \cup {p}] \in Manifest
           /\ [m EXCEPT !.accepted = @ \ {p}] \in Manifest
  <1> DEFINE k == [m EXCEPT !.afterMerge = [m.afterMerge EXCEPT ![p] = v]]
  <1>1. [m.afterMerge EXCEPT ![p] = v] \in Tree
    BY DEF Manifest, Tree
  <1>2. k \in Manifest /\ k.accepted = m.accepted
    BY <1>1 DEF Manifest
  <1>3. [m EXCEPT !.afterMerge[p] = v, !.accepted = @ \cup {p}]
          = [k EXCEPT !.accepted = k.accepted \cup {p}]
    BY <1>2
  <1> HIDE DEF k
  <1>4. [k EXCEPT !.accepted = k.accepted \cup {p}] \in Manifest
    BY <1>2 DEF Manifest
  <1>5. [m EXCEPT !.accepted = m.accepted \ {p}] \in Manifest
    BY DEF Manifest
  <1> QED
    BY <1>3, <1>4, <1>5

-----------------------------------------------------------------------------
(* Types                                                                   *)

LEMMA InitType ==
    ASSUME Init
    PROVE  TypeInv
  <1>1. EmptyManifest \in Manifest
    BY DEF EmptyManifest, Manifest, Tree
  <1>2. /\ manifest \in [Tasks -> Manifest] /\ local \in [Calls -> Manifest]
    BY <1>1 DEF Init
  <1>3. /\ project \in Tree /\ snapshot \in [Tasks -> Tree]
        /\ workspace \in [Tasks -> Tree] /\ locks \subseteq Locks
        /\ edits \in 0..MaxEdits
    BY DEF Init, Tree
  <1>4. /\ stage \in [Calls -> Stage] /\ raced \in [Calls -> BOOLEAN]
        /\ overwritten \in [Tasks -> [Paths -> Contents \cup {None}]]
        /\ overlapped \in [Tasks -> BOOLEAN] /\ orphaned \subseteq locks
    BY DEF Init, Stage
  <1>5. /\ selected \in [Calls -> SUBSET Paths]
        /\ todo \in [Calls -> SUBSET Paths]
    BY DEF Init
  <1> QED
    BY <1>2, <1>3, <1>4, <1>5 DEF Init, TypeInv, TypeOK, AtFileHasFile, AtFile

\* The steps that write no more than the stage of the call, the locks, the
\* list of what is left and the manifest on disk.
LEMMA PlainStepType ==
    ASSUME TypeInv, NEW c \in Calls, NEW s \in Stage, Goto(c, s),
           UNCHANGED << project, workspace, snapshot, local, selected, edits,
                        raced, overwritten, overlapped >>,
           locks' \subseteq Locks, orphaned' \subseteq locks',
           manifest' \in [Tasks -> Manifest],
           UNCHANGED todo \/ (s \notin AtFile /\ todo' \in [Calls -> SUBSET Paths]
                              /\ \A d \in Calls \ {c} : todo'[d] = todo[d]),
           s \in AtFile => todo[c] # {}
    PROVE  TypeInv'
  <1>1. stage' \in [Calls -> Stage]
    BY DEF Goto, TypeInv, TypeOK
  <1>2. AtFileHasFile'
    BY DEF AtFileHasFile, Goto, TypeInv, TypeOK
  <1>3. todo' \in [Calls -> SUBSET Paths]
    BY DEF TypeInv, TypeOK
  <1> QED
    BY <1>1, <1>2, <1>3 DEF TypeInv, TypeOK

\* The steps that end the call.
LEMMA EndType ==
    ASSUME TypeInv, NEW c \in Calls, NEW s \in Final, End(c, s),
           UNCHANGED << project, workspace, snapshot, edits, overwritten,
                        overlapped >>,
           locks' \subseteq Locks, orphaned' \subseteq locks',
           manifest' \in [Tasks -> Manifest]
    PROVE  TypeInv'
  <1>0. EmptyManifest \in Manifest
    BY DEF EmptyManifest, Manifest, Tree
  <1>1. /\ stage' \in [Calls -> Stage] /\ local' \in [Calls -> Manifest]
        /\ raced' \in [Calls -> BOOLEAN]
    BY <1>0 DEF End, Goto, Stage, TypeInv, TypeOK
  <1>2. /\ selected' \in [Calls -> SUBSET Paths]
        /\ todo' \in [Calls -> SUBSET Paths]
    BY DEF End, TypeInv, TypeOK
  <1>3. AtFileHasFile'
    BY DEF AtFileHasFile, AtFile, Final, End, Goto, TypeInv, TypeOK
  <1> QED
    BY <1>1, <1>2, <1>3 DEF TypeInv, TypeOK

LEMMA RemoveType ==
    ASSUME TypeInv, NEW L, Remove(L)
    PROVE  locks' \subseteq Locks /\ orphaned' \subseteq locks'
  BY DEF Remove, TypeInv, TypeOK

LEMMA OverlapType ==
    ASSUME TypeInv, NEW c \in Calls, MarkOverlap(c)
    PROVE  overlapped' \in [Tasks -> BOOLEAN]
  <1> DEFINE v == overlapped[TaskOf[c]] \/
                    \E d \in Calls : TaskOf[d] = TaskOf[c] /\ AtWork(d)
  <1>1. overlapped' = [overlapped EXCEPT ![TaskOf[c]] = v]
    BY DEF MarkOverlap, TypeInv, TypeOK
  <1>2. v \in BOOLEAN
    OBVIOUS
  <1> HIDE DEF v
  <1> QED
    BY <1>1, <1>2 DEF TypeInv, TypeOK

LEMMA WriteProjectType ==
    ASSUME TypeInv, NEW p \in Paths, NEW v \in Contents, WriteProject(p, v)
    PROVE  project' \in Tree /\ raced' \in [Calls -> BOOLEAN]
  <1>1. project' \in Tree
    BY DEF WriteProject, TypeInv, TypeOK, Tree
  <1>2. raced' \in [Calls -> BOOLEAN]
    <2>1. \A d \in Calls : (raced[d] \/ d \in AboutToCopy(p)) \in BOOLEAN
      OBVIOUS
    <2> QED
      BY <2>1 DEF WriteProject
  <1> QED
    BY <1>1, <1>2

LEMMA StartType ==
    ASSUME TypeInv, NEW c \in Calls, NEW sel \in SUBSET Paths,
           StartMerge(c, sel) \/ StartRollback(c, sel)
    PROVE  TypeInv'
  <1> DEFINE t == TaskOf[c]
  <1>1. t \in Tasks /\ Refreshed(t) \in Manifest /\ manifest[t] \in Manifest
    BY RefreshedType DEF TypeInv, TypeOK
  <1>2. CASE StartMerge(c, sel)
    <2> DEFINE m == Refreshed(t)
    <2>1. /\ manifest' = [manifest EXCEPT ![t] = m]
          /\ local' = [local EXCEPT ![c] = m]
          /\ selected' = [selected EXCEPT ![c] = m.paths \cap sel]
          /\ todo' = [todo EXCEPT ![c] = m.paths \cap sel]
          /\ stage' = [stage EXCEPT ![c] = "refreshed"]
          /\ UNCHANGED << project, workspace, snapshot, locks, edits, raced,
                          overwritten, orphaned >>
          /\ overlapped' \in [Tasks -> BOOLEAN]
      BY <1>2, OverlapType DEF StartMerge, Goto
    <2> HIDE DEF m
    <2>2. m \in Manifest /\ m.paths \cap sel \in SUBSET Paths
      BY <1>1 DEF m
    <2>3. stage' \in [Calls -> Stage]
      BY <2>1 DEF Stage, TypeInv, TypeOK
    <2>4. AtFileHasFile'
      BY <2>1 DEF AtFileHasFile, AtFile, TypeInv, TypeOK
    <2> QED
      BY <1>1, <2>1, <2>2, <2>3, <2>4 DEF TypeInv, TypeOK, history
  <1>3. CASE StartRollback(c, sel)
    <2> DEFINE m == manifest[t]
    <2>0. overlapped' \in [Tasks -> BOOLEAN]
      BY <1>3, OverlapType DEF StartRollback
    <2>1. CASE m.accepted \cap sel = {}
      <3>1. /\ End(c, "failed") /\ UNCHANGED << disk, edits, overwritten, orphaned >>
        BY <1>3, <2>1 DEF StartRollback
      <3>2. EmptyManifest \in Manifest
        BY DEF EmptyManifest, Manifest, Tree
      <3>3. /\ stage' \in [Calls -> Stage] /\ local' \in [Calls -> Manifest]
            /\ raced' \in [Calls -> BOOLEAN]
        BY <3>1, <3>2 DEF End, Goto, Stage, Final, TypeInv, TypeOK
      <3>4. /\ selected' \in [Calls -> SUBSET Paths]
            /\ todo' \in [Calls -> SUBSET Paths]
        BY <3>1 DEF End, TypeInv, TypeOK
      <3>5. AtFileHasFile'
        BY <3>1 DEF AtFileHasFile, AtFile, End, Goto, TypeInv, TypeOK
      <3> QED
        BY <2>0, <3>1, <3>3, <3>4, <3>5 DEF TypeInv, TypeOK, disk
    <2>2. CASE m.accepted \cap sel # {}
      <3>1. /\ local' = [local EXCEPT ![c] = m]
            /\ selected' = [selected EXCEPT ![c] = m.accepted \cap sel]
            /\ todo' = [todo EXCEPT ![c] = m.accepted \cap sel]
            /\ stage' = [stage EXCEPT ![c] = "rbChecking"]
            /\ UNCHANGED << disk, edits, raced, overwritten, orphaned >>
        BY <1>3, <2>2 DEF StartRollback, Goto
      <3>2. m \in Manifest /\ m.accepted \cap sel \in SUBSET Paths
        BY <1>1
      <3> HIDE DEF m
      <3>3. stage' \in [Calls -> Stage]
        BY <3>1 DEF TypeInv, TypeOK, Stage
      <3>4. AtFileHasFile'
        BY <3>1 DEF AtFileHasFile, AtFile, TypeInv, TypeOK
      <3> QED
        BY <1>1, <2>0, <3>1, <3>2, <3>3, <3>4 DEF TypeInv, TypeOK, disk
    <2> QED
      BY <2>1, <2>2
  <1> QED
    BY <1>2, <1>3

LEMMA StepType ==
    ASSUME TypeInv, NEW c \in Calls, Step(c) \/ Fault(c)
    PROVE  TypeInv'
  <1> USE DEF disk, history, memory
  <1> DEFINE t == TaskOf[c]
             p == Current(c)
  <1>0. /\ t \in Tasks /\ MergeLock(t) \in Locks
        /\ todo[c] # {} => p \in Paths /\ p \in todo[c] /\ PathLock(p) \in Locks
        /\ local[c] \in Manifest
    BY CurrentInTodo DEF Locks, TypeInv, TypeOK
  <1> HIDE DEF p, t
  <1>h. ASSUME Handled(c)
        PROVE  /\ todo' \in [Calls -> SUBSET Paths]
               /\ \A d \in Calls \ {c} : todo'[d] = todo[d]
    BY <1>h DEF Handled, TypeInv, TypeOK
  <1>f. stage[c] \in AtFile => todo[c] # {}
    BY DEF TypeInv, AtFileHasFile
  <1>m. [manifest EXCEPT ![t] = local[c]] \in [Tasks -> Manifest]
    BY <1>0 DEF TypeInv, TypeOK
  <1>k. /\ locks \subseteq Locks /\ orphaned \subseteq locks
        /\ manifest \in [Tasks -> Manifest]
    BY DEF TypeInv, TypeOK
  <1>1. CASE TestMergeLock(c)
    BY <1>1, <1>k, PlainStepType, EndType DEF TestMergeLock, Stage, AtFile, Final
  <1>2. CASE CreateMergeLock(c)
    BY <1>2, <1>0, <1>k, PlainStepType DEF CreateMergeLock, Stage, AtFile, t
  <1>3. CASE CheckFile(c)
    <2>1. Goto(c, stage[c]) /\ stage[c] \in Stage /\ stage[c] \notin AtFile
      BY <1>3 DEF CheckFile, Goto, AtFile, Stage, TypeInv, TypeOK
    <2> QED
      BY <1>3, <1>h, <1>k, <2>1, PlainStepType DEF CheckFile
  <1>4. CASE CheckFails(c)
    BY <1>4, <1>k, <1>m, EndType, RemoveType DEF CheckFails, Final, t
  <1>5. CASE StartApplying(c)
    <2>1. /\ todo' \in [Calls -> SUBSET Paths]
          /\ \A d \in Calls \ {c} : todo'[d] = todo[d]
      BY <1>5 DEF StartApplying, TypeInv, TypeOK
    <2> QED
      BY <1>5, <1>k, <2>1, PlainStepType DEF StartApplying, Stage, AtFile
  <1>6. CASE TestPathLock(c)
    BY <1>6, <1>k, PlainStepType, EndType, RemoveType
       DEF TestPathLock, Stage, AtFile, Final
  <1>7. CASE CreatePathLock(c)
    <2>1. /\ stage[c] \in AtFile
          /\ locks' \subseteq Locks /\ orphaned' \subseteq locks'
      BY <1>7, <1>0, <1>f, <1>k DEF CreatePathLock, AtFile, p
    <2> QED
      BY <1>7, <1>f, <1>k, <2>1, PlainStepType DEF CreatePathLock, Stage, AtFile
  <1>8. CASE SaveFile(c)
    <2>1. stage[c] \in AtFile /\ p \in Paths
      BY <1>8, <1>0, <1>f DEF SaveFile, AtFile
    <2>2. snapshot' \in [Tasks -> Tree]
      BY <1>8, <1>0, <2>1 DEF SaveFile, TypeInv, TypeOK, Tree, p, t
    <2>3. stage' \in [Calls -> Stage]
      BY <1>8 DEF SaveFile, Goto, Stage, TypeInv, TypeOK
    <2>4. AtFileHasFile'
      BY <1>8, <1>f, <2>1
         DEF SaveFile, Goto, AtFileHasFile, TypeInv, TypeOK
    <2> QED
      BY <1>8, <2>2, <2>3, <2>4 DEF SaveFile, TypeInv, TypeOK
  <1>9. CASE CopyFile(c)
    <2>1. stage[c] \in AtFile /\ p \in Paths
      BY <1>9, <1>0, <1>f DEF CopyFile, AtFile
    <2>2. project' \in Tree
      BY <1>9, <1>0, <2>1 DEF CopyFile, TypeInv, TypeOK, Tree, p, t
    <2>3. overwritten' \in [Tasks -> [Paths -> Contents \cup {None}]]
      BY <1>9, <1>0, <2>1 DEF CopyFile, TypeInv, TypeOK, Tree, p, t
    <2>4. raced' \in [Calls -> BOOLEAN]
      <3>1. \A d \in Calls : (d # c /\ (raced[d] \/ d \in AboutToCopy(p))) \in BOOLEAN
        OBVIOUS
      <3> QED
        BY <1>9, <3>1 DEF CopyFile, p
    <2>5. stage' \in [Calls -> Stage]
      BY <1>9 DEF CopyFile, Goto, Stage, TypeInv, TypeOK
    <2>6. AtFileHasFile'
      BY <1>9, <1>f, <2>1
         DEF CopyFile, Goto, AtFileHasFile, TypeInv, TypeOK
    <2> QED
      BY <1>9, <2>2, <2>3, <2>4, <2>5, <2>6 DEF CopyFile, TypeInv, TypeOK
  <1>10. CASE RecordFile(c)
    <2>1. stage[c] \in AtFile /\ p \in Paths
      BY <1>10, <1>0, <1>f DEF RecordFile, AtFile
    <2> DEFINE rec == [local[c] EXCEPT !.afterMerge[p] = project[p],
                                       !.accepted = @ \cup {p}]
    <2>2. project[p] \in Contents
      BY <2>1 DEF TypeInv, TypeOK, Tree
    <2>3. rec \in Manifest
      BY <1>0, <2>1, <2>2, RecordedType, Zenon
    <2>4. local' = [local EXCEPT ![c] = rec]
      BY <1>10 DEF RecordFile, TypeInv, TypeOK, p
    <2> HIDE DEF rec
    <2>5. local' \in [Calls -> Manifest]
      BY <2>3, <2>4 DEF TypeInv, TypeOK
    <2>6. stage' \in [Calls -> Stage] /\ AtFileHasFile'
      BY <1>10, <1>h DEF RecordFile, Goto, Stage, AtFileHasFile, AtFile,
                         TypeInv, TypeOK
    <2>7. locks' \subseteq Locks /\ orphaned' \subseteq locks'
      BY <1>10, RemoveType DEF RecordFile
    <2> QED
      BY <1>10, <1>h, <1>k, <2>5, <2>6, <2>7 DEF RecordFile, TypeInv, TypeOK
  <1>11. CASE WriteManifest(c)
    BY <1>11, <1>k, <1>m, PlainStepType, EndType
       DEF WriteManifest, Stage, AtFile, Final, t
  <1>12. CASE DropMergeLock(c)
    BY <1>12, <1>k, EndType, RemoveType DEF DropMergeLock, Final
  <1>13. CASE RollbackCheckFile(c)
    <2>1. Goto(c, stage[c]) /\ stage[c] \in Stage /\ stage[c] \notin AtFile
      BY <1>13 DEF RollbackCheckFile, Goto, AtFile, Stage, TypeInv, TypeOK
    <2> QED
      BY <1>13, <1>h, <1>k, <2>1, PlainStepType DEF RollbackCheckFile
  <1>14. CASE RollbackCheckFails(c)
    BY <1>14, <1>k, <1>m, EndType DEF RollbackCheckFails, Final, t
  <1>15. CASE StartRestoring(c)
    <2>1. /\ todo' \in [Calls -> SUBSET Paths]
          /\ \A d \in Calls \ {c} : todo'[d] = todo[d]
      BY <1>15 DEF StartRestoring, TypeInv, TypeOK
    <2> QED
      BY <1>15, <1>k, <2>1, PlainStepType DEF StartRestoring, Stage, AtFile
  <1>16. CASE RestoreFile(c)
    <2>1. p \in Paths /\ snapshot[t][p] \in Contents
      BY <1>16, <1>0 DEF RestoreFile, TypeInv, TypeOK, Tree
    <2>2. project' \in Tree /\ raced' \in [Calls -> BOOLEAN]
      BY <1>16, <2>1, WriteProjectType DEF RestoreFile, p, t
    <2> DEFINE rec == [local[c] EXCEPT !.accepted = @ \ {p}]
    <2>3. rec \in Manifest
      BY <1>0, <2>1 DEF Manifest
    <2>4. local' = [local EXCEPT ![c] = rec]
      BY <1>16 DEF RestoreFile, TypeInv, TypeOK, p
    <2> HIDE DEF rec
    <2>5. local' \in [Calls -> Manifest]
      BY <2>3, <2>4 DEF TypeInv, TypeOK
    <2>6. AtFileHasFile'
      BY <1>16, <1>h DEF RestoreFile, AtFileHasFile, AtFile, TypeInv
    <2> QED
      BY <1>16, <1>h, <2>2, <2>5, <2>6 DEF RestoreFile, TypeInv, TypeOK
  <1>17. CASE MergeLockWriteFails(c)
    BY <1>17, <1>0, <1>k, EndType DEF MergeLockWriteFails, Final, t
  <1>18. CASE PathLockWriteFails(c)
    <2>1. p \in Paths /\ PathLock(p) \in Locks
      BY <1>18, <1>0, <1>f DEF PathLockWriteFails, AtFile
    <2>2. locks' \subseteq Locks /\ orphaned' \subseteq locks'
      BY <1>18, <1>k, <2>1 DEF PathLockWriteFails, p
    <2> QED
      BY <1>18, <1>k, <2>2, EndType DEF PathLockWriteFails, Final
  <1>19. CASE ErrorReturn(c)
    BY <1>19, <1>k, EndType, RemoveType DEF ErrorReturn, Final
  <1>20. CASE Crash(c)
    BY <1>20, <1>k, EndType DEF Crash, Final
  <1> QED
    BY <1>1, <1>2, <1>3, <1>4, <1>5, <1>6, <1>7, <1>8, <1>9, <1>10, <1>11,
       <1>12, <1>13, <1>14, <1>15, <1>16, <1>17, <1>18, <1>19, <1>20
       DEF Step, Fault

LEMMA NextType ==
    ASSUME TypeInv, [Next]_vars
    PROVE  TypeInv'
  <1>1. CASE UNCHANGED vars
    BY <1>1 DEF vars, disk, history, TypeInv, TypeOK, AtFileHasFile
  <1>2. ASSUME NEW p \in Paths, NEW v \in Contents, UserEdit(p, v)
        PROVE  TypeInv'
    <2>1. project' \in Tree /\ raced' \in [Calls -> BOOLEAN]
      BY <1>2, WriteProjectType DEF UserEdit
    <2>2. edits' \in 0..MaxEdits
      BY <1>2 DEF UserEdit, TypeInv, TypeOK
    <2> QED
      BY <1>2, <2>1, <2>2 DEF UserEdit, TypeInv, TypeOK, AtFileHasFile
  <1>3. ASSUME NEW t \in Tasks, NEW p \in Paths, NEW v \in Contents,
               AgentEdit(t, p, v)
        PROVE  TypeInv'
    <2>1. workspace' \in [Tasks -> Tree]
      BY <1>3 DEF AgentEdit, TypeInv, TypeOK, Tree
    <2>2. edits' \in 0..MaxEdits
      BY <1>3 DEF AgentEdit, TypeInv, TypeOK
    <2> QED
      BY <1>3, <2>1, <2>2 DEF AgentEdit, history, TypeInv, TypeOK, AtFileHasFile
  <1> QED
    BY <1>1, <1>2, <1>3, StartType, StepType DEF Next

\* Type correctness of merge and rollback: in particular both loops only
\* come to files of their selection.
THEOREM TypeCorrect == Spec => []TypeOK
  <1>1. Init => TypeInv
    BY InitType
  <1>2. TypeInv /\ [Next]_vars => TypeInv'
    BY NextType
  <1>3. TypeInv => TypeOK
    BY DEF TypeInv
  <1> QED
    BY <1>1, <1>2, <1>3, PTL DEF Spec

-----------------------------------------------------------------------------
(* The lock files                                                          *)

\* A step of a call has to account for its own locks only.
LEMMA LocksStep ==
    ASSUME LocksHaveOwners, NEW c \in Calls,
           \A d \in Calls \ {c} : stage'[d] = stage[d] /\ todo'[d] = todo[d],
           \A l \in locks' \ orphaned' :
               \/ l \in locks \ orphaned /\ l \notin Guards(c)
               \/ l \in Guards(c)'
    PROVE  LocksHaveOwners'
  <1> SUFFICES ASSUME NEW l \in locks' \ orphaned'
               PROVE  \E d \in Calls : l \in Guards(d)'
    BY DEF LocksHaveOwners
  <1>1. CASE l \in Guards(c)'
    BY <1>1
  <1>2. CASE l \in locks \ orphaned /\ l \notin Guards(c)
    <2>1. PICK d \in Calls : l \in Guards(d)
      BY <1>2 DEF LocksHaveOwners
    <2>2. d # c
      BY <1>2, <2>1
    <2>3. Guards(d)' = Guards(d)
      BY <2>2 DEF Guards, HoldsMergeLock, HoldsPathLock, Current
    <2> QED
      BY <2>1, <2>3
  <1> QED
    BY <1>1, <1>2

\* What is left after the guards have tried to remove L.
LEMMA Removed ==
    ASSUME NEW L, Remove(L)
    PROVE  \A l \in locks' \ orphaned' : l \in locks \ orphaned /\ l \notin L
  BY DEF Remove

\* The stage of the call is all that decides which locks it holds, as long
\* as it stays at its file.
LEMMA GuardsByStage ==
    ASSUME NEW c \in Calls, NEW l
    PROVE  /\ l \in Guards(c) <=>
                \/ l = MergeLock(TaskOf[c])
                   /\ stage[c] \in { "checking", "applying", "pathTested",
                                     "pathLocked", "saved", "copied", "written" }
                \/ l = PathLock(Current(c))
                   /\ stage[c] \in {"pathLocked", "saved", "copied"}
           /\ l \in Guards(c)' <=>
                \/ l = MergeLock(TaskOf[c])
                   /\ stage'[c] \in { "checking", "applying", "pathTested",
                                      "pathLocked", "saved", "copied", "written" }
                \/ l = PathLock(Current(c)')
                   /\ stage'[c] \in {"pathLocked", "saved", "copied"}
  <1>1. l \in Guards(c) <=>
                \/ l = MergeLock(TaskOf[c])
                   /\ stage[c] \in { "checking", "applying", "pathTested",
                                     "pathLocked", "saved", "copied", "written" }
                \/ l = PathLock(Current(c))
                   /\ stage[c] \in {"pathLocked", "saved", "copied"}
    BY DEF Guards, HoldsMergeLock, HoldsPathLock
  <1>2. l \in Guards(c)' <=>
                \/ l = MergeLock(TaskOf[c])
                   /\ stage'[c] \in { "checking", "applying", "pathTested",
                                      "pathLocked", "saved", "copied", "written" }
                \/ l = PathLock(Current(c)')
                   /\ stage'[c] \in {"pathLocked", "saved", "copied"}
    BY DEF Guards, HoldsMergeLock, HoldsPathLock, MergeLock, PathLock
  <1> QED
    BY <1>1, <1>2

\* A call moves itself only.
LEMMA StepMoves ==
    ASSUME TypeInv, NEW c \in Calls, Step(c) \/ Fault(c)
    PROVE  \A d \in Calls \ {c} :
               /\ stage'[d] = stage[d] /\ todo'[d] = todo[d]
               /\ local'[d] = local[d] /\ selected'[d] = selected[d]
  <1> USE DEF Goto, End, Handled, memory, TypeInv, TypeOK
  <1>1. CASE \/ TestMergeLock(c) \/ CreateMergeLock(c) \/ CheckFile(c)
             \/ CheckFails(c) \/ StartApplying(c)
    BY <1>1 DEF TestMergeLock, CreateMergeLock, CheckFile, CheckFails,
                StartApplying
  <1>2. CASE \/ TestPathLock(c) \/ CreatePathLock(c) \/ SaveFile(c)
             \/ CopyFile(c) \/ RecordFile(c)
    BY <1>2 DEF TestPathLock, CreatePathLock, SaveFile, CopyFile, RecordFile
  <1>3. CASE \/ WriteManifest(c) \/ DropMergeLock(c) \/ RollbackCheckFile(c)
             \/ RollbackCheckFails(c) \/ StartRestoring(c) \/ RestoreFile(c)
    BY <1>3 DEF WriteManifest, DropMergeLock, RollbackCheckFile,
                RollbackCheckFails, StartRestoring, RestoreFile
  <1>4. CASE Fault(c)
    BY <1>4 DEF Fault, MergeLockWriteFails, PathLockWriteFails, ErrorReturn, Crash
  <1> QED
    BY <1>1, <1>2, <1>3, <1>4 DEF Step

LEMMA StartMoves ==
    ASSUME TypeInv, NEW c \in Calls, NEW sel \in SUBSET Paths,
           StartMerge(c, sel) \/ StartRollback(c, sel)
    PROVE  /\ stage[c] = "idle"
           /\ \A d \in Calls \ {c} :
               /\ stage'[d] = stage[d] /\ todo'[d] = todo[d]
               /\ local'[d] = local[d] /\ selected'[d] = selected[d]
  BY DEF StartMerge, StartRollback, Goto, End, TypeInv, TypeOK

LEMMA NextStages ==
    ASSUME TypeInv, StagesOfMerge, [Next]_vars
    PROVE  StagesOfMerge'
  <1> USE DEF Goto, End, TypeInv, TypeOK, StagesOfMerge, MergeStages, AtFile
  <1>1. ASSUME NEW c \in Calls, NEW sel \in SUBSET Paths,
               StartMerge(c, sel) \/ StartRollback(c, sel)
        PROVE  StagesOfMerge'
    BY <1>1 DEF StartMerge, StartRollback
  <1>2. ASSUME NEW c \in Calls, Step(c) \/ Fault(c)
        PROVE  StagesOfMerge'
    <2>1. \A d \in Calls \ {c} : stage'[d] = stage[d]
      BY <1>2, StepMoves
    <2>2. stage'[c] \in MergeStages => stage[c] \in MergeStages \/ KindOf[c] = "merge"
      BY <1>2 DEF Step, TestMergeLock, CreateMergeLock, CheckFile, CheckFails,
         StartApplying, TestPathLock, CreatePathLock, SaveFile, CopyFile,
         RecordFile, WriteManifest, DropMergeLock, RollbackCheckFile,
         RollbackCheckFails, StartRestoring, RestoreFile, Fault,
         MergeLockWriteFails, PathLockWriteFails, ErrorReturn, Crash
    <2> QED
      BY <2>1, <2>2
  <1>3. CASE UNCHANGED stage
    BY <1>3
  <1> QED
    BY <1>1, <1>2, <1>3 DEF Next, UserEdit, AgentEdit, vars

\* Every step of a call keeps the locks it still holds and removes, or leaves
\* as orphans, those it holds no longer.
LEMMA StepLocks ==
    ASSUME TypeInv, StagesOfMerge, LocksHaveOwners, NEW c \in Calls,
           Step(c) \/ Fault(c)
    PROVE  LocksHaveOwners'
  <1> USE DEF disk, history, memory, Goto
  <1> SUFFICES ASSUME NEW l \in locks' \ orphaned'
               PROVE  \/ l \in locks \ orphaned /\ l \notin Guards(c)
                      \/ l \in Guards(c)'
    BY StepMoves, LocksStep
  <1>t. stage \in [Calls -> Stage]
    BY DEF TypeInv, TypeOK
  <1>u. UNCHANGED todo => Current(c)' = Current(c)
    BY DEF Current
  <1>1. CASE TestMergeLock(c)
    BY <1>1, <1>t, GuardsByStage DEF TestMergeLock, End
  <1>2. CASE CreateMergeLock(c)
    BY <1>2, <1>t, GuardsByStage DEF CreateMergeLock
  <1>3. CASE CheckFile(c)
    BY <1>3, <1>t, GuardsByStage DEF CheckFile
  <1>4. CASE CheckFails(c) \/ DropMergeLock(c) \/ ErrorReturn(c)
    BY <1>4, Removed DEF CheckFails, DropMergeLock, ErrorReturn
  <1>5. CASE StartApplying(c)
    BY <1>5, <1>t, GuardsByStage DEF StartApplying
  <1>6. CASE TestPathLock(c)
    <2>1. CASE Remove(Guards(c))
      BY <2>1, Removed
    <2>2. CASE ~Remove(Guards(c))
      BY <1>6, <2>2, <1>t, GuardsByStage DEF TestPathLock
    <2> QED
      BY <2>1, <2>2
  <1>7. CASE CreatePathLock(c)
    BY <1>7, <1>t, <1>u, GuardsByStage DEF CreatePathLock
  <1>8. CASE SaveFile(c)
    BY <1>8, <1>t, <1>u, GuardsByStage DEF SaveFile
  <1>9. CASE CopyFile(c)
    BY <1>9, <1>t, <1>u, GuardsByStage DEF CopyFile
  <1>10. CASE RecordFile(c)
    <2>1. l \in locks \ orphaned /\ l # PathLock(Current(c))
      BY <1>10, Removed DEF RecordFile
    <2> QED
      BY <1>10, <2>1, <1>t, GuardsByStage DEF RecordFile
  <1>11. CASE WriteManifest(c)
    <2>1. stage[c] = "applying" => KindOf[c] = "merge"
      BY DEF StagesOfMerge, MergeStages
    <2> QED
      BY <1>11, <1>t, <2>1, GuardsByStage DEF WriteManifest, End
  <1>12. CASE \/ RollbackCheckFile(c) \/ RollbackCheckFails(c)
              \/ StartRestoring(c) \/ RestoreFile(c)
    BY <1>12, <1>t, GuardsByStage DEF RollbackCheckFile, RollbackCheckFails,
       StartRestoring, RestoreFile, End
  <1>13. CASE MergeLockWriteFails(c)
    BY <1>13, <1>t, GuardsByStage DEF MergeLockWriteFails, End
  <1>14. CASE PathLockWriteFails(c)
    BY <1>14 DEF PathLockWriteFails
  <1>15. CASE Crash(c)
    BY <1>15 DEF Crash
  <1> QED
    BY <1>1, <1>2, <1>3, <1>4, <1>5, <1>6, <1>7, <1>8, <1>9, <1>10, <1>11,
       <1>12, <1>13, <1>14, <1>15 DEF Step, Fault

LEMMA NextLocks ==
    ASSUME TypeInv, StagesOfMerge, LocksHaveOwners, [Next]_vars
    PROVE  LocksHaveOwners'
  <1> USE DEF disk, history
  <1>1. ASSUME NEW c \in Calls, NEW sel \in SUBSET Paths,
               StartMerge(c, sel) \/ StartRollback(c, sel)
        PROVE  LocksHaveOwners'
    <2>1. /\ stage[c] = "idle" /\ UNCHANGED << locks, orphaned >>
          /\ \A d \in Calls \ {c} : stage'[d] = stage[d] /\ todo'[d] = todo[d]
      BY <1>1, StartMoves DEF StartMerge, StartRollback
    <2>2. \A l : l \notin Guards(c)
      BY <2>1 DEF Guards, HoldsMergeLock, HoldsPathLock
    <2> QED
      BY <2>1, <2>2, LocksStep
  <1>2. CASE UNCHANGED << stage, todo, locks, orphaned >>
    BY <1>2 DEF LocksHaveOwners, Guards, HoldsMergeLock, HoldsPathLock, Current
  <1> QED
    BY <1>1, <1>2, StepLocks DEF Next, UserEdit, AgentEdit, vars

\* MergeLockGuard and PathLockGuard remove their files on every way out of
\* merge: a lock file belongs to a call at work, or its process died, or the
\* write after File::create failed, or its removal did.
THEOREM LocksAreDropped == Spec => []LocksHaveOwners
  <1> DEFINE Inv == TypeInv /\ StagesOfMerge /\ LocksHaveOwners
  <1>1. Init => Inv
    BY InitType
       DEF Init, StagesOfMerge, MergeStages, AtFile, LocksHaveOwners
  <1>2. Inv /\ [Next]_vars => Inv'
    BY NextType, NextStages, NextLocks
  <1>3. Inv => LocksHaveOwners
    OBVIOUS
  <1> QED
    BY <1>1, <1>2, <1>3, PTL DEF Spec

-----------------------------------------------------------------------------
(* Rollback                                                                *)

\* Somebody writes file p of the project: a call that has saved it and not
\* yet written it is told so, for all others the file stays what it was.
LEMMA SavedAfterWrite ==
    ASSUME TypeInv, SavedIsCurrent, NEW p \in Paths, NEW v,
           project' = [project EXCEPT ![p] = v], UNCHANGED snapshot,
           \A d \in Calls : stage'[d] = "saved" =>
               /\ stage[d] = "saved" /\ todo'[d] = todo[d]
               /\ raced'[d] = (raced[d] \/ d \in AboutToCopy(p))
    PROVE  SavedIsCurrent'
  <1> SUFFICES ASSUME NEW d \in Calls, stage'[d] = "saved", ~raced'[d]
               PROVE  snapshot[TaskOf[d]][Current(d)'] = project'[Current(d)']
    BY DEF SavedIsCurrent
  <1>1. stage[d] = "saved" /\ ~raced[d] /\ d \notin AboutToCopy(p)
    OBVIOUS
  <1>2. Current(d)' = Current(d) /\ Current(d) # p
    BY <1>1 DEF Current, AboutToCopy
  <1>3. Current(d) \in Paths
    BY <1>1, CurrentInTodo DEF TypeInv, TypeOK, AtFileHasFile, AtFile
  <1>4. project'[Current(d)] = project[Current(d)]
    BY <1>2, <1>3 DEF TypeInv, TypeOK, Tree
  <1> QED
    BY <1>1, <1>2, <1>4 DEF SavedIsCurrent

\* Steps that write neither the project nor a snapshot.
LEMMA SavedKept ==
    ASSUME SavedIsCurrent, UNCHANGED << project, snapshot >>,
           \A d \in Calls : stage'[d] = "saved" =>
               /\ stage[d] = "saved" /\ todo'[d] = todo[d]
               /\ raced'[d] = raced[d]
    PROVE  SavedIsCurrent'
  BY DEF SavedIsCurrent, Current

\* A step of c touches its own task only, and as long as the calls of the
\* task have not overlapped no other call of the task is at work: it has to
\* account for c and for the manifest of its task.
LEMMA UndoFrame ==
    ASSUME TypeInv, UndoInv, NEW c \in Calls,
           StagesOfMerge', SavedIsCurrent',
           \A d \in Calls \ {c} :
               /\ stage'[d] = stage[d] /\ todo'[d] = todo[d]
               /\ local'[d] = local[d] /\ selected'[d] = selected[d],
           \A t \in Tasks \ {TaskOf[c]} :
               /\ snapshot'[t] = snapshot[t] /\ overwritten'[t] = overwritten[t]
               /\ manifest'[t] = manifest[t] /\ overlapped'[t] = overlapped[t],
           overlapped[TaskOf[c]] => overlapped'[TaskOf[c]],
           ~overlapped'[TaskOf[c]] =>
               \A d \in Calls \ {c} : TaskOf[d] = TaskOf[c] => ~AtWork(d),
           MarkedEntries(c)', CallIsUndoable(c)', OfferIsUndoable(TaskOf[c])'
    PROVE  UndoInv'
  <1>1. \A d \in Calls \ {c} : AtWork(d)' <=> AtWork(d)
    BY DEF AtWork
  <1>2. OneAtATime'
    <2> SUFFICES ASSUME NEW d \in Calls, NEW e \in Calls, TaskOf[d] = TaskOf[e],
                        AtWork(d)', AtWork(e)', ~overlapped'[TaskOf[d]], d # e
                 PROVE  FALSE
      BY DEF OneAtATime
    <2>1. CASE d = c \/ e = c
      BY <1>1, <2>1
    <2>2. CASE d # c /\ e # c
      <3>1. AtWork(d) /\ AtWork(e)
        BY <1>1, <2>2
      <3>2. ~overlapped[TaskOf[d]]
        OBVIOUS
      <3> QED
        BY <3>1, <3>2 DEF UndoInv, OneAtATime
    <2> QED
      BY <2>1, <2>2
  <1>3. ASSUME NEW d \in Calls, d # c
        PROVE  MarkedEntries(d)'
    BY <1>3 DEF UndoInv, MarkedEntries
  <1>4. ASSUME NEW d \in Calls, d # c
        PROVE  CallIsUndoable(d)'
    <2> SUFFICES ASSUME AtWork(d)', ~overlapped'[TaskOf[d]]
                 PROVE  CallIsUndoable(d)'
      BY DEF CallIsUndoable
    <2>1. AtWork(d)
      BY <1>1, <1>4
    <2>2. TaskOf[d] # TaskOf[c]
      BY <1>4, <2>1
    <2>3. TaskOf[d] \in Tasks \ {TaskOf[c]}
      BY <2>2
    <2>4. /\ stage'[d] = stage[d] /\ local'[d] = local[d]
          /\ Current(d)' = Current(d)
      BY <1>4 DEF Current
    <2>5. \A p : Undoable(TaskOf[d], p)' <=> Undoable(TaskOf[d], p)
      BY <2>3 DEF Undoable
    <2>6. CallIsUndoable(d) /\ ~overlapped[TaskOf[d]]
      BY <2>3 DEF UndoInv
    <2>7. manifest'[TaskOf[d]] = manifest[TaskOf[d]]
      BY <2>3
    <2>8. Undoable(TaskOf[d], Current(d))' <=> Undoable(TaskOf[d], Current(d))
      BY <2>3, <2>4 DEF Undoable
    <2> QED
      BY <2>1, <2>4, <2>5, <2>6, <2>7, <2>8 DEF CallIsUndoable
  <1>5. ASSUME NEW t \in Tasks, t # TaskOf[c]
        PROVE  OfferIsUndoable(t)'
    BY <1>5 DEF UndoInv, OfferIsUndoable, Undoable
  <1> QED
    BY <1>2, <1>3, <1>4, <1>5 DEF UndoInv

\* A call that is at work is the only one of its task.
LEMMA Alone ==
    ASSUME UndoInv, NEW c \in Calls, AtWork(c), ~overlapped[TaskOf[c]]
    PROVE  \A d \in Calls \ {c} : TaskOf[d] = TaskOf[c] => ~AtWork(d)
  BY DEF UndoInv, OneAtATime

\* The steps of c that write neither the project nor a snapshot and leave
\* the call at work.
LEMMA PlainUndo ==
    ASSUME TypeInv, UndoInv, StagesOfMerge', NEW c \in Calls, AtWork(c),
           Step(c), UNCHANGED << project, snapshot, raced, overwritten, overlapped >>,
           UNCHANGED manifest \/ manifest' = [manifest EXCEPT ![TaskOf[c]] = local[c]],
           stage'[c] # "saved",
           MarkedEntries(c)',
           stage'[c] \in MergeStages \ {"written"} =>
               /\ UNCHANGED manifest
               /\ stage[c] \in MergeStages \ {"written"},
           stage'[c] = "copied" => FALSE,
           \A p \in local'[c].accepted :
               p \in local[c].accepted \/ (stage[c] = "copied" /\ p = Current(c))
    PROVE  UndoInv'
  <1>1. \A d \in Calls \ {c} :
           /\ stage'[d] = stage[d] /\ todo'[d] = todo[d]
           /\ local'[d] = local[d] /\ selected'[d] = selected[d]
    BY StepMoves
  <1>2. SavedIsCurrent'
    BY <1>1, SavedKept DEF UndoInv
  <1>3. TaskOf[c] \in Tasks /\ \A t \in Tasks \ {TaskOf[c]} : manifest'[t] = manifest[t]
    BY DEF TypeInv, TypeOK
  <1>4. \A t, p : Undoable(t, p)' <=> Undoable(t, p)
    BY DEF Undoable
  <1>5. CallIsUndoable(c) /\ OfferIsUndoable(TaskOf[c])
    BY <1>3 DEF UndoInv
  <1>6. CallIsUndoable(c)'
    <2> SUFFICES ASSUME ~overlapped[TaskOf[c]]
                 PROVE
          /\ stage'[c] \in MergeStages \ {"written"} => manifest'[TaskOf[c]].accepted = {}
          /\ \A p \in local'[c].accepted : Undoable(TaskOf[c], p)'
          /\ stage'[c] = "copied" => Undoable(TaskOf[c], Current(c))'
      BY DEF CallIsUndoable
    <2> QED
      BY <1>4, <1>5 DEF CallIsUndoable
  <1>7. OfferIsUndoable(TaskOf[c])'
    <2> SUFFICES ASSUME ~overlapped[TaskOf[c]], NEW p \in manifest'[TaskOf[c]].accepted
                 PROVE  Undoable(TaskOf[c], p)
      BY <1>4 DEF OfferIsUndoable
    <2>1. manifest'[TaskOf[c]] = manifest[TaskOf[c]] \/ manifest'[TaskOf[c]] = local[c]
      BY <1>3 DEF TypeInv, TypeOK
    <2> QED
      BY <1>5, <2>1 DEF CallIsUndoable, OfferIsUndoable
  <1> QED
    BY <1>1, <1>2, <1>3, <1>6, <1>7, Alone, UndoFrame

\* A call that ends leaves the manifest as it is or writes its own.
LEMMA EndUndo ==
    ASSUME TypeInv, UndoInv, StagesOfMerge', NEW c \in Calls, AtWork(c),
           Step(c) \/ Fault(c), NEW s \in Final, End(c, s),
           UNCHANGED << project, snapshot, overwritten, overlapped >>,
           UNCHANGED manifest \/ manifest' = [manifest EXCEPT ![TaskOf[c]] = local[c]]
    PROVE  UndoInv'
  <1>1. \A d \in Calls \ {c} :
           /\ stage'[d] = stage[d] /\ todo'[d] = todo[d]
           /\ local'[d] = local[d] /\ selected'[d] = selected[d]
           /\ raced'[d] = raced[d]
    BY StepMoves DEF End, TypeInv, TypeOK
  <1>2. stage'[c] = s /\ stage'[c] \notin MergeStages \cup {"rbChecking", "rbRestoring"}
    BY DEF End, Goto, Final, MergeStages, AtFile, TypeInv, TypeOK
  <1>3. SavedIsCurrent'
    <2>1. stage'[c] # "saved"
      BY <1>2 DEF MergeStages, AtFile
    <2> QED
      BY <1>1, <2>1, SavedKept DEF UndoInv
  <1>4. TaskOf[c] \in Tasks /\ \A t \in Tasks \ {TaskOf[c]} : manifest'[t] = manifest[t]
    BY DEF TypeInv, TypeOK
  <1>5. MarkedEntries(c)' /\ CallIsUndoable(c)'
    <2>1. ~AtWork(c)'
      BY <1>2 DEF AtWork
    <2> QED
      BY <1>2, <2>1 DEF MarkedEntries, CallIsUndoable, MergeStages, AtFile
  <1>6. OfferIsUndoable(TaskOf[c])'
    <2> SUFFICES ASSUME ~overlapped[TaskOf[c]], NEW p \in manifest'[TaskOf[c]].accepted
                 PROVE  Undoable(TaskOf[c], p)
      BY DEF OfferIsUndoable, Undoable
    <2>1. manifest'[TaskOf[c]] = manifest[TaskOf[c]] \/ manifest'[TaskOf[c]] = local[c]
      BY <1>4 DEF TypeInv, TypeOK
    <2>2. CallIsUndoable(c) /\ OfferIsUndoable(TaskOf[c])
      BY <1>4 DEF UndoInv
    <2> QED
      BY <2>1, <2>2 DEF CallIsUndoable, OfferIsUndoable
  <1> QED
    BY <1>1, <1>3, <1>4, <1>5, <1>6, Alone, UndoFrame

\* snapshot_file: nothing the manifest or the call lists as merged is saved
\* over.
LEMMA SaveFileUndo ==
    ASSUME TypeInv, UndoInv, StagesOfMerge', NEW c \in Calls, SaveFile(c)
    PROVE  UndoInv'
  <1> DEFINE t == TaskOf[c]
             p == Current(c)
  <1>1. /\ t \in Tasks /\ p \in todo[c] /\ p \in Paths
        /\ stage[c] = "pathLocked" /\ AtWork(c)
    BY CurrentInTodo DEF SaveFile, TypeInv, TypeOK, AtFileHasFile, AtFile,
                         AtWork, Final
  <1>2. /\ \A u \in Tasks, q \in Paths :
             snapshot'[u][q] = IF u = t /\ q = p THEN project[p]
                                                 ELSE snapshot[u][q]
        /\ \A u \in Tasks \ {t} : snapshot'[u] = snapshot[u]
        /\ stage' = [stage EXCEPT ![c] = "saved"]
        /\ UNCHANGED << project, todo, raced, overwritten, overlapped, local,
                        selected, manifest >>
    BY <1>1 DEF SaveFile, Goto, history, TypeInv, TypeOK, Tree
  <1>3. Current(c)' = p
    BY <1>2 DEF Current
  <1> HIDE DEF p
  <1>4. stage'[c] = "saved" /\ \A d \in Calls \ {c} : stage'[d] = stage[d]
    BY <1>2 DEF TypeInv, TypeOK
  <1>5. SavedIsCurrent'
    <2> SUFFICES ASSUME NEW d \in Calls, stage'[d] = "saved", ~raced'[d]
                 PROVE  snapshot'[TaskOf[d]][Current(d)] = project[Current(d)]
      BY <1>2 DEF SavedIsCurrent, Current
    <2>1. CASE d = c
      BY <1>1, <1>2, <2>1 DEF p
    <2>2. CASE d # c
      <3>1. stage[d] = "saved" /\ ~raced[d]
        BY <1>2, <1>4, <2>2
      <3>2. Current(d) \in Paths /\ TaskOf[d] \in Tasks
        BY <3>1, CurrentInTodo DEF TypeInv, TypeOK, AtFileHasFile, AtFile
      <3>3. snapshot[TaskOf[d]][Current(d)] = project[Current(d)]
        BY <3>1 DEF UndoInv, SavedIsCurrent
      <3> QED
        BY <1>1, <1>2, <3>2, <3>3
    <2> QED
      BY <2>1, <2>2
  <1>6. MarkedEntries(c) /\ CallIsUndoable(c) /\ OfferIsUndoable(t)
    BY <1>1 DEF UndoInv
  <1>7. MarkedEntries(c)'
    BY <1>1, <1>2, <1>4, <1>6 DEF MarkedEntries, AtFile
  <1>8. local[c].accepted \subseteq Paths /\ p \notin local[c].accepted
    BY <1>1, <1>6 DEF MarkedEntries, AtFile, TypeInv, TypeOK, Manifest
  <1>9. ~overlapped[t] => manifest[t].accepted = {}
    BY <1>1, <1>6 DEF CallIsUndoable, MergeStages, AtFile
  <1>10. \A q \in local[c].accepted : Undoable(t, q) => Undoable(t, q)'
    BY <1>1, <1>2, <1>8 DEF Undoable
  <1>11. CallIsUndoable(c)'
    BY <1>1, <1>2, <1>4, <1>6, <1>9, <1>10 DEF CallIsUndoable
  <1>12. OfferIsUndoable(t)'
    BY <1>2, <1>9 DEF OfferIsUndoable
  <1> QED
    BY <1>1, <1>2, <1>4, <1>5, <1>7, <1>11, <1>12, Alone, UndoFrame

\* copy_file_or_remove: what it overwrites is what was saved.
LEMMA CopyFileUndo ==
    ASSUME TypeInv, UndoInv, StagesOfMerge', NEW c \in Calls, CopyFile(c)
    PROVE  UndoInv'
  <1> DEFINE t == TaskOf[c]
             p == Current(c)
  <1>1. /\ t \in Tasks /\ p \in todo[c] /\ p \in Paths
        /\ stage[c] = "saved" /\ AtWork(c)
    BY CurrentInTodo DEF CopyFile, TypeInv, TypeOK, AtFileHasFile, AtFile,
                         AtWork, Final
  <1>2. /\ project' = [project EXCEPT ![p] = workspace[t][p]]
        /\ \A u \in Tasks, q \in Paths :
             overwritten'[u][q] = IF u = t /\ q = p
                                  THEN IF raced[c] THEN None ELSE project[p]
                                  ELSE overwritten[u][q]
        /\ \A u \in Tasks \ {t} : overwritten'[u] = overwritten[u]
        /\ \A d \in Calls : raced'[d] = (d # c /\ (raced[d] \/ d \in AboutToCopy(p)))
        /\ stage' = [stage EXCEPT ![c] = "copied"]
        /\ UNCHANGED << snapshot, todo, local, selected, manifest, overlapped >>
    BY <1>1 DEF CopyFile, Goto, TypeInv, TypeOK
  <1>3. Current(c)' = p
    BY <1>2 DEF Current
  <1> HIDE DEF p
  <1>4. stage'[c] = "copied" /\ \A d \in Calls \ {c} : stage'[d] = stage[d]
    BY <1>2 DEF TypeInv, TypeOK
  <1>5. SavedIsCurrent'
    <2>1. \A d \in Calls : stage'[d] = "saved" => d # c /\ stage[d] = "saved"
      BY <1>4
    <2> QED
      BY <1>1, <1>2, <2>1, SavedAfterWrite DEF UndoInv
  <1>6. MarkedEntries(c) /\ CallIsUndoable(c) /\ OfferIsUndoable(t)
    BY <1>1 DEF UndoInv
  <1>7. MarkedEntries(c)'
    BY <1>1, <1>2, <1>4, <1>6 DEF MarkedEntries, AtFile
  <1>8. local[c].accepted \subseteq Paths /\ p \notin local[c].accepted
    BY <1>1, <1>6 DEF MarkedEntries, AtFile, TypeInv, TypeOK, Manifest
  <1>9. ~overlapped[t] => manifest[t].accepted = {}
    BY <1>1, <1>6 DEF CallIsUndoable, MergeStages, AtFile
  <1>10. \A q \in local[c].accepted : Undoable(t, q) => Undoable(t, q)'
    BY <1>1, <1>2, <1>8 DEF Undoable
  <1>11. Undoable(t, Current(c))'
    <2>1. ~raced[c] => project[p] = snapshot[t][p]
      BY <1>1 DEF UndoInv, SavedIsCurrent, p
    <2> QED
      BY <1>1, <1>2, <1>3, <2>1 DEF Undoable
  <1>12. CallIsUndoable(c)'
    BY <1>1, <1>2, <1>4, <1>6, <1>9, <1>10, <1>11 DEF CallIsUndoable
  <1>13. OfferIsUndoable(t)'
    BY <1>2, <1>9 DEF OfferIsUndoable
  <1> QED
    BY <1>1, <1>2, <1>4, <1>5, <1>7, <1>12, <1>13, Alone, UndoFrame

\* The entry is recorded and the loop goes on: the file is behind it.
LEMMA RecordFileUndo ==
    ASSUME TypeInv, UndoInv, StagesOfMerge', NEW c \in Calls, RecordFile(c)
    PROVE  UndoInv'
  <1> DEFINE p == Current(c)
  <1>1. /\ stage[c] = "copied" /\ stage'[c] = "applying"
        /\ todo'[c] = todo[c] \ {p}
        /\ UNCHANGED << project, snapshot, raced, overwritten, overlapped, manifest >>
    BY DEF RecordFile, Goto, Handled, TypeInv, TypeOK
  <1>2. local'[c].accepted = local[c].accepted \cup {p}
    BY DEF RecordFile, TypeInv, TypeOK, Manifest
  <1>3. AtWork(c) /\ Step(c)
    BY <1>1 DEF AtWork, Final, Step
  <1>4. MarkedEntries(c)'
    <2>1. local[c].accepted \cap todo[c] = {}
      BY <1>1 DEF UndoInv, MarkedEntries, AtFile
    <2> HIDE DEF p
    <2> QED
      BY <1>1, <1>2, <2>1 DEF MarkedEntries, AtFile
  <1> QED
    BY <1>1, <1>2, <1>3, <1>4, PlainUndo DEF MergeStages, AtFile

\* restore_snapshot writes the project and takes the file from the list.
LEMMA RestoreFileUndo ==
    ASSUME TypeInv, UndoInv, StagesOfMerge', NEW c \in Calls, RestoreFile(c)
    PROVE  UndoInv'
  <1> DEFINE t == TaskOf[c]
             p == Current(c)
  <1>1. /\ t \in Tasks /\ p \in Paths /\ stage[c] = "rbRestoring" /\ AtWork(c)
    BY CurrentInTodo DEF RestoreFile, TypeInv, TypeOK, AtWork, Final
  <1>2. /\ WriteProject(p, snapshot[t][p])
        /\ todo'[c] = todo[c] \ {p}
        /\ UNCHANGED << snapshot, stage, manifest, overwritten, overlapped >>
    BY <1>1 DEF RestoreFile, Handled, TypeInv, TypeOK
  <1>3. local'[c].accepted = local[c].accepted \ {p}
    BY DEF RestoreFile, TypeInv, TypeOK, Manifest
  <1>4. \A d \in Calls \ {c} :
           /\ stage'[d] = stage[d] /\ todo'[d] = todo[d]
           /\ local'[d] = local[d] /\ selected'[d] = selected[d]
    BY StepMoves DEF Step
  <1> HIDE DEF p
  <1>5. SavedIsCurrent'
    BY <1>1, <1>2, <1>4, SavedAfterWrite DEF UndoInv, WriteProject
  <1>6. MarkedEntries(c) /\ CallIsUndoable(c) /\ OfferIsUndoable(t)
    BY <1>1 DEF UndoInv
  <1>7. MarkedEntries(c)'
    BY <1>1, <1>2, <1>3, <1>6 DEF MarkedEntries, AtFile
  <1>8. CallIsUndoable(c)' /\ OfferIsUndoable(t)'
    BY <1>1, <1>2, <1>3, <1>6
       DEF CallIsUndoable, OfferIsUndoable, Undoable, MergeStages, AtFile
  <1> QED
    BY <1>1, <1>2, <1>4, <1>5, <1>7, <1>8, Alone, UndoFrame

\* merge starts with a manifest that offers nothing, rollback with the one
\* on disk.
LEMMA StartUndo ==
    ASSUME TypeInv, UndoInv, StagesOfMerge', NEW c \in Calls,
           NEW sel \in SUBSET Paths, StartMerge(c, sel) \/ StartRollback(c, sel)
    PROVE  UndoInv'
  <1> DEFINE t == TaskOf[c]
  <1>1. /\ t \in Tasks /\ stage[c] = "idle" /\ ~AtWork(c)
        /\ \A d \in Calls \ {c} :
               /\ stage'[d] = stage[d] /\ todo'[d] = todo[d]
               /\ local'[d] = local[d] /\ selected'[d] = selected[d]
    BY StartMoves DEF AtWork
  <1>2. /\ overlapped[t] => overlapped'[t]
        /\ ~overlapped'[t] => \A d \in Calls : TaskOf[d] = t => ~AtWork(d)
        /\ \A u \in Tasks \ {t} : overlapped'[u] = overlapped[u]
    BY <1>1 DEF StartMerge, StartRollback, MarkOverlap, TypeInv, TypeOK
  <1>3. /\ UNCHANGED << project, snapshot, overwritten >>
        /\ \A d \in Calls \ {c} : raced'[d] = raced[d]
        /\ stage'[c] \in {"refreshed", "rbChecking", "failed"}
    BY DEF StartMerge, StartRollback, End, Goto, disk, TypeInv, TypeOK
  <1>4. SavedIsCurrent'
    BY <1>1, <1>3, SavedKept DEF UndoInv
  <1>5. \A u, q : Undoable(u, q)' <=> Undoable(u, q)
    BY <1>3 DEF Undoable
  <1>6. CASE StartMerge(c, sel)
    <2>1. Refreshed(t).accepted = {}
      BY DEF Refreshed
    <2>2. /\ manifest'[t].accepted = {} /\ local'[c].accepted = {}
          /\ \A u \in Tasks \ {t} : manifest'[u] = manifest[u]
          /\ stage'[c] = "refreshed"
      BY <1>1, <1>6, <2>1 DEF StartMerge, Goto, TypeInv, TypeOK
    <2>3. MarkedEntries(c)' /\ CallIsUndoable(c)' /\ OfferIsUndoable(t)'
      BY <2>2 DEF MarkedEntries, CallIsUndoable, OfferIsUndoable, AtFile
    <2> QED
      BY <1>1, <1>2, <1>3, <1>4, <2>2, <2>3, UndoFrame
  <1>7. CASE StartRollback(c, sel) /\ manifest[t].accepted \cap sel = {}
    <2>1. UNCHANGED manifest /\ stage'[c] = "failed" /\ ~AtWork(c)'
      BY <1>7 DEF StartRollback, End, Goto, disk, TypeInv, TypeOK, AtWork, Final
    <2>2. MarkedEntries(c)' /\ CallIsUndoable(c)'
      BY <2>1 DEF MarkedEntries, CallIsUndoable, AtFile
    <2>3. OfferIsUndoable(t)'
      BY <1>1, <1>2, <1>5, <2>1 DEF UndoInv, OfferIsUndoable
    <2> QED
      BY <1>1, <1>2, <1>3, <1>4, <2>1, <2>2, <2>3, UndoFrame
  <1>8. CASE StartRollback(c, sel) /\ manifest[t].accepted \cap sel # {}
    <2>1. /\ UNCHANGED manifest /\ stage'[c] = "rbChecking"
          /\ local'[c] = manifest[t]
          /\ selected'[c] = manifest[t].accepted \cap sel
      BY <1>8 DEF StartRollback, Goto, disk, TypeInv, TypeOK
    <2>2. MarkedEntries(c)'
      BY <2>1 DEF MarkedEntries, AtFile
    <2>3. OfferIsUndoable(t)'
      BY <1>1, <1>2, <1>5, <2>1 DEF UndoInv, OfferIsUndoable
    <2>4. CallIsUndoable(c)'
      BY <2>1, <2>3 DEF OfferIsUndoable, CallIsUndoable, MergeStages, AtFile
    <2> QED
      BY <1>1, <1>2, <1>3, <1>4, <2>1, <2>2, <2>3, <2>4, UndoFrame
  <1> QED
    BY <1>6, <1>7, <1>8

LEMMA NextUndo ==
    ASSUME TypeInv, UndoInv, [Next]_vars
    PROVE  UndoInv'
  <1> USE DEF disk, history, memory
  <1>0. StagesOfMerge'
    BY NextStages DEF UndoInv
  <1>t. stage \in [Calls -> Stage] /\ todo \in [Calls -> SUBSET Paths]
    BY DEF TypeInv, TypeOK
  <1>1. ASSUME NEW c \in Calls,
               \/ CheckFails(c) \/ DropMergeLock(c) \/ RollbackCheckFails(c)
               \/ MergeLockWriteFails(c) \/ PathLockWriteFails(c)
               \/ ErrorReturn(c) \/ Crash(c)
        PROVE  UndoInv'
    <2>1. AtWork(c) /\ (Step(c) \/ Fault(c))
      BY <1>1 DEF AtWork, Final, Step, Fault, CheckFails, DropMergeLock,
                  RollbackCheckFails, MergeLockWriteFails, PathLockWriteFails,
                  ErrorReturn, Crash
    <2>2. PICK s \in Final : End(c, s)
      BY <1>1 DEF Final, CheckFails, DropMergeLock,
                  RollbackCheckFails, MergeLockWriteFails, PathLockWriteFails,
                  ErrorReturn, Crash
    <2>3. /\ UNCHANGED << project, snapshot, overwritten, overlapped >>
          /\ UNCHANGED manifest \/ manifest' = [manifest EXCEPT ![TaskOf[c]] = local[c]]
      BY <1>1 DEF CheckFails, DropMergeLock,
                  RollbackCheckFails, MergeLockWriteFails, PathLockWriteFails,
                  ErrorReturn, Crash
    <2> QED
      BY <1>0, <2>1, <2>2, <2>3, EndUndo
  <1>2. ASSUME NEW c \in Calls, TestMergeLock(c) \/ TestPathLock(c)
        PROVE  UndoInv'
    <2>1. AtWork(c) /\ Step(c)
      BY <1>2 DEF AtWork, Final, Step, TestMergeLock, TestPathLock
    <2>2. UNCHANGED << project, snapshot, overwritten, overlapped, manifest >>
      BY <1>2 DEF TestMergeLock, TestPathLock
    <2>3. CASE End(c, "failed")
      BY <1>0, <2>1, <2>2, <2>3, EndUndo DEF Final
    <2>4. CASE ~End(c, "failed")
      <3>1. /\ UNCHANGED memory
            /\ \/ stage[c] = "refreshed" /\ stage'[c] = "lockTested"
               \/ stage[c] = "applying" /\ stage'[c] = "pathTested"
        BY <1>2, <2>4, <1>t DEF TestMergeLock, TestPathLock, Goto
      <3>2. MarkedEntries(c)'
        BY <3>1 DEF UndoInv, MarkedEntries, AtFile
      <3> QED
        BY <1>0, <2>1, <2>2, <3>1, <3>2, PlainUndo DEF MergeStages, AtFile
    <2> QED
      BY <2>3, <2>4
  <1>3. ASSUME NEW c \in Calls,
               \/ CreateMergeLock(c) \/ CheckFile(c) \/ StartApplying(c)
               \/ CreatePathLock(c)
        PROVE  UndoInv'
    <2>1. AtWork(c) /\ Step(c)
      BY <1>3 DEF AtWork, Final, Step, CreateMergeLock, CheckFile, StartApplying,
                  CreatePathLock
    <2>2. /\ UNCHANGED << project, snapshot, overwritten, overlapped, manifest,
                          raced, local >>
          /\ \/ stage[c] = "lockTested" /\ stage'[c] = "checking"
             \/ stage[c] = "checking" /\ stage'[c] \in {"checking", "applying"}
             \/ stage[c] = "pathTested" /\ stage'[c] = "pathLocked" /\ UNCHANGED todo
      BY <1>3, <1>t DEF CreateMergeLock, CheckFile, StartApplying, CreatePathLock, Goto
    <2>3. MarkedEntries(c)'
      BY <2>2 DEF UndoInv, MarkedEntries, AtFile
    <2> QED
      BY <1>0, <2>1, <2>2, <2>3, PlainUndo DEF MergeStages, AtFile
  <1>4. ASSUME NEW c \in Calls, WriteManifest(c)
        PROVE  UndoInv'
    <2>1. AtWork(c) /\ Step(c)
      BY <1>4 DEF AtWork, Final, Step, WriteManifest
    <2>2. /\ UNCHANGED << project, snapshot, overwritten, overlapped >>
          /\ manifest' = [manifest EXCEPT ![TaskOf[c]] = local[c]]
      BY <1>4 DEF WriteManifest
    <2>3. CASE KindOf[c] = "merge"
      <3>1. stage'[c] = "written" /\ UNCHANGED memory
        BY <1>4, <2>3, <1>t DEF WriteManifest, Goto
      <3>2. MarkedEntries(c)'
        BY <3>1 DEF MarkedEntries, AtFile
      <3> QED
        BY <1>0, <2>1, <2>2, <3>1, <3>2, PlainUndo
    <2>4. CASE KindOf[c] # "merge"
      BY <1>0, <1>4, <2>1, <2>2, <2>4, EndUndo DEF WriteManifest, Final
    <2> QED
      BY <2>3, <2>4
  <1>5. ASSUME NEW c \in Calls, RollbackCheckFile(c) \/ StartRestoring(c)
        PROVE  UndoInv'
    <2>1. AtWork(c) /\ Step(c)
      BY <1>5 DEF AtWork, Final, Step, RollbackCheckFile, StartRestoring
    <2>2. /\ UNCHANGED << project, snapshot, overwritten, overlapped, manifest,
                          raced, local, selected >>
          /\ stage[c] = "rbChecking"
          /\ \/ stage'[c] = "rbChecking"
             \/ stage'[c] = "rbRestoring" /\ todo'[c] = selected[c]
      BY <1>5, <1>t DEF RollbackCheckFile, StartRestoring, Goto
    <2>3. MarkedEntries(c)'
      BY <2>2 DEF UndoInv, MarkedEntries, AtFile
    <2> QED
      BY <1>0, <2>1, <2>2, <2>3, PlainUndo DEF MergeStages, AtFile
  <1>6. ASSUME NEW p \in Paths, NEW v \in Contents, UserEdit(p, v)
        PROVE  UndoInv'
    <2>1. /\ WriteProject(p, v)
          /\ UNCHANGED << snapshot, stage, todo, local, selected, manifest,
                          overwritten, overlapped >>
      BY <1>6 DEF UserEdit
    <2>2. SavedIsCurrent'
      BY <2>1, SavedAfterWrite DEF UndoInv, WriteProject
    <2> QED
      BY <1>0, <2>1, <2>2
         DEF UndoInv, OneAtATime, AtWork, MarkedEntries, CallIsUndoable,
             OfferIsUndoable, Undoable, Current
  <1>7. CASE UNCHANGED << project, snapshot, stage, todo, local, selected,
                          manifest, raced, overwritten, overlapped >>
    BY <1>0, <1>7
       DEF UndoInv, OneAtATime, AtWork, MarkedEntries, CallIsUndoable,
           OfferIsUndoable, Undoable, SavedIsCurrent, Current
  <1> QED
    BY <1>0, <1>1, <1>2, <1>3, <1>4, <1>5, <1>6, <1>7, StartUndo, SaveFileUndo,
       CopyFileUndo, RecordFileUndo, RestoreFileUndo
       DEF Next, Step, Fault, AgentEdit, vars

\* A rollback puts back what the task's last merge of the file overwrote,
\* after any number of merges and rollbacks of any tasks, failures, crashes
\* and edits, if the calls of the task have not overlapped.
THEOREM RollbacksUndoMerges == Spec => RollbackUndoesMerge
  <1> DEFINE Inv == TypeInv /\ UndoInv
             Undoes(c) ==
                RestoreFile(c) /\ ~overlapped[TaskOf[c]] =>
                  overwritten[TaskOf[c]][Current(c)] \in {None, project'[Current(c)]}
  <1>1. Init => Inv
    <2> SUFFICES ASSUME Init
                 PROVE  UndoInv
      BY InitType
    <2>1. StagesOfMerge /\ SavedIsCurrent /\ OneAtATime
      BY DEF Init, StagesOfMerge, MergeStages, AtFile, SavedIsCurrent,
             OneAtATime, AtWork
    <2>2. \A c \in Calls : MarkedEntries(c) /\ CallIsUndoable(c)
      BY DEF Init, MarkedEntries, CallIsUndoable, AtFile, AtWork
    <2>3. \A t \in Tasks : OfferIsUndoable(t)
      BY DEF Init, EmptyManifest, OfferIsUndoable
    <2> QED
      BY <2>1, <2>2, <2>3 DEF UndoInv
  <1>2. Inv /\ [Next]_vars => Inv'
    BY NextType, NextUndo
  <1>3. Inv => \A c \in Calls : Undoes(c)
    <2> SUFFICES ASSUME Inv, NEW c \in Calls, RestoreFile(c), ~overlapped[TaskOf[c]]
                 PROVE  overwritten[TaskOf[c]][Current(c)]
                          \in {None, project'[Current(c)]}
      OBVIOUS
    <2>1. /\ Current(c) \in todo[c] /\ Current(c) \in Paths
          /\ stage[c] = "rbRestoring" /\ AtWork(c)
      BY CurrentInTodo DEF RestoreFile, TypeInv, TypeOK, AtWork, Final
    <2>2. Current(c) \in local[c].accepted
      BY <2>1 DEF UndoInv, MarkedEntries
    <2>3. Undoable(TaskOf[c], Current(c))
      BY <2>1, <2>2 DEF UndoInv, CallIsUndoable
    <2>4. project'[Current(c)] = snapshot[TaskOf[c]][Current(c)]
      BY <2>1 DEF RestoreFile, WriteProject, TypeInv, TypeOK, Tree
    <2> QED
      BY <2>3, <2>4 DEF Undoable
  <1>4. Inv => [\A c \in Calls : Undoes(c)]_vars
    BY <1>3
  <1> QED
    BY <1>1, <1>2, <1>4, PTL DEF Spec, RollbackUndoesMerge
=============================================================================
