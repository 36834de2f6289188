---------------------------- MODULE MCTaskEngine ----------------------------
(***************************************************************************)
(* Instances of TaskEngine for TLC.  Diffs, merges and rollbacks are never *)
(* bounded; the edits of the user and the agent, and in one run the        *)
(* recovery operations, are taken from a common budget.                    *)
(***************************************************************************)
EXTENDS TaskEngine

CONSTANTS t1, t2, p1, p2, c1, c2, MaxSteps
VARIABLE steps

\* The last commit has every file at version c1.
MCHead == [p \in Paths |-> c1]

\* No two paths share a snapshot file (see SharedBlob of TaskHistory).
OwnBlobs == [p \in Paths |-> p]

Bounded(A) == A /\ steps < MaxSteps /\ steps' = steps + 1
Unbounded(A) == A /\ UNCHANGED steps

MCInit == Init /\ steps = 0
mcvars == << vars, steps >>

\* Every operation.
MCSpec ==
    MCInit /\ [][ \/ Bounded(Edits)
                  \/ Unbounded(ChangeFlow)
                  \/ Unbounded(Recovery)
                  \/ Unbounded(StatusFlow) ]_mcvars

\* Everything but the status operations; restores, forks and lost workspaces
\* take from the budget.
MCRecoverySpec ==
    MCInit /\ [][ \/ Bounded(Edits)
                  \/ Bounded(Recovery)
                  \/ Unbounded(ChangeFlow) ]_mcvars
=============================================================================
