--------------------------- MODULE MCMergeProtocol ---------------------------
(***************************************************************************)
(* Instances of MergeProtocol: a task that is merged twice and rolled      *)
(* back while another task merges, and the calls of one task on their own. *)
(***************************************************************************)
EXTENDS MergeProtocol

CONSTANTS c1, c2, c3, c4, t1, t2

\* c3 is a rollback, all others are merges.
OneRollback == [c \in Calls |-> IF c = c3 THEN "rollback" ELSE "merge"]
\* c4 belongs to t2, all others to t1.
OneOfOtherTask == [c \in Calls |-> IF c = c4 THEN t2 ELSE t1]
=============================================================================
