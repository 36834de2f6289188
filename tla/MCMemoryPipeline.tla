-------------------------- MODULE MCMemoryPipeline --------------------------
(***************************************************************************)
(* Instances of MemoryPipeline.                                            *)
(***************************************************************************)
EXTENDS MemoryPipeline, TLC
CONSTANTS t1, t2, p1, p2
Perms == Permutations(Runs)
\* The sessions of both runs have threads of their own.
OwnThreads == [p \in {p1, p2} |-> None]
\* The session of p1 resumes t2.
ResumesThread == [p \in {p1, p2} |-> IF p = p1 THEN t2 ELSE None]
=============================================================================
