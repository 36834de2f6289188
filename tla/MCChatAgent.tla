----------------------------- MODULE MCChatAgent -----------------------------
(* Small instances of ChatAgent for TLC.                                   *)
EXTENDS ChatAgent, TLC

CONSTANTS r1, r2, h1, h2, e1, e2

OneThread == [r \in Runs |-> "thread"]
OwnFingerprint == [t \in Tools |-> t]

\* One file, edited by the tools named "edit".
EditsOnly == [t \in Tools |-> IF t = "edit" THEN "file" ELSE NoFile]

Slots == Permutations({e1, e2})
=============================================================================
