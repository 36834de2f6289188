---------------------------- MODULE MCExecProcess ----------------------------
(***************************************************************************)
(* Instances of ExecProcess for TLC.                                       *)
(***************************************************************************)
EXTENDS ExecProcess

MCStreams == {"stdout", "stderr"}
=============================================================================
