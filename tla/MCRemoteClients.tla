--------------------------- MODULE MCRemoteClients ---------------------------
(***************************************************************************)
(* Instances of RemoteClients: two streams of one client, and one stream   *)
(* of another.                                                             *)
(***************************************************************************)
EXTENDS RemoteClients
CONSTANTS c1, c2, s1, s2, s3
TwoAndOne == [s \in Streams |-> IF s = s3 THEN c2 ELSE c1]
=============================================================================
