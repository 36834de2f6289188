--------------------------- MODULE MCRemoteDelivery ---------------------------
(***************************************************************************)
(* Instances of RemoteDelivery: streams are model values.                  *)
(***************************************************************************)
EXTENDS RemoteDelivery
CONSTANTS s1, s2
=============================================================================
