-------------------------- MODULE MCGatewayClient --------------------------
(***************************************************************************)
(* An instance of GatewayClient for TLC.                                   *)
(***************************************************************************)
EXTENDS GatewayClient

CONSTANTS q1, q2, k1, k2, k3

MCRequests == {q1, q2}
MCSockets == {k1, k2, k3}
=============================================================================
