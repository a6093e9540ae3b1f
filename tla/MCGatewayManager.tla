-------------------------- MODULE MCGatewayManager --------------------------
(***************************************************************************)
(* Instances of GatewayManager for TLC.                                    *)
(***************************************************************************)
EXTENDS GatewayManager

CONSTANTS r1, r2

MCOneRequest  == {r1}
MCTwoRequests == {r1, r2}
=============================================================================
