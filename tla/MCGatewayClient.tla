-------------------------- MODULE MCGatewayClient --------------------------
(***************************************************************************)
(* Instances of GatewayClient for TLC.                                     *)
(***************************************************************************)
EXTENDS GatewayClient, TLC

Symmetry == Permutations(Sockets) \cup Permutations(Panels)
============================================================================
