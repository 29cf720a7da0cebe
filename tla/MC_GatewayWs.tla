------------------------------ MODULE MC_GatewayWs ------------------------------
(* GatewayWs for TLC. *)
EXTENDS GatewayWs
=============================================================================
