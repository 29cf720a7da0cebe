-------------------------- MODULE MC_ProcessControl --------------------------
(* ProcessControl for TLC. *)
EXTENDS ProcessControl
=============================================================================
