---------------------------- MODULE MC_Supervisor ----------------------------
(* Model-checking root of SidecarSupervisor: the constants are set in the  *)
(* cfg files.                                                              *)
EXTENDS SidecarSupervisor
=============================================================================
