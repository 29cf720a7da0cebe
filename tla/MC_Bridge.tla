------------------------------ MODULE MC_Bridge ------------------------------
(* Model-checking root of LifespanBridge: the constants are in the cfg.    *)
EXTENDS LifespanBridge
=============================================================================
