---------------------------- MODULE MC_UrlSession ----------------------------
(* Model-checking root of UrlSession; tabs and ids are interchangeable.    *)
EXTENDS UrlSession, TLC

Interchangeable == Permutations(Tabs) \cup Permutations(Sids)
=============================================================================
