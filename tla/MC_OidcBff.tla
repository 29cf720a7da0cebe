------------------------------ MODULE MC_OidcBff ------------------------------
(* OidcBff for TLC: logins, callbacks and tabs are interchangeable. *)
EXTENDS OidcBff, TLC

Interchangeable ==
  Permutations(Logins) \cup Permutations(Callbacks) \cup Permutations(Tabs)
=============================================================================
