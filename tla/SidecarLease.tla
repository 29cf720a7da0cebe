----------------------------- MODULE SidecarLease -----------------------------
(***************************************************************************)
(* What every way of running FluxLit promises about its Streamlit sidecar, *)
(* whether run_unified supervises it with threads or the lifespan task of  *)
(* the unified ASGI application owns it: sidecars are started one after    *)
(* the other, never next to one that is still in use, never by a server    *)
(* that is gone, and the gateway serves only after one was started.  A     *)
(* sidecar is in use from its start until it exits or is sent SIGKILL.     *)
(***************************************************************************)
EXTENDS Naturals

VARIABLES
  live,    \* the sidecars in use, by number
  born,    \* how many have been started
  server   \* the server: "down" (not serving), "up" or "gone"

vars == <<live, born, server>>

Init == live = {} /\ born = 0 /\ server = "down"

\* A start that is given up at once leaves nothing in use.
Start ==
  /\ live = {} /\ server # "gone"
  /\ born' = born + 1
  /\ live' \in {{}, {born + 1}}
  /\ UNCHANGED server

\* The sidecar exits, or is killed by its owner.
End ==
  /\ live' = {}
  /\ UNCHANGED <<born, server>>

Serve ==
  /\ server = "down" /\ born > 0
  /\ server' = "up"
  /\ UNCHANGED <<live, born>>

Drain ==
  /\ server = "up"
  /\ server' = "down"
  /\ UNCHANGED <<live, born>>

\* The server's last step may be the signal that kills the sidecar.
Leave ==
  /\ server # "gone"
  /\ server' = "gone"
  /\ live' \in {{}, live}
  /\ UNCHANGED born

Next == Start \/ End \/ Serve \/ Drain \/ Leave

Spec == Init /\ [][Next]_vars
=============================================================================
