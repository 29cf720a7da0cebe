---------------------------- MODULE LifespanBridge ----------------------------
(***************************************************************************)
(* fluxlit.runtime.lifespan_bridge.build_unified_fluxlit_asgi_app: the     *)
(* ASGI application of `uvicorn main:app`.  Its lifespan task starts the   *)
(* Streamlit sidecar and bridges the lifespan of the inner FastAPI app;    *)
(* its HTTP and WebSocket tasks guard the gateway with the sidecar's       *)
(* health.  All tasks share one event loop: a step lasts until the next    *)
(* await that can suspend.                                                 *)
(*                                                                         *)
(* External parts: the ASGI server (startup, then shutdown once no request *)
(* is in flight or a time limit cuts them, nothing after                   *)
(* lifespan.startup.failed; a signal during startup or a forced exit makes *)
(* it leave without lifespan.shutdown) and the inner FastAPI application   *)
(* (it answers startup with complete or failed, and raises after failed).  *)
(***************************************************************************)
EXTENDS Naturals, FiniteSets

CONSTANTS
  Reqs,          \* HTTP requests and WebSocket connections of one behaviour
  Mounted,       \* a public mount path is configured
  RepeatStartup, \* the server may repeat lifespan.startup once
  ApiMiddleware, \* the API has a middleware that runs its routes in a task
  InnerFails,    \* where the inner application's lifespan may fail
  StartFaults,   \* what may go wrong before the inner application starts
  ServerCuts     \* how the server may cut the lifespan protocol or requests short

ASSUME BridgeAssumption ==
  /\ IsFiniteSet(Reqs)
  /\ Mounted \in BOOLEAN /\ RepeatStartup \in BOOLEAN
  /\ ApiMiddleware \in BOOLEAN
  /\ InnerFails \subseteq {"first_slice", "later", "shutdown"}
  /\ StartFaults \subseteq {"multiworker", "popen", "tcp"}
  /\ ServerCuts \subseteq {"startup_signal", "force_exit", "grace"}

VARIABLES
  srv,       \* the ASGI server
  bridge,    \* control point of the lifespan task
  inner,     \* the inner application's lifespan task
  replies,   \* answers to lifespan.startup, in total
  reply,     \* the first of them
  repeated,  \* lifespan.startup has been repeated
  spawns,    \* sidecars started
  proc,      \* the sidecar process
  handle,    \* streamlit_proc is not None
  box,       \* upstream_url_box[0] is not empty
  client,    \* the shared httpx client of the gateway is open
  req        \* per request: kind, control point, answer

lifeVars == <<srv, bridge, inner, replies, reply, repeated>>
sideVars == <<spawns, proc, handle, box>>
vars == <<lifeVars, sideVars, client, req>>

Kinds == {"healthz", "readyz", "page", "ws"}
ReqPC == {"idle", "admitted", "probing", "upstream", "done"}
Answers == {"none", "sidecar_down", "health_ok", "ready", "not_configured",
            "not_ready", "proxied", "bad_gateway"}

InnerDone == inner \in {"failed", "finished"}

Init ==
  /\ srv = "init" /\ bridge = "receive" /\ inner = "none"
  /\ replies = 0 /\ reply = "none" /\ repeated = FALSE
  /\ spawns = 0 /\ proc = "none" /\ handle = FALSE /\ box = FALSE
  /\ client = FALSE
  /\ req \in [Reqs -> [kind : Kinds, pc : {"idle"}, answer : {"none"}]]

Reply(r) ==
  /\ replies' = replies + 1
  /\ reply' = IF replies = 0 THEN r ELSE reply

\* _terminate_process: the sidecar is gone or has been sent SIGKILL.
Terminated(p) ==
  IF p = "alive" THEN {"exited", "killed"} ELSE {p}

\* Mutant: the handle is dropped without a termination.
DropSidecarOnly ==
  /\ box' = FALSE /\ handle' = FALSE
  /\ UNCHANGED <<spawns, proc>>

\* Both halves of "there is no sidecar", after a termination when it is ours.
DropSidecar ==
  /\ box' = FALSE
  /\ proc' \in IF handle THEN Terminated(proc) ELSE {proc}
  /\ handle' = FALSE
  /\ UNCHANGED spawns

-----------------------------------------------------------------------------
(* External: the ASGI server *)

ServerSendsStartup ==
  /\ srv = "init"
  /\ srv' = "starting"
  /\ UNCHANGED <<bridge, inner, replies, reply, repeated, sideVars, client, req>>

(***************************************************************************)
(* A server that was signalled while it waited leaves after start-up       *)
(* without a shutdown; the loop cancels the lifespan task in receive,      *)
(* which is outside every try block of it.                                 *)
(***************************************************************************)
ServerSeesReply ==
  /\ srv = "starting" /\ reply # "none" /\ bridge # "sleep0"
  /\ \/ reply = "complete" /\ srv' = "serving"
     \/ reply = "complete" /\ "startup_signal" \in ServerCuts /\ srv' = "left"
     \/ reply # "complete" /\ srv' = "stopped"
  /\ UNCHANGED <<bridge, inner, replies, reply, repeated, sideVars, client, req>>

InFlight(r) == req[r].pc \notin {"idle", "done"}

\* The tasks of the requests in flight are cancelled, unanswered.
CutRequests ==
  req' = [r \in Reqs |-> IF InFlight(r) THEN [req[r] EXCEPT !.pc = "done"] ELSE req[r]]

\* Graceful drain: lifespan.shutdown follows the last response, or the end of
\* timeout_graceful_shutdown.
ServerSendsShutdown ==
  /\ srv \in {"init", "serving"}
  /\ "grace" \in ServerCuts \/ \A r \in Reqs : ~InFlight(r)
  /\ CutRequests
  /\ srv' = "stopping"
  /\ UNCHANGED <<bridge, inner, replies, reply, repeated, sideVars, client>>

\* A second Ctrl-C sets force_exit: no drain and no lifespan.shutdown.
ServerForceExits ==
  /\ srv = "serving" /\ "force_exit" \in ServerCuts
  /\ CutRequests
  /\ srv' = "left"
  /\ UNCHANGED <<bridge, inner, replies, reply, repeated, sideVars, client>>

\* Uvicorn waits for lifespan.shutdown.complete only, but the loop still runs
\* the finally block: in the same turn, or when it cancels the lifespan task.
ServerStops ==
  /\ srv = "stopping" /\ bridge = "returned"
  /\ srv' = "stopped"
  /\ UNCHANGED <<bridge, inner, replies, reply, repeated, sideVars, client, req>>

-----------------------------------------------------------------------------
(* The lifespan task *)

\* Mutants: a timed out sidecar is left running; a failure is retried, never
\* reported.
BridgeStartupFailsLeaks ==
  /\ srv = "starting" /\ bridge = "receive" /\ inner = "none"
  /\ "tcp" \in StartFaults
  /\ spawns' = spawns + 1 /\ proc' = "alive"
  /\ handle' = FALSE /\ box' = FALSE
  /\ Reply("failed")
  /\ bridge' = "returned"
  /\ UNCHANGED <<srv, inner, repeated, client, req>>

BridgeStartupFailsRetries ==
  /\ srv = "starting" /\ bridge = "receive" /\ inner = "none"
  /\ "tcp" \in StartFaults
  /\ proc' \in Terminated("alive")
  /\ UNCHANGED <<lifeVars, spawns, handle, box, client, req>>

\* The multi-worker guard, Popen or the TCP wait fails: clean up and return.
BridgeStartupFails ==
  /\ srv = "starting" /\ bridge = "receive" /\ inner = "none"
  /\ \E fault \in StartFaults :
       /\ spawns' = IF fault = "tcp" THEN spawns + 1 ELSE spawns
       /\ proc' \in IF fault = "tcp" THEN Terminated("alive") ELSE {proc}
  /\ handle' = FALSE /\ box' = FALSE
  /\ Reply("failed")
  /\ bridge' = "returned"
  /\ UNCHANGED <<srv, inner, repeated, client, req>>

\* Popen and the TCP wait block the loop; then the inner task is created.
BridgeStartup ==
  /\ srv = "starting" /\ bridge = "receive" /\ inner = "none"
  /\ spawns' = spawns + 1 /\ proc' = "alive"
  /\ handle' = TRUE /\ box' = TRUE
  /\ inner' = "new"
  /\ bridge' = "sleep0"
  /\ UNCHANGED <<srv, replies, reply, repeated, client, req>>

\* Mutant: the second message starts a second sidecar.
BridgeRepeatedStartupSpawns ==
  /\ RepeatStartup /\ ~repeated
  /\ srv = "serving" /\ bridge = "receive" /\ inner # "none"
  /\ repeated' = TRUE
  /\ spawns' = spawns + 1 /\ proc' = "alive" /\ handle' = TRUE /\ box' = TRUE
  /\ Reply("complete")
  /\ UNCHANGED <<srv, bridge, inner, client, req>>

\* Mutant: the second message empties the box before it is recognised.
BridgeRepeatedStartupClears ==
  /\ RepeatStartup /\ ~repeated
  /\ srv = "serving" /\ bridge = "receive" /\ inner # "none"
  /\ repeated' = TRUE
  /\ box' = FALSE
  /\ Reply("complete")
  /\ UNCHANGED <<srv, bridge, inner, spawns, proc, handle, client, req>>

\* A second lifespan.startup only repeats the answer.
BridgeRepeatedStartup ==
  /\ RepeatStartup /\ ~repeated
  /\ srv = "serving" /\ bridge = "receive" /\ inner # "none"
  /\ repeated' = TRUE
  /\ Reply("complete")
  /\ UNCHANGED <<srv, bridge, inner, sideVars, client, req>>

\* After one turn of the loop: did the inner task end already?
BridgeAfterSleep ==
  /\ bridge = "sleep0" /\ inner # "new"
  /\ \/ /\ InnerDone
        /\ DropSidecar
        /\ Reply("failed")
        /\ bridge' = "returned"
     \/ /\ ~InnerDone
        /\ bridge' = "receive"
        /\ UNCHANGED <<replies, reply, sideVars>>
  /\ UNCHANGED <<srv, inner, repeated, client, req>>

BridgeShutdown ==
  /\ srv = "stopping" /\ bridge = "receive"
  /\ bridge' = IF inner = "none" THEN "finally" ELSE "await_inner"
  /\ UNCHANGED <<srv, inner, replies, reply, repeated, sideVars, client, req>>

\* Mutant: an inner failure sends the bridge back to receive.
BridgeInnerReturnedLoops ==
  /\ bridge = "await_inner" /\ InnerDone
  /\ bridge' = IF inner = "finished" THEN "finally" ELSE "receive"
  /\ UNCHANGED <<srv, inner, replies, reply, repeated, sideVars, client, req>>

BridgeInnerReturned ==
  /\ bridge = "await_inner" /\ InnerDone
  /\ bridge' = "finally"
  /\ UNCHANGED <<srv, inner, replies, reply, repeated, sideVars, client, req>>

(***************************************************************************)
(* _inject_public_root_path wraps the gateway when there is a mount; the   *)
(* wrapper is a plain function without the fluxlit_shutdown attribute.     *)
(***************************************************************************)
ShutdownHookFound == ~Mounted

\* The finally block runs whether the inner task returned or raised.
BridgeFinally ==
  /\ bridge = "finally"
  /\ DropSidecar
  /\ client' = (client /\ ~ShutdownHookFound)
  /\ bridge' = "returned"
  /\ UNCHANGED <<srv, inner, replies, reply, repeated, req>>

-----------------------------------------------------------------------------
(* External: the inner application's lifespan task *)

InnerFirstSlice ==
  /\ bridge = "sleep0" /\ inner = "new"
  /\ \/ inner' = "running" /\ Reply("complete")
     \/ inner' = "starting" /\ UNCHANGED <<replies, reply>>
     \/ "first_slice" \in InnerFails /\ inner' = "failed" /\ Reply("failed")
  /\ UNCHANGED <<srv, bridge, repeated, sideVars, client, req>>

InnerLater ==
  /\ bridge # "sleep0" /\ inner = "starting" /\ srv \notin {"stopped", "left"}
  /\ \/ inner' = "running" /\ Reply("complete")
     \/ "later" \in InnerFails /\ inner' = "failed" /\ Reply("failed")
  /\ UNCHANGED <<srv, bridge, repeated, sideVars, client, req>>

InnerShutdown ==
  /\ bridge = "await_inner" /\ inner = "running"
  /\ \/ inner' = "finished"
     \/ "shutdown" \in InnerFails /\ inner' = "failed"
  /\ UNCHANGED <<srv, bridge, replies, reply, repeated, sideVars, client, req>>

-----------------------------------------------------------------------------
(* HTTP and WebSocket tasks *)

Step(r, pc) == req' = [req EXCEPT ![r].pc = pc]
Answer(r, a) == req' = [req EXCEPT ![r].pc = "done", ![r].answer = a]

\* Mutant: the guard polls the process it holds and forgets the empty box.
SidecarGoneBoxIgnored == handle /\ proc = "exited"

(***************************************************************************)
(* The guard: an empty box or a sidecar whose poll() reports an exit. Both *)
(* halves of the sidecar state are dropped and the answer is 503, for a    *)
(* WebSocket close 1013, whatever the path.                                *)
(***************************************************************************)
SidecarGone == ~box \/ (handle /\ proc = "exited")

GuardRejects(r) ==
  /\ srv = "serving" /\ req[r].pc = "idle"
  /\ SidecarGone
  /\ box' = FALSE /\ handle' = FALSE
  /\ Answer(r, "sidecar_down")
  /\ UNCHANGED <<lifeVars, spawns, proc, client>>

(***************************************************************************)
(* Nothing suspends between the guard and the gateway's resolve_upstream   *)
(* for a Streamlit path, nor before the resolver of readyz, unless the API *)
(* has a BaseHTTPMiddleware (request logging, security headers), which     *)
(* runs the route in another task.                                         *)
(***************************************************************************)
AfterGuard(kind) ==
  CASE kind \in {"page", "ws"} -> "upstream"
    [] kind = "readyz" /\ ~ApiMiddleware -> "probing"
    [] OTHER -> "admitted"

GuardAdmits(r) ==
  /\ srv = "serving" /\ req[r].pc = "idle"
  /\ ~SidecarGone
  /\ Step(r, AfterGuard(req[r].kind))
  /\ UNCHANGED <<lifeVars, sideVars, client>>

\* /api/healthz, run in the thread pool, never looks at the sidecar.
Healthz(r) ==
  /\ req[r].pc = "admitted" /\ req[r].kind = "healthz"
  /\ Answer(r, "health_ok")
  /\ UNCHANGED <<lifeVars, sideVars, client>>

\* Behind a middleware /api/readyz reads the box again, later; an empty one
\* is taken for "no sidecar configured" and answered with 200.
ReadyzResolves(r) ==
  /\ req[r].pc = "admitted" /\ req[r].kind = "readyz"
  /\ \/ box /\ Step(r, "probing")
     \/ ~box /\ Answer(r, "not_configured")
  /\ UNCHANGED <<lifeVars, sideVars, client>>

\* probe_streamlit_ready: a 2xx needs a live sidecar; it may still refuse.
ReadyzProbes(r) ==
  /\ req[r].pc = "probing"
  /\ \/ proc \in {"alive", "killed"} /\ Answer(r, "ready")
     \/ Answer(r, "not_ready")
  /\ UNCHANGED <<lifeVars, sideVars, client>>

\* The proxies; the HTTP one opens the shared client before its call.
PageProxied(r) ==
  /\ req[r].pc = "upstream"
  /\ \/ proc \in {"alive", "killed"} /\ Answer(r, "proxied")
     \/ Answer(r, "bad_gateway")
  /\ client' = (client \/ req[r].kind = "page")
  /\ UNCHANGED <<lifeVars, sideVars>>

-----------------------------------------------------------------------------

\* The sidecar crashes, or dies of the SIGKILL it was sent.
SidecarExits ==
  /\ proc \in {"alive", "killed"}
  /\ proc' = "exited"
  /\ UNCHANGED <<lifeVars, spawns, handle, box, client, req>>

Finished ==
  /\ srv \in {"stopped", "left"} /\ UNCHANGED vars

ServerNext == ServerSeesReply \/ ServerStops

BridgeNext ==
  \/ BridgeStartupFails \/ BridgeStartup \/ BridgeRepeatedStartup
  \/ BridgeAfterSleep \/ BridgeShutdown \/ BridgeInnerReturned \/ BridgeFinally

InnerNext == InnerFirstSlice \/ InnerLater \/ InnerShutdown

RequestNext(r) ==
  Healthz(r) \/ ReadyzResolves(r) \/ ReadyzProbes(r) \/ PageProxied(r)

Next ==
  \/ ServerSendsStartup \/ ServerSendsShutdown \/ ServerForceExits \/ ServerNext
  \/ BridgeNext \/ InnerNext
  \/ \E r \in Reqs : GuardRejects(r) \/ GuardAdmits(r) \/ RequestNext(r)
  \/ SidecarExits
  \/ Finished

(***************************************************************************)
(* The event loop runs every ready task, the inner application's start-up  *)
(* and shutdown code ends, and an HTTP call ends by its timeout.  Clients, *)
(* the operator and crashes are not fair.                                  *)
(***************************************************************************)
Fairness ==
  /\ WF_vars(ServerNext) /\ WF_vars(BridgeNext) /\ WF_vars(InnerNext)
  /\ \A r \in Reqs : WF_vars(RequestNext(r))

Spec == Init /\ [][Next]_vars
FairSpec == Spec /\ Fairness

-----------------------------------------------------------------------------
(* Properties *)

TypeOK ==
  /\ srv \in {"init", "starting", "serving", "stopping", "stopped", "left"}
  /\ bridge \in {"receive", "sleep0", "await_inner", "finally", "returned"}
  /\ inner \in {"none", "new", "starting", "running", "failed", "finished"}
  /\ replies \in Nat /\ reply \in {"none", "complete", "failed"}
  /\ repeated \in BOOLEAN /\ spawns \in Nat
  /\ proc \in {"none", "alive", "exited", "killed"}
  /\ handle \in BOOLEAN /\ box \in BOOLEAN /\ client \in BOOLEAN
  /\ req \in [Reqs -> [kind : Kinds, pc : ReqPC, answer : Answers]]

(***************************************************************************)
(* The lifespan task implements the lease: it starts a sidecar only when   *)
(* it owns none, and the server serves only after one was started.         *)
(***************************************************************************)
InUse == IF proc = "alive" THEN {spawns} ELSE {}

ServerState ==
  CASE srv = "serving" -> "up"
    [] srv \in {"stopped", "left"} -> "gone"
    [] OTHER -> "down"

Lease == INSTANCE SidecarLease WITH live <- InUse, born <- spawns,
                                    server <- ServerState

(* The lifespan task implements SidecarLease under this mapping.           *)
ImplementsLease == Lease!Spec

(***************************************************************************)
(* Neither the guard's clean-up nor a failed start ever forgets a running  *)
(* sidecar: while one runs, streamlit_proc still names it, and the box is  *)
(* only set while it does.                                                 *)
(***************************************************************************)
NoLostSidecar == (proc = "alive" => handle) /\ (box => handle)

(***************************************************************************)
(* The guard's verdict stands: once a request has been turned away because *)
(* the sidecar is down, no later request is admitted, and a request that   *)
(* was admitted before and resolves the upstream after its own awaits is   *)
(* not told that Streamlit is ready, nor given a page of it.               *)
(***************************************************************************)
DownStaysDown ==
  [][(\E q \in Reqs : req[q].answer = "sidecar_down") =>
       \A r \in Reqs :
         /\ req[r].pc = "idle" => req'[r].pc \in {"idle", "done"}
         /\ req'[r].answer \in {"ready", "proxied"} => req'[r].answer = req[r].answer]_vars

(***************************************************************************)
(* When the server is done, the sidecar the lifespan task started is gone: *)
(* the session it runs in would outlive the server.                        *)
(***************************************************************************)
StoppedMeansNoSidecar == srv = "stopped" => proc # "alive"

(***************************************************************************)
(* A sidecar outlives its server only when the lifespan task was waiting   *)
(* in receive, outside every try block of it: the server left in the       *)
(* middle of the protocol, or it took startup.failed from an inner         *)
(* application that failed after its first turn of the event loop.  A      *)
(* shutdown and every earlier failure end the sidecar.                     *)
(***************************************************************************)
OrphanLeftInReceive ==
  srv \in {"stopped", "left"} /\ proc = "alive"
    => /\ bridge = "receive"
       /\ srv = "stopped" => inner = "failed" /\ reply = "failed"

(***************************************************************************)
(* /api/readyz answers 200 not_configured, which is meant for a process    *)
(* without a sidecar, only when the guard has turned another request away  *)
(* because the sidecar is down; at no point of start-up, of a repeated     *)
(* lifespan.startup or of shutdown is a request in flight that finds the   *)
(* box empty.                                                              *)
(***************************************************************************)
NotConfiguredAfterDown ==
  \A r \in Reqs : req[r].answer = "not_configured"
                   => \E q \in Reqs : req[q].answer = "sidecar_down"

\* lifespan.startup is answered, by the inner application or by the bridge.
StartupAnswered == srv = "starting" ~> reply # "none"

\* A shutdown ends with the server stopped, even if the inner one raises.
ShutdownStops == srv = "stopping" ~> srv = "stopped"

-----------------------------------------------------------------------------
(* The inductive invariants behind NoLostSidecar, OrphanLeftInReceive and  *)
(* ImplementsLease; the proofs are in LifespanBridgeProofs.                *)

SideInv ==
  /\ box => handle
  /\ handle => proc # "none"
  /\ proc = "alive" => handle /\ box /\ inner # "none"

(***************************************************************************)
(* How far the lifespan protocol has come, as the server sees it.  An      *)
(* answer is given once the inner application has been started or has been *)
(* given up; after the first turn of the loop only the inner application   *)
(* answers.                                                                *)
(***************************************************************************)
ProtocolInv ==
  /\ reply \in {"none", "complete", "failed"} /\ replies \in Nat
  /\ replies = 0 <=> reply = "none"
  /\ srv = "init" => bridge = "receive" /\ inner = "none" /\ reply = "none"
  /\ srv = "serving" => reply = "complete"
  /\ srv = "stopping" => reply # "failed" /\ (reply = "none" => inner = "none")
  /\ bridge \in {"receive", "sleep0", "await_inner", "finally", "returned"}
  /\ bridge = "receive" /\ inner = "none" => reply = "none"
  /\ bridge = "sleep0" => srv = "starting" /\ inner # "none"
  /\ bridge \in {"await_inner", "finally"} => srv = "stopping"
  /\ inner \in {"new", "starting"} => reply = "none"
  /\ spawns \in Nat /\ (inner # "none" \/ reply = "complete" => spawns > 0)

(***************************************************************************)
(* A failed start-up was reported by the bridge on its way out, or by an   *)
(* inner task that the bridge finds done if it is still in its first turn; *)
(* what returned has dropped the sidecar.                                  *)
(***************************************************************************)
StopInv ==
  /\ reply = "failed"
       => bridge = "returned" \/ (inner = "failed" /\ bridge \in {"sleep0", "receive"})
  /\ bridge = "returned" => proc # "alive"
  /\ srv = "stopped" /\ proc = "alive"
       => bridge = "receive" /\ inner = "failed" /\ reply = "failed"
=============================================================================
