------------------------- MODULE LifespanBridgeProofs -------------------------
(***************************************************************************)
(* Proofs about LifespanBridge, for any set of requests and any settings.  *)
(***************************************************************************)
EXTENDS LifespanBridge, TLAPS

ProcOK == proc \in {"none", "alive", "exited", "killed"}

\* The part of the type invariant that is about the requests.
ReqOK == req \in [Reqs -> [kind : Kinds, pc : ReqPC, answer : Answers]]

(***************************************************************************)
(* What _terminate_process leaves of a process is never a live one, and it *)
(* invents no process.                                                     *)
(***************************************************************************)
LEMMA TerminatedFacts ==
  ASSUME NEW p, NEW q \in Terminated(p)
  PROVE  q # "alive" /\ (p # "none" => q # "none")
BY DEF Terminated

(***************************************************************************)
(* The sidecar state is consistent: the box is only set while the bridge   *)
(* holds the process, and a live process is never without handle and box.  *)
(***************************************************************************)
THEOREM SideInvariant == Spec => []SideInv
<1>1. Init => SideInv
  BY DEF Init, SideInv
<1>2. ASSUME SideInv, [Next]_vars PROVE SideInv'
  <2> USE <1>2 DEF SideInv
  <2>1. CASE BridgeStartupFails
    BY <2>1, TerminatedFacts DEF BridgeStartupFails
  <2>2. CASE BridgeStartup
    BY <2>2 DEF BridgeStartup
  <2>3. ASSUME DropSidecar PROVE SideInv'
    BY <2>3, TerminatedFacts DEF DropSidecar
  <2>4. CASE BridgeAfterSleep
    BY <2>3, <2>4 DEF BridgeAfterSleep, sideVars
  <2>5. CASE BridgeFinally
    BY <2>3, <2>5 DEF BridgeFinally
  <2>6. ASSUME NEW r \in Reqs, GuardRejects(r) PROVE SideInv'
    BY <2>6 DEF GuardRejects, SidecarGone, lifeVars
  <2>7. CASE SidecarExits
    BY <2>7 DEF SidecarExits, lifeVars
  <2>8. ASSUME UNCHANGED sideVars, UNCHANGED inner \/ inner' # "none"
        PROVE  SideInv'
    BY <2>8 DEF sideVars
  <2>9. ASSUME NEW r \in Reqs, GuardAdmits(r) \/ RequestNext(r)
        PROVE  UNCHANGED <<sideVars, inner>>
    BY <2>9 DEF GuardAdmits, RequestNext, Healthz, ReadyzResolves, ReadyzProbes,
                PageProxied, lifeVars
  <2>10. QED
    BY <1>2, <2>1, <2>2, <2>4, <2>5, <2>6, <2>7, <2>8, <2>9
    DEF Next, ServerNext, BridgeNext, InnerNext, ServerSendsStartup,
        ServerSendsShutdown, ServerForceExits, ServerSeesReply, ServerStops,
        BridgeRepeatedStartup,
        BridgeShutdown, BridgeInnerReturned, InnerFirstSlice, InnerLater,
        InnerShutdown, Finished, vars, lifeVars
<1>3. QED
  BY <1>1, <1>2, PTL DEF Spec

(***************************************************************************)
(* The guard's clean-up and a failed start never lose a running sidecar.   *)
(***************************************************************************)
THEOREM SidecarNeverLost == Spec => []NoLostSidecar
<1>1. SideInv => NoLostSidecar
  BY DEF SideInv, NoLostSidecar
<1>2. QED
  BY <1>1, SideInvariant, PTL

(***************************************************************************)
(* The states of the sidecar process.                                      *)
(***************************************************************************)
THEOREM ProcTyped == Spec => []ProcOK
<1>1. Init => ProcOK
  BY DEF Init, ProcOK
<1>2. ASSUME ProcOK, [Next]_vars PROVE ProcOK'
  <2>1. ASSUME NEW r \in Reqs, GuardRejects(r) \/ GuardAdmits(r) \/ RequestNext(r)
        PROVE  UNCHANGED proc
    BY <2>1 DEF GuardRejects, GuardAdmits, RequestNext, Healthz, ReadyzResolves,
                ReadyzProbes, PageProxied, sideVars
  <2>2. QED
    BY <1>2, <2>1
    DEF ProcOK, Terminated, DropSidecar, Next, ServerNext, BridgeNext, InnerNext,
        ServerSendsStartup, ServerSendsShutdown, ServerForceExits, ServerSeesReply, ServerStops,
        BridgeStartupFails, BridgeStartup, BridgeRepeatedStartup, BridgeAfterSleep,
        BridgeShutdown, BridgeInnerReturned, BridgeFinally, InnerFirstSlice,
        InnerLater, InnerShutdown, SidecarExits, Finished, vars, sideVars
<1>3. QED
  BY <1>1, <1>2, PTL DEF Spec

(***************************************************************************)
(* What the steps outside the requests' own tasks do to the requests: they *)
(* put none into flight and give no answer.                                *)
(***************************************************************************)
LEMMA CutKeepsAnswers ==
  ASSUME ReqOK, CutRequests \/ UNCHANGED req
  PROVE  /\ ReqOK'
         /\ \A r \in Reqs : /\ req'[r].answer = req[r].answer
                            /\ req[r].pc = "idle" => req'[r].pc = "idle"
<1>1. CASE UNCHANGED req
  BY <1>1 DEF ReqOK
<1>2. CASE CutRequests
  <2>1. \A r \in Reqs : [req[r] EXCEPT !.pc = "done"]
                           \in [kind : Kinds, pc : ReqPC, answer : Answers]
    BY DEF ReqOK, ReqPC
  <2>2. ReqOK'
    BY <1>2, <2>1 DEF CutRequests, ReqOK
  <2>3. QED
    BY <1>2, <2>2 DEF CutRequests, InFlight, ReqOK
<1>3. QED
  BY <1>1, <1>2

(***************************************************************************)
(* The requests keep their shape.                                          *)
(***************************************************************************)
THEOREM RequestsTyped == Spec => []ReqOK
<1>1. Init => ReqOK
  BY DEF Init, ReqOK, Kinds, ReqPC, Answers
<1>2. ASSUME ReqOK, [Next]_vars PROVE ReqOK'
  <2>1. ASSUME NEW r \in Reqs, NEW pc \in ReqPC, Step(r, pc) PROVE ReqOK'
    BY <1>2, <2>1 DEF ReqOK, Step
  <2>2. ASSUME NEW r \in Reqs, NEW a \in Answers, Answer(r, a) PROVE ReqOK'
    BY <1>2, <2>2, ZenonT(40) DEF ReqOK, Answer, ReqPC
  <2>3. CASE \E r \in Reqs : GuardRejects(r)
    BY <2>2, <2>3 DEF GuardRejects, Answers
  <2>4. CASE \E r \in Reqs : GuardAdmits(r)
    BY <2>1, <2>4 DEF GuardAdmits, AfterGuard, ReqPC
  <2>5. CASE \E r \in Reqs : RequestNext(r)
    BY <2>1, <2>2, <2>5
    DEF RequestNext, Healthz, ReadyzResolves, ReadyzProbes, PageProxied, ReqPC, Answers
  <2>6. CASE CutRequests \/ UNCHANGED req
    BY <1>2, <2>6, CutKeepsAnswers
  <2>7. QED
    BY <1>2, <2>3, <2>4, <2>5, <2>6
    DEF Next, ServerNext, BridgeNext, InnerNext, ServerSendsStartup,
        ServerSendsShutdown, ServerForceExits, ServerSeesReply, ServerStops, BridgeStartupFails,
        BridgeStartup, BridgeRepeatedStartup, BridgeAfterSleep, BridgeShutdown,
        BridgeInnerReturned, BridgeFinally, InnerFirstSlice, InnerLater,
        InnerShutdown, SidecarExits, Finished, vars
<1>3. QED
  BY <1>1, <1>2, PTL DEF Spec

(***************************************************************************)
(* What a request's task does is of no concern to the lifespan protocol:   *)
(* it changes neither the lifespan task's state nor the process.           *)
(***************************************************************************)
LEMMA RequestsKeepLifespan ==
  ASSUME NEW r \in Reqs, GuardRejects(r) \/ GuardAdmits(r) \/ RequestNext(r)
  PROVE  UNCHANGED <<lifeVars, spawns, proc>>
BY DEF GuardRejects, GuardAdmits, RequestNext, Healthz, ReadyzResolves,
       ReadyzProbes, PageProxied, sideVars

(***************************************************************************)
(* The lifespan messages, the replies and the two tasks keep in step.      *)
(***************************************************************************)
THEOREM ProtocolInvariant == Spec => []ProtocolInv
<1>1. Init => ProtocolInv
  BY DEF Init, ProtocolInv
<1>2. ASSUME ProtocolInv, [Next]_vars PROVE ProtocolInv'
  <2> USE <1>2 DEF ProtocolInv, Reply
  <2>1. CASE BridgeStartupFails
    BY <2>1 DEF BridgeStartupFails
  <2>2. CASE BridgeStartup
    BY <2>2 DEF BridgeStartup
  <2>3. CASE BridgeAfterSleep
    BY <2>3 DEF BridgeAfterSleep, InnerDone, DropSidecar, sideVars
  <2>4. CASE BridgeFinally
    BY <2>4 DEF BridgeFinally, DropSidecar
  <2>5. CASE BridgeRepeatedStartup
    BY <2>5 DEF BridgeRepeatedStartup, sideVars
  <2>6. CASE BridgeShutdown \/ BridgeInnerReturned
    BY <2>6 DEF BridgeShutdown, BridgeInnerReturned, sideVars
  <2>7. CASE InnerFirstSlice
    BY <2>7 DEF InnerFirstSlice, sideVars
  <2>8. CASE InnerLater
    BY <2>8 DEF InnerLater, sideVars
  <2>9. CASE InnerShutdown
    BY <2>9 DEF InnerShutdown, sideVars
  <2>10. CASE ServerNext \/ ServerSendsStartup \/ ServerSendsShutdown \/ ServerForceExits
    BY <2>10 DEF ServerNext, ServerSeesReply, ServerStops, ServerSendsStartup,
                 ServerSendsShutdown, ServerForceExits, sideVars
  <2>11. CASE SidecarExits
    BY <2>11 DEF SidecarExits, lifeVars
  <2>12. CASE UNCHANGED <<lifeVars, spawns, proc>>
    BY <2>12 DEF lifeVars
  <2>13. QED
    BY <1>2, <2>1, <2>2, <2>3, <2>4, <2>5, <2>6, <2>7, <2>8, <2>9, <2>10, <2>11,
       <2>12, RequestsKeepLifespan
    DEF Next, BridgeNext, InnerNext, Finished, vars, sideVars
<1>3. QED
  BY <1>1, <1>2, PTL DEF Spec

(***************************************************************************)
(* The lifespan task implements the lease of SidecarLease: one sidecar at  *)
(* a time, none started by a stopped server, no service before the first.  *)
(***************************************************************************)
THEOREM BridgeImplementsLease == Spec => ImplementsLease
<1>1. Init => Lease!Init
  BY DEF Init, Lease!Init, InUse, ServerState
<1>2. ASSUME SideInv, ProtocolInv, [Next]_vars PROVE [Lease!Next]_(Lease!vars)
  <2> USE <1>2 DEF Lease!Next, Lease!vars, InUse
  <2>0. /\ Lease!Start <=> /\ InUse = {} /\ ServerState # "gone"
                           /\ spawns' = spawns + 1
                           /\ InUse' \in {{}, {spawns + 1}}
                           /\ ServerState' = ServerState
        /\ Lease!End <=> InUse' = {} /\ UNCHANGED <<spawns, ServerState>>
    BY DEF Lease!Start, Lease!End
  <2>s. srv' = srv => ServerState' = ServerState
    BY DEF ServerState
  <2>1. CASE BridgeStartup
    <3>1. InUse = {} /\ ServerState # "gone" /\ spawns' = spawns + 1
          /\ InUse' = {spawns + 1} /\ srv' = srv
      BY <2>1 DEF BridgeStartup, SideInv, ServerState
    <3>2. QED BY <2>0, <2>s, <3>1
  <2>2. CASE BridgeStartupFails
    <3>1. PICK fault \in StartFaults :
            /\ spawns' = IF fault = "tcp" THEN spawns + 1 ELSE spawns
            /\ proc' \in IF fault = "tcp" THEN Terminated("alive") ELSE {proc}
      BY <2>2 DEF BridgeStartupFails
    <3>2. proc # "alive" /\ proc' # "alive" /\ srv' = srv /\ ServerState # "gone"
      BY <2>2, <3>1, TerminatedFacts DEF BridgeStartupFails, SideInv, ServerState
    <3>3. InUse = {} /\ InUse' = {}
      BY <3>2
    <3>4. CASE fault = "tcp"
      BY <2>0, <2>s, <3>1, <3>2, <3>3, <3>4
    <3>5. CASE fault # "tcp"
      BY <2>s, <3>1, <3>2, <3>3, <3>5
    <3>6. QED BY <3>4, <3>5
  <2>3. ASSUME DropSidecar, srv' = srv PROVE Lease!End
    BY <2>0, <2>s, <2>3, TerminatedFacts DEF DropSidecar, SideInv
  <2>4. CASE BridgeAfterSleep
    BY <2>3, <2>4, <2>s DEF BridgeAfterSleep, sideVars
  <2>5. CASE BridgeFinally
    BY <2>3, <2>5 DEF BridgeFinally
  <2>6. CASE SidecarExits
    BY <2>0, <2>s, <2>6 DEF SidecarExits, lifeVars
  <2>7. ASSUME UNCHANGED <<srv, spawns, proc>> PROVE UNCHANGED Lease!vars
    BY <2>7, <2>s
  <2>8. CASE ServerSeesReply
    <3>1. CASE reply = "complete"
      BY <2>8, <3>1 DEF ServerSeesReply, sideVars, ProtocolInv, Lease!Serve, Lease!Leave,
           ServerState
    <3>2. CASE reply # "complete"
      BY <2>8, <3>2 DEF ServerSeesReply, sideVars, Lease!Leave, ServerState
    <3>3. QED BY <3>1, <3>2
  <2>9. CASE ServerSendsShutdown
    BY <2>9 DEF ServerSendsShutdown, sideVars, Lease!Drain, ServerState
  <2>l. CASE ServerForceExits
    BY <2>l DEF ServerForceExits, sideVars, Lease!Leave, ServerState
  <2>10. CASE ServerStops
    BY <2>10 DEF ServerStops, sideVars, Lease!Leave, ServerState
  <2>11. CASE ServerSendsStartup
    BY <2>11 DEF ServerSendsStartup, sideVars, ServerState
  <2>12. CASE BridgeRepeatedStartup \/ BridgeShutdown \/ BridgeInnerReturned
              \/ InnerNext \/ Finished \/ UNCHANGED vars
    BY <2>7, <2>12 DEF BridgeRepeatedStartup, BridgeShutdown, BridgeInnerReturned,
       InnerNext, InnerFirstSlice, InnerLater, InnerShutdown, Finished, vars,
       lifeVars, sideVars
  <2>13. QED
    BY <1>2, <2>1, <2>2, <2>4, <2>5, <2>6, <2>7, <2>8, <2>9, <2>l, <2>10, <2>11,
       <2>12, RequestsKeepLifespan
    DEF Next, ServerNext, BridgeNext, lifeVars
<1>3. QED
  BY <1>1, <1>2, SideInvariant, ProtocolInvariant, PTL
  DEF Spec, ImplementsLease, Lease!Spec

(***************************************************************************)
(* While the server serves, the lifespan task waits in receive and an      *)
(* empty box means a sidecar that has exited; a refusal says so for good,  *)
(* since nothing starts another one.                                       *)
(***************************************************************************)
Refused == \E q \in Reqs : req[q].answer = "sidecar_down"

DownInv ==
  /\ srv \in {"starting", "serving"} /\ reply = "complete"
       => bridge \in {"sleep0", "receive"} /\ ~InnerDone /\ inner # "none"
  /\ srv \in {"serving", "left"} => bridge = "receive"
  /\ bridge \in {"finally", "returned"} => inner = "none" \/ InnerDone
  /\ srv = "starting" /\ inner # "none" /\ bridge # "returned" => box
  /\ proc = "killed" => bridge = "returned"
  /\ srv = "serving" => box \/ proc = "exited"
  /\ Refused => ~box /\ proc = "exited" /\ srv \notin {"init", "starting"}

(* The verdict's invariant is kept by every step.                          *)
LEMMA DownStep ==
  ASSUME SideInv, ProtocolInv, ProcOK, ReqOK, DownInv, [Next]_vars
  PROVE  DownInv'
<1> USE DEF DownInv, InnerDone
<1>0. CutRequests \/ UNCHANGED req => (Refused' => Refused)
  BY CutKeepsAnswers DEF Refused
<1>1. CASE BridgeStartupFails
  BY <1>0, <1>1 DEF BridgeStartupFails, ProtocolInv, Reply
<1>2. CASE BridgeStartup
  BY <1>0, <1>2 DEF BridgeStartup, ProtocolInv
<1>3. CASE BridgeAfterSleep
  <2>1. /\ srv = "starting" /\ srv' = "starting" /\ inner' = inner /\ ~Refused /\ ~Refused'
        /\ bridge = "sleep0" /\ inner # "none" /\ box
    BY <1>0, <1>3 DEF BridgeAfterSleep, ProtocolInv
  <2>2. CASE InnerDone /\ bridge' = "returned" /\ Reply("failed")
    BY <2>1, <2>2 DEF Reply, ProtocolInv
  <2>3. CASE ~InnerDone /\ bridge' = "receive" /\ UNCHANGED <<replies, reply, sideVars>>
    BY <2>1, <2>3 DEF sideVars
  <2>4. QED
    BY <1>3, <2>2, <2>3 DEF BridgeAfterSleep
<1>4. CASE BridgeFinally
  BY <1>0, <1>4 DEF BridgeFinally, DropSidecar, Terminated, ProtocolInv
<1>5. CASE BridgeRepeatedStartup
  BY <1>0, <1>5 DEF BridgeRepeatedStartup, ProtocolInv, Reply, sideVars
<1>6. CASE BridgeShutdown \/ BridgeInnerReturned
  BY <1>0, <1>6 DEF BridgeShutdown, BridgeInnerReturned, ProtocolInv, sideVars
<1>7. CASE InnerFirstSlice
  BY <1>0, <1>7 DEF InnerFirstSlice, ProtocolInv, Reply, sideVars
<1>8. CASE InnerLater
  BY <1>0, <1>8 DEF InnerLater, ProtocolInv, Reply, sideVars
<1>9. CASE InnerShutdown
  BY <1>0, <1>9 DEF InnerShutdown, ProtocolInv, sideVars
<1>10. CASE ServerNext \/ ServerSendsStartup \/ ServerSendsShutdown \/ ServerForceExits
  BY <1>0, <1>10 DEF ServerNext, ServerSeesReply, ServerStops, ServerSendsStartup,
       ServerSendsShutdown, ServerForceExits, ProtocolInv, sideVars
<1>11. ASSUME NEW r \in Reqs, GuardRejects(r) PROVE DownInv'
  BY <1>11 DEF GuardRejects, SidecarGone, lifeVars
<1>12. ASSUME NEW r \in Reqs, GuardAdmits(r) \/ RequestNext(r) PROVE DownInv'
  <2>1. \A q \in Reqs : req'[q].answer = "sidecar_down" => req[q].answer = "sidecar_down"
    BY <1>12 DEF GuardAdmits, RequestNext, Healthz, ReadyzResolves, ReadyzProbes,
         PageProxied, Answer, Step, ReqOK
  <2>2. UNCHANGED <<lifeVars, sideVars>>
    BY <1>12 DEF GuardAdmits, RequestNext, Healthz, ReadyzResolves, ReadyzProbes,
         PageProxied
  <2>3. QED
    BY <2>1, <2>2 DEF Refused, lifeVars, sideVars
<1>13. CASE SidecarExits \/ Finished \/ UNCHANGED vars
  BY <1>0, <1>13 DEF SidecarExits, Finished, vars, lifeVars, sideVars
<1>14. QED
  BY <1>1, <1>2, <1>3, <1>4, <1>5, <1>6, <1>7, <1>8, <1>9, <1>10, <1>11, <1>12, <1>13
     DEF Next, BridgeNext, InnerNext

(* The verdict's invariant holds throughout.                               *)
THEOREM DownInvariant == Spec => []DownInv
<1>1. Init => DownInv
  BY DEF Init, DownInv, Refused
<1>2. QED
  BY <1>1, DownStep, SideInvariant, ProtocolInvariant, ProcTyped, RequestsTyped, PTL
     DEF Spec

(***************************************************************************)
(* A sidecar is left behind only while the lifespan task waits in receive: *)
(* by a server that leaves in the middle of the protocol, or after an      *)
(* inner application failed its start-up later than in its first turn of   *)
(* the event loop.  Every other failure, and every lifespan.shutdown, ends *)
(* the sidecar, whatever else the server and the requests do.              *)
(***************************************************************************)
THEOREM OrphansOnlyInReceive == Spec => []OrphanLeftInReceive
<1>1. Init => StopInv
  BY DEF Init, StopInv
<1>2. ASSUME SideInv, ProtocolInv, StopInv, [Next]_vars PROVE StopInv'
  <2> USE <1>2 DEF StopInv, ProtocolInv, Reply
  <2>1. CASE BridgeStartupFails
    BY <2>1, TerminatedFacts DEF BridgeStartupFails, SideInv
  <2>2. CASE BridgeStartup
    BY <2>2 DEF BridgeStartup
  <2>3. ASSUME DropSidecar PROVE proc' # "alive"
    BY <2>3, TerminatedFacts DEF DropSidecar, SideInv
  <2>4. CASE BridgeAfterSleep
    BY <2>3, <2>4 DEF BridgeAfterSleep, InnerDone, sideVars
  <2>5. CASE BridgeFinally
    BY <2>3, <2>5 DEF BridgeFinally
  <2>6. CASE BridgeRepeatedStartup
    BY <2>6 DEF BridgeRepeatedStartup, sideVars
  <2>7. CASE BridgeShutdown \/ BridgeInnerReturned
    BY <2>7 DEF BridgeShutdown, BridgeInnerReturned, sideVars
  <2>8. CASE InnerFirstSlice
    BY <2>8 DEF InnerFirstSlice, sideVars
  <2>9. CASE InnerLater \/ InnerShutdown
    BY <2>9 DEF InnerLater, InnerShutdown, sideVars
  <2>10. CASE ServerNext \/ ServerSendsStartup \/ ServerSendsShutdown \/ ServerForceExits
    BY <2>10 DEF ServerNext, ServerSeesReply, ServerStops, ServerSendsStartup,
                 ServerSendsShutdown, ServerForceExits, sideVars
  <2>11. CASE SidecarExits
    BY <2>11 DEF SidecarExits, lifeVars
  <2>12. CASE UNCHANGED <<lifeVars, spawns, proc>>
    BY <2>12 DEF lifeVars
  <2>13. QED
    BY <1>2, <2>1, <2>2, <2>4, <2>5, <2>6, <2>7, <2>8, <2>9, <2>10, <2>11, <2>12,
       RequestsKeepLifespan
    DEF Next, BridgeNext, InnerNext, Finished, vars, sideVars
<1>3. StopInv /\ DownInv => OrphanLeftInReceive
  BY DEF StopInv, DownInv, OrphanLeftInReceive
<1>4. QED
  BY <1>1, <1>2, <1>3, SideInvariant, ProtocolInvariant, DownInvariant, PTL DEF Spec

(***************************************************************************)
(* The guard's verdict stands for any number of requests: after a refusal  *)
(* no request is admitted, and none that was admitted before is told that  *)
(* Streamlit is ready or served a page of it.                              *)
(***************************************************************************)
THEOREM VerdictStands == Spec => DownStaysDown
<1> DEFINE Kept(r) ==
      /\ req[r].pc = "idle" => req'[r].pc \in {"idle", "done"}
      /\ req'[r].answer \in {"ready", "proxied"} => req'[r].answer = req[r].answer
<1>2. ASSUME ReqOK, DownInv, [Next]_vars, Refused, NEW r \in Reqs PROVE Kept(r)
  <2> USE <1>2
  <2>1. ~box /\ proc = "exited"
    BY DEF DownInv
  <2>2. CASE CutRequests \/ UNCHANGED req
    BY <2>2, CutKeepsAnswers
  <2>3. ASSUME NEW s \in Reqs, GuardRejects(s) PROVE Kept(r)
    BY <2>3 DEF GuardRejects, Answer, ReqOK
  <2>4. ASSUME NEW s \in Reqs, GuardAdmits(s) PROVE Kept(r)
    BY <2>1, <2>4 DEF GuardAdmits, SidecarGone
  <2>5. ASSUME NEW s \in Reqs, RequestNext(s) PROVE Kept(r)
    BY <2>1, <2>5 DEF RequestNext, Healthz, ReadyzResolves, ReadyzProbes, PageProxied,
         Answer, Step, ReqOK
  <2>6. QED
    BY <2>2, <2>3, <2>4, <2>5
    DEF Next, ServerNext, BridgeNext, InnerNext, ServerSendsStartup,
        ServerSendsShutdown, ServerForceExits, ServerSeesReply, ServerStops,
        BridgeStartupFails, BridgeStartup, BridgeRepeatedStartup, BridgeAfterSleep,
        BridgeShutdown, BridgeInnerReturned, BridgeFinally, InnerFirstSlice, InnerLater,
        InnerShutdown, SidecarExits, Finished, vars
<1>3. ASSUME ReqOK, DownInv, [Next]_vars
      PROVE  [Refused => \A r \in Reqs : Kept(r)]_vars
  BY <1>2, <1>3
<1>4. QED
  BY <1>3, DownInvariant, RequestsTyped, PTL DEF Spec, DownStaysDown, Refused

(***************************************************************************)
(* Requests are in flight only while the server serves, and while it does  *)
(* only the guard empties the box.                                         *)
(***************************************************************************)
FlightInv ==
  /\ \A r \in Reqs : InFlight(r) => srv = "serving"
  /\ \A r \in Reqs : req[r].answer # "none" => req[r].pc = "done"
  /\ srv = "serving" => box \/ Refused
  /\ NotConfiguredAfterDown

(***************************************************************************)
(* For any number of requests: readyz takes an empty box for a process     *)
(* without a sidecar only after the guard has turned a request away.       *)
(***************************************************************************)
THEOREM EmptyBoxMeansDown == Spec => []NotConfiguredAfterDown
<1>1. Init => FlightInv
  BY DEF Init, FlightInv, InFlight, NotConfiguredAfterDown
<1>2. ASSUME ProtocolInv, ReqOK, DownInv, FlightInv, [Next]_vars PROVE FlightInv'
  <2> USE <1>2 DEF FlightInv, InFlight, NotConfiguredAfterDown, Refused
  <2>1. ASSUME UNCHANGED req, srv' = srv, box' = box \/ srv # "serving"
        PROVE  FlightInv'
    BY <2>1
  <2>2. CASE ServerSeesReply \/ ServerSendsStartup \/ ServerStops
    BY <2>2 DEF ServerSeesReply, ServerSendsStartup, ServerStops, sideVars, DownInv
  <2>3. CASE ServerSendsShutdown \/ ServerForceExits
    <3>1. CutRequests /\ srv' # "serving"
      BY <2>3 DEF ServerSendsShutdown, ServerForceExits
    <3>2. \A r \in Reqs : ~InFlight(r)' /\ req'[r].answer = req[r].answer
                         /\ (req[r].pc = "done" => req'[r].pc = "done")
      BY <3>1, CutKeepsAnswers DEF CutRequests, ReqOK
    <3>3. QED
      BY <3>1, <3>2
  <2>4. ASSUME NEW r \in Reqs, GuardRejects(r) PROVE FlightInv'
    BY <2>4 DEF GuardRejects, Answer, ReqOK, lifeVars
  <2>5. ASSUME NEW r \in Reqs, GuardAdmits(r) PROVE FlightInv'
    <3>1. /\ srv' = srv /\ srv = "serving" /\ box' = box /\ req[r].answer = "none"
          /\ \A q \in Reqs : req'[q].answer = req[q].answer
          /\ \A q \in Reqs \ {r} : req'[q] = req[q]
      BY <2>5 DEF GuardAdmits, Step, ReqOK, lifeVars, sideVars
    <3>2. QED
      BY <3>1
  <2>6. ASSUME NEW r \in Reqs, RequestNext(r) PROVE FlightInv'
    <3>1. /\ srv' = srv /\ srv = "serving" /\ box' = box /\ req[r].answer = "none"
          /\ \A q \in Reqs \ {r} : req'[q] = req[q]
      BY <2>6 DEF RequestNext, Healthz, ReadyzResolves, ReadyzProbes, PageProxied,
           Answer, Step, ReqOK, lifeVars, sideVars
    <3>2. /\ req'[r].answer # "none" => req'[r].pc = "done"
          /\ req'[r].answer = "not_configured" => ~box
      BY <2>6, <3>1 DEF RequestNext, Healthz, ReadyzResolves, ReadyzProbes, PageProxied,
           Answer, Step, ReqOK
    <3>3. \A q \in Reqs : req[q].answer = "sidecar_down" => req'[q].answer = "sidecar_down"
      BY <3>1
    <3>4. QED
      BY <3>1, <3>2, <3>3
  <2>7. CASE BridgeNext
    BY <2>1, <2>7 DEF BridgeNext, BridgeStartupFails, BridgeStartup,
       BridgeRepeatedStartup, BridgeAfterSleep, BridgeShutdown, BridgeInnerReturned,
       BridgeFinally, ProtocolInv, sideVars
  <2>8. CASE InnerNext \/ SidecarExits \/ Finished \/ UNCHANGED vars
    BY <2>1, <2>8 DEF InnerNext, InnerFirstSlice, InnerLater, InnerShutdown,
       SidecarExits, Finished, vars, lifeVars, sideVars
  <2>9. QED
    BY <2>2, <2>3, <2>4, <2>5, <2>6, <2>7, <2>8 DEF Next, ServerNext
<1>3. FlightInv => NotConfiguredAfterDown
  BY DEF FlightInv
<1>4. QED
  BY <1>1, <1>2, <1>3, ProtocolInvariant, RequestsTyped, DownInvariant, PTL DEF Spec

(***************************************************************************)
(* Server, lifespan task, inner application, sidecar and requests keep     *)
(* their types.                                                            *)
(***************************************************************************)
THEOREM TypeCorrect == Spec => []TypeOK
<1> DEFINE ControlOK ==
             /\ srv \in {"init", "starting", "serving", "stopping", "stopped", "left"}
             /\ inner \in {"none", "new", "starting", "running", "failed", "finished"}
           FlagsOK == /\ repeated \in BOOLEAN /\ handle \in BOOLEAN
                      /\ box \in BOOLEAN /\ client \in BOOLEAN
<1>1. Init => ControlOK /\ FlagsOK
  BY Zenon DEF Init
<1>2. ASSUME ControlOK, [Next]_vars PROVE ControlOK'
  <2>1. ASSUME NEW r \in Reqs, GuardRejects(r) \/ GuardAdmits(r) \/ RequestNext(r)
        PROVE  ControlOK'
    BY <1>2, <2>1, RequestsKeepLifespan DEF lifeVars
  <2>2. QED
    BY <1>2, <2>1
    DEF Next, ServerNext, BridgeNext, InnerNext, ServerSendsStartup,
        ServerSendsShutdown, ServerForceExits, ServerSeesReply, ServerStops, BridgeStartupFails,
        BridgeStartup, BridgeRepeatedStartup, BridgeAfterSleep, BridgeShutdown,
        BridgeInnerReturned, BridgeFinally, InnerFirstSlice, InnerLater,
        InnerShutdown, SidecarExits, Finished, vars, lifeVars
<1>3. ASSUME FlagsOK, [Next]_vars PROVE FlagsOK'
  BY <1>3, ZenonT(40)
  DEF Next, ServerNext, BridgeNext, InnerNext, ServerSendsStartup,
      ServerSendsShutdown, ServerForceExits, ServerSeesReply, ServerStops, BridgeStartupFails,
      BridgeStartup, BridgeRepeatedStartup, BridgeAfterSleep, BridgeShutdown,
      BridgeInnerReturned, BridgeFinally, InnerFirstSlice, InnerLater,
      InnerShutdown, SidecarExits, Finished, GuardRejects, GuardAdmits, RequestNext,
      Healthz, ReadyzResolves, ReadyzProbes, PageProxied, DropSidecar, vars, lifeVars,
      sideVars
<1>4. ControlOK /\ FlagsOK /\ ProtocolInv /\ ProcOK /\ ReqOK => TypeOK
  BY DEF ProtocolInv, ProcOK, ReqOK, TypeOK
<1> HIDE DEF ControlOK, FlagsOK
<1>5. QED
  BY <1>1, <1>2, <1>3, <1>4, ProtocolInvariant, ProcTyped, RequestsTyped, PTL DEF Spec

-----------------------------------------------------------------------------
(***************************************************************************)
(* What StartupAnswered and ShutdownStops rest on besides the scheduling:  *)
(* the lifespan task and the inner application's task never wait for each  *)
(* other, and they have only so many steps to take.                        *)
(***************************************************************************)

(* Where the inner task can be, seen from the bridge and from the server.  *)
HandshakeInv ==
  /\ inner = "new" => bridge = "sleep0"
  /\ inner \in {"running", "failed", "finished"} => reply # "none"
  /\ bridge = "returned" /\ srv = "starting" => reply # "none"
  /\ bridge = "await_inner" => inner # "none"

(* Bridge and inner task keep in step.                                     *)
LEMMA HandshakeInvariant == Spec => []HandshakeInv
<1>1. Init => HandshakeInv
  BY DEF Init, HandshakeInv
<1>2. ASSUME ProtocolInv, HandshakeInv, [Next]_vars PROVE HandshakeInv'
  <2> USE <1>2 DEF ProtocolInv, HandshakeInv, Reply
  <2>1. CASE BridgeStartupFails \/ BridgeStartup \/ BridgeRepeatedStartup
    BY <2>1 DEF BridgeStartupFails, BridgeStartup, BridgeRepeatedStartup
  <2>2. CASE BridgeAfterSleep
    BY <2>2 DEF BridgeAfterSleep, InnerDone
  <2>3. CASE BridgeShutdown \/ BridgeInnerReturned \/ BridgeFinally
    BY <2>3 DEF BridgeShutdown, BridgeInnerReturned, BridgeFinally
  <2>4. CASE InnerNext
    BY <2>4 DEF InnerNext, InnerFirstSlice, InnerLater, InnerShutdown
  <2>5. CASE ServerNext \/ ServerSendsStartup \/ ServerSendsShutdown \/ ServerForceExits
    BY <2>5 DEF ServerNext, ServerSeesReply, ServerStops, ServerSendsStartup,
                ServerSendsShutdown, ServerForceExits
  <2>6. CASE UNCHANGED lifeVars
    BY <2>6 DEF lifeVars
  <2>7. QED
    BY <2>1, <2>2, <2>3, <2>4, <2>5, <2>6, RequestsKeepLifespan
    DEF Next, BridgeNext, SidecarExits, Finished, vars
<1>3. QED
  BY <1>1, <1>2, ProtocolInvariant, PTL DEF Spec

(* The guards of the steps of server, lifespan task and inner application  *)
(* that a start-up or a shutdown can still take.                           *)
CanStep ==
  \/ srv = "starting" /\ reply # "none" /\ bridge # "sleep0"
  \/ srv = "starting" /\ bridge = "receive" /\ inner = "none"
  \/ bridge = "sleep0"
  \/ bridge # "sleep0" /\ inner = "starting"
  \/ srv = "stopping" /\ bridge \in {"receive", "returned"}
  \/ bridge = "await_inner" /\ inner \in {"running", "failed", "finished"}
  \/ bridge = "finally"

(* A start-up or a shutdown that has begun can always go on.               *)
NeverStuck == srv \in {"starting", "stopping"} => CanStep

(***************************************************************************)
(* Neither a start-up nor a shutdown ever hangs on a task that waits for   *)
(* the other one, whatever fails where: the answer the bridge awaits from  *)
(* the inner application is still to come or has come.                     *)
(***************************************************************************)
THEOREM LifespanNeverStuck == Spec => []NeverStuck
<1>1. ASSUME TypeOK, ProtocolInv, HandshakeInv PROVE NeverStuck
  BY <1>1 DEF TypeOK, ProtocolInv, HandshakeInv, NeverStuck, CanStep
<1>2. QED
  BY <1>1, TypeCorrect, ProtocolInvariant, HandshakeInvariant, PTL

BridgeWork ==
  IF bridge = "returned" THEN 0
  ELSE IF bridge = "finally" THEN 1
  ELSE IF bridge = "await_inner" THEN 2
  ELSE IF bridge = "sleep0" THEN 4
  ELSE IF inner = "none" THEN 5 ELSE 3

InnerWork ==
  IF inner \in {"failed", "finished"} THEN 0
  ELSE IF inner = "running" THEN 1
  ELSE IF inner = "starting" THEN 2 ELSE 3

(* The steps the two tasks have left at most, one for a repeated start-up. *)
Work == BridgeWork + InnerWork + (IF repeated = TRUE THEN 0 ELSE 1)

(* Every step of the two tasks leaves less to do, and nobody else adds.    *)
LifespanRunsDown ==
  /\ BridgeNext \/ InnerNext => Work' < Work
  /\ Work' <= Work

(***************************************************************************)
(* The lifespan task and the inner application's task take nine steps at   *)
(* most between them, for any number of requests, crashes and failures.    *)
(***************************************************************************)
THEOREM LifespanIsBounded == Spec => [](Work \in 0..9) /\ [][LifespanRunsDown]_vars
<1>1. Work \in 0..9
  BY DEF Work, BridgeWork, InnerWork
<1>2. ASSUME TypeOK, ProtocolInv, [Next]_vars PROVE [LifespanRunsDown]_vars
  <2> USE <1>2 DEF LifespanRunsDown, Work, BridgeWork, InnerWork, TypeOK
  <2>1. CASE BridgeStartupFails \/ BridgeStartup
    BY <2>1 DEF BridgeStartupFails, BridgeStartup
  <2>2. CASE BridgeRepeatedStartup
    BY <2>2 DEF BridgeRepeatedStartup
  <2>3. CASE BridgeAfterSleep
    BY <2>3 DEF BridgeAfterSleep, ProtocolInv
  <2>4. CASE BridgeShutdown \/ BridgeInnerReturned \/ BridgeFinally
    BY <2>4 DEF BridgeShutdown, BridgeInnerReturned, BridgeFinally
  <2>5. CASE InnerNext
    BY <2>5 DEF InnerNext, InnerFirstSlice, InnerLater, InnerShutdown
  <2>6. ASSUME UNCHANGED <<bridge, inner, repeated>>, ~(BridgeNext \/ InnerNext)
        PROVE  LifespanRunsDown
    BY <2>6
  <2> HIDE DEF LifespanRunsDown, Work
  <2>7. CASE ServerNext \/ ServerSendsStartup \/ ServerSendsShutdown \/ ServerForceExits
             \/ SidecarExits
    <3>1. UNCHANGED <<bridge, inner, repeated>>
      BY <2>7 DEF ServerNext, ServerSeesReply, ServerStops, ServerSendsStartup,
                  ServerSendsShutdown, ServerForceExits, SidecarExits, lifeVars
    <3>2. QED BY <2>1, <2>2, <2>3, <2>4, <2>5, <2>6, <3>1 DEF BridgeNext
  <2>8. ASSUME NEW r \in Reqs, GuardRejects(r) \/ GuardAdmits(r) \/ RequestNext(r)
        PROVE  [LifespanRunsDown]_vars
    <3>1. UNCHANGED <<bridge, inner, repeated>>
      BY <2>8, RequestsKeepLifespan DEF lifeVars
    <3>2. QED BY <2>1, <2>2, <2>3, <2>4, <2>5, <2>6, <3>1 DEF BridgeNext
  <2>9. QED
    BY <2>1, <2>2, <2>3, <2>4, <2>5, <2>7, <2>8 DEF Next, BridgeNext, Finished
<1>3. QED
  BY <1>1, <1>2, TypeCorrect, ProtocolInvariant, PTL DEF Spec
=============================================================================
