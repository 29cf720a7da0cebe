----------------------- MODULE SidecarSupervisorProofs -----------------------
(***************************************************************************)
(* Proofs about SidecarSupervisor for every number of reloads and every    *)
(* set of faults: type correctness, at most one running sidecar, what the  *)
(* gateway's resolver can return, the first reload, clean exits, the       *)
(* refinement of SidecarLease, and that no thread waits for nobody or goes *)
(* on for ever.                                                            *)
(***************************************************************************)
EXTENDS SidecarSupervisor, TLAPS

(***************************************************************************)
(* Every reachable state of run_unified's threads, sidecars, flags and     *)
(* files is well typed.                                                    *)
(***************************************************************************)
THEOREM TypeCorrect == Spec => []TypeOK
<1> USE SupervisorAssumption
    DEF SupervisorAssumption, Procs, Callers, MainPC, MonPC, WatPC
<1>1. Init => TypeOK
  <2> SUFFICES ASSUME Init PROVE TypeOK
    OBVIOUS
  <2>1. FlagsOK
    BY Zenon DEF Init, FlagsOK
  <2>2. QED
    BY <2>1 DEF Init, TypeOK
<1>2. TypeOK /\ [Next]_vars => TypeOK'
  <2> SUFFICES ASSUME TypeOK, [Next]_vars PROVE TypeOK'
    OBVIOUS
  <2> USE DEF procVars, flagVars, diskVars, threadVars
  <2>0. FlagsOK
    BY DEF TypeOK
  <2>f. FlagsOK'
    BY <2>0, ZenonT(90) DEF FlagsOK, Next, MainNext, MonitorNext, ReloadNext, Environment,
       MainPopen, MainWaitTcp, MainPublish, MainStart, MainStartRaises, ServerRunEnds,
       MainUnlinkUpstream, MainRemovePidfile, MainTerminate, MonitorTop, MonitorWait,
       MonitorCheck, MonitorDoneSet, MonitorDoneTimeout, MonitorClear, MonitorReset,
       MonitorStop, FileChange, ReloadBegin, ReloadTerminateOld, ReloadPopen,
       ReloadSetBox, ReloadWaitTcp, ReloadTerminateNew, ReloadStop, ReloadTruncate,
       ReloadWrite, ReloadSetEnv, ReloadFinish, StopRequested, ServerRunRaises, SigtermEnds,
       MainInterrupted, SidecarListens, SidecarExits, Finished, vars
  <2> USE <2>f DEF TypeOK
  <2>1. CASE MainPopen
    BY <2>1, SMTT(30) DEF MainPopen, Spawn
  <2>2. CASE MainWaitTcp
    BY <2>2 DEF MainWaitTcp
  <2>3. CASE MainPublish
    BY <2>3 DEF MainPublish
  <2>4. CASE MainStart
    BY <2>4 DEF MainStart
  <2>5. CASE MainStartRaises \/ ServerRunEnds \/ ServerRunRaises \/ SigtermEnds
             \/ MainInterrupted
    BY <2>5, SMTT(30) DEF MainStartRaises, ServerRunEnds, ServerRunRaises, SigtermEnds,
         MainInterrupted
  <2>6. CASE MainUnlinkUpstream \/ MainRemovePidfile
    BY <2>6, SMTT(30) DEF MainUnlinkUpstream, MainRemovePidfile
  <2>7. CASE MainTerminate
    <3>1. /\ sig' \in [Procs -> {"none", "asked", "kill"}]
          /\ phase' \in [Callers -> {"poll", "int", "term"}]
      BY <2>7 DEF MainTerminate, TerminateReturns, TerminateEscalates, Send
    <3>2. main' \in MainPC
      BY <2>7 DEF MainTerminate
    <3>3. QED
      BY <2>7, <3>1, <3>2 DEF MainTerminate
  <2>8. CASE MonitorNext
    BY <2>8, SMTT(30) DEF MonitorNext, MonitorTop, MonitorWait, MonitorCheck, MonitorDoneSet,
         MonitorDoneTimeout, MonitorClear, MonitorReset, MonitorStop
  <2>9. CASE FileChange
    BY <2>9 DEF FileChange
  <2>10. CASE ReloadBegin \/ ReloadStop \/ ReloadTruncate \/ ReloadWrite
              \/ ReloadSetEnv \/ ReloadFinish
    BY <2>10, SMTT(30) DEF ReloadBegin, ReloadStop, ReloadTruncate, ReloadWrite, ReloadSetEnv,
         ReloadFinish
  <2>11. CASE ReloadTerminateOld \/ ReloadTerminateNew
    <3>1. /\ sig' \in [Procs -> {"none", "asked", "kill"}]
          /\ phase' \in [Callers -> {"poll", "int", "term"}]
      BY <2>11, SMTT(30) DEF ReloadTerminateOld, ReloadTerminateNew, TerminateReturns,
           TerminateEscalates, Send
    <3>2. wat' \in WatPC
      BY <2>11 DEF ReloadTerminateOld, ReloadTerminateNew
    <3>3. QED
      BY <2>11, <3>1, <3>2, SMTT(30) DEF ReloadTerminateOld, ReloadTerminateNew
  <2>12. CASE ReloadPopen
    BY <2>12 DEF ReloadPopen, Spawn
  <2>13. CASE ReloadSetBox \/ ReloadWaitTcp
    BY <2>13, SMTT(30) DEF ReloadSetBox, ReloadWaitTcp
  <2>14. CASE StopRequested
    BY <2>14 DEF StopRequested
  <2>15. ASSUME NEW p \in Procs, SidecarListens(p) \/ SidecarExits(p) PROVE TypeOK'
    <3>1. CASE SidecarListens(p)
      BY <3>1 DEF SidecarListens
    <3>2. CASE SidecarExits(p)
      BY <3>2 DEF SidecarExits
    <3>3. QED
      BY <2>15, <3>1, <3>2
  <2>16. CASE Finished \/ UNCHANGED vars
    BY <2>16, SMTT(30) DEF Finished, vars
  <2>17. QED
    BY <2>1, <2>2, <2>3, <2>4, <2>5, <2>6, <2>7, <2>8, <2>9, <2>10, <2>11, <2>12,
       <2>13, <2>14, <2>15, <2>16 DEF Next, MainNext, ReloadNext, Environment
<1>3. QED
  BY <1>1, <1>2, PTL DEF Spec

(***************************************************************************)
(* What the rest of the proofs need to know about _terminate_process: it   *)
(* only touches the signal of its target, it never revives a sidecar that  *)
(* is out of the way, and its target is out of the way when it returns.    *)
(***************************************************************************)
LEMMA TerminateFacts ==
  ASSUME TypeOK, NEW c \in Callers, target[c] \in Procs, UNCHANGED <<status, target>>,
         TerminateReturns(c) \/ TerminateEscalates(c)
  PROVE  /\ \A p \in Procs : Down(p) => Down(p)'
         /\ TerminateReturns(c) => Down(target[c])'
<1> USE DEF TypeOK, Down, Send
<1>1. CASE TerminateReturns(c)
  BY <1>1 DEF TerminateReturns
<1>2. CASE TerminateEscalates(c)
  <2>1. phase'[c] # "poll"
    BY <1>2 DEF TerminateEscalates
  <2>2. ~TerminateReturns(c)
    BY <2>1 DEF TerminateReturns
  <2>3. QED
    BY <1>2, <2>2 DEF TerminateEscalates
<1>3. QED
  BY <1>1, <1>2

(***************************************************************************)
(* The spawn discipline of run_unified and restart_streamlit_sidecar is an *)
(* invariant: a sidecar is started only when all its predecessors have     *)
(* exited or been killed.                                                  *)
(***************************************************************************)
THEOREM SpawnInvariant == Spec => []SpawnInv
<1> USE SupervisorAssumption DEF SupervisorAssumption, Procs
<1>1. Init => SpawnInv
  BY DEF Init, SpawnInv, Down, Callers
<1>2. TypeOK /\ TypeOK' /\ SpawnInv /\ [Next]_vars => SpawnInv'
  <2> SUFFICES ASSUME TypeOK, TypeOK', SpawnInv, [Next]_vars PROVE SpawnInv'
    OBVIOUS
  <2> USE DEF TypeOK, SpawnInv, Down, procVars, flagVars, diskVars, threadVars, Callers
  <2>1. CASE MainPopen
    BY <2>1 DEF MainPopen, Spawn
  <2>2. CASE MainWaitTcp \/ MainPublish \/ MainStart
    BY <2>2, SMTT(30) DEF MainWaitTcp, MainPublish, MainStart
  <2>3. CASE MainStartRaises \/ ServerRunEnds \/ ServerRunRaises \/ SigtermEnds
             \/ MainInterrupted
    BY <2>3, SMTT(30) DEF MainStartRaises, ServerRunEnds, ServerRunRaises, SigtermEnds,
         MainInterrupted
  <2>4. CASE MainUnlinkUpstream \/ MainRemovePidfile
    BY <2>4, SMTT(30) DEF MainUnlinkUpstream, MainRemovePidfile
  <2>5. CASE MainTerminate
    BY <2>5 DEF MainTerminate, TerminateReturns, TerminateEscalates, Send
  <2>6. CASE MonitorNext
    BY <2>6, SMTT(30) DEF MonitorNext, MonitorTop, MonitorWait, MonitorCheck, MonitorDoneSet,
         MonitorDoneTimeout, MonitorClear, MonitorReset, MonitorStop
  <2>7. CASE FileChange \/ ReloadBegin
    BY <2>7, SMTT(30) DEF FileChange, ReloadBegin
  <2>8. CASE ReloadTerminateOld
    <3>1. target["watcher"] = spawned /\ target["watcher"] \in Procs
      BY <2>8 DEF ReloadTerminateOld
    <3>2. /\ \A p \in Procs : Down(p) => Down(p)'
          /\ TerminateReturns("watcher") => Down(spawned)'
      BY <2>8, <3>1, TerminateFacts DEF ReloadTerminateOld
    <3>3. wat' \in {"term_old", "popen"}
          /\ (wat' = "popen" => wat = "popen" \/ TerminateReturns("watcher"))
      BY <2>8 DEF ReloadTerminateOld
    <3>4. QED
      BY <2>8, <3>1, <3>2, <3>3 DEF ReloadTerminateOld
  <2>9. CASE ReloadPopen
    BY <2>9 DEF ReloadPopen, Spawn
  <2>10. CASE ReloadSetBox \/ ReloadWaitTcp
    BY <2>10, SMTT(30) DEF ReloadSetBox, ReloadWaitTcp
  <2>11. CASE ReloadTerminateNew
    BY <2>11 DEF ReloadTerminateNew, TerminateReturns, TerminateEscalates, Send
  <2>12. CASE ReloadStop \/ ReloadTruncate \/ ReloadWrite \/ ReloadSetEnv \/ ReloadFinish
    BY <2>12, SMTT(30) DEF ReloadStop, ReloadTruncate, ReloadWrite, ReloadSetEnv, ReloadFinish
  <2>13. CASE StopRequested
    BY <2>13 DEF StopRequested
  <2>14. ASSUME NEW p \in Procs, SidecarListens(p) \/ SidecarExits(p) PROVE SpawnInv'
    BY <2>14, SMTT(30) DEF SidecarListens, SidecarExits, Alive
  <2>15. CASE Finished \/ UNCHANGED vars
    BY <2>15, SMTT(30) DEF Finished, vars
  <2>16. QED
    BY <2>1, <2>2, <2>3, <2>4, <2>5, <2>6, <2>7, <2>8, <2>9, <2>10, <2>11, <2>12,
       <2>13, <2>14, <2>15 DEF Next, MainNext, ReloadNext, Environment
<1>3. QED
  BY <1>1, <1>2, TypeCorrect, PTL DEF Spec

(***************************************************************************)
(* Two sidecars are never both left running, for any number of reloads     *)
(* racing with any crash or shutdown: two live sidecars that nobody killed *)
(* would both have to be the last one spawned.                             *)
(***************************************************************************)
THEOREM OneSidecar == Spec => []AtMostOneSidecar
<1>1. TypeOK /\ SpawnInv => AtMostOneSidecar
  BY SupervisorAssumption
     DEF SupervisorAssumption, TypeOK, SpawnInv, AtMostOneSidecar, Alive, Procs
<1>2. QED
  BY <1>1, TypeCorrect, SpawnInvariant, PTL

(***************************************************************************)
(* Both copies of the upstream URL only ever name sidecars that listened:  *)
(* the TCP wait comes before write_streamlit_upstream_state and before     *)
(* update_streamlit_upstream_file.                                         *)
(***************************************************************************)
THEOREM PublishInvariant == Spec => []PublishInv
<1> USE SupervisorAssumption DEF SupervisorAssumption, Procs
<1>1. Init => PublishInv
  BY DEF Init, PublishInv
<1>2. TypeOK /\ TypeOK' /\ SpawnInv /\ PublishInv /\ [Next]_vars => PublishInv'
  <2> SUFFICES ASSUME TypeOK, TypeOK', SpawnInv, PublishInv, [Next]_vars
               PROVE  PublishInv'
    OBVIOUS
  <2> USE DEF TypeOK, SpawnInv, PublishInv, Listened, procVars, flagVars, diskVars,
          threadVars
  <2>1. CASE MainPopen
    BY <2>1 DEF MainPopen
  <2>2. CASE MainWaitTcp \/ MainPublish \/ MainStart
    BY <2>2, SMTT(30) DEF MainWaitTcp, MainPublish, MainStart
  <2>3. CASE MainStartRaises \/ ServerRunEnds \/ ServerRunRaises \/ SigtermEnds
             \/ MainInterrupted
    BY <2>3, SMTT(30) DEF MainStartRaises, ServerRunEnds, ServerRunRaises, SigtermEnds,
         MainInterrupted
  <2>4. CASE MainUnlinkUpstream \/ MainRemovePidfile \/ MainTerminate
    BY <2>4, SMTT(30) DEF MainUnlinkUpstream, MainRemovePidfile, MainTerminate
  <2>5. CASE MonitorNext
    BY <2>5, SMTT(30) DEF MonitorNext, MonitorTop, MonitorWait, MonitorCheck, MonitorDoneSet,
         MonitorDoneTimeout, MonitorClear, MonitorReset, MonitorStop
  <2>6. CASE FileChange \/ ReloadBegin
    BY <2>6, SMTT(30) DEF FileChange, ReloadBegin
  <2>7. CASE ReloadTerminateOld \/ ReloadTerminateNew
    BY <2>7, SMTT(30) DEF ReloadTerminateOld, ReloadTerminateNew
  <2>8. CASE ReloadPopen
    BY <2>8 DEF ReloadPopen, Spawn
  <2>9. CASE ReloadSetBox \/ ReloadWaitTcp
    BY <2>9 DEF ReloadSetBox, ReloadWaitTcp
  <2>10. CASE ReloadStop \/ ReloadTruncate \/ ReloadFinish
    BY <2>10, SMTT(30) DEF ReloadStop, ReloadTruncate, ReloadFinish
  <2>11. CASE ReloadWrite \/ ReloadSetEnv
    BY <2>11 DEF ReloadWrite, ReloadSetEnv
  <2>12. CASE StopRequested
    BY <2>12 DEF StopRequested
  <2>13. ASSUME NEW p \in Procs, SidecarListens(p) \/ SidecarExits(p) PROVE PublishInv'
    BY <2>13, SMTT(30) DEF SidecarListens, SidecarExits, Alive
  <2>14. CASE Finished \/ UNCHANGED vars
    BY <2>14, SMTT(30) DEF Finished, vars
  <2>15. QED
    BY <2>1, <2>2, <2>3, <2>4, <2>5, <2>6, <2>7, <2>8, <2>9, <2>10, <2>11, <2>12,
       <2>13, <2>14 DEF Next, MainNext, ReloadNext, Environment
<1>3. QED
  BY <1>1, <1>2, TypeCorrect, SpawnInvariant, PTL DEF Spec

(***************************************************************************)
(* read_streamlit_upstream_url never hands a serving gateway an empty URL  *)
(* or the URL of a sidecar that has not listened, in whichever of the      *)
(* three steps of update_streamlit_upstream_file the read falls.           *)
(***************************************************************************)
THEOREM ResolverSafe == Spec => []ResolverNamesListener
<1>1. PublishInv => ResolverNamesListener
  BY DEF PublishInv, ResolverNamesListener, ReadUpstreamUrl, Listened
<1>2. QED
  BY <1>1, PublishInvariant, PTL

(***************************************************************************)
(* While the gateway serves, the state file is there and named, and what   *)
(* it holds is the sidecar in proc_box, except from the moment a reload    *)
(* has a new one until it has written the file, and after a failed update. *)
(***************************************************************************)
FollowInv ==
  main \in {"pidfile", "serve"} =>
    /\ fileEnv /\ fileExists
    /\ wat = "set_env" => fileUrl = spawned
    /\ wat \notin {"set_box", "wait_tcp", "term_new", "stop", "truncate", "write"}
         /\ ~shouldExit /\ "update" \notin diskErr => fileUrl = procBox

(* The state file follows proc_box, for any number of reloads.             *)
THEOREM FollowInvariant == Spec => []FollowInv
<1>1. Init => FollowInv
  BY DEF Init, FollowInv
<1>2. TypeOK /\ SpawnInv /\ FollowInv /\ [Next]_vars => FollowInv'
  <2> SUFFICES ASSUME TypeOK, SpawnInv, FollowInv, [Next]_vars PROVE FollowInv'
    OBVIOUS
  <2> USE DEF FollowInv, procVars, flagVars, diskVars, threadVars
  <2>1. CASE MainNext
    BY <2>1 DEF MainNext, MainPopen, MainWaitTcp, MainPublish, MainStart,
         MainStartRaises, ServerRunEnds, MainUnlinkUpstream, MainRemovePidfile,
         MainTerminate, SpawnInv
  <2>2. CASE MonitorNext
    BY <2>2 DEF MonitorNext, MonitorTop, MonitorWait, MonitorCheck, MonitorDoneSet,
         MonitorDoneTimeout, MonitorClear, MonitorReset, MonitorStop
  <2>3. CASE FileChange \/ ReloadBegin
    BY <2>3 DEF FileChange, ReloadBegin
  <2>4. CASE ReloadTerminateOld \/ ReloadTerminateNew
    BY <2>4 DEF ReloadTerminateOld, ReloadTerminateNew
  <2>5. CASE ReloadPopen \/ ReloadSetBox \/ ReloadWaitTcp
    BY <2>5 DEF ReloadPopen, ReloadSetBox, ReloadWaitTcp
  <2>6. CASE ReloadStop \/ ReloadTruncate \/ ReloadFinish
    BY <2>6 DEF ReloadStop, ReloadTruncate, ReloadFinish
  <2>7. CASE ReloadWrite \/ ReloadSetEnv
    BY <2>7 DEF ReloadWrite, ReloadSetEnv, SpawnInv
  <2>8. CASE Environment
    BY <2>8 DEF Environment, StopRequested, ServerRunEnds, ServerRunRaises, SigtermEnds,
         MainInterrupted, SidecarListens, SidecarExits
  <2>9. CASE Finished \/ UNCHANGED vars
    BY <2>9 DEF Finished, vars
  <2>10. QED
    BY <2>1, <2>2, <2>3, <2>4, <2>5, <2>6, <2>7, <2>8, <2>9 DEF Next, ReloadNext
<1>3. QED
  BY <1>1, <1>2, TypeCorrect, SpawnInvariant, PTL DEF Spec

(***************************************************************************)
(* Between reloads the gateway resolves to the sidecar in proc_box, unless *)
(* the last update of the state file failed; a later reload whose update   *)
(* succeeds puts that right.                                               *)
(***************************************************************************)
THEOREM ResolverFollows == Spec => []ResolverFollowsBox
<1>1. TypeOK /\ SpawnInv /\ FollowInv => ResolverFollowsBox
  BY DEF TypeOK, SpawnInv, FollowInv, ResolverFollowsBox, ReadUpstreamUrl
<1>2. QED
  BY <1>1, TypeCorrect, SpawnInvariant, FollowInvariant, PTL

-----------------------------------------------------------------------------
(***************************************************************************)
(* The only sidecar that can be in use is the last one spawned.            *)
(***************************************************************************)
LEMMA OnlyLastInUse ==
  ASSUME TypeOK, SpawnInv PROVE InUse \subseteq {spawned}
BY SupervisorAssumption DEF SupervisorAssumption, TypeOK, SpawnInv, InUse, Alive, Procs

(***************************************************************************)
(* A step that changes the sidecars only by signals, exits or a first      *)
(* connection puts none into use.                                          *)
(***************************************************************************)
LEMMA UseShrinks ==
  ASSUME \A p \in Procs : Alive(p)' => Alive(p),
         \A p \in Procs : Down(p) => Down(p)'
  PROVE  InUse' \subseteq InUse
BY DEF InUse, Procs

(***************************************************************************)
(* _terminate_process puts no sidecar into use.                            *)
(***************************************************************************)
LEMMA TerminateShrinks ==
  ASSUME TypeOK, NEW c \in Callers, UNCHANGED status,
         TerminateReturns(c) \/ TerminateEscalates(c)
  PROVE  InUse' \subseteq InUse
<1>1. \A p \in Procs : Down(p) => Down(p)'
  BY DEF TypeOK, Down, TerminateReturns, TerminateEscalates, Send
<1>2. \A p \in Procs : Alive(p)' => Alive(p)
  BY DEF Alive
<1>3. QED
  BY <1>1, <1>2, UseShrinks

(***************************************************************************)
(* run_unified implements the lease of SidecarLease for any number of      *)
(* reloads and any faults: the monitor, the file watcher and the finally   *)
(* block together never start a sidecar next to one that is in use.        *)
(***************************************************************************)
THEOREM SupervisorImplementsLease == Spec => ImplementsLease
<1> USE SupervisorAssumption DEF SupervisorAssumption
<1>1. Init => Lease!Init
  BY DEF Init, Lease!Init, InUse, Alive, ServerState, Running
<1>2. ASSUME TypeOK, SpawnInv, [Next]_vars PROVE [Lease!Next]_(Lease!vars)
  <2> USE <1>2
  <2>1. InUse = {} \/ InUse = {spawned}
    BY OnlyLastInUse
  <2>2. main' = main => ServerState' = ServerState
    BY DEF ServerState, Running
  <2>3. ASSUME InUse' \subseteq InUse, spawned' = spawned, ServerState' = ServerState
        PROVE  [Lease!Next]_(Lease!vars)
    <3>1. InUse' = {} \/ InUse' = InUse
      BY <2>1, <2>3
    <3>2. QED BY <2>3, <3>1 DEF Lease!Next, Lease!vars, Lease!End
  <2>4. ASSUME InUse' \subseteq InUse, spawned' = spawned, Running, ~Running'
        PROVE  Lease!Leave
    <3>1. InUse' = {} \/ InUse' = InUse
      BY <2>1, <2>4
    <3>2. ServerState # "gone" /\ ServerState' = "gone"
      BY <2>4 DEF ServerState, Running
    <3>3. QED BY <2>4, <3>1, <3>2 DEF Lease!Leave
  <2>5. ASSUME Spawn, UNCHANGED <<sig, procBox>>, InUse = {}, Running,
               ServerState' = ServerState
        PROVE  Lease!Start
    <3>1. spawned + 1 \in Procs /\ status[spawned + 1] = "none"
      BY <2>5 DEF Spawn, TypeOK, SpawnInv, Procs
    <3>2. \A p \in Procs : p # spawned + 1 => (p \in InUse' <=> p \in InUse)
      BY <2>5, <3>1 DEF InUse, Alive, Down, Spawn, TypeOK
    <3>3. InUse' \subseteq {spawned + 1}
      BY <2>5, <3>2 DEF InUse
    <3>4. InUse' = {} \/ InUse' = {spawned + 1}
      BY <3>3
    <3>5. ServerState # "gone"
      BY <2>5 DEF ServerState, Running
    <3>6. QED BY <2>5, <3>4, <3>5 DEF Lease!Start, Spawn
  <2>6. CASE MainPopen
    <3>1. CASE Spawn /\ main' = "wait_tcp" /\ UNCHANGED sig
      <4>1. spawned = 0 /\ Running /\ ServerState' = ServerState
        BY <2>6, <3>1 DEF MainPopen, SpawnInv, Running, ServerState
      <4>2. InUse = {}
        BY <2>1, <4>1 DEF InUse, Procs
      <4>3. InUse' \subseteq {spawned + 1} /\ spawned' = spawned + 1
        BY <2>6, <3>1, <4>1, <4>2 DEF InUse, Alive, Down, Spawn, TypeOK, SpawnInv, Procs
      <4>4. ServerState # "gone" /\ (InUse' = {} \/ InUse' = {spawned + 1})
        BY <4>1, <4>3 DEF ServerState, Running
      <4>5. QED BY <4>1, <4>2, <4>3, <4>4 DEF Lease!Start, Lease!Next
    <3>2. CASE main' = "exited" /\ UNCHANGED procVars
      <4>1. Running /\ ~Running' /\ InUse' = InUse /\ spawned' = spawned
        BY <2>6, <3>2 DEF MainPopen, Running, procVars, InUse, Alive, Down
      <4>2. QED BY <2>4, <4>1 DEF Lease!Next
    <3>3. QED BY <2>6, <3>1, <3>2 DEF MainPopen
  <2>7. CASE ReloadPopen
    <3>1. Running /\ ServerState' = ServerState /\ InUse = {}
      BY <2>1, <2>2, <2>7 DEF ReloadPopen, SpawnInv, InUse
    <3>2. CASE Spawn
      BY <2>5, <2>7, <3>1, <3>2 DEF ReloadPopen, Lease!Next
    <3>3. CASE UNCHANGED <<spawned, status>>
      <4>1. InUse' = InUse
        BY <2>7, <3>3 DEF ReloadPopen, InUse, Alive, Down
      <4>2. QED BY <2>3, <3>1, <3>3, <4>1
    <3>4. QED BY <2>7, <3>2, <3>3 DEF ReloadPopen
  <2>8. ASSUME UNCHANGED <<status, sig, spawned>>
        PROVE  InUse' = InUse /\ spawned' = spawned
    BY <2>8 DEF InUse, Alive, Down
  <2>9. CASE MainStart
    <3>1. ServerState = "down" /\ ServerState' = "up" /\ spawned > 0
      BY <2>9 DEF MainStart, ServerState, Running, SpawnInv, TypeOK
    <3>2. InUse' = InUse /\ spawned' = spawned
      BY <2>8, <2>9 DEF MainStart, procVars
    <3>3. QED BY <3>1, <3>2 DEF Lease!Serve, Lease!Next
  <2>10. CASE ServerRunEnds \/ ServerRunRaises
    <3>1. InUse' = InUse /\ spawned' = spawned
      BY <2>8, <2>10 DEF ServerRunEnds, ServerRunRaises, procVars
    <3>2. CASE main' = "unlink"
      <4>1. ServerState = "up" /\ ServerState' = "down"
        BY <2>10, <3>2 DEF ServerRunEnds, ServerRunRaises, ServerState, Running
      <4>2. QED BY <3>1, <4>1 DEF Lease!Drain, Lease!Next
    <3>3. CASE main' = "signalled"
      <4>1. Running /\ ~Running'
        BY <2>10, <3>3 DEF ServerRunEnds, ServerRunRaises, Running
      <4>2. QED BY <2>4, <3>1, <4>1 DEF Lease!Next
    <3>4. QED BY <2>10, <3>2, <3>3 DEF ServerRunEnds, ServerRunRaises
  <2>11. CASE SigtermEnds \/ MainInterrupted
              \/ (MainRemovePidfile /\ main' = "aborted")
    <3>1. Running /\ ~Running'
      BY <2>11 DEF SigtermEnds, MainInterrupted, MainRemovePidfile, Running
    <3>2. InUse' = InUse /\ spawned' = spawned
      BY <2>8, <2>11 DEF SigtermEnds, MainInterrupted, MainRemovePidfile, procVars
    <3>3. QED BY <2>4, <3>1, <3>2 DEF Lease!Next
  <2>12. CASE MainTerminate
    <3>1. InUse' \subseteq InUse /\ spawned' = spawned
      BY <2>12, TerminateShrinks DEF MainTerminate, Callers
    <3>2. CASE main' = "exited"
      <4>1. Running /\ ~Running'
        BY <2>12, <3>2 DEF MainTerminate, Running
      <4>2. QED BY <2>4, <3>1, <4>1 DEF Lease!Next
    <3>3. CASE main' = main
      BY <2>2, <2>3, <3>1, <3>3
    <3>4. QED BY <2>12, <3>2, <3>3 DEF MainTerminate
  <2>13. CASE ReloadTerminateOld \/ ReloadTerminateNew
    <3>1. InUse' \subseteq InUse /\ spawned' = spawned
      BY <2>13, TerminateShrinks DEF ReloadTerminateOld, ReloadTerminateNew, Callers
    <3>2. main' = main
      BY <2>13 DEF ReloadTerminateOld, ReloadTerminateNew
    <3>3. QED BY <2>2, <2>3, <3>1, <3>2
  <2>14. ASSUME NEW p \in Procs, SidecarListens(p) \/ SidecarExits(p)
         PROVE  [Lease!Next]_(Lease!vars)
    <3>1. \A q \in Procs : (Alive(q)' => Alive(q)) /\ (Down(q) => Down(q)')
      BY <2>14 DEF SidecarListens, SidecarExits, Alive, Down, TypeOK
    <3>2. InUse' \subseteq InUse
      BY <3>1, UseShrinks
    <3>3. main' = main /\ spawned' = spawned
      BY <2>14 DEF SidecarListens, SidecarExits, threadVars
    <3>4. QED BY <2>2, <2>3, <3>2, <3>3
  <2>15. ASSUME UNCHANGED <<status, sig, spawned>>, ServerState' = ServerState
         PROVE  [Lease!Next]_(Lease!vars)
    BY <2>3, <2>8, <2>15
  <2>16. CASE MainWaitTcp \/ MainPublish \/ MainStartRaises \/ MainUnlinkUpstream
              \/ (MainRemovePidfile /\ main' # "aborted")
    <3>1. ServerState' = ServerState
      BY <2>16 DEF MainWaitTcp, MainPublish, MainStartRaises, MainUnlinkUpstream,
                   MainRemovePidfile, ServerState, Running
    <3>2. QED
      BY <2>15, <2>16, <3>1 DEF MainWaitTcp, MainPublish, MainStartRaises,
         MainUnlinkUpstream, MainRemovePidfile, procVars
  <2>17. CASE MonitorNext \/ FileChange \/ StopRequested \/ Finished \/ UNCHANGED vars
    BY <2>2, <2>15, <2>17 DEF MonitorNext, MonitorTop, MonitorWait, MonitorCheck,
       MonitorDoneSet, MonitorDoneTimeout, MonitorClear, MonitorReset, MonitorStop,
       FileChange, StopRequested, Finished, vars, threadVars, procVars
  <2>18. CASE ReloadBegin \/ ReloadSetBox \/ ReloadWaitTcp \/ ReloadStop
              \/ ReloadTruncate \/ ReloadWrite \/ ReloadSetEnv \/ ReloadFinish
    BY <2>2, <2>15, <2>18 DEF ReloadBegin, ReloadSetBox, ReloadWaitTcp, ReloadStop,
       ReloadTruncate, ReloadWrite, ReloadSetEnv, ReloadFinish, procVars
  <2>19. QED
    BY <2>6, <2>7, <2>9, <2>10, <2>11, <2>12, <2>13, <2>14, <2>16, <2>17, <2>18
    DEF Next, MainNext, ReloadNext, Environment
<1>3. QED
  BY <1>1, <1>2, TypeCorrect, SpawnInvariant, PTL
  DEF Spec, ImplementsLease, Lease!Spec

-----------------------------------------------------------------------------
(***************************************************************************)
(* What monitor and watcher know of each other up to the first reload,     *)
(* while main has not reached the finally block.  Before the reload        *)
(* nothing is signalled and the flag is down; the flag stays up, and the   *)
(* event down, until the new sidecar is in proc_box; once the flag is down *)
(* again the monitor watches the new one.                                  *)
(***************************************************************************)
Serving == main \in {"popen", "wait_tcp", "publish", "pidfile", "serve"}

Replacing == wat \in {"term_old", "popen", "set_box"}

BeforeReload ==
  changes = 0 \/ wat = "begin" =>
    /\ ~intentional /\ mon \notin {"wait_done", "clear", "reset"}
    /\ \A p \in Procs : sig[p] = "none"

DuringReload ==
  Replacing => intentional /\ ~done /\ mon \notin {"clear", "reset"}

MonitorKnows ==
  /\ main # "serve" => mon = "off"
  /\ main # "popen" => procBox \in Procs
  /\ mon \in {"wait", "check", "decide"} => monProc \in Procs
  /\ mon \in {"wait", "check"} /\ ~Replacing /\ ~intentional => monProc = spawned
  /\ mon \in {"check", "decide"} => status[monProc] = "exited"
  /\ mon = "decide" => ~BeingReplaced(monProc)

FirstInv ==
  changes <= 1 /\ Serving =>
    /\ changes = 0 => wat \in {"off", "watch"}
    /\ BeforeReload /\ DuringReload /\ MonitorKnows

(* Every step keeps what monitor and watcher know of each other.           *)
LEMMA FirstInvStep ==
  ASSUME TypeOK, TypeOK', SpawnInv, SpawnInv', FirstInv, [Next]_vars
  PROVE  FirstInv'
<1> SUFFICES ASSUME changes' <= 1, Serving'
             PROVE  /\ changes' = 0 => wat' \in {"off", "watch"}
                    /\ BeforeReload' /\ DuringReload' /\ MonitorKnows'
  BY DEF FirstInv
<1> DEFINE Goal == /\ changes' = 0 => wat' \in {"off", "watch"}
                   /\ BeforeReload' /\ DuringReload' /\ MonitorKnows'
<1>0. /\ changes \in Nat /\ changes <= changes' /\ Serving
      /\ changes = 0 => wat \in {"off", "watch"}
      /\ BeforeReload /\ DuringReload /\ MonitorKnows
  <2>1. changes \in Nat /\ changes' \in Nat
    BY SupervisorAssumption DEF SupervisorAssumption, TypeOK
  <2>2. changes' \in {changes, changes + 1} /\ Serving
    BY DEF Serving, Next, MainNext, MonitorNext, ReloadNext, Environment,
       MainPopen, MainWaitTcp, MainPublish, MainStart, MainStartRaises, ServerRunEnds,
       MainUnlinkUpstream, MainRemovePidfile, MainTerminate, MonitorTop, MonitorWait,
       MonitorCheck, MonitorDoneSet, MonitorDoneTimeout, MonitorClear, MonitorReset,
       MonitorStop, FileChange, ReloadBegin, ReloadTerminateOld, ReloadPopen,
       ReloadSetBox, ReloadWaitTcp, ReloadTerminateNew, ReloadStop, ReloadTruncate,
       ReloadWrite, ReloadSetEnv, ReloadFinish, StopRequested, ServerRunRaises, SigtermEnds,
       MainInterrupted, SidecarListens, SidecarExits, Finished, vars, threadVars
  <2>3. changes <= changes' /\ changes <= 1
    BY <2>1, <2>2
  <2>4. QED
    BY <2>1, <2>2, <2>3 DEF FirstInv
<1> USE <1>0, SupervisorAssumption
    DEF SupervisorAssumption, TypeOK, FlagsOK, SpawnInv, Serving, Replacing, BeforeReload,
        DuringReload, MonitorKnows, BeingReplaced, Procs, Callers, procVars, flagVars,
        threadVars
<1>1. CASE MainPopen
  BY <1>1 DEF MainPopen, Spawn
<1>2. CASE MainWaitTcp \/ MainPublish \/ MainStart
  BY <1>2, SMTT(30) DEF MainWaitTcp, MainPublish, MainStart
<1>3. CASE MainStartRaises \/ ServerRunEnds \/ MainUnlinkUpstream \/ MainRemovePidfile
           \/ MainTerminate \/ ServerRunRaises \/ SigtermEnds \/ MainInterrupted
  BY <1>3 DEF MainStartRaises, ServerRunEnds, MainUnlinkUpstream, MainRemovePidfile,
              MainTerminate, ServerRunRaises, SigtermEnds, MainInterrupted
<1>4. CASE MonitorTop
  BY <1>4 DEF MonitorTop
<1>5. CASE MonitorWait
  BY <1>5 DEF MonitorWait
<1>6. CASE MonitorCheck
  BY <1>6 DEF MonitorCheck
<1>7. CASE MonitorDoneSet \/ MonitorDoneTimeout \/ MonitorClear
  BY <1>7, SMTT(30) DEF MonitorDoneSet, MonitorDoneTimeout, MonitorClear
<1>8. CASE MonitorReset \/ MonitorStop
  BY <1>8, SMTT(30) DEF MonitorReset, MonitorStop
<1>9. CASE FileChange
  BY <1>9 DEF FileChange
<1>10. CASE ReloadBegin
  BY <1>10 DEF ReloadBegin
<1>11. CASE ReloadTerminateOld
  BY <1>11 DEF ReloadTerminateOld, TerminateReturns, TerminateEscalates, Send
<1>12. CASE ReloadPopen
  BY <1>12 DEF ReloadPopen, Spawn
<1>13. CASE ReloadSetBox \/ ReloadWaitTcp
  BY <1>13, SMTT(30) DEF ReloadSetBox, ReloadWaitTcp
<1>14. CASE ReloadTerminateNew
  BY <1>14 DEF ReloadTerminateNew, TerminateReturns, TerminateEscalates, Send
<1>15. CASE ReloadStop \/ ReloadTruncate \/ ReloadWrite \/ ReloadSetEnv \/ ReloadFinish
  BY <1>15, SMTT(30) DEF ReloadStop, ReloadTruncate, ReloadWrite, ReloadSetEnv, ReloadFinish
<1>16. CASE StopRequested
  BY <1>16 DEF StopRequested
<1>17. ASSUME NEW p \in Procs, SidecarListens(p) \/ SidecarExits(p) PROVE Goal
  BY <1>17, SMTT(30) DEF SidecarListens, SidecarExits, Alive
<1>18. CASE Finished \/ UNCHANGED vars
  BY <1>18, SMTT(30) DEF Finished, vars
<1>19. QED
  BY <1>1, <1>2, <1>3, <1>4, <1>5, <1>6, <1>7, <1>8, <1>9, <1>10, <1>11, <1>12,
     <1>13, <1>14, <1>15, <1>16, <1>17, <1>18
     DEF Next, MainNext, MonitorNext, ReloadNext, Environment

(***************************************************************************)
(* The first reload never makes monitor_streamlit stop the gateway,        *)
(* whatever fails meanwhile: the exit it caused is found with the flag up, *)
(* and an exit found with the flag down was not of its making.             *)
(***************************************************************************)
THEOREM FirstReloadIsSafe == Spec => FirstReloadKeepsGateway
<1>1. Init => FirstInv
  BY SupervisorAssumption
  DEF Init, FirstInv, BeforeReload, DuringReload, Replacing, MonitorKnows, Procs,
      SupervisorAssumption
<1>2. FirstInv => [MonitorStop /\ main = "serve" /\ ~shouldExit /\ changes <= 1
                     => ~BeingReplaced(monProc)]_vars
  BY DEF FirstInv, Serving, MonitorKnows, MonitorStop
<1>3. QED
  BY <1>1, <1>2, FirstInvStep, TypeCorrect, SpawnInvariant, PTL
     DEF Spec, FirstReloadKeepsGateway

-----------------------------------------------------------------------------
(***************************************************************************)
(* The finally block once no reload can interfere: proc_box stays, and     *)
(* _terminate_process is called for the sidecar in it.                     *)
(***************************************************************************)
Leaving ==
  /\ NoReload
  /\ main \in {"unlink", "rm_pidfile", "term", "exited", "aborted", "signalled"}
  /\ main \in {"unlink", "rm_pidfile", "term"} => spawned > 0
  /\ main = "term" => target["main"] = spawned
  /\ main = "exited" => \A p \in Procs : Alive(p) => Down(p)

(***************************************************************************)
(* The same from the moment a serving gateway is asked to stop: the files  *)
(* go in the order of the finally block and nobody brings them back.       *)
(***************************************************************************)
CleaningUp ==
  /\ NoReload /\ shouldExit /\ mon # "off"
  /\ main \in {"serve", "unlink", "rm_pidfile", "term", "exited", "aborted", "signalled"}
  /\ main \in {"serve", "unlink"} => fileEnv
  /\ main \in {"rm_pidfile", "term", "exited"} => (fileExists => "unlink" \in diskErr)
  /\ main \in {"term", "exited"} => ~pidfile

MonitorStarted == main = "serve" => mon # "off" /\ fileEnv

(***************************************************************************)
(* The monitor and the watcher, with nothing to reload, change neither the *)
(* sidecars nor the files, and no reload begins.                           *)
(***************************************************************************)
LEMMA OthersIdle ==
  ASSUME NoReload, MonitorNext \/ FileChange \/ ReloadNext \/ StopRequested
  PROVE  /\ NoReload'
         /\ UNCHANGED <<main, phase, target, procVars, diskVars>>
         /\ shouldExit => shouldExit'
         /\ mon # "off" => mon' # "off"
<1> USE DEF NoReload, procVars, diskVars, flagVars, threadVars
<1>1. CASE MonitorNext
  BY <1>1 DEF MonitorNext, MonitorTop, MonitorWait, MonitorCheck, MonitorDoneSet,
     MonitorDoneTimeout, MonitorClear, MonitorReset, MonitorStop
<1>2. CASE FileChange
  BY <1>2 DEF FileChange
<1>3. CASE ReloadNext
  BY <1>3 DEF ReloadNext, ReloadBegin, ReloadTerminateOld, ReloadPopen, ReloadSetBox,
     ReloadWaitTcp, ReloadTerminateNew, ReloadStop, ReloadTruncate, ReloadWrite,
     ReloadSetEnv, ReloadFinish
<1>4. CASE StopRequested
  BY <1>4 DEF StopRequested
<1>5. QED
  BY <1>1, <1>2, <1>3, <1>4

(* A clean exit stays one, and terminates the last sidecar.                *)
LEMMA LeavingStays ==
  ASSUME TypeOK, SpawnInv, Leaving, [Next]_vars PROVE Leaving'
<1> USE SupervisorAssumption DEF SupervisorAssumption, Procs, procVars, flagVars,
    threadVars
<1>1. CASE MonitorNext \/ FileChange \/ ReloadNext \/ StopRequested
  BY <1>1, OthersIdle DEF Leaving, Alive, Down
<1>2. CASE MainTerminate
  <2>1. /\ main = "term" /\ target["main"] = spawned /\ spawned \in Procs
        /\ UNCHANGED <<wat, shouldExit, target, spawned, status>>
    BY <1>2 DEF MainTerminate, Leaving, TypeOK
  <2>2. CASE TerminateReturns("main") /\ main' = "exited"
    <3>1. \A p \in Procs : Down(p) => Down(p)'
      BY <2>1, <2>2, TerminateFacts DEF Callers
    <3>2. Down(spawned)'
      BY <2>1, <2>2, TerminateFacts DEF Callers
    <3>3. \A p \in Procs : Alive(p)' => Down(p)'
      BY <2>1, <3>1, <3>2 DEF SpawnInv, Alive, TypeOK
    <3>4. QED
      BY <2>1, <2>2, <3>3 DEF Leaving, NoReload
  <2>3. CASE TerminateEscalates("main") /\ UNCHANGED main
    BY <2>1, <2>3 DEF Leaving, NoReload
  <2>4. QED
    BY <1>2, <2>2, <2>3 DEF MainTerminate
<1>3. CASE MainUnlinkUpstream \/ MainRemovePidfile
  BY <1>3 DEF MainUnlinkUpstream, MainRemovePidfile, Leaving, NoReload, SpawnInv, TypeOK,
              Callers
<1>4. CASE MainPopen \/ MainWaitTcp \/ MainPublish \/ MainStart \/ MainStartRaises
           \/ ServerRunEnds \/ ServerRunRaises
  BY <1>4 DEF MainPopen, MainWaitTcp, MainPublish, MainStart, MainStartRaises,
              ServerRunEnds, ServerRunRaises, Leaving
<1>5. CASE SigtermEnds \/ MainInterrupted
  BY <1>5 DEF SigtermEnds, MainInterrupted, Leaving, NoReload
<1>6. ASSUME NEW p \in Procs, SidecarListens(p) \/ SidecarExits(p) PROVE Leaving'
  BY <1>6 DEF SidecarListens, SidecarExits, Leaving, NoReload, Alive, Down, TypeOK
<1>7. CASE Finished \/ UNCHANGED vars
  BY <1>7 DEF Finished, vars, Leaving, NoReload, Alive, Down
<1>8. QED
  BY <1>1, <1>2, <1>3, <1>4, <1>5, <1>6, <1>7 DEF Next, MainNext, Environment

(* No step brings the files back.                                          *)
LEMMA CleaningStays ==
  ASSUME TypeOK, TypeOK', CleaningUp, [Next]_vars PROVE CleaningUp'
<1> USE DEF TypeOK, FlagsOK, procVars, flagVars, threadVars, diskVars
<1>1. CASE MonitorNext \/ FileChange \/ ReloadNext \/ StopRequested
  BY <1>1, OthersIdle DEF CleaningUp
<1>2. CASE MainUnlinkUpstream \/ MainRemovePidfile \/ MainTerminate
  BY <1>2 DEF MainUnlinkUpstream, MainRemovePidfile, MainTerminate, CleaningUp, NoReload
<1>3. CASE MainPopen \/ MainWaitTcp \/ MainPublish \/ MainStart \/ MainStartRaises
  BY <1>3 DEF MainPopen, MainWaitTcp, MainPublish, MainStart, MainStartRaises, CleaningUp
<1>4. CASE ServerRunEnds \/ ServerRunRaises \/ SigtermEnds \/ MainInterrupted
  BY <1>4 DEF ServerRunEnds, ServerRunRaises, SigtermEnds, MainInterrupted, CleaningUp, NoReload
<1>5. ASSUME NEW p \in Procs, SidecarListens(p) \/ SidecarExits(p) PROVE CleaningUp'
  BY <1>5 DEF SidecarListens, SidecarExits, CleaningUp, NoReload
<1>6. CASE Finished \/ UNCHANGED vars
  BY <1>6 DEF Finished, vars, CleaningUp, NoReload
<1>7. QED
  BY <1>1, <1>2, <1>3, <1>4, <1>5, <1>6 DEF Next, MainNext, Environment

(***************************************************************************)
(* An exit through the whole finally block with no reload in flight leaves *)
(* no sidecar behind, and after serving no pid file and no state file but  *)
(* one whose removal failed.                                               *)
(***************************************************************************)
THEOREM ExitIsClean == Spec => CleanExit
<1>1. TypeOK /\ SpawnInv /\ main = "unlink" /\ NoReload => Leaving
  BY DEF Leaving, SpawnInv
<1>2. Leaving => (main = "exited" => \A p \in Procs : Alive(p) => Down(p))
  BY DEF Leaving
<1>3. Init => MonitorStarted
  BY DEF Init, MonitorStarted
<1>4. ASSUME FollowInv, MonitorStarted, [Next]_vars PROVE MonitorStarted'
  BY <1>4 DEF FollowInv, MonitorStarted, Next, MainNext, MonitorNext, ReloadNext,
     Environment, MainPopen, MainWaitTcp, MainPublish, MainStart, MainStartRaises,
     ServerRunEnds, MainUnlinkUpstream, MainRemovePidfile, MainTerminate, MonitorTop,
     MonitorWait, MonitorCheck, MonitorDoneSet, MonitorDoneTimeout, MonitorClear,
     MonitorReset, MonitorStop, FileChange, ReloadBegin, ReloadTerminateOld, ReloadPopen,
     ReloadSetBox, ReloadWaitTcp, ReloadTerminateNew, ReloadStop, ReloadTruncate,
     ReloadWrite, ReloadSetEnv, ReloadFinish, StopRequested, ServerRunRaises, SigtermEnds,
     MainInterrupted, SidecarListens, SidecarExits, Finished, vars, threadVars, diskVars
<1>5. MonitorStarted /\ main = "serve" /\ shouldExit /\ NoReload => CleaningUp
  BY DEF MonitorStarted, CleaningUp
<1>6. CleaningUp
        => (main = "exited" => ~pidfile /\ (fileExists => "unlink" \in diskErr))
  BY DEF CleaningUp
<1>7. QED
  BY <1>1, <1>2, <1>3, <1>4, <1>5, <1>6, LeavingStays, CleaningStays, TypeCorrect,
     SpawnInvariant, FollowInvariant, PTL DEF Spec, CleanExit

-----------------------------------------------------------------------------
(***************************************************************************)
(* Which threads can go on.  Nobody in run_unified may wait for something  *)
(* that no other thread, and no sidecar, is going to bring about.          *)
(***************************************************************************)

\* Inside restart_streamlit_sidecar, from the moment it has announced itself.
Restarting == wat \in {"term_old", "popen", "set_box", "wait_tcp", "term_new", "stop",
                       "truncate", "write", "set_env", "finish"}

\* The guards of MainNext with the end of server.run(), MonitorNext and ReloadNext.
MainCanStep ==
  \/ main = "popen" /\ spawned < MaxProcs
  \/ main \in {"wait_tcp", "publish", "pidfile", "unlink", "rm_pidfile"}
  \/ main = "serve" /\ shouldExit
  \/ main = "term" /\ target["main"] \in Procs

MonitorCanStep ==
  /\ Running
  /\ \/ mon \in {"top", "check", "clear", "reset", "decide"}
     \/ mon = "wait" /\ monProc \in Procs /\ status[monProc] = "exited"
     \/ mon = "wait_done" /\ done

ReloadCanStep ==
  /\ Running
  /\ \/ wat \in {"begin", "set_box", "stop", "truncate", "write", "set_env", "finish"}
     \/ wat \in {"term_old", "term_new"} /\ target["watcher"] \in Procs
     \/ wat = "popen" /\ spawned < MaxProcs
     \/ wat = "wait_tcp" /\ spawned \in Procs

(***************************************************************************)
(* While the interpreter runs, the main thread is held up only by a server *)
(* nobody asked to stop, or by its drain; monitor_streamlit only by a live *)
(* sidecar or by a restart that is under way and will set                  *)
(* streamlit_reload_done; and a restart by nobody.                         *)
(***************************************************************************)
NeverStuck ==
  Running =>
    /\ MainCanStep \/ (main = "serve" /\ ~shouldExit)
    /\ mon \in {"off", "returned"}
         \/ MonitorCanStep
         \/ (mon = "wait" /\ monProc \in Procs /\ Alive(monProc))
         \/ (mon = "wait_done" /\ Restarting /\ ReloadCanStep)
    /\ wat \in {"off", "watch", "returned"} \/ ReloadCanStep

(***************************************************************************)
(* No wake-up is missed: a monitor between the end of its wait for a       *)
(* sidecar and its reset of "intentional" finds that flag up, since only   *)
(* the monitor lowers it; and a flag that is up with the event down        *)
(* belongs to a restart under way, or is about to be lowered.              *)
(***************************************************************************)
WakeInv ==
  /\ main \in {"popen", "wait_tcp", "publish", "pidfile"} => mon = "off"
  /\ mon \in {"wait_done", "clear", "reset"} => intentional
  /\ intentional /\ ~done /\ ~Restarting => mon = "reset"

(***************************************************************************)
(* Whoever waits for a sidecar or terminates one holds one that was        *)
(* started.                                                                *)
(***************************************************************************)
Started(p) == p \in 1..spawned

HoldsInv ==
  /\ \A p \in Procs : Started(p) => status[p] # "none"
  /\ main \notin {"popen", "exited", "aborted", "signalled"} => Started(procBox)
  /\ mon # "off" => Started(procBox)
  /\ mon \in {"wait", "check", "wait_done", "clear", "reset", "decide"} => Started(monProc)
  /\ main = "term" => Started(target["main"])
  /\ wat \in {"term_old", "term_new"} => Started(target["watcher"])

(* A sidecar is started per file change, and one at the start.             *)
CountInv ==
  /\ main = "popen" => changes = 0
  /\ changes < MaxProcs
  /\ spawned <= changes + 1
  /\ wat \in {"begin", "term_old", "popen"} => spawned <= changes

(***************************************************************************)
(* How many steps are left: of _terminate_process for a caller, of the     *)
(* main thread until the interpreter exits, and of the restart that is     *)
(* under way.                                                              *)
(***************************************************************************)
EscalationsLeft(c) ==
  CASE phase[c] = "poll" -> 3
    [] phase[c] = "int"  -> 2
    [] OTHER             -> 1

MainWork ==
  CASE main = "popen"      -> 10
    [] main = "wait_tcp"   -> 9
    [] main = "publish"    -> 8
    [] main = "pidfile"    -> 7
    [] main = "serve"      -> 6
    [] main = "unlink"     -> 5
    [] main = "rm_pidfile" -> 4
    [] main = "term"       -> EscalationsLeft("main")
    [] OTHER               -> 0

RestartWork ==
  CASE wat = "begin"               -> 12
    [] wat = "term_old"            -> 8 + EscalationsLeft("watcher")
    [] wat = "popen"               -> 8
    [] wat = "set_box"             -> 7
    [] wat = "wait_tcp"            -> 6
    [] wat = "term_new"            -> 2 + EscalationsLeft("watcher")
    [] wat = "truncate"            -> 4
    [] wat = "write"               -> 3
    [] wat \in {"stop", "set_env"} -> 2
    [] wat = "finish"              -> 1
    [] OTHER                       -> 0

(***************************************************************************)
(* Every step of the main thread and the end of the drain bring the exit   *)
(* nearer and no step of anyone else puts it off; every step of a restart  *)
(* brings its end nearer, and only a new file change starts another one; a *)
(* stop that was asked for is never withdrawn, and an interpreter that has *)
(* exited stays so.                                                        *)
(***************************************************************************)
RunsDown ==
  /\ MainWork' <= MainWork
  /\ MainNext \/ ServerRunEnds => MainWork' < MainWork
  /\ FileChange \/ RestartWork' <= RestartWork
  /\ ReloadNext => RestartWork' < RestartWork
  /\ shouldExit => shouldExit'
  /\ ~Running => ~Running'

(***************************************************************************)
(* The handshake between monitor_streamlit and restart_streamlit_sidecar   *)
(* over "intentional" and streamlit_reload_done misses no wake-up.         *)
(***************************************************************************)
LEMMA WakeStep ==
  ASSUME TypeOK, TypeOK', SpawnInv, WakeInv, [Next]_vars
  PROVE  WakeInv'
<1>0. /\ intentional \in BOOLEAN /\ done \in BOOLEAN
      /\ intentional' \in BOOLEAN /\ done' \in BOOLEAN
      /\ main \in {"popen", "wait_tcp", "publish", "pidfile"} => wat = "off"
  BY DEF TypeOK, FlagsOK, SpawnInv
<1> USE <1>0 DEF WakeInv, Restarting, procVars, flagVars, diskVars, threadVars
<1>1. CASE MainNext
  BY <1>1, SMTT(30) DEF MainNext, MainPopen, MainWaitTcp, MainPublish, MainStart,
     MainStartRaises, ServerRunEnds, MainUnlinkUpstream, MainRemovePidfile, MainTerminate
<1>2. CASE MonitorNext
  BY <1>2, SMTT(30) DEF MonitorNext, MonitorTop, MonitorWait, MonitorCheck, MonitorDoneSet,
     MonitorDoneTimeout, MonitorClear, MonitorReset, MonitorStop
<1>3. CASE FileChange
  BY <1>3, SMTT(30) DEF FileChange
<1>4. CASE ReloadNext
  BY <1>4, SMTT(30) DEF ReloadNext, ReloadBegin, ReloadTerminateOld, ReloadPopen, ReloadSetBox,
     ReloadWaitTcp, ReloadTerminateNew, ReloadStop, ReloadTruncate, ReloadWrite, ReloadSetEnv,
     ReloadFinish
<1>5. CASE Environment
  BY <1>5, SMTT(30) DEF Environment, StopRequested, ServerRunEnds, ServerRunRaises, SigtermEnds,
       MainInterrupted, SidecarListens, SidecarExits
<1>6. CASE Finished \/ UNCHANGED vars
  BY <1>6, SMTT(30) DEF Finished, vars
<1>7. QED
  BY <1>1, <1>2, <1>3, <1>4, <1>5, <1>6 DEF Next

(* A restart starts one sidecar at most, after the change it answers.      *)
LEMMA CountStep ==
  ASSUME TypeOK, TypeOK', SpawnInv, CountInv, [Next]_vars
  PROVE  CountInv'
<1>0. /\ changes \in Nat /\ spawned \in Nat /\ MaxProcs \in Nat \ {0}
      /\ main = "popen" => spawned = 0 /\ wat = "off"
  BY SupervisorAssumption DEF TypeOK, SupervisorAssumption, SpawnInv
<1> USE <1>0 DEF CountInv, procVars, flagVars, diskVars, threadVars
<1>1. CASE MainNext
  BY <1>1, SMTT(30) DEF MainNext, MainPopen, MainWaitTcp, MainPublish, MainStart, Spawn,
     MainStartRaises, ServerRunEnds, MainUnlinkUpstream, MainRemovePidfile, MainTerminate
<1>2. CASE MonitorNext
  BY <1>2, SMTT(30) DEF MonitorNext, MonitorTop, MonitorWait, MonitorCheck, MonitorDoneSet,
     MonitorDoneTimeout, MonitorClear, MonitorReset, MonitorStop
<1>3. CASE FileChange
  BY <1>3, SMTT(30) DEF FileChange
<1>4. CASE ReloadNext
  BY <1>4, SMTT(30) DEF ReloadNext, ReloadBegin, ReloadTerminateOld, ReloadPopen, ReloadSetBox,
     ReloadWaitTcp, ReloadTerminateNew, ReloadStop, ReloadTruncate, ReloadWrite, ReloadSetEnv,
     ReloadFinish, Spawn
<1>5. CASE Environment
  BY <1>5, SMTT(30) DEF Environment, StopRequested, ServerRunEnds, ServerRunRaises, SigtermEnds,
       MainInterrupted, SidecarListens, SidecarExits
<1>6. CASE Finished \/ UNCHANGED vars
  BY <1>6, SMTT(30) DEF Finished, vars
<1>7. QED
  BY <1>1, <1>2, <1>3, <1>4, <1>5, <1>6 DEF Next

(* No thread is left holding a sidecar that was never started.             *)
LEMMA HoldsStep ==
  ASSUME TypeOK, TypeOK', SpawnInv, WakeInv, HoldsInv, [Next]_vars
  PROVE  HoldsInv'
<1>0. /\ spawned \in 0..MaxProcs /\ MaxProcs \in Nat \ {0}
      /\ procBox \in Nat /\ monProc \in Nat
      /\ status \in [1..MaxProcs -> {"none", "starting", "listening", "exited"}]
      /\ target \in [{"main", "watcher"} -> 0..MaxProcs]
      /\ main = "popen" => spawned = 0 /\ wat = "off" /\ mon = "off"
      /\ wat # "off" => spawned > 0
  <2>1. /\ spawned \in 0..MaxProcs /\ MaxProcs \in Nat \ {0}
        /\ procBox \in Nat /\ monProc \in Nat
    BY SupervisorAssumption DEF TypeOK, SupervisorAssumption
  <2>2. /\ status \in [1..MaxProcs -> {"none", "starting", "listening", "exited"}]
        /\ target \in [{"main", "watcher"} -> 0..MaxProcs]
    BY DEF TypeOK, Callers, Procs
  <2>3. /\ main = "popen" => spawned = 0 /\ wat = "off" /\ mon = "off"
        /\ wat # "off" => spawned > 0
    BY DEF SpawnInv, WakeInv
  <2>4. QED
    BY <2>1, <2>2, <2>3
<1> USE <1>0 DEF HoldsInv, Started, Procs, procVars, flagVars, diskVars, threadVars
<1>1. CASE MainPopen
  BY <1>1, SMTT(30) DEF MainPopen, Spawn
<1>2. CASE MainWaitTcp \/ MainPublish \/ MainStart \/ MainStartRaises \/ ServerRunEnds
           \/ MainUnlinkUpstream \/ MainTerminate
  BY <1>2, SMTT(30) DEF MainWaitTcp, MainPublish, MainStart, MainStartRaises, ServerRunEnds,
     MainUnlinkUpstream, MainTerminate
<1>3. CASE MainRemovePidfile
  BY <1>3, SMTT(30) DEF MainRemovePidfile
<1>4. CASE MonitorNext
  BY <1>4, SMTT(30) DEF MonitorNext, MonitorTop, MonitorWait, MonitorCheck, MonitorDoneSet,
     MonitorDoneTimeout, MonitorClear, MonitorReset, MonitorStop
<1>5. CASE FileChange
  BY <1>5, SMTT(30) DEF FileChange
<1>6. CASE ReloadBegin
  <2>1. wat = "begin" => Started(procBox)
    BY DEF SpawnInv
  <2>2. QED
    BY <1>6, <2>1, SMTT(30) DEF ReloadBegin
<1>7. CASE ReloadPopen
  BY <1>7, SMTT(30) DEF ReloadPopen, Spawn
<1>8. CASE ReloadSetBox
  BY <1>8, SMTT(30) DEF ReloadSetBox
<1>9. CASE ReloadWaitTcp
  BY <1>9, SMTT(30) DEF ReloadWaitTcp
<1>10. CASE ReloadTerminateOld \/ ReloadTerminateNew \/ ReloadStop \/ ReloadTruncate
            \/ ReloadWrite \/ ReloadSetEnv \/ ReloadFinish
  BY <1>10, SMTT(30) DEF ReloadTerminateOld, ReloadTerminateNew, ReloadStop, ReloadTruncate,
     ReloadWrite, ReloadSetEnv, ReloadFinish
<1>11. CASE StopRequested \/ ServerRunRaises \/ SigtermEnds \/ MainInterrupted
  BY <1>11, SMTT(30) DEF StopRequested, ServerRunRaises, SigtermEnds, MainInterrupted
<1>12. ASSUME NEW p \in Procs, SidecarListens(p) \/ SidecarExits(p) PROVE HoldsInv'
  BY <1>12, SMTT(30) DEF SidecarListens, SidecarExits
<1>13. CASE Finished \/ UNCHANGED vars
  BY <1>13, SMTT(30) DEF Finished, vars
<1>14. QED
  BY <1>1, <1>2, <1>3, <1>4, <1>5, <1>6, <1>7, <1>8, <1>9, <1>10, <1>11, <1>12, <1>13
     DEF Next, MainNext, ReloadNext, Environment

(***************************************************************************)
(* No thread of run_unified ever waits for nobody: whatever the reloads,   *)
(* crashes and failures, a main thread that was asked to stop waits for    *)
(* nothing but Uvicorn's drain, a restart can always take its next step,   *)
(* and a monitor blocked on streamlit_reload_done is waiting for a restart *)
(* under way.                                                              *)
(***************************************************************************)
THEOREM SupervisorNeverStuck == Spec => []NeverStuck
<1>1. Init => WakeInv /\ HoldsInv /\ CountInv
  BY SupervisorAssumption DEF Init, SupervisorAssumption, Procs, WakeInv, HoldsInv, CountInv,
     Started, Restarting
<1>2. TypeOK /\ SpawnInv /\ WakeInv /\ HoldsInv /\ CountInv => NeverStuck
  <2> SUFFICES ASSUME TypeOK, SpawnInv, WakeInv, HoldsInv, CountInv, Running
               PROVE  NeverStuck
    BY DEF NeverStuck
  <2>0. /\ spawned \in 0..MaxProcs /\ MaxProcs \in Nat \ {0} /\ changes \in Nat
        /\ status \in [Procs -> {"none", "starting", "listening", "exited"}]
        /\ main \in MainPC /\ mon \in MonPC /\ wat \in WatPC
    BY SupervisorAssumption DEF TypeOK, SupervisorAssumption
  <2>p. \A p \in Nat : Started(p) => p \in Procs
    BY <2>0 DEF Started, Procs
  <2>1. wat \in {"off", "watch", "returned"} \/ ReloadCanStep
    <3>1. wat = "popen" => spawned < MaxProcs
      BY <2>0 DEF CountInv
    <3>2. wat = "wait_tcp" => spawned \in Procs
      BY <2>0 DEF SpawnInv, Procs
    <3>3. wat \in {"term_old", "term_new"} => target["watcher"] \in Procs
      BY <2>p DEF HoldsInv, Started
    <3>4. QED
      BY <2>0, <3>1, <3>2, <3>3 DEF ReloadCanStep, WatPC
  <2>2. MainCanStep \/ (main = "serve" /\ ~shouldExit)
    <3>1. main = "popen" => spawned < MaxProcs
      BY <2>0 DEF SpawnInv
    <3>2. main = "term" => target["main"] \in Procs
      BY <2>p DEF HoldsInv, Started
    <3>3. QED
      BY <2>0, <3>1, <3>2 DEF MainCanStep, MainPC, Running
  <2>3. ASSUME mon = "wait"
        PROVE  MonitorCanStep \/ (monProc \in Procs /\ Alive(monProc))
    <3>1. monProc \in Procs /\ status[monProc] # "none"
      BY <2>3, <2>p DEF HoldsInv, Started
    <3>2. QED
      BY <2>0, <2>3, <3>1 DEF MonitorCanStep, Alive
  <2>4. ASSUME mon = "wait_done"
        PROVE  MonitorCanStep \/ (Restarting /\ ReloadCanStep)
    <3>1. done \/ Restarting
      BY <2>4 DEF WakeInv
    <3>2. done => MonitorCanStep
      BY <2>4 DEF MonitorCanStep
    <3>3. Restarting => ReloadCanStep
      BY <2>1 DEF Restarting
    <3>4. QED
      BY <3>1, <3>2, <3>3
  <2>5. ASSUME mon \notin {"off", "returned", "wait", "wait_done"} PROVE MonitorCanStep
    BY <2>0, <2>5 DEF MonitorCanStep, MonPC
  <2>6. QED
    BY <2>1, <2>2, <2>3, <2>4, <2>5 DEF NeverStuck
<1>3. QED
  BY <1>1, <1>2, WakeStep, HoldsStep, CountStep, TypeCorrect, SpawnInvariant, PTL DEF Spec

(***************************************************************************)
(* One step of _terminate_process leaves the caller with less to do, and   *)
(* does not touch how far the other caller has come.                       *)
(***************************************************************************)
LEMMA EscalationShrinks ==
  ASSUME TypeOK, NEW c \in Callers, NEW d \in Callers
  PROVE  /\ EscalationsLeft(c) \in 1..3
         /\ TerminateEscalates(c) => EscalationsLeft(c)' < EscalationsLeft(c)
         /\ d # c /\ (TerminateReturns(c) \/ TerminateEscalates(c))
              => EscalationsLeft(d)' = EscalationsLeft(d)
<1>1. EscalationsLeft(c) \in 1..3
  BY DEF EscalationsLeft
<1>2. TerminateEscalates(c) => EscalationsLeft(c)' < EscalationsLeft(c)
  BY DEF EscalationsLeft, TerminateEscalates, TypeOK
<1>3. d # c /\ (TerminateReturns(c) \/ TerminateEscalates(c))
        => EscalationsLeft(d)' = EscalationsLeft(d)
  BY DEF EscalationsLeft, TerminateEscalates, TerminateReturns, TypeOK
<1>4. QED
  BY <1>1, <1>2, <1>3

(***************************************************************************)
(* Once anyone asks run_unified to stop, the main thread is at most ten of *)
(* its own steps away from the exit, and a restart is over after at most   *)
(* twelve of its own, however many signals a sidecar ignores.              *)
(***************************************************************************)
THEOREM StopIsBounded ==
  Spec => /\ [](MainWork \in 0..10 /\ RestartWork \in 0..12)
          /\ [][RunsDown]_vars
<1> DEFINE m == EscalationsLeft("main")
           r == EscalationsLeft("watcher")
<1>0. ASSUME TypeOK PROVE m \in 1..3 /\ r \in 1..3
  BY <1>0, EscalationShrinks DEF Callers
<1>1. TypeOK => MainWork \in 0..10 /\ RestartWork \in 0..12
  <2> SUFFICES ASSUME TypeOK PROVE MainWork \in 0..10 /\ RestartWork \in 0..12
    OBVIOUS
  <2>1. QED
    BY <1>0 DEF MainWork, RestartWork
<1>2. TypeOK /\ TypeOK' /\ [Next]_vars => RunsDown
  <2> SUFFICES ASSUME TypeOK, TypeOK', [Next]_vars PROVE RunsDown
    OBVIOUS
  <2>t. /\ m \in 1..3 /\ r \in 1..3 /\ m' \in 1..3 /\ r' \in 1..3
        /\ TerminateReturns("main") \/ TerminateEscalates("main") => r' = r
        /\ TerminateReturns("watcher") \/ TerminateEscalates("watcher") => m' = m
        /\ TerminateEscalates("main") => m' < m
        /\ TerminateEscalates("watcher") => r' < r
        /\ UNCHANGED phase => m' = m /\ r' = r
    <3>1. TerminateReturns("main") \/ TerminateEscalates("main") => r' = r
      BY EscalationShrinks DEF Callers
    <3>2. TerminateReturns("watcher") \/ TerminateEscalates("watcher") => m' = m
      BY EscalationShrinks DEF Callers
    <3>3. TerminateEscalates("main") => m' < m
      BY EscalationShrinks DEF Callers
    <3>4. TerminateEscalates("watcher") => r' < r
      BY EscalationShrinks DEF Callers
    <3>5. UNCHANGED phase => m' = m /\ r' = r
      BY DEF EscalationsLeft
    <3>6. m' \in 1..3 /\ r' \in 1..3
      BY DEF EscalationsLeft
    <3>7. QED
      BY <1>0, <3>1, <3>2, <3>3, <3>4, <3>5, <3>6
  <2> USE <2>t DEF procVars, flagVars, diskVars, threadVars
  <2>1. MainNext \/ ServerRunEnds => MainWork' < MainWork /\ RestartWork' <= RestartWork
    <3>1. MainNext \/ ServerRunEnds => MainWork' < MainWork
      BY SMTT(30) DEF MainNext, MainPopen, MainWaitTcp, MainPublish, MainStart,
         MainStartRaises, ServerRunEnds, MainUnlinkUpstream, MainRemovePidfile,
         MainTerminate, MainWork
    <3>2. MainNext \/ ServerRunEnds => r' = r /\ (wat' = wat \/ wat' \in {"off", "watch"})
      BY SMTT(30) DEF MainNext, MainPopen, MainWaitTcp, MainPublish, MainStart,
         MainStartRaises, ServerRunEnds, MainUnlinkUpstream, MainRemovePidfile,
         MainTerminate
    <3>3. r' = r /\ (wat' = wat \/ wat' \in {"off", "watch"}) => RestartWork' <= RestartWork
      BY DEF RestartWork
    <3>4. QED
      BY <3>1, <3>2, <3>3
  <2>2. ReloadNext => RestartWork' < RestartWork /\ MainWork' <= MainWork
    <3>1. ReloadNext => RestartWork' < RestartWork
      BY SMTT(30) DEF ReloadNext, ReloadBegin, ReloadTerminateOld, ReloadPopen,
         ReloadSetBox, ReloadWaitTcp, ReloadTerminateNew, ReloadStop, ReloadTruncate,
         ReloadWrite, ReloadSetEnv, ReloadFinish, RestartWork
    <3>2. ReloadNext => m' = m /\ main' = main
      BY SMTT(30) DEF ReloadNext, ReloadBegin, ReloadTerminateOld, ReloadPopen,
         ReloadSetBox, ReloadWaitTcp, ReloadTerminateNew, ReloadStop, ReloadTruncate,
         ReloadWrite, ReloadSetEnv, ReloadFinish
    <3>3. m' = m /\ main' = main => MainWork' <= MainWork
      BY DEF MainWork
    <3>4. QED
      BY <3>1, <3>2, <3>3
  <2>3. ASSUME MonitorNext \/ Environment \/ Finished \/ UNCHANGED vars
        PROVE  RestartWork' <= RestartWork /\ MainWork' <= MainWork
    <3>1. /\ UNCHANGED <<wat, phase>>
          /\ \/ UNCHANGED main \/ main' \in {"signalled", "aborted"}
             \/ main = "serve" /\ main' = "unlink"
      BY <2>3, SMTT(30) DEF MonitorNext, MonitorTop, MonitorWait, MonitorCheck,
         MonitorDoneSet, MonitorDoneTimeout, MonitorClear, MonitorReset, MonitorStop,
         Environment, StopRequested, ServerRunEnds, ServerRunRaises, SigtermEnds,
         MainInterrupted, SidecarListens, SidecarExits, Finished, vars
    <3>2. QED
      BY <3>1 DEF MainWork, RestartWork
  <2>4. FileChange => MainWork' <= MainWork
    BY DEF FileChange, MainWork
  <2>5. shouldExit => shouldExit'
    BY ZenonT(60) DEF Next, MainNext, MonitorNext, ReloadNext, Environment, MainPopen,
       MainWaitTcp, MainPublish, MainStart, MainStartRaises, ServerRunEnds,
       MainUnlinkUpstream, MainRemovePidfile, MainTerminate, MonitorTop, MonitorWait,
       MonitorCheck, MonitorDoneSet, MonitorDoneTimeout, MonitorClear, MonitorReset,
       MonitorStop, FileChange, ReloadBegin, ReloadTerminateOld, ReloadPopen, ReloadSetBox,
       ReloadWaitTcp, ReloadTerminateNew, ReloadStop, ReloadTruncate, ReloadWrite,
       ReloadSetEnv, ReloadFinish, StopRequested, ServerRunRaises, SigtermEnds,
       MainInterrupted, SidecarListens, SidecarExits, Finished, vars
  <2>6. ~Running => ~Running'
    BY SMTT(30) DEF Running, Next, MainNext, MonitorNext, ReloadNext, Environment, MainPopen,
       MainWaitTcp, MainPublish, MainStart, MainStartRaises, ServerRunEnds,
       MainUnlinkUpstream, MainRemovePidfile, MainTerminate, MonitorTop, MonitorWait,
       MonitorCheck, MonitorDoneSet, MonitorDoneTimeout, MonitorClear, MonitorReset,
       MonitorStop, FileChange, ReloadBegin, ReloadTerminateOld, ReloadPopen, ReloadSetBox,
       ReloadWaitTcp, ReloadTerminateNew, ReloadStop, ReloadTruncate, ReloadWrite,
       ReloadSetEnv, ReloadFinish, StopRequested, ServerRunRaises, SigtermEnds,
       MainInterrupted, SidecarListens, SidecarExits, Finished, vars
  <2>7. MainWork \in Nat /\ MainWork' \in Nat /\ RestartWork \in Nat /\ RestartWork' \in Nat
    BY <1>1, <2>t DEF MainWork, RestartWork
  <2>8. MainWork' <= MainWork
    BY <2>1, <2>2, <2>3, <2>4, <2>7 DEF Next
  <2>9. FileChange \/ RestartWork' <= RestartWork
    BY <2>1, <2>2, <2>3, <2>7 DEF Next
  <2>10. QED
    BY <2>1, <2>2, <2>5, <2>6, <2>8, <2>9 DEF RunsDown
<1>3. QED
  BY <1>1, <1>2, TypeCorrect, PTL DEF Spec
=============================================================================
