------------------------- MODULE ProcessControlProofs -------------------------
(***************************************************************************)
(* Proofs about ProcessControl for every number of servers and commands:   *)
(* what exit code 0 of fluxlit shutdown means, and that a serving process  *)
(* is the one in the PID file.                                             *)
(***************************************************************************)
EXTENDS ProcessControl, TLAPS

Inv == TypeOK /\ ShutdownInv /\ SuccessMeansStopped

(* The invariant of the shutdown command holds at the start.               *)
LEMMA InitInv == Init => Inv
<1>1. ASSUME Init PROVE TypeOK
  <2>1. proc \in [Pids -> ProcState] /\ linked \in [Pids -> BOOLEAN]
    BY <1>1 DEF Init, ProcState
  <2>2. pidfile \in Pids \cup {NoFile, Garbled} /\ raced \in BOOLEAN
    BY <1>1 DEF Init
  <2>3. pc \in [Commands -> PC] /\ target \in [Commands -> Pids \cup {NoFile}]
    BY <1>1 DEF Init, PC
  <2>4. code \in [Commands -> 0..2]
    BY <1>1 DEF Init
  <2>5. force \in [Commands -> BOOLEAN]
    BY <1>1 DEF Init
  <2>6. QED
    BY <2>1, <2>2, <2>3, <2>4, <2>5 DEF TypeOK
<1>2. Init => ShutdownInv /\ SuccessMeansStopped
  BY NotPids DEF Init, ShutdownInv, SuccessMeansStopped
<1>3. QED
  BY <1>1, <1>2 DEF Inv

(* Every step keeps it.                                                    *)
LEMMA NextInv == Inv /\ [Next]_vars => Inv'
<1> SUFFICES ASSUME Inv, [Next]_vars PROVE Inv'
  OBVIOUS
<1> USE NotPids DEF Inv, TypeOK, ShutdownInv, SuccessMeansStopped, HasWritten, Server,
    ProcState, PC, fileVars, commandVars
<1>1. ASSUME NEW p \in Pids, RunOpen(p) PROVE Inv'
  BY <1>1 DEF RunOpen
<1>2. ASSUME NEW p \in Pids, RunWrite(p) PROVE Inv'
  BY <1>2 DEF RunWrite
<1>3. ASSUME NEW p \in Pids, RunLeaves(p) PROVE Inv'
  BY <1>3 DEF RunLeaves, UnlinkPath
<1>4. ASSUME NEW p \in Pids, RunDies(p) \/ PidFreed(p) \/ PidReused(p) PROVE Inv'
  BY <1>4 DEF RunDies, PidFreed, PidReused
<1>5. ASSUME NEW s \in Commands, Shutdown(s) PROVE Inv'
  <2> USE DEF Goto, Exit
  <2>1. CASE CheckFile(s)
    BY <2>1 DEF CheckFile
  <2>2. CASE ReadPid(s)
    BY <2>2 DEF ReadPid
  <2>3. CASE ProbeStale(s)
    BY <2>3, ZenonT(40) DEF ProbeStale, PidRunning
  <2>4. CASE SendSigterm(s)
    BY <2>4 DEF SendSigterm
  <2>5. CASE SeenGone(s)
    BY <2>5, ZenonT(40) DEF SeenGone, PidRunning
  <2>6. CASE WaitExpires(s)
    BY <2>6 DEF WaitExpires
  <2>7. CASE SendSigkill(s)
    BY <2>7 DEF SendSigkill
  <2>8. CASE KillWaitExpires(s)
    BY <2>8 DEF KillWaitExpires
  <2>9. CASE FinalCheck(s)
    <3>1. PICK running \in PidRunning(target[s]) :
            IF running THEN Exit(s, 1) ELSE Goto(s, "unlink") /\ UNCHANGED code
      BY <2>9 DEF FinalCheck
    <3>2. CASE running
      BY <2>9, <3>1, <3>2 DEF FinalCheck
    <3>3. CASE ~running
      <4>1. proc[target[s]] \notin Server
        BY <3>3 DEF PidRunning
      <4>2. QED
        BY <2>9, <3>1, <3>3, <4>1 DEF FinalCheck
    <3>4. QED
      BY <3>2, <3>3
  <2>10. CASE RemoveFile(s)
    BY <2>10 DEF RemoveFile, UnlinkPath
  <2>11. QED
    BY <1>5, <2>1, <2>2, <2>3, <2>4, <2>5, <2>6, <2>7, <2>8, <2>9, <2>10 DEF Shutdown
<1>6. CASE UNCHANGED vars
  BY <1>6 DEF vars
<1>7. QED
  BY <1>1, <1>2, <1>3, <1>4, <1>5, <1>6 DEF Next

(***************************************************************************)
(* When fluxlit shutdown exits with 0 after reading a pid, the server with *)
(* that pid has ended and the PID file does not name it.                   *)
(***************************************************************************)
THEOREM ExitZeroMeansStopped == Spec => []SuccessMeansStopped
<1>1. Inv => SuccessMeansStopped
  BY DEF Inv
<1>2. QED
  BY <1>1, InitInv, NextInv, PTL DEF Spec

(***************************************************************************)
(* As long as nothing overlapped that should not: there is one server at a *)
(* time, no command is at work while it writes its pid, and a command that *)
(* is at work while it serves has read its pid or is about to.             *)
(***************************************************************************)
Resting(s) == pc[s] \in {"idle", "done"}

Alone == \A p, q \in Pids : proc[p] \in Server /\ proc[q] \in Server => p = q

Undisturbed ==
  \A p \in Pids : proc[p] = "writing" => linked[p] /\ \A s \in Commands : Resting(s)

Recorded ==
  \A p \in Pids : proc[p] = "serving" =>
    /\ pidfile = p
    /\ \A s \in Commands :
         Resting(s) \/ pc[s] = "read" \/ (pc[s] # "unlink" /\ target[s] = p)

RecordInv == ~raced => Alone /\ Undisturbed /\ Recorded

(* The invariant of the record holds at the start.                         *)
LEMMA InitRecord == Init => RecordInv
  BY DEF Init, RecordInv, Alone, Undisturbed, Recorded, Server

(* Every step keeps it.                                                    *)
LEMMA NextRecord == Inv /\ RecordInv /\ [Next]_vars => RecordInv'
<1> SUFFICES ASSUME TypeOK, ShutdownInv, RecordInv, [Next]_vars, ~raced'
             PROVE  Alone' /\ Undisturbed' /\ Recorded'
  BY DEF Inv, RecordInv
<1> USE NotPids DEF fileVars, commandVars
<1>1. ASSUME NEW p \in Pids, RunOpen(p) PROVE Alone' /\ Undisturbed' /\ Recorded'
  <2>1. ~Overlap /\ ~raced
    BY <1>1 DEF RunOpen
  <2>2. \A q \in Pids : proc'[q] \in Server => q = p /\ proc'[q] = "writing"
    BY <1>1, <2>1 DEF RunOpen, Overlap, TypeOK, Server
  <2>3. linked'[p] /\ \A s \in Commands : Resting(s)'
    BY <1>1, <2>1 DEF RunOpen, Overlap, TypeOK, Resting
  <2>4. QED
    BY <2>2, <2>3 DEF Alone, Undisturbed, Recorded, Server
<1>2. ASSUME NEW p \in Pids, RunWrite(p) PROVE Alone' /\ Undisturbed' /\ Recorded'
  BY <1>2 DEF RunWrite, RecordInv, Alone, Undisturbed, Recorded, Resting, TypeOK, Server
<1>3. ASSUME NEW p \in Pids, RunLeaves(p) PROVE Alone' /\ Undisturbed' /\ Recorded'
  BY <1>3 DEF RunLeaves, UnlinkPath, RecordInv, Alone, Undisturbed, Recorded, Resting,
              TypeOK, Server
<1>4. ASSUME NEW p \in Pids, RunDies(p) \/ PidFreed(p) \/ PidReused(p)
      PROVE  Alone' /\ Undisturbed' /\ Recorded'
  BY <1>4 DEF RunDies, PidFreed, PidReused, RecordInv, Alone, Undisturbed, Recorded,
              Resting, TypeOK, Server
<1>5. ASSUME NEW s \in Commands, Shutdown(s) PROVE Alone' /\ Undisturbed' /\ Recorded'
  <2> USE DEF Goto, Exit, RecordInv, Alone, Undisturbed, Recorded, Resting, TypeOK
  <2>1. CASE CheckFile(s)
    BY <2>1 DEF CheckFile
  <2>2. CASE ReadPid(s)
    BY <2>2 DEF ReadPid
  <2>3. CASE ProbeStale(s)
    BY <2>3, ZenonT(40) DEF ProbeStale, PidRunning, Server
  <2>4. CASE SendSigterm(s)
    BY <2>4 DEF SendSigterm
  <2>5. CASE SeenGone(s)
    BY <2>5, ZenonT(40) DEF SeenGone, PidRunning, Server
  <2>6. CASE WaitExpires(s) \/ KillWaitExpires(s)
    BY <2>6 DEF WaitExpires, KillWaitExpires
  <2>7. CASE SendSigkill(s)
    BY <2>7 DEF SendSigkill
  <2>8. CASE FinalCheck(s)
    BY <2>8, ZenonT(40) DEF FinalCheck, PidRunning, Server
  <2>9. CASE RemoveFile(s)
    BY <2>9 DEF RemoveFile, UnlinkPath
  <2>10. QED
    BY <1>5, <2>1, <2>2, <2>3, <2>4, <2>5, <2>6, <2>7, <2>8, <2>9 DEF Shutdown
<1>6. CASE UNCHANGED vars
  BY <1>6 DEF vars, RecordInv, Alone, Undisturbed, Recorded, Resting
<1>7. QED
  BY <1>1, <1>2, <1>3, <1>4, <1>5, <1>6 DEF Next

(***************************************************************************)
(* A serving process is the one in the PID file, whatever crashed before,  *)
(* as long as servers and commands did not overlap where they should not.  *)
(***************************************************************************)
THEOREM ServingIsRecorded == Spec => []RecordedUnlessRaced
<1>1. RecordInv => RecordedUnlessRaced
  BY DEF RecordInv, Recorded, RecordedUnlessRaced
<1>2. QED
  BY <1>1, InitInv, NextInv, InitRecord, NextRecord, PTL DEF Spec

(***************************************************************************)
(* The variables of servers, commands and PID file keep their types.       *)
(***************************************************************************)
THEOREM TypeCorrect == Spec => []TypeOK
<1>1. Inv => TypeOK
  BY DEF Inv
<1>2. QED
  BY <1>1, InitInv, NextInv, PTL DEF Spec

-----------------------------------------------------------------------------
(* The steps that a command has left at most, from its control point.      *)
StepsLeft(s) ==
  CASE pc[s] = "idle"      -> 9
    [] pc[s] = "read"      -> 8
    [] pc[s] = "probe"     -> 7
    [] pc[s] = "signal"    -> 6
    [] pc[s] = "wait"      -> 5
    [] pc[s] = "kill"      -> 4
    [] pc[s] = "kill_wait" -> 3
    [] pc[s] = "final"     -> 2
    [] pc[s] = "unlink"    -> 1
    [] pc[s] = "done"      -> 0

(* The control flow of shutdown_unified_process has no way back.           *)
Forward(s) ==
  \/ pc[s] = "idle" /\ pc'[s] \in {"read", "done"}
  \/ pc[s] = "read" /\ pc'[s] \in {"probe", "unlink"}
  \/ pc[s] = "probe" /\ pc'[s] \in {"signal", "unlink"}
  \/ pc[s] = "signal" /\ pc'[s] \in {"wait", "unlink", "done"}
  \/ pc[s] = "wait" /\ pc'[s] \in {"kill", "final", "unlink"}
  \/ pc[s] = "kill" /\ pc'[s] \in {"kill_wait", "done"}
  \/ pc[s] = "kill_wait" /\ pc'[s] \in {"final", "unlink"}
  \/ pc[s] = "final" /\ pc'[s] \in {"unlink", "done"}
  \/ pc[s] = "unlink" /\ pc'[s] = "done"

(* Every step of a command goes forward and leaves the other commands      *)
(* where they are.                                                         *)
LEMMA CommandForward ==
  ASSUME TypeOK, NEW s \in Commands, Shutdown(s)
  PROVE  Forward(s) /\ \A t \in Commands \ {s} : pc'[t] = pc[t] /\ code'[t] = code[t]
<1> USE DEF Goto, Exit, TypeOK, Forward
<1>1. CASE CheckFile(s)
  BY <1>1 DEF CheckFile
<1>2. CASE ReadPid(s)
  BY <1>2 DEF ReadPid
<1>3. CASE ProbeStale(s)
  <2>1. /\ pc[s] = "probe" /\ code' = code
        /\ pc' = [pc EXCEPT ![s] = "signal"] \/ pc' = [pc EXCEPT ![s] = "unlink"]
    BY <1>3 DEF ProbeStale
  <2>2. QED BY <2>1
<1>4. CASE SendSigterm(s)
  BY <1>4 DEF SendSigterm
<1>5. CASE SeenGone(s)
  BY <1>5 DEF SeenGone
<1>6. CASE WaitExpires(s) \/ KillWaitExpires(s)
  BY <1>6 DEF WaitExpires, KillWaitExpires
<1>7. CASE SendSigkill(s)
  BY <1>7 DEF SendSigkill
<1>8. CASE FinalCheck(s)
  <2>1. /\ pc[s] = "final"
        /\ \/ pc' = [pc EXCEPT ![s] = "done"] /\ code' = [code EXCEPT ![s] = 1]
           \/ pc' = [pc EXCEPT ![s] = "unlink"] /\ code' = code
    BY <1>8 DEF FinalCheck
  <2>2. QED BY <2>1
<1>9. CASE RemoveFile(s)
  BY <1>9 DEF RemoveFile
<1>10. QED
  BY <1>1, <1>2, <1>3, <1>4, <1>5, <1>6, <1>7, <1>8, <1>9 DEF Shutdown

(* No step of anybody gives a command more to do, its own steps always     *)
(* give it less, and a command that has ended keeps its exit code.         *)
CommandsRunDown ==
  \A s \in Commands :
    /\ StepsLeft(s)' <= StepsLeft(s)
    /\ Shutdown(s) => StepsLeft(s)' < StepsLeft(s)
    /\ pc[s] = "done" => pc'[s] = "done" /\ code'[s] = code[s]

(***************************************************************************)
(* fluxlit shutdown ends after nine steps at most, whatever the servers,   *)
(* the kernel and other commands do meanwhile, and its exit code is final. *)
(* CommandEnds needs besides this only that a started command goes on.     *)
(***************************************************************************)
THEOREM ShutdownIsBounded == Spec => [][CommandsRunDown]_vars
<1>1. ASSUME TypeOK, [Next]_vars PROVE [CommandsRunDown]_vars
  <2> SUFFICES ASSUME ~UNCHANGED vars, NEW s \in Commands
               PROVE  /\ StepsLeft(s)' <= StepsLeft(s)
                      /\ Shutdown(s) => StepsLeft(s)' < StepsLeft(s)
                      /\ pc[s] = "done" => pc'[s] = "done" /\ code'[s] = code[s]
    BY DEF CommandsRunDown
  <2>1. pc[s] \in PC
    BY <1>1 DEF TypeOK
  <2>2. CASE Forward(s)
    BY <2>1, <2>2 DEF Forward, PC, StepsLeft
  <2>3. ASSUME ~Forward(s) PROVE pc'[s] = pc[s] /\ code'[s] = code[s] /\ ~Shutdown(s)
    <3>1. ~Shutdown(s)
      BY <1>1, <2>3, CommandForward
    <3>2. CASE \E t \in Commands : Shutdown(t)
      BY <1>1, <3>1, <3>2, CommandForward
    <3>3. CASE \E p \in Pids : RunOpen(p) \/ RunWrite(p) \/ RunLeaves(p) \/ RunDies(p)
                               \/ PidFreed(p) \/ PidReused(p)
      BY <3>1, <3>3 DEF RunOpen, RunWrite, RunLeaves, RunDies, PidFreed, PidReused, commandVars
    <3>4. \/ \E t \in Commands : Shutdown(t)
          \/ \E p \in Pids : RunOpen(p) \/ RunWrite(p) \/ RunLeaves(p) \/ RunDies(p)
                             \/ PidFreed(p) \/ PidReused(p)
      BY <1>1 DEF Next
    <3>5. QED BY <3>1, <3>2, <3>3, <3>4
  <2>4. CASE ~Forward(s)
    <3>1. StepsLeft(s)' = StepsLeft(s) /\ StepsLeft(s) \in Nat
      BY <2>1, <2>3, <2>4 DEF StepsLeft, PC
    <3>2. QED BY <2>3, <2>4, <3>1
  <2>5. QED BY <2>2, <2>4
<1>2. QED
  BY <1>1, TypeCorrect, PTL DEF Spec
=============================================================================
