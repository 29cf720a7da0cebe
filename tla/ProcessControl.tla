---------------------------- MODULE ProcessControl ----------------------------
(***************************************************************************)
(* fluxlit.runtime.process_control: the PID file that fluxlit dev and      *)
(* fluxlit run write, and the fluxlit shutdown command that reads it and   *)
(* signals the process it names (shutdown_unified_process), on POSIX.      *)
(*                                                                         *)
(* Runs and commands are separate processes that share one directory, so   *)
(* every file operation and every probe of a process is a step of its own. *)
(* The two waiting loops poll until a deadline: the deadline may pass at   *)
(* any time, before or after the process is gone.                          *)
(***************************************************************************)
EXTENDS Naturals

CONSTANTS
  Pids,       \* process ids; each is given to one run of the server at most
  Commands,   \* fluxlit shutdown commands
  NoFile,     \* there is no PID file
  Garbled     \* the PID file holds no number (opened and not yet written)

ASSUME NotPids == NoFile \notin Pids /\ Garbled \notin Pids /\ NoFile # Garbled

VARIABLES
  proc,      \* per pid: what kind of process has it
  pidfile,   \* what the path holds
  linked,    \* per pid: the file it opened for writing is still at the path
  pc,        \* per command: where it is
  force,     \* per command: --force
  target,    \* per command: the pid it read, or NoFile
  code,      \* per command: its exit code
  raced      \* runs and commands overlapped where they should not (history)

fileVars == <<pidfile, linked>>
commandVars == <<pc, target, code>>
vars == <<proc, fileVars, commandVars, force, raced>>

\* A server before, while and after it serves; then nobody, an unreaped child,
\* or an unrelated process that was given the pid, of this user or another.
Server == {"writing", "serving", "leaving"}
ProcState == Server \cup {"unborn", "dead", "zombie", "other", "foreign"}

PC == {"idle", "read", "probe", "signal", "wait", "kill", "kill_wait", "final",
       "unlink", "done"}

Init ==
  /\ proc = [p \in Pids |-> "unborn"]
  /\ pidfile = NoFile
  /\ linked = [p \in Pids |-> FALSE]
  /\ pc = [s \in Commands |-> "idle"]
  /\ force \in [Commands -> BOOLEAN]
  /\ target = [s \in Commands |-> NoFile]
  /\ code = [s \in Commands |-> 0]
  /\ raced = FALSE

-----------------------------------------------------------------------------
(* The server *)

Overlap ==
  \/ \E p \in Pids : proc[p] \in Server
  \/ \E s \in Commands : pc[s] \notin {"idle", "done"}

\* Mutant: a file that is already there is not opened.
RunOpenKeeps(p) ==
  /\ proc[p] = "unborn"
  /\ proc' = [proc EXCEPT ![p] = "writing"]
  /\ pidfile' = IF pidfile = NoFile THEN Garbled ELSE pidfile
  /\ linked' = [linked EXCEPT ![p] = pidfile = NoFile]
  /\ raced' = (raced \/ Overlap)
  /\ UNCHANGED <<commandVars, force>>

\* _write_pidfile opens the path, creating or truncating the file...
RunOpen(p) ==
  /\ proc[p] = "unborn"
  /\ proc' = [proc EXCEPT ![p] = "writing"]
  /\ pidfile' = Garbled
  /\ linked' = [linked EXCEPT ![p] = TRUE]
  /\ raced' = (raced \/ Overlap)
  /\ UNCHANGED <<commandVars, force>>

\* ...and writes the pid, which is lost if the path was unlinked meanwhile.
RunWrite(p) ==
  /\ proc[p] = "writing"
  /\ proc' = [proc EXCEPT ![p] = "serving"]
  /\ pidfile' = IF linked[p] THEN p ELSE pidfile
  /\ UNCHANGED <<linked, commandVars, force, raced>>

\* The path is removed, whatever it holds.
UnlinkPath ==
  /\ pidfile' = NoFile
  /\ linked' = [p \in Pids |-> FALSE]

\* run_unified's finally block: _remove_pidfile, then the sidecar is stopped.
RunLeaves(p) ==
  /\ proc[p] = "serving"
  /\ proc' = [proc EXCEPT ![p] = "leaving"]
  /\ UnlinkPath
  /\ UNCHANGED <<commandVars, force, raced>>

-----------------------------------------------------------------------------
(* The operating system *)

\* A server ends: by itself once it has left, from a signal or a crash before.
RunDies(p) ==
  /\ proc[p] \in Server
  /\ \E after \in {"dead", "zombie"} : proc' = [proc EXCEPT ![p] = after]
  /\ UNCHANGED <<fileVars, commandVars, force, raced>>

\* A parent reaps its child, an unrelated process ends.
PidFreed(p) ==
  /\ proc[p] \in {"zombie", "other", "foreign"}
  /\ proc' = [proc EXCEPT ![p] = "dead"]
  /\ UNCHANGED <<fileVars, commandVars, force, raced>>

PidReused(p) ==
  /\ proc[p] = "dead"
  /\ \E new \in {"other", "foreign"} : proc' = [proc EXCEPT ![p] = new]
  /\ UNCHANGED <<fileVars, commandVars, force, raced>>

-----------------------------------------------------------------------------
(* fluxlit shutdown *)

\* What _pid_running may answer: a zombie counts as running if ps fails.
PidRunning(p) ==
  IF proc[p] = "zombie" THEN BOOLEAN ELSE {proc[p] \in Server \cup {"other", "foreign"}}

Goto(s, label) == pc' = [pc EXCEPT ![s] = label]

Exit(s, n) ==
  /\ Goto(s, "done")
  /\ code' = [code EXCEPT ![s] = n]

\* path.is_file(); no file ends the command with 2.
CheckFile(s) ==
  /\ pc[s] = "idle"
  /\ \/ pidfile = NoFile /\ Exit(s, 2)
     \/ pidfile # NoFile /\ Goto(s, "read") /\ UNCHANGED code
  /\ raced' = (raced \/ \E p \in Pids : proc[p] = "writing")
  /\ UNCHANGED <<proc, fileVars, target, force>>

\* read_text and int(); a file that is gone or holds no number is removed.
ReadPid(s) ==
  /\ pc[s] = "read"
  /\ \/ pidfile \in Pids /\ target' = [target EXCEPT ![s] = pidfile] /\ Goto(s, "probe")
     \/ pidfile \notin Pids /\ Goto(s, "unlink") /\ UNCHANGED target
  /\ UNCHANGED <<proc, fileVars, code, force, raced>>

\* The first _pid_running: a stale file is removed.
ProbeStale(s) ==
  /\ pc[s] = "probe"
  /\ \E running \in PidRunning(target[s]) : Goto(s, IF running THEN "signal" ELSE "unlink")
  /\ UNCHANGED <<proc, fileVars, target, code, force, raced>>

\* os.kill(pid, SIGTERM): nobody there, not permitted, or sent.
SendSigterm(s) ==
  /\ pc[s] = "signal"
  /\ \/ proc[target[s]] = "dead" /\ Goto(s, "unlink") /\ UNCHANGED code
     \/ proc[target[s]] = "foreign" /\ Exit(s, 1)
     \/ proc[target[s]] \notin {"dead", "foreign"} /\ Goto(s, "wait") /\ UNCHANGED code
  /\ UNCHANGED <<proc, fileVars, target, force, raced>>

\* A poll of either loop finds the process gone.
SeenGone(s) ==
  /\ pc[s] \in {"wait", "kill_wait"}
  /\ FALSE \in PidRunning(target[s])
  /\ Goto(s, "unlink")
  /\ UNCHANGED <<proc, fileVars, target, code, force, raced>>

\* Mutant: the loop has no deadline.
WaitExpiresNever(s) == FALSE /\ UNCHANGED vars

\* Mutant: after the deadline the process is taken for stopped.
WaitExpiresStopped(s) ==
  /\ pc[s] = "wait"
  /\ Goto(s, IF force[s] THEN "kill" ELSE "unlink")
  /\ UNCHANGED <<proc, fileVars, target, code, force, raced>>

\* wait_s have passed.
WaitExpires(s) ==
  /\ pc[s] = "wait"
  /\ Goto(s, IF force[s] THEN "kill" ELSE "final")
  /\ UNCHANGED <<proc, fileVars, target, code, force, raced>>

\* os.kill(pid, SIGKILL): only ProcessLookupError is suppressed, so a pid that
\* went to another user meanwhile ends the command with a traceback.
SendSigkill(s) ==
  /\ pc[s] = "kill"
  /\ \/ proc[target[s]] = "foreign" /\ Exit(s, 1)
     \/ proc[target[s]] # "foreign" /\ Goto(s, "kill_wait") /\ UNCHANGED code
  /\ UNCHANGED <<proc, fileVars, target, force, raced>>

\* Two seconds have passed after SIGKILL.
KillWaitExpires(s) ==
  /\ pc[s] = "kill_wait"
  /\ Goto(s, "final")
  /\ UNCHANGED <<proc, fileVars, target, code, force, raced>>

\* The last _pid_running decides between 0 and 1.
FinalCheck(s) ==
  /\ pc[s] = "final"
  /\ \E running \in PidRunning(target[s]) :
       IF running THEN Exit(s, 1) ELSE Goto(s, "unlink") /\ UNCHANGED code
  /\ UNCHANGED <<proc, fileVars, target, force, raced>>

\* path.unlink(missing_ok=True), then success.
RemoveFile(s) ==
  /\ pc[s] = "unlink"
  /\ UnlinkPath
  /\ Exit(s, 0)
  /\ UNCHANGED <<proc, target, force, raced>>

Shutdown(s) ==
  \/ CheckFile(s) \/ ReadPid(s) \/ ProbeStale(s) \/ SendSigterm(s) \/ SeenGone(s)
  \/ WaitExpires(s) \/ SendSigkill(s) \/ KillWaitExpires(s) \/ FinalCheck(s)
  \/ RemoveFile(s)

Next ==
  \/ \E p \in Pids : RunOpen(p) \/ RunWrite(p) \/ RunLeaves(p) \/ RunDies(p)
                     \/ PidFreed(p) \/ PidReused(p)
  \/ \E s \in Commands : Shutdown(s)

Spec == Init /\ [][Next]_vars

\* A command keeps running once started; nothing is assumed of the servers,
\* which may ignore every signal for as long as they like.
FairSpec == Spec /\ \A s \in Commands : WF_vars(pc[s] # "idle" /\ Shutdown(s))

-----------------------------------------------------------------------------
(* Properties *)

TypeOK ==
  /\ proc \in [Pids -> ProcState]
  /\ pidfile \in Pids \cup {NoFile, Garbled}
  /\ linked \in [Pids -> BOOLEAN]
  /\ pc \in [Commands -> PC] /\ force \in [Commands -> BOOLEAN]
  /\ target \in [Commands -> Pids \cup {NoFile}]
  /\ code \in [Commands -> 0..2]
  /\ raced \in BOOLEAN

\* A server that has written its pid.
HasWritten(p) == proc[p] \notin {"unborn", "writing"}

(***************************************************************************)
(* Why an exit code can be believed: what the file or a command names has  *)
(* written its pid and never does so again, and a command that is about to *)
(* remove the file has seen its target's end.                              *)
(***************************************************************************)
ShutdownInv ==
  /\ pidfile \in Pids => HasWritten(pidfile)
  /\ \A s \in Commands :
       /\ target[s] # NoFile => HasWritten(target[s])
       /\ pc[s] \in {"idle", "read"} => target[s] = NoFile
       /\ pc[s] \in {"probe", "signal", "wait", "kill", "kill_wait", "final"} =>
            target[s] # NoFile
       /\ pc[s] = "unlink" /\ target[s] # NoFile => proc[target[s]] \notin Server

(***************************************************************************)
(* Exit code 0 after a pid was read means that the server with that pid    *)
(* has ended and that the file no longer names it, whatever other commands *)
(* and runs did and even if the pid was given to somebody else.            *)
(***************************************************************************)
SuccessMeansStopped ==
  \A s \in Commands :
    pc[s] = "done" /\ code[s] = 0 /\ target[s] # NoFile =>
      proc[target[s]] \notin Server /\ pidfile # target[s]

(***************************************************************************)
(* A serving process is the one in the PID file, also after servers that   *)
(* crashed and left theirs behind, provided that no server was started     *)
(* beside another one or beside a shutdown command, and no command looked  *)
(* at a file while it was being written.                                   *)
(***************************************************************************)
RecordedUnlessRaced ==
  \A p \in Pids : proc[p] = "serving" /\ ~raced => pidfile = p

(***************************************************************************)
(* fluxlit shutdown always comes back, even if the process it waits for    *)
(* ignores SIGTERM and SIGKILL.                                            *)
(***************************************************************************)
CommandEnds == \A s \in Commands : pc[s] # "idle" ~> pc[s] = "done"

=============================================================================
