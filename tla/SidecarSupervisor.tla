-------------------------- MODULE SidecarSupervisor --------------------------
(***************************************************************************)
(* fluxlit.runtime.uvicorn_runner.run_unified: the process that spawns the *)
(* Streamlit sidecar, serves the gateway and supervises the sidecar.       *)
(*                                                                         *)
(* Three threads run in it: main (start-up, server.run, the finally        *)
(* block), the daemon thread monitor_streamlit and, for --reload           *)
(* --reload-scope=full, the daemon file-watch thread that calls            *)
(* restart_streamlit_sidecar.  They share proc_box[0], the flag            *)
(* "intentional", the event streamlit_reload_done, server.should_exit, the *)
(* upstream state file and the environment.                                *)
(*                                                                         *)
(* Sidecar processes are numbered in spawn order.  A sidecar has its own   *)
(* free port, so its number also stands for its upstream URL; 0 is the     *)
(* empty URL.                                                              *)
(***************************************************************************)
EXTENDS Naturals

CONSTANTS
  MaxProcs,      \* bound: one sidecar, and one more per file change
  ReloadFull,    \* --reload --reload-scope=full: the watcher thread runs
  WritePidfile,  \* write_pidfile and not FLUXLIT_NO_PIDFILE
  Faults         \* which failures and signals may happen

ASSUME SupervisorAssumption ==
  /\ MaxProcs \in Nat \ {0}
  /\ ReloadFull \in BOOLEAN
  /\ WritePidfile \in BOOLEAN
  /\ Faults \subseteq {"popen", "disk", "bind", "sigterm", "interrupt"}

VARIABLES
  main,          \* control point of the main thread
  mon,           \* control point of monitor_streamlit
  monProc,       \* its local p
  wat,           \* control point of the file-watch thread
  phase,         \* per caller: how far _terminate_process has escalated
  target,        \* per caller: the process it terminates
  changes,       \* file changes acted on, at most MaxProcs - 1
  spawned,       \* number of sidecars started so far
  status,        \* per sidecar: not started, starting, listening, exited
  sig,           \* per sidecar: strongest signal sent to it
  procBox,       \* proc_box[0]
  intentional,   \* streamlit_reload_state["intentional"]
  done,          \* streamlit_reload_done.is_set()
  shouldExit,    \* server.should_exit
  captured,      \* the last signal Uvicorn's handler took in server.run()
  fileExists,    \* the upstream state file is on disk
  fileUrl,       \* its content
  fileEnv,       \* FLUXLIT_STREAMLIT_UPSTREAM_FILE is set
  envUrl,        \* FLUXLIT_STREAMLIT_UPSTREAM
  pidfile,       \* the pid file is on disk
  diskErr        \* history: "update", the last update of the state file raised;
                 \* "unlink", the finally block could not remove it

threadVars == <<main, mon, monProc, wat, changes, phase, target>>
procVars   == <<spawned, status, sig, procBox>>
flagVars   == <<intentional, done, shouldExit, captured>>
diskVars   == <<fileExists, fileUrl, fileEnv, envUrl, pidfile, diskErr>>
vars       == <<threadVars, procVars, flagVars, diskVars>>

Procs   == 1..MaxProcs
Callers == {"main", "watcher"}

MainPC == {"popen", "wait_tcp", "publish", "pidfile", "serve",
           "unlink", "rm_pidfile", "term", "exited", "aborted", "signalled"}
MonPC  == {"off", "top", "wait", "check", "wait_done", "clear", "reset",
           "decide", "returned"}
WatPC  == {"off", "watch", "begin", "term_old", "popen", "set_box",
           "wait_tcp", "term_new", "stop", "truncate", "write", "set_env",
           "finish", "returned"}

\* The ways out of run_unified: through the whole finally block or before any
\* sidecar, by an exception outside try or inside finally, or by SIGTERM.
\* Daemon threads only run while the interpreter does.
Running == main \notin {"exited", "aborted", "signalled"}

Alive(p) == status[p] \in {"starting", "listening"}

\* A sidecar that has exited or that SIGKILL is about to remove.
Down(p) == status[p] = "exited" \/ sig[p] = "kill"

(***************************************************************************)
(* read_streamlit_upstream_url: the state file when it is named by the     *)
(* environment, readable and not empty, otherwise the plain environment    *)
(* variable.                                                               *)
(***************************************************************************)
ReadUpstreamUrl ==
  IF fileEnv /\ fileExists /\ fileUrl # 0 THEN fileUrl ELSE envUrl

Init ==
  /\ main = "popen" /\ mon = "off" /\ wat = "off"
  /\ monProc = 0
  /\ phase = [c \in Callers |-> "poll"]
  /\ target = [c \in Callers |-> 0]
  /\ changes = 0 /\ spawned = 0
  /\ status = [p \in Procs |-> "none"]
  /\ sig = [p \in Procs |-> "none"]
  /\ procBox = 0
  /\ intentional = FALSE /\ done = FALSE /\ shouldExit = FALSE
  /\ captured = "none" /\ diskErr = {}
  /\ fileExists = FALSE /\ fileUrl = 0 /\ fileEnv = FALSE /\ envUrl = 0
  /\ pidfile = FALSE

-----------------------------------------------------------------------------
(* Shared steps *)

\* subprocess.Popen: a new sidecar that does not listen yet.
Spawn ==
  /\ spawned < MaxProcs
  /\ spawned' = spawned + 1
  /\ status' = [status EXCEPT ![spawned + 1] = "starting"]

\* SIGINT and terminate() ask; only kill() cannot be ignored.
Send(p, s) ==
  sig' = [sig EXCEPT ![p] = IF @ = "kill" THEN @ ELSE s]

\* Mutants: the last escalation is forgotten; the wait has no timeout.
TerminateReturnsNoKill(c) ==
  /\ status[target[c]] = "exited" \/ phase[c] = "term"
  /\ phase' = [phase EXCEPT ![c] = "poll"]
  /\ UNCHANGED sig

TerminateReturnsNoTimeout(c) ==
  /\ status[target[c]] = "exited"
  /\ phase' = [phase EXCEPT ![c] = "poll"]
  /\ UNCHANGED sig

(***************************************************************************)
(* One step of _terminate_process(proc) for caller c: poll() or a wait     *)
(* finds the process gone and the call returns; otherwise SIGINT, then,    *)
(* after a wait of 5 s, terminate(), then, after another, kill() without a *)
(* wait.  Returned tells the caller whether the call is over.              *)
(***************************************************************************)
TerminateReturns(c) ==
  /\ \/ /\ status[target[c]] = "exited"
        /\ UNCHANGED sig
     \/ /\ status[target[c]] # "exited"
        /\ phase[c] = "term"
        /\ Send(target[c], "kill")
  /\ phase' = [phase EXCEPT ![c] = "poll"]

TerminateEscalates(c) ==
  /\ status[target[c]] # "exited"
  /\ \/ /\ phase[c] = "poll"
        /\ phase' = [phase EXCEPT ![c] = "int"]
     \/ /\ phase[c] = "int"
        /\ phase' = [phase EXCEPT ![c] = "term"]
  /\ Send(target[c], "asked")

-----------------------------------------------------------------------------
(* Main thread *)

\* The first Popen precedes the try block.
MainPopen ==
  /\ main = "popen"
  /\ \/ /\ Spawn
        /\ procBox' = spawned + 1
        /\ main' = "wait_tcp"
        /\ UNCHANGED sig
     \/ /\ "popen" \in Faults
        /\ main' = "exited"
        /\ UNCHANGED procVars
  /\ UNCHANGED <<mon, monProc, wat, changes, phase, target, flagVars, diskVars>>

MainWaitTcp ==
  /\ main = "wait_tcp"
  /\ status[procBox] = "listening"
  /\ main' = "publish"
  /\ UNCHANGED <<mon, monProc, wat, changes, phase, target, procVars, flagVars, diskVars>>

\* write_streamlit_upstream_state: a fresh temporary file and both variables.
MainPublish ==
  /\ main = "publish"
  /\ fileExists' = TRUE /\ fileUrl' = procBox
  /\ envUrl' = procBox /\ fileEnv' = TRUE
  /\ main' = "pidfile"
  /\ UNCHANGED <<mon, monProc, wat, changes, phase, target, procVars, flagVars, pidfile,
                 diskErr>>

\* _write_pidfile, then the configuration, the two threads and server.run().
MainStart ==
  /\ main = "pidfile"
  /\ pidfile' = WritePidfile
  /\ mon' = "top"
  /\ wat' = IF ReloadFull THEN "watch" ELSE "off"
  /\ main' = "serve"
  /\ UNCHANGED <<monProc, changes, phase, target, procVars, flagVars,
                 fileExists, fileUrl, fileEnv, envUrl, diskErr>>

(***************************************************************************)
(* The try block raises before the threads exist: the TCP wait times out,  *)
(* the state file or the pid file cannot be written, or Ctrl-C raises      *)
(* KeyboardInterrupt, before or after the file itself was created.         *)
(***************************************************************************)
MainStartRaises ==
  /\ \/ /\ main = "wait_tcp" \/ (main = "pidfile" /\ "interrupt" \in Faults)
        /\ UNCHANGED <<fileExists, pidfile>>
     \/ /\ main = "publish" /\ ("disk" \in Faults \/ "interrupt" \in Faults)
        /\ fileExists' \in BOOLEAN /\ UNCHANGED pidfile
     \/ /\ main = "pidfile" /\ ("disk" \in Faults \/ "interrupt" \in Faults)
        /\ WritePidfile /\ pidfile' \in BOOLEAN /\ UNCHANGED fileExists
  /\ main' = "unlink"
  /\ UNCHANGED <<mon, monProc, wat, changes, phase, target, procVars, flagVars,
                 fileUrl, fileEnv, envUrl, diskErr>>

(***************************************************************************)
(* server.run() ends once should_exit is set and the requests under way    *)
(* are answered; the latter has no time limit by default.  Uvicorn then    *)
(* raises the captured signal again under its previous handler: SIGINT is  *)
(* a KeyboardInterrupt that passes through the finally block, SIGTERM ends *)
(* the process on the spot.                                                *)
(***************************************************************************)
ServerRunEnds ==
  /\ main = "serve"
  /\ shouldExit
  /\ main' = IF captured = "sigterm" THEN "signalled" ELSE "unlink"
  /\ UNCHANGED <<mon, monProc, wat, changes, phase, target, procVars, flagVars, diskVars>>

\* Mutant: only the variable is removed, not the file.
MainUnlinkUpstreamEnvOnly ==
  /\ main = "unlink"
  /\ fileEnv' = FALSE
  /\ main' = "rm_pidfile"
  /\ UNCHANGED <<mon, monProc, wat, changes, phase, target, procVars, flagVars,
                 fileExists, fileUrl, envUrl, pidfile, diskErr>>

\* finally: the state file, once write_streamlit_upstream_state returned its
\* path (it sets the variable last), and the variable that names it.  An
\* OSError of the unlink is suppressed and the file stays.
MainUnlinkUpstream ==
  /\ main = "unlink"
  /\ \/ /\ fileExists' = (fileExists /\ ~fileEnv)
        /\ fileUrl' = 0
        /\ UNCHANGED diskErr
     \/ /\ "disk" \in Faults /\ fileExists /\ fileEnv
        /\ diskErr' = diskErr \cup {"unlink"}
        /\ UNCHANGED <<fileExists, fileUrl>>
  /\ fileEnv' = FALSE
  /\ main' = "rm_pidfile"
  /\ UNCHANGED <<mon, monProc, wat, changes, phase, target, procVars, flagVars,
                 envUrl, pidfile>>

\* finally: the pid file if pidfile_written, which is set just before the
\* monitor starts; then proc_box[0] is read for _terminate_process.
\* _remove_pidfile lets every OSError but FileNotFoundError out of finally.
MainRemovePidfile ==
  /\ main = "rm_pidfile"
  /\ \/ /\ pidfile' = (pidfile /\ mon = "off")
        /\ target' = [target EXCEPT !["main"] = procBox]
        /\ main' = "term"
     \/ /\ "disk" \in Faults /\ pidfile /\ mon # "off"
        /\ main' = "aborted"
        /\ UNCHANGED <<pidfile, target>>
  /\ UNCHANGED <<mon, monProc, wat, changes, phase, procVars, flagVars,
                 fileExists, fileUrl, fileEnv, envUrl, diskErr>>

MainTerminate ==
  /\ main = "term"
  /\ \/ TerminateReturns("main") /\ main' = "exited"
     \/ TerminateEscalates("main") /\ UNCHANGED main
  /\ UNCHANGED <<mon, monProc, wat, changes, target, spawned, status, procBox,
                 flagVars, diskVars>>

-----------------------------------------------------------------------------
(* monitor_streamlit *)

MonitorTop ==
  /\ Running /\ mon = "top"
  /\ \/ /\ shouldExit
        /\ mon' = "returned"
        /\ UNCHANGED monProc
     \/ /\ ~shouldExit
        /\ monProc' = procBox
        /\ mon' = "wait"
  /\ UNCHANGED <<main, wat, changes, phase, target, procVars, flagVars, diskVars>>

\* p.wait() returns.
MonitorWait ==
  /\ Running /\ mon = "wait"
  /\ status[monProc] = "exited"
  /\ mon' = "check"
  /\ UNCHANGED <<main, monProc, wat, changes, phase, target, procVars, flagVars, diskVars>>

\* Under the lock: was this exit asked for by a reload?
MonitorCheck ==
  /\ Running /\ mon = "check"
  /\ mon' = IF intentional THEN "wait_done" ELSE "decide"
  /\ UNCHANGED <<main, monProc, wat, changes, phase, target, procVars, flagVars, diskVars>>

\* streamlit_reload_done.wait finds the event set.
MonitorDoneSet ==
  /\ Running /\ mon = "wait_done"
  /\ done
  /\ mon' = "clear"
  /\ UNCHANGED <<main, monProc, wat, changes, phase, target, procVars, flagVars, diskVars>>

(***************************************************************************)
(* streamlit_reload_done.wait times out after 60 s.  Terminating a sidecar *)
(* that is already gone and Popen take a small part of that time, so the   *)
(* timeout of a wait for the old sidecar is only possible once the watcher *)
(* is in its own 60 s TCP wait or past it.  A wait that began with the new *)
(* sidecar's exit began after the watcher's and outlasts it.               *)
(***************************************************************************)
MonitorDoneTimeout ==
  /\ Running /\ mon = "wait_done"
  /\ ~done /\ monProc # procBox
  /\ wat \in {"wait_tcp", "term_new", "stop", "truncate", "write", "set_env",
              "finish"}
  /\ mon' = "reset"
  /\ UNCHANGED <<main, monProc, wat, changes, phase, target, procVars, flagVars, diskVars>>

MonitorClear ==
  /\ Running /\ mon = "clear"
  /\ done' = FALSE
  /\ mon' = "reset"
  /\ UNCHANGED <<main, monProc, wat, changes, phase, target, procVars,
                 intentional, shouldExit, captured, diskVars>>

\* Mutant: the flag of the reload stays up.
MonitorResetForgotten ==
  /\ Running /\ mon = "reset"
  /\ mon' = "top"
  /\ UNCHANGED <<main, monProc, wat, changes, phase, target, procVars, flagVars, diskVars>>

\* Under the lock: the reload is taken as dealt with.
MonitorReset ==
  /\ Running /\ mon = "reset"
  /\ intentional' = FALSE
  /\ mon' = "top"
  /\ UNCHANGED <<main, monProc, wat, changes, phase, target, procVars,
                 done, shouldExit, captured, diskVars>>

\* An exit nobody asked for: stop the gateway.
MonitorStop ==
  /\ Running /\ mon = "decide"
  /\ shouldExit' = TRUE
  /\ mon' = "returned"
  /\ UNCHANGED <<main, monProc, wat, changes, phase, target, procVars,
                 intentional, done, captured, diskVars>>

-----------------------------------------------------------------------------
(* File-watch thread: _start_streamlit_reload_watcher and, from "begin"    *)
(* on, restart_streamlit_sidecar.                                          *)

\* watch() yields a change; stop_flag() is only consulted here.
FileChange ==
  /\ Running /\ wat = "watch"
  /\ changes < MaxProcs - 1
  /\ changes' = changes + 1
  /\ wat' = IF shouldExit THEN "returned" ELSE "begin"
  /\ UNCHANGED <<main, mon, monProc, phase, target, procVars, flagVars, diskVars>>

\* Mutant: the reload does not announce itself.
ReloadBeginUnannounced ==
  /\ Running /\ wat = "begin"
  /\ done' = FALSE
  /\ target' = [target EXCEPT !["watcher"] = procBox]
  /\ wat' = "term_old"
  /\ UNCHANGED <<main, mon, monProc, changes, phase, procVars, intentional,
                 shouldExit, captured, diskVars>>

ReloadBegin ==
  /\ Running /\ wat = "begin"
  /\ intentional' = TRUE
  /\ done' = FALSE
  /\ target' = [target EXCEPT !["watcher"] = procBox]
  /\ wat' = "term_old"
  /\ UNCHANGED <<main, mon, monProc, changes, phase, procVars, shouldExit, captured,
                 diskVars>>

ReloadTerminateOld ==
  /\ Running /\ wat = "term_old"
  /\ \/ TerminateReturns("watcher") /\ wat' = "popen"
     \/ TerminateEscalates("watcher") /\ UNCHANGED wat
  /\ UNCHANGED <<main, mon, monProc, changes, target, spawned, status, procBox,
                 flagVars, diskVars>>

\* A Popen that raises leaves the try block for its finally.
ReloadPopen ==
  /\ Running /\ wat = "popen"
  /\ \/ /\ Spawn
        /\ wat' = "set_box"
     \/ /\ "popen" \in Faults
        /\ wat' = "finish"
        /\ UNCHANGED <<spawned, status>>
  /\ UNCHANGED <<main, mon, monProc, changes, phase, target, sig, procBox,
                 flagVars, diskVars>>

ReloadSetBox ==
  /\ Running /\ wat = "set_box"
  /\ procBox' = spawned
  /\ wat' = "wait_tcp"
  /\ UNCHANGED <<main, mon, monProc, changes, phase, target, spawned, status, sig,
                 flagVars, diskVars>>

\* Mutant: the new sidecar is published without waiting for it.
ReloadWaitTcpSkipped ==
  /\ Running /\ wat = "wait_tcp"
  /\ wat' = "truncate"
  /\ UNCHANGED <<main, mon, monProc, changes, phase, target, procVars, flagVars, diskVars>>

\* The new sidecar accepts a connection, or 60 s pass without one.
ReloadWaitTcp ==
  /\ Running /\ wat = "wait_tcp"
  /\ \/ /\ status[spawned] = "listening"
        /\ wat' = "truncate"
        /\ UNCHANGED target
     \/ /\ status[spawned] # "listening"
        /\ target' = [target EXCEPT !["watcher"] = spawned]
        /\ wat' = "term_new"
  /\ UNCHANGED <<main, mon, monProc, changes, phase, procVars, flagVars, diskVars>>

ReloadTerminateNew ==
  /\ Running /\ wat = "term_new"
  /\ \/ TerminateReturns("watcher") /\ wat' = "stop"
     \/ TerminateEscalates("watcher") /\ UNCHANGED wat
  /\ UNCHANGED <<main, mon, monProc, changes, target, spawned, status, procBox,
                 flagVars, diskVars>>

\* The new sidecar never listened: give up and stop the gateway.
ReloadStop ==
  /\ Running /\ wat = "stop"
  /\ shouldExit' = TRUE
  /\ wat' = "finish"
  /\ UNCHANGED <<main, mon, monProc, changes, phase, target, procVars,
                 intentional, done, captured, diskVars>>

\* Mutant: only the environment is updated, the file keeps the old URL.
ReloadTruncateSkipped ==
  /\ Running /\ wat = "truncate"
  /\ wat' = "set_env"
  /\ UNCHANGED <<main, mon, monProc, changes, phase, target, procVars, flagVars, diskVars>>

(***************************************************************************)
(* update_streamlit_upstream_file: write_text opens (creates, truncates)   *)
(* the file, then writes the URL; the environment follows.  Readers run    *)
(* between these steps.  Both the opening and the write can raise, past    *)
(* the finally into the watcher, which logs the exception and goes on.     *)
(***************************************************************************)
ReloadTruncate ==
  /\ Running /\ wat = "truncate"
  /\ \/ /\ fileExists' = TRUE /\ fileUrl' = 0
        /\ wat' = "write"
        /\ UNCHANGED diskErr
     \/ /\ "disk" \in Faults
        /\ diskErr' = diskErr \cup {"update"}
        /\ wat' = "finish"
        /\ UNCHANGED <<fileExists, fileUrl>>
  /\ UNCHANGED <<main, mon, monProc, changes, phase, target, procVars, flagVars,
                 fileEnv, envUrl, pidfile>>

ReloadWrite ==
  /\ Running /\ wat = "write"
  /\ \/ /\ fileUrl' = IF fileExists THEN spawned ELSE 0
        /\ wat' = "set_env"
        /\ UNCHANGED diskErr
     \/ /\ "disk" \in Faults
        /\ diskErr' = diskErr \cup {"update"}
        /\ wat' = "finish"
        /\ UNCHANGED fileUrl
  /\ UNCHANGED <<main, mon, monProc, changes, phase, target, procVars, flagVars,
                 fileExists, fileEnv, envUrl, pidfile>>

ReloadSetEnv ==
  /\ Running /\ wat = "set_env"
  /\ envUrl' = spawned
  /\ diskErr' = diskErr \ {"update"}
  /\ wat' = "finish"
  /\ UNCHANGED <<main, mon, monProc, changes, phase, target, procVars, flagVars,
                 fileExists, fileUrl, fileEnv, pidfile>>

\* finally: set the event under the lock.  A thread blocked in wait() is
\* notified and returns true even if the event is cleared before it runs.
ReloadFinish ==
  /\ Running /\ wat = "finish"
  /\ done' = TRUE
  /\ mon' = IF mon = "wait_done" THEN "clear" ELSE mon
  /\ wat' = "watch"
  /\ UNCHANGED <<main, monProc, changes, phase, target, procVars,
                 intentional, shouldExit, captured, diskVars>>

-----------------------------------------------------------------------------
(* Environment: the operator and the sidecar processes *)

\* Ctrl-C or SIGTERM in server.run(): Uvicorn's handler keeps the signal and
\* asks for the drain.  Of several signals the last is the first raised again.
StopRequested ==
  /\ main = "serve"
  /\ \/ captured' = "sigint"
     \/ captured' = "sigterm" /\ "sigterm" \in Faults
  /\ captured' # captured
  /\ shouldExit' = TRUE
  /\ UNCHANGED <<threadVars, procVars, intentional, done, diskVars>>

\* A failed bind leaves server.run() by SystemExit, and Ctrl-C while Uvicorn's
\* handlers are not in place by KeyboardInterrupt; should_exit is not set.
ServerRunRaises ==
  /\ main = "serve" /\ ("bind" \in Faults \/ "interrupt" \in Faults)
  /\ main' = "unlink"
  /\ UNCHANGED <<mon, monProc, wat, changes, phase, target, procVars, flagVars, diskVars>>

\* SIGTERM outside server.run(): its default action ends the process.
SigtermEnds ==
  /\ Running /\ main # "serve" /\ "sigterm" \in Faults
  /\ main' = "signalled"
  /\ UNCHANGED <<mon, monProc, wat, changes, phase, target, procVars, flagVars, diskVars>>

\* Ctrl-C before the try block (the first Popen may have been done) or in the
\* finally block: KeyboardInterrupt skips what is left of run_unified.
MainInterrupted ==
  /\ "interrupt" \in Faults
  /\ main \in {"popen", "wait_tcp", "unlink", "rm_pidfile", "term"}
  /\ main' = "aborted"
  /\ UNCHANGED <<mon, monProc, wat, changes, phase, target, procVars, flagVars, diskVars>>

SidecarListens(p) ==
  /\ status[p] = "starting"
  /\ status' = [status EXCEPT ![p] = "listening"]
  /\ UNCHANGED <<threadVars, spawned, sig, procBox, flagVars, diskVars>>

\* A crash, or the answer to a signal.
SidecarExits(p) ==
  /\ Alive(p)
  /\ status' = [status EXCEPT ![p] = "exited"]
  /\ UNCHANGED <<threadVars, spawned, sig, procBox, flagVars, diskVars>>

\* Nothing is left to do once the interpreter has exited.
Finished ==
  /\ ~Running
  /\ UNCHANGED vars

MainNext ==
  \/ MainPopen \/ MainWaitTcp \/ MainPublish \/ MainStart \/ MainStartRaises
  \/ MainUnlinkUpstream \/ MainRemovePidfile \/ MainTerminate

MonitorNext ==
  \/ MonitorTop \/ MonitorWait \/ MonitorCheck \/ MonitorDoneSet
  \/ MonitorDoneTimeout \/ MonitorClear \/ MonitorReset \/ MonitorStop

ReloadNext ==
  \/ ReloadBegin \/ ReloadTerminateOld \/ ReloadPopen \/ ReloadSetBox
  \/ ReloadWaitTcp \/ ReloadTerminateNew \/ ReloadStop \/ ReloadTruncate
  \/ ReloadWrite \/ ReloadSetEnv \/ ReloadFinish

Environment ==
  \/ StopRequested \/ ServerRunEnds \/ ServerRunRaises \/ SigtermEnds \/ MainInterrupted
  \/ \E p \in Procs : SidecarListens(p) \/ SidecarExits(p)

Next == MainNext \/ MonitorNext \/ FileChange \/ ReloadNext \/ Environment
        \/ Finished

(***************************************************************************)
(* The three threads are scheduled by the operating system, so each is     *)
(* weakly fair; a sidecar that was sent SIGKILL dies.  No fairness is      *)
(* given to file changes, to the operator, to Uvicorn's drain, which waits *)
(* for its clients, or to what a sidecar does by itself: it may hang       *)
(* forever and ignore SIGINT and SIGTERM.                                  *)
(***************************************************************************)
Fairness ==
  /\ WF_vars(MainNext)
  /\ WF_vars(MonitorNext)
  /\ WF_vars(ReloadNext)
  /\ \A p \in Procs : WF_vars(sig[p] = "kill" /\ SidecarExits(p))

Spec == Init /\ [][Next]_vars
FairSpec == Spec /\ Fairness

-----------------------------------------------------------------------------
(* Properties *)

FlagsOK ==
  /\ intentional \in BOOLEAN /\ done \in BOOLEAN /\ shouldExit \in BOOLEAN
  /\ fileExists \in BOOLEAN /\ fileEnv \in BOOLEAN /\ pidfile \in BOOLEAN
  /\ captured \in {"none", "sigint", "sigterm"}
  /\ diskErr \in SUBSET {"update", "unlink"}

TypeOK ==
  /\ main \in MainPC /\ mon \in MonPC /\ wat \in WatPC
  /\ monProc \in 0..MaxProcs
  /\ phase \in [Callers -> {"poll", "int", "term"}]
  /\ target \in [Callers -> 0..MaxProcs]
  /\ changes \in 0..MaxProcs /\ spawned \in 0..MaxProcs
  /\ status \in [Procs -> {"none", "starting", "listening", "exited"}]
  /\ sig \in [Procs -> {"none", "asked", "kill"}]
  /\ procBox \in 0..MaxProcs
  /\ fileUrl \in 0..MaxProcs /\ envUrl \in 0..MaxProcs
  /\ FlagsOK

(***************************************************************************)
(* The threads of run_unified implement the lease: whatever the            *)
(* interleaving of reload, shutdown and crashes, a sidecar is started only *)
(* after _terminate_process is done with the one before, and none is       *)
(* started by a process that has exited.                                   *)
(***************************************************************************)
InUse == {p \in Procs : Alive(p) /\ ~Down(p)}

ServerState ==
  CASE main = "serve" -> "up"
    [] ~Running -> "gone"
    [] OTHER -> "down"

Lease == INSTANCE SidecarLease WITH live <- InUse, born <- spawned,
                                    server <- ServerState

(* The threads of run_unified implement SidecarLease under this mapping.   *)
ImplementsLease == Lease!Spec

(***************************************************************************)
(* Whatever the interleaving of reload, shutdown and crashes, two sidecars *)
(* are never both left running: restart_streamlit_sidecar starts the new   *)
(* one only after _terminate_process is done with the old one.             *)
(***************************************************************************)
AtMostOneSidecar ==
  \A p, q \in Procs : Alive(p) /\ Alive(q) /\ ~Down(p) /\ ~Down(q) => p = q

(***************************************************************************)
(* A request served at any moment, even in the middle of                   *)
(* update_streamlit_upstream_file when the state file is empty, resolves   *)
(* to a sidecar that has been seen listening, never to an empty URL.       *)
(***************************************************************************)
ResolverNamesListener ==
  main = "serve" =>
    /\ ReadUpstreamUrl \in 1..spawned
    /\ status[ReadUpstreamUrl] \in {"listening", "exited"}

(***************************************************************************)
(* Between reloads the gateway resolves to the sidecar in proc_box, the    *)
(* one the monitor watches, unless the last update of the state file       *)
(* raised: then both the old content or an empty file and the old variable *)
(* keep naming the sidecar that was replaced.                              *)
(***************************************************************************)
ResolverFollowsBox ==
  main = "serve" /\ wat \in {"off", "watch", "begin", "returned"} /\ ~shouldExit
    /\ "update" \notin diskErr => ReadUpstreamUrl = procBox

(***************************************************************************)
(* run_unified: "On shutdown, the Streamlit child receives SIGINT /        *)
(* terminate / kill": a process that leaves a serving gateway for good     *)
(* leaves no sidecar behind.  False for a SIGTERM captured in server.run().*)
(***************************************************************************)
NoOrphanSidecar ==
  [][main = "serve" /\ ~Running' => \A p \in Procs : Alive(p)' => Down(p)']_vars

(***************************************************************************)
(* The finally block, entered while no reload is in progress or can begin  *)
(* and run to its end, terminates the sidecar however the try block was    *)
(* left; after serving it leaves no pid file behind, and no temporary      *)
(* state file unless its removal failed.  SIGTERM, Ctrl-C in the finally   *)
(* block and an error of _remove_pidfile keep it from its end.             *)
(***************************************************************************)
NoReload == wat \in {"off", "returned"} \/ (wat = "watch" /\ shouldExit)

CleanExit ==
  /\ [](main = "unlink" /\ NoReload
          => [](main = "exited" => \A p \in Procs : Alive(p) => Down(p)))
  /\ [](main = "serve" /\ shouldExit /\ NoReload
          => [](main = "exited" => ~pidfile /\ (fileExists => "unlink" \in diskErr)))

(***************************************************************************)
(* A file change restarts the sidecar and leaves the gateway up:           *)
(* monitor_streamlit never stops a serving gateway on account of a sidecar *)
(* that restart_streamlit_sidecar signalled in order to replace it.        *)
(***************************************************************************)
BeingReplaced(p) ==
  sig[p] # "none" /\ (p < spawned \/ wat \in {"term_old", "popen"})

ReloadKeepsGateway ==
  [][MonitorStop /\ main = "serve" /\ ~shouldExit => ~BeingReplaced(monProc)]_vars

\* The same for the first reload, whatever else fails.
FirstReloadKeepsGateway ==
  [][MonitorStop /\ main = "serve" /\ ~shouldExit /\ changes <= 1
       => ~BeingReplaced(monProc)]_vars

(***************************************************************************)
(* "If Streamlit exits, the gateway is stopped": a sidecar found dead      *)
(* while serving leads to a stop, unless a reload puts a new one there.    *)
(***************************************************************************)
DeadSidecar == main = "serve" /\ procBox # 0 /\ status[procBox] = "exited"

ExitStopsGateway ==
  DeadSidecar ~> (shouldExit \/ main # "serve" \/ Alive(procBox))

\* The assumption that the requests under way when a stop is asked for end,
\* which uvicorn_graceful_shutdown_timeout_s would bring about if it were set.
DrainEnds == WF_vars(ServerRunEnds)

\* The finally block always comes to an end, even when the sidecar ignores every
\* signal it can; and once anyone asks for a stop the process exits, provided
\* Uvicorn's drain comes to an end.
StopCompletes ==
  /\ main \in {"unlink", "rm_pidfile", "term"} ~> ~Running
  /\ DrainEnds => (shouldExit ~> ~Running)

-----------------------------------------------------------------------------
(* The inductive invariant behind AtMostOneSidecar and                     *)
(* ResolverNamesListener; the proofs are in SidecarSupervisorProofs.       *)

Listened(p) == p \in 1..spawned /\ status[p] \in {"listening", "exited"}

(***************************************************************************)
(* Sidecars are used in spawn order, all but the last are out of the way,  *)
(* the last one is out of the way before its successor is started, and     *)
(* proc_box names the last one except for the moment after Popen.          *)
(***************************************************************************)
SpawnInv ==
  /\ main = "popen" => spawned = 0
  /\ main \notin {"popen", "exited", "aborted", "signalled"} => spawned > 0
  /\ main \in {"popen", "wait_tcp", "publish", "pidfile"} => wat = "off"
  /\ wat # "off" => spawned > 0
  /\ wat # "set_box" => procBox = spawned
  /\ \A p \in Procs : p > spawned => status[p] = "none"
  /\ \A p \in Procs : p < spawned => Down(p)
  /\ wat = "term_old" => target["watcher"] = spawned
  /\ wat = "popen" => Down(spawned)

(***************************************************************************)
(* Both copies of the upstream URL, in the file unless it is truncated and *)
(* in the environment always, name a sidecar that has listened; a sidecar  *)
(* is published only after the TCP wait.                                   *)
(***************************************************************************)
PublishInv ==
  /\ main = "publish" => Listened(procBox)
  /\ main \in {"pidfile", "serve"} =>
       /\ Listened(envUrl)
       /\ fileUrl # 0 => Listened(fileUrl)
  /\ wat \in {"truncate", "write", "set_env"} => Listened(spawned)
=============================================================================
