# FluxLit: a TLA+ model of its runtime, gateways, sessions and start

FluxLit puts a FastAPI application and a Streamlit application behind one port.
The Streamlit part is a child process (the *sidecar*); FluxLit starts it, watches
it, replaces it on file changes, proxies HTTP and WebSocket traffic to it, and
has to take it down again. Around that it keeps sessions (OIDC codes, URL
sessions), a PID file, a registry of pages, and a configuration that several
commands and both processes read. This directory models the parts of
`src/src/fluxlit/` where that can go wrong.

Modules named `X` are specifications, `XProofs` hold the theorems about `X`, and
`MC_X` is the root TLC starts from. `PROJECT.json` maps every definition to the
lines it models and lists runs, mutants, hazards, findings and theorems.

## 1. Inventory

| Part | State it keeps | Operations | Interacts with | What makes it correct |
|---|---|---|---|---|
| **Sidecar supervisor** (`runtime/uvicorn_runner.py`, `streamlit_proc.py`, `upstream_state.py`, `reload_watcher.py`, `wait_tcp.py`) | `proc_box`, the reload flag and event, `should_exit`, a temporary state file and two environment variables with the upstream URL, the PID file | `run_unified`; threads `monitor_streamlit` and `restart_streamlit_sidecar`; `_terminate_process`; `update_streamlit_upstream_file`; `read_streamlit_upstream_url` | operating system, Uvicorn, gateway (reads the URL per request) | one sidecar in use at a time; a request resolves to a sidecar that has listened; a crash stops the gateway, a reload does not; nothing is left behind on exit |
| **Unified ASGI application** (`runtime/lifespan_bridge.py`, `orchestrate.py`, `public_mount.py`, `health.py`, `application/api_bootstrap.py`) | `streamlit_proc`, `upstream_url_box`, the inner lifespan task, the shared client | lifespan start-up and shutdown, guard of every request, `healthz`, `readyz` | ASGI server, inner FastAPI lifespan, sidecar | start-up is answered; a stopped server leaves no sidecar; a sidecar that was found down stays down for every request |
| **HTTP gateway** (`gateway/builder.py`, `dispatch.py`, `http_proxy.py`, `responses.py`) | `upstream_sem`, shared `httpx` client, two metrics | dispatch, body limit, buffering or streaming, proxied call, shutdown hook | clients, inner API, sidecar, ASGI server | slots come back on every path; oversized or cut bodies are not forwarded as requests; metrics balance |
| **WebSocket gateway** (`gateway/websocket_proxy.py`) | `relay_close_sent`, cancel scope of the task group | first message, connect, accept, two relay loops, close | browser, sidecar | frames in order, one close, a peer that leaves ends both tasks |
| **OIDC BFF** (`auth/oidc.py`, `auth/streamlit.py`) | `_pkce`, `_exchange` of the in-memory store; `session_state` and query parameters of a page | login, callback, exchange routes; `prepare_streamlit_api_client`, `exchange_auth_code_from_query` | identity provider, browser, Streamlit sessions | states and codes are used once and within their lifetime; nobody is refused early |
| **Process control** (`runtime/process_control.py`) | PID file | `_write_pidfile`, `_remove_pidfile`, `shutdown_unified_process` | any number of servers and commands in one directory | exit code 0 means stopped; a serving process is recorded; the command returns |
| **URL session** (`url_session.py`) | `InMemorySessionStore._data`, shared by all script threads without a lock | `get`, `set`, `delete` with eviction and trimming; `hydrate_`, `ensure_`, `persist_url_session` | browser tabs, Streamlit sessions, clock | a tab gets the latest unexpired write of its own session; an address names a seeded session; the store stays within its cap |
| **Configuration** (`config/`, `api_mount.py`, `runtime/import_target.py`, `runtime/resolve.py`) | none; reads environment, project file and code | validators, `resolve_binding`, `internal_api_base_url`, `collect_configuration_warnings` | command line, both processes | the checks agree with each other; gateway and sidecar agree on an address |
| **Command line** (`cli.py`) | files written by `build` and `new` | `dev`, `run`, `workbench`, `doctor`, `config`, `pages manifest/validate`, `build`, `new` (`shutdown` belongs to process control) | all of the above | a clean strict preflight means a start that succeeds |
| **Page registry, navigation, dependencies** (`application/page_registry.py`, `pages/`, `streamlit/`, `deep_links.py`, `app.py`) | `_pages`, the navigation model | `page`, `discover_pages`, ordering, title overrides, deep links, injection of arguments | Streamlit | every page once and after its parents; a deep link opens the page it names; a strictly checked page gets its arguments |

Section 8 lists the parts that are left out, and why.

### What is hard

* **Threads and processes.** The `finally` block of `run_unified` runs while a
  reload thread may be between "old sidecar terminated" and "new one stored";
  the monitor waits for a reload while the next one begins; a request reads the
  state file between its truncation and its write; a `fluxlit shutdown` unlinks a
  PID file that another server has just written; two script threads evict from the
  same dict.
* **Signals.** Uvicorn drains on SIGTERM and then raises it again, so that code
  after `server.run()` is not reached. Ctrl-C may interrupt the `finally` block that
  takes the sidecar down. A server that is signalled during start-up, or twice, leaves
  without `lifespan.shutdown`. The sidecar has a session of its own and gets no signal
  from the terminal.
* **Awaits.** The lifespan bridge looks at the inner task once, after one turn of
  the loop; the guard's verdict is used after later awaits; two relay tasks fail
  at the same time.
* **Clocks.** OIDC handlers read the clock before they take the store's lock, and
  the store purges with the clock of whoever calls it; the session store reads the
  clock up to three times in one call.
* **Partial failure.** `Popen` or the disk fails in the middle of a reload;
  cancellation reaches a request that waits for or holds a slot; the answer of an
  exchange is lost after the code was spent; a page module raises in the middle of
  discovery.
* **The same rule in several places.** Strict settings are checked by a validator,
  by `doctor` and by `config`; the bind is resolved by the command line and again for
  a sidecar under plain Uvicorn; page parameters are judged at registration
  and resolved at run time.

## 2. Modules and how they correspond to the code

### `SidecarLease`: the abstract specification

What both ways of running FluxLit promise about the sidecar: sidecars are started one
after the other, never next to one still in use, never by a server that is gone, and
the server serves only after one was started. Three variables: the sidecars in use,
how many were born, and the server. It says nothing of threads, tasks, signals or
URLs. `SidecarSupervisor` and `LifespanBridge` each instantiate it with a refinement
mapping (`InUse`, the spawn counter, `ServerState`) and state `ImplementsLease`; TLC
checks it and TLAPS proves it for both.

### `SidecarSupervisor`

Three program counters, `main`, `mon` and `wat`, are the three threads of
`run_unified`; a step is what a thread does between two points where another
thread, a sidecar or a request can see the difference. Sidecars are numbered in
spawn order; `status[p]` and `sig[p]` are what the operating system knows of them.
`procBox` is `proc_box[0]`, `intentional` and `done` the reload flag and its event,
`fileExists`, `fileUrl`, `fileEnv`, `envUrl` the published URL. A URL is the number of
its sidecar, 0 for an empty file. `TerminateEscalates` and `TerminateReturns` are the
steps of `_terminate_process` (SIGINT, terminate, kill, each wait bounded), shared
by the two threads that call it. `Faults` chooses what may fail or intervene: `Popen`,
the disk (at the open, the write and the removal of a file), the bind, SIGTERM, Ctrl-C
outside Uvicorn's handlers. `captured` is the signal Uvicorn's handler has taken and
`ServerRunEnds` raises again after the drain; `diskErr` remembers that the last update of
the state file, or its removal, failed. `main` ends in `exited` (through the whole
`finally` block), `signalled` (by SIGTERM) or `aborted` (by an exception or Ctrl-C outside
the try block or inside the `finally` block). Times are abstract: a timeout may expire
whenever its wait is unfinished; the drain has none by default.

### `LifespanBridge`

The lifespan task (`bridge`), the inner FastAPI lifespan (`inner`, external), the
server (`srv`, external) and one control point per request. All run on one event
loop, so that a step lasts until an await that can suspend; `Popen` and the TCP
wait block the loop and are one step. `AfterGuard` says which kinds of request
suspend between the guard and the resolver, which is where a stale verdict could
be used; `ApiMiddleware` makes the inner routes run in a task of their own, as
`BaseHTTPMiddleware` does. `RepeatStartup` lets the server send `lifespan.startup`
twice, a case the code handles explicitly. `ServerCuts` chooses how the server may be
harsher than the protocol: leave after start-up because it was signalled meanwhile, exit
by force without `lifespan.shutdown` (both end in `srv = "left"`), or cut its requests at
the end of the graceful timeout.

### `GatewayHttp`

Per request a kind, a control point, an answer, the chunks received, and whether
the body is open, complete or cut. `EnterProxy`/`LeaveProxy` are the
`asyncio.Semaphore` with its queue. `Buffered` separates the two ways a body is
read. `contacted` and `whole` record what the sidecar gets to see: a call, and the
end of its body. The server drains and cancels; the lifespan hook closes the
shared client.

### `GatewayWs`

One relayed connection: `main` is `proxy_websocket`, `c2u` and `u2c` are the two
tasks, `cancel` the task group's scope. Frames are numbers in sending order, so
that "prefix of what was sent" is a statement about delivered sequences.
`TryCloseClient` is the check of `relay_close_sent` that the two tasks share.

### `OidcBff`, `TokenStore`

`pkce` and `exchange` are the dictionaries of `InMemoryOIDCBFFTokenStore` with the
time each entry was saved. A state is named by its login, a code by its callback.
Each handler has a step that reads the clock and a later one that takes the lock
(purge, then save or pop). Discovery, token request and validation are one
external step that succeeds or fails. A tab runs its script any number of times
with whatever `?auth_code=` its URL holds; two kinds of page differ in whether they
look for a token first. A lost answer and a failed clean-up of the URL are
outcomes of their steps.

`TokenStore` is the abstract specification behind the protocol class
`OIDCBFFTokenStore`, which an application may implement with a shared store: keys are
saved once, a request asks at the time it reads and is answered later, a value is given
to one request that asked in time, and an entry may lapse by itself once its lifetime is
over. `OidcBff` instantiates it twice, for the states (asked for by callbacks) and for
the auth_codes (asked for by pages).

### `ProcessControl`

Servers (by pid) and commands are processes that share a path. Opening and writing
the PID file are separate; `linked[p]` says whether the file `p` opened is still the
one at the path. The operating system may leave a zombie, free a pid and give it to
an unrelated process of this or another user. `PidRunning` is what `_pid_running` may
answer. The two polling loops end by a poll or by their deadline.

### `UrlSession`

The dict of `InMemorySessionStore` is its keys in insertion order (`order`) and an entry
per key (`data`). An entry is an immutable pair written in one step, so it is
represented by the number of the write it comes from; `due` gives each write its
deadline. Every access to the dict that the interpreter may separate from the next
is a step of its own: the iteration of `_evict_expired` (which raises when the size
changes under it), each pop, the lookup, the comparison with a second reading of the
clock, the write, and in `_trim_size` the choice of the oldest key and its pop (which
raises when another thread was faster). A tab's `session_state` is represented by the
last write it took a key from. Tabs can be reloaded, or opened with another tab's
address.

### `PathText`, `Settings`, `Pages`, `AppStart`

`Settings` and `Pages` are the pure half of the start: operators on a *world*, a record
of what environment, project file, code and machine hold. A text that the code compares
as a path is three facts (`PathText`): leading slash, name, trailing slash. `Settings` has
the validators of `FluxlitSettings`, the project file, the two resolutions of the bind,
the port a socket bound to port 0 listens on (`ListensOn`), the internal API base, the rows of `doctor` and the warnings of `config`. `Pages` has
slugs, registration, both sorts, the topological order of children, title overrides,
deep links, signature checks and the resolution of arguments. A sort gives each record
the place after the records that come before it (`Enumerate`); `Emit` is one round of
the loop over the heap, `Emitted` the loop.

`AppStart` is the state machine over them: a shell in which commands are invoked one at
a time; the import that nearly all of them do (settings, then one page after the other,
then discovery module by module) and where it raises; what each command does with
the loaded application; a gateway that is started, opened in a browser and stopped;
and an operator who turns the strict settings on between two commands. `passed` is a
history variable: the strict preflights that have succeeded.

### How the modules compose

`SidecarSupervisor` and `LifespanBridge` meet in `SidecarLease`, which both implement:
whoever relies on the lease may be run by either. `OidcBff` implements `TokenStore` with
each of its two dictionaries. `AppStart` is composed from `Settings`
and `Pages`, which extend `PathText`. The other modules share no variables; they meet at
interfaces each treats as environment: the supervisor's exit is the step by which a
server of `ProcessControl` leaves; the gateways see the supervisor or the bridge through
`resolve_upstream`; `Serve` of `AppStart` is the point where `run_unified` begins.

## 3. Runs

| Run | Bounds | Distinct states | Checks |
|---|---|---|---|
| `supervisor` | 2 sidecars (a start and a reload); faults of Popen, disk, bind; SIGTERM and Ctrl-C anywhere | 308,699 | `ResolverNamesListener`, `ResolverFollowsBox`, `ImplementsLease`, `CleanExit`, `FirstReloadKeepsGateway`, `ExitStopsGateway`, `StopCompletes` |
| `bridge` | 3 requests of every kind, every inner and start-up failure, repeated start-up, middleware, a server that leaves or cuts requests | 261,516 | `NoLostSidecar`, `OrphanLeftInReceive`, `NotConfiguredAfterDown`, `ImplementsLease`, `DownStaysDown`, `StartupAnswered`, `ShutdownStops` |
| `http_gateway` | 3 requests, 1 slot, body limit none or 1, 2 chunks | 173,291 | `LimitFailsClosed`, `CutNeverWhole`, `SlotsConserved`, `MetricsBalance`, `RequestEnds` |
| `ws_relay` | 2 frames each way | 1,696 | `RelayInOrder`, `OneClose`, `LeavingEndsRelay` |
| `oidc_bff` | 2 logins, 2 callbacks, 2 tabs, clock 0..3, lifetimes 2 and 1 | 2,080,048 | `UsedOnce`, `OnlyFresh`, `NoFalseReject`, `LoggedInNeverRaises`, `ImplementsTokenStore` |
| `shutdown_command` | 2 servers, 2 commands | 367,116 | `SuccessMeansStopped`, `RecordedUnlessRaced`, `CommandEnds` |
| `url_session` | 2 tabs, 2 ids, room for 1 entry, times to live 0 and 1, clock 0..2, 3 writes | 6,352,163 | `CapHolds`, `LinkedMeansSeeded`, `HydratesFresh`, `HydratesLatest` |
| `app_start` | some nine thousand worlds | 2,624,214 | `PreflightHolds`, `ChildReachesGateway`, `NavOrder`, `DeepLinkOpensPage`, `StrictPageRuns` |

Section 5 describes the four runs that end with a counterexample (`supervisor_sigterm`,
`supervisor_spurious`, `bridge_late_failure`, `bind_precedence`).

Why the bounds are enough to meet the interesting cases:

* *Supervisor.* One reload already races every fault, every signal and the exit. The
  reset of the reload flag by a monitor that waited for the previous reload needs two:
  `supervisor_spurious` has them, and the proofs cover any number.
* *Bridge.* Two requests suffice for one to empty the box under the other's feet; the
  third comes after both and must get the same verdict.
* *HTTP.* One slot with three requests has a holder, a waiter that is served and a
  waiter that is cancelled. A limit of 1 with two chunks has the boundary and the
  excess; a limit of 0 is the streaming path.
* *WebSocket.* Two frames distinguish loss, repetition and reordering.
* *OIDC.* Two of each are needed for double use. The state lifetime (2) and the code
  lifetime (1) differ, and the clock goes past both boundaries.
* *PID file.* Two servers and two commands give every pairwise race; the pid of the
  first may be reused while the second runs.
* *URL session.* Room for one entry and two ids make the second session evict the first;
  two threads can choose the same key to pop; the clock passes a deadline in the middle
  of a call; three writes let a session be written, read and written again by the other
  tab while its own call is suspended.
* *Start.* The worlds of `MC_AppStart` are several families, each varying the fields that
  one group of checks reads (bind and addresses with port 0 from each source, proxy and mount settings, header names,
  page order and children, slugs and titles, parameters of registered and of discovered
  pages) around a common default. `DeepLinkOpensPage` leaves out a blank `?page=`, which
  `match_nav_page` treats as missing, and words that are some page's title.
  `MaxForwardNames` is 2 where the code has 32, so that the limit is met by a set of three
  names; nothing else depends on the number.

`MaxProcs`, `MaxChunks`, `MaxFrames`, `MaxTime` and `MaxWrites` are bounds of the model and
not of the code. Symmetry is used only in `oidc_bff` and `url_session`, which have no
liveness property. `CHECK_DEADLOCK FALSE` appears in these two only, where the clock and
the number of requests or writes are at their bounds; the other models have an
explicit `Finished` step in their final states, or cannot stop. `TypeOK` of the runtime,
gateway and session modules is proved (`TypeCorrect`, or as part of an invariant) rather
than listed as a property of a run.

## 4. Fairness

* *Supervisor:* each of the three threads is weakly fair (the operating system
  schedules threads, and the threads' own waits, for a port, for a signalled sidecar, for
  a reload, have timeouts). A sidecar that was sent SIGKILL dies. File changes, signals and
  anything a sidecar does by itself are not fair, so `StopCompletes` holds for a
  sidecar that ignores SIGINT and SIGTERM. Uvicorn's drain is not fair either:
  `uvicorn_graceful_shutdown_timeout_s` is `None` by default (`config/settings.py:266`) and
  then nothing bounds it. `StopCompletes` therefore has two halves: the `finally` block ends
  without any assumption on the drain, and a stop that was asked for ends *if* the drain
  does (`DrainEnds`, an assumption in the property itself, which a configured timeout
  makes true).
* *Bridge:* the server, the lifespan task, the inner lifespan and requests in
  flight are weakly fair: the loop runs ready tasks, and an HTTP probe has a timeout.
  That the inner application's start-up and shutdown code terminates is an
  assumption about user code; without it `lifespan.startup` is never answered.
* *HTTP:* each request in flight is weakly fair: the client sends the rest or goes
  away, the upstream call ends by the timeouts of `httpx`. There is no
  timeout of FluxLit's own on reading a body, so this is an assumption on
  the server or client, and `RequestEnds` depends on it.
* *WebSocket:* the handler, the two tasks and the delivery of cancellation are
  weakly fair; `open_timeout` and the keepalive of the upstream connection end the
  awaits. The peers are not fair.
* *Shutdown command:* a started command is weakly fair; servers may ignore all
  signals forever.
* `OidcBff`, `UrlSession` and `AppStart` state safety only and assume no fairness.

## 5. What the runs found

Four runs are expected to end with a counterexample. Each shows a difference between
what the code does and what a docstring, document or test of the repository says.

* **`supervisor_sigterm`** (`NoOrphanSidecar`). A gateway that serves is sent SIGTERM;
  Uvicorn captures it, drains, and raises it again when `server.run()` is left, which
  ends the interpreter. The `finally` block does not run: the sidecar, in its own
  session, survives, and state file and PID file stay. The property is about steps out
  of the serving phase, so that the trace is this one and not a signal during
  start-up. `fluxlit shutdown` sends this signal. The docstring of
  `run_unified` says that on shutdown the child receives SIGINT / terminate / kill.
* **`supervisor_spurious`** (`ReloadKeepsGateway`). The monitor resets the reload flag
  after waiting, and does not see that the next reload has set it again; that
  reload's own termination of the sidecar then counts as a crash and stops the
  gateway. `FirstReloadKeepsGateway` shows that one reload is never affected.
* **`bridge_late_failure`** (`StoppedMeansNoSidecar`). An inner start-up that fails after
  its first real await reports `startup.failed` by itself; the server exits, no
  shutdown message follows, and the sidecar survives. `OrphanLeftInReceive`, checked and
  proved, says that this is the only way while the server takes the lifespan protocol to
  its end.
* **`bind_precedence`** (`EnvBeatsProjectFile`). `docs/configuration.md` says that the
  environment beats the project file; `resolve_binding` takes the port of the project
  file and looks at the settings only when the file has none.

Modelled as the code has them, without a run of their own:

* Without any signal, a reload thread that is about to start a sidecar while the
  `finally` block runs leaves it behind, and may re-create the temporary state file.
  `CleanExit` is therefore stated for exits with no reload in flight.
* A failed update of the state file (`upstream_state.py:38`, swallowed by the watcher) leaves
  the gateway on the old sidecar's URL while `proc_box` names the new one;
  `ResolverFollowsBox` excepts this case by `diskErr`. The next reload repairs it.
* `_remove_pidfile` suppresses `FileNotFoundError` only (`process_control.py:32`): any other
  error leaves the `finally` block before `_terminate_process`, and so does a Ctrl-C anywhere in
  the block. The sidecar is then left behind. A failed removal of the state file is
  suppressed. `CleanExit` is stated for a block that is run to its end.
* A server need not take the lifespan protocol to its end: Uvicorn that was signalled
  during start-up leaves right after `startup.complete`, and a second Ctrl-C makes it leave
  at once. The lifespan task waits in `receive()` outside any `try` (`lifespan_bridge.py:65`),
  and the sidecar survives, although `docs/deployment.md:63` says that SIGTERM ends in a
  lifespan shutdown, "which tears down Streamlit". `OrphanLeftInReceive` says that no other
  point of the protocol leaves a sidecar behind.
* With a public mount path the gateway is wrapped in a function without the
  `fluxlit_shutdown` attribute (`public_mount.py:25`), so the shared client a request has
  opened is not closed, as `CHANGELOG.md:9` says it is. No property is about it: it would
  restate `ShutdownHookFound`.
* Behind a `BaseHTTPMiddleware`, `readyz` resolves its upstream in a later task than the
  guard; when another request's guard has emptied the box in between, the empty upstream
  is answered 200 `not_configured` (`health.py:42`), where `docs/deployment.md:49` promises 503
  on missing upstream state. `NotConfiguredAfterDown` says that it takes such a refusal,
  and `DownStaysDown` that no such late answer says that Streamlit is ready.
* `healthz` is behind the guard and answers 503 while the sidecar is down, where
  `docs/deployment.md:48` says that it does not check Streamlit.
* When the inner start-up fails in its first slice, both the inner application and
  the bridge send `startup.failed`.
* A client that disconnects while its body is streamed is answered 499 after the
  upstream has been contacted; `CutNeverWhole` says that the sidecar never sees such a
  request as complete.
* A page that calls `exchange_auth_code_from_query` itself posts the code on every run
  while it is in the address.
* Two script threads in the session store can make each other raise: `RuntimeError` when
  the dict changes under the iteration of `_evict_expired` (`url_session.py:88`),
  `KeyError` when both trim the same key (`url_session.py:95`). After the latter the store
  may stay above its cap until the next `set`; `CapHolds` says so.
* A gateway on `::` tells its sidecar `127.0.0.1`, although asyncio accepts IPv6 only
  there (`import_target.py:43`). With port 0 from the environment or the code
  (`project.py:139`) the gateway listens on a port the system chooses and tells its sidecar
  port 0 (`uvicorn_runner.py:87`). Under plain `uvicorn` the sidecar does not learn the
  address Uvicorn was given (`resolve.py:30`): even when it is the one `fluxlit run` would
  choose, an environment variable that project file or code overrules, or a port 0 in
  the project file, gives the sidecar another. `ChildReachesGateway` leaves out exactly
  these cases; without any one of the exceptions TLC finds a violation.
* `strict_startup` recommends `--proxy-headers`, which the validator cannot see
  (`settings.py:452`). An `api_mount_path` of white space becomes `/`, where the docstring
  says `/api` (`api_mount.py:10`). The path-mismatch check of `doctor` hides a URL that is
  not absolute (`cli.py:818`).
* `pages validate` ends with a `NameError` when annotations cannot be resolved
  (`validate.py:55`). A failing `discover_pages` leaves the pages registered so far
  unsorted (`page_registry.py:56`). Positional-only parameters pass the strict check and
  fail at the call (`signature.py:96`); `StrictPageRuns` leaves them out. A generator page
  without `experimental_yield_pages` shows nothing (`di.py:403`).

## 6. What is proved

TLAPS checks the following for every value of the constants that satisfies the
`ASSUME` of the module. An assumption gives constants their types, says that the
markers for "nothing" are not logins, codes, ids or pids, that the requests of a gateway
are finitely many, and in `AppStart` what a world consists of (`ScenarioAssumption`: the
settings, and finite sequences of page records and of paths).

* **`SidecarSupervisorProofs`**: `TypeCorrect`, `OneSidecar` (`AtMostOneSidecar`),
  `ResolverSafe` (`ResolverNamesListener`), `ResolverFollows` (`ResolverFollowsBox`),
  `FirstReloadIsSafe` (`FirstReloadKeepsGateway`), `ExitIsClean` (`CleanExit`) and
  `SupervisorImplementsLease` (`ImplementsLease`), for any number of reloads and any set of
  faults: every safety property of the `supervisor` run.
  `AtMostOneSidecar` is not inductive: it must be known that a
  successor is only spawned by a thread that has finished with *the last* sidecar.
  `SpawnInv` adds that all but the last are down, that `proc_box` names the last except
  just after `Popen`, and that the last is down when the watcher is about to spawn.
  `PublishInv` adds for the resolver that both copies of the URL name a sidecar that
  has listened and that the watcher publishes only one that has. `FirstInv` is what monitor
  and watcher know of each other: nothing is signalled before the first reload, the flag
  stays up until the new sidecar is in `proc_box`, and a monitor that finds it down again
  watches the new one. `CleanExit` is proved by two sets of states, `Leaving` and
  `CleaningUp`, that the finally block enters and no step leaves but an interrupt or an
  error, which do not end in `exited`. The refinement
  takes each action to `Start`, to a change of the server, to the end of a sidecar, or to
  a stutter of `SidecarLease`; the spawn by the watcher is the step that needs `SpawnInv`.
  `SupervisorNeverStuck`: while the interpreter runs, main is held up only by a server
  nobody asked to stop or by its drain, a restart by nobody, and the monitor only by a live sidecar or by
  a restart under way. It needs `WakeInv` (a raised `intentional` with the event down belongs
  to a restart under way or is about to be lowered, so no wake-up is missed), `HoldsInv`
  (whoever waits for or terminates a sidecar holds one that was started) and `CountInv`
  (one sidecar per file change). `StopIsBounded`: each step of main, the end of the drain, and each
  step of a restart bring its end nearer, by a count of the steps left, and nobody else puts it off.
* **`LifespanBridgeProofs`**: `SidecarNeverLost`, `VerdictStands` (`DownStaysDown`),
  `EmptyBoxMeansDown` (`NotConfiguredAfterDown`), `OrphansOnlyInReceive`
  (`OrphanLeftInReceive`) and `BridgeImplementsLease`, for any set of
  requests, failures and `ServerCuts`. `SideInv` relates process, handle and
  box: a live sidecar is always in both, which is why the guard may drop both when
  `poll()` reports an exit. `ProtocolInv` relates where the lifespan task is to what
  start-up was answered and which sidecar is owned. `DownInv` is what the verdict rests on:
  after a 503 the sidecar has exited, box and handle are empty, and the lifespan task is
  past the point where it starts one, so that neither a later guard nor a request that
  still waits can find it again. `FlightInv` adds that requests are in flight only while the
  server serves, and that only the guard empties the box then.
  `LifespanNeverStuck` (from `HandshakeInv`: where the inner task can be, seen from the bridge
  and from the server's answer) and `LifespanIsBounded` say that start-up and shutdown
  cannot hang on each other's task and have nine steps at most.
* **`GatewayHttpProofs`**: `LimitIsHard`, `NoCutBody`, `SlotsAddUp`, `MetricsAddUp`. `IInv`
  is about all requests at once: the queue of the semaphore holds exactly the waiting
  requests, each once (`Queue`); free slots, handed-over slots and holders add up
  (`Slots`); what was read of a body determines what the sidecar was told (`Bodies`).
  The slot count needs the cardinality of the set of holders before and after a
  request enters, leaves or gives up, which is where the lemmas `OneMore`, `OneLess`,
  `Entering`, `Leaving` and `GivingUp` are used.
  `RequestsRunDown`: a request has at most `MaxChunks + 6` steps, counted by `Work` with
  what is left to read (`Unread`). `SlotsInTurn`: a waiting request waits for a holder, is
  overtaken by nobody, and has fewer requests ahead of it after each slot given back, the
  slot that a cancelled waiter hands on included.
* **`GatewayWsProofs`**: `ClosedOnce` (from `CloseInv`: the number of closes
  is the shared flag until the handler returns) and `RelaysInOrder` (from `OrderInv`:
  what a task took is what it delivered plus the frame in its hands), for any
  number of frames.
  `RelayNeverStuck` (from `EndInv`: a task that has ended has cancelled the scope) excludes
  two tasks waiting for each other after a peer has left; `RelayIsBounded` counts the
  steps of the handler, at most four per frame and twelve more.
* **`OidcBffProofs`**: `StoreInvariant` and from it `ValuesUsedOnce` (`UsedOnce`),
  `AdmittedFresh`, `RejectedForCause`; with a second invariant on sessions,
  `LoggedInStays`. `StoreInv` is the inductive one: no time read by a handler is in the
  future (`ClockInv`), pages and callbacks carry values that were really issued
  (`LinkInv`), an entry is present exactly from its save until it is consumed or out of
  date (`PkceInv`, `ExchangeInv`), and an answered request's entry is gone (`AnsweredInv`).
  The difficult case is a purge made with an *older* clock value than the entry's,
  or with a newer one than the caller's own entry. `TokenStoreImplemented`
  (`ImplementsTokenStore`) is the refinement, for both dictionaries: an entry counts as given
  once a callback or a post got its value and as lapsed when it is gone otherwise, and
  `StoreInv` is what makes every pop a `Give` or a justified `Refuse`, and every entry
  that a call purges besides one that may lapse (`PkceOthers`, `ExchangeOthers`).
* **`ProcessControlProofs`**: `ExitZeroMeansStopped` (`SuccessMeansStopped`), from
  `ShutdownInv`: what a file or a command names has written its pid and never does so
  again, and a command about to unlink has seen its target's end. `ServingIsRecorded`
  (`RecordedUnlessRaced`), from `RecordInv`: without overlaps there is one server at a time,
  no command is at work while it writes, and one that is at work while it serves has
  read its pid or is about to.
  `ShutdownIsBounded`: a command has at most nine steps, and its exit code is final.
* **`UrlSessionProofs`**: `StoreIsBounded` (`CapHolds`), `SeededBeforeLinked`
  (`LinkedMeansSeeded`), and the action properties `HydrationIsFresh` and
  `HydrationIsLatest`, for any number of tabs, ids and entries. `IInv` adds what the threads
  inside a call know (`InCall`: the entry a `get` holds lies between the session's
  last write at the beginning of the call and now) and that an entry in the dict is the
  last write of its key (`EntriesLatest`). Without `EntriesLatest` a lookup could return an
  older write, and without `InCall` it could be another session's.
* **`AppStartProofs`**: `ChildAddress` (`ChildReachesGateway`), for every command line,
  project file, code and environment: the loopback host chosen for the sidecar is one the
  gateway's address accepts (`LoopbackAccepted`), the port is the one listened on unless it
  is 0, and the two functions that resolve the bind in different orders agree where no
  environment variable is overruled and no port 0 is in the file (`OrdersAgree`).
  `DoctorIsHonest` is the settings' half of `PreflightHolds`: a `doctor --strict` without a
  FAIL implies `Clean`, each conjunct of which one of its rows establishes; `Clean` implies
  that the validators accept and that `config` has no error; and turning on the strict
  settings keeps it (`HardenClean`).
  `PreflightIsHonest` (`PreflightHolds`), `StrictPagesRun` (`StrictPageRuns`), `NavInOrder`
  (`NavOrder`) and `DeepLinksOpen` (`DeepLinkOpensPage`) hold for any number of pages and
  any declarations of children. Their invariant is `PageInv`: the slugs in the registry
  are apart and stay so through both sorts (`Registry`); during a command every
  registered page has passed its checks (`Checked`); how far the import has come, so that
  a command that reaches its body has seen every page it must (`Progress`); what a
  passed `pages validate --strict` says about the pages that are due, with discovery
  excepted when the application goes on after a failure (`Vetted`); and that a page is
  shown with the registry and settings it was opened with (`Shown`).
  Two facts about data carry `NavOrder`. `Enumerated`: for a strict order the ranks are
  0, 1, ... without gap, so that a stable sort is a permutation. `EmittedOrdered`,
  `RestFollows`, `ChildrenOrder`: each round of the loop emits a page whose parents are
  out; when no page is ready, every page left has a parent that is left, which is what
  a cycle means. The induction over ranks and rounds is by a least counterexample
  (`LeastNumber`), which needs sets of numbers only.

Each proof has the shape Init implies the invariant, every action preserves it, the
invariant implies the property, combined in a last temporal step.

## 7. Only model-checked

* Liveness, since the prover has neither fairness nor `ENABLED`: `ExitStopsGateway`,
  `StopCompletes`, `StartupAnswered`, `ShutdownStops`, `RequestEnds`, `LeavingEndsRelay`,
  `CommandEnds`.

What these seven rest on besides the scheduling is proved as far as it is safety. A
measure that every step shrinks excludes endless activity (`StopIsBounded`,
`LifespanIsBounded`, `RequestsRunDown`, `RelayIsBounded`, `ShutdownIsBounded`); a state in which
some step is possible, or which waits for somebody who can step, excludes deadlock
(`SupervisorNeverStuck`, `LifespanNeverStuck`, `RelayNeverStuck`, `SlotsInTurn`). The
guards in the latter (`MainCanStep`, `MonitorCanStep`, `ReloadCanStep`, `CanStep`) are written
out, because `ENABLED` is not available in a proof; on the instances of the runs they
agree with TLC's `ENABLED` (that of the monitor but for its timeout, which the theorem
does not rely on). What TLC alone shows is the last step: weak fairness of the
threads, tasks and commands turns "can go on, and not for ever" into "ends". For
`ExitStopsGateway` the monitor's own steps are not counted: it may go round as often as
sidecars are replaced.

Every other property of a passing run, invariants, action properties and refinements
alike, is also a theorem, for all values of the bounds.

## 8. Not modelled

* *Windows:* `taskkill`, `OpenProcess` and the process-group flags. The model is POSIX.
* *Contents of tokens and of provider answers:* validation is by libraries; it
  succeeds or fails.
* *JWT, forward-auth, API client:* functions of one request, no state.
* *Gateway paths and headers:* pure functions on the strings and header lists of one
  request, whose detail is their text; which header names may be forwarded is in `Settings`.
* *Observability:* the two metrics are part of `GatewayHttp`; registration of collectors
  and the debug ring buffer are left out.
* *Printed output:* the redacted printout of `config`, the verbose printout of `doctor`, the
  templates of `new` and `build`, logging, tracing, security headers.
* *Page helpers:* typed access to query parameters and `session_state`, page metadata,
  URL formatting. Of dependency injection, the values and the per-run cache are left out.
* *Multi-worker start:* argument passing; its guard is a start-up fault of
  `LifespanBridge`. *Testing helpers:* used by tests of applications only.
* *Real time:* timeouts may expire at any moment; no property speaks of durations
  except the lifetimes of `OidcBff` and `UrlSession`.

## 9. Plan

Done: the supervisor and the ASGI application with the abstract lease both implement,
the gateways, the OIDC routes, the PID file, the URL session, configuration, command
line, pages and their arguments, with the proofs of section 6. Left, in this order:

1. `GatewayPaths`: mount prefixes, stripping and `Location` rewriting over short
   sequences of segments, checked against a reference definition.
2. The per-run cache of page dependencies with its tear-down order.
