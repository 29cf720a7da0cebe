------------------------------ MODULE AppStart ------------------------------
(***************************************************************************)
(* From a shell to a page: the commands of fluxlit.cli in a project, the   *)
(* import of the application they all do (settings are validated, pages    *)
(* are registered and discovered), the addresses gateway and sidecar are   *)
(* started with, and the run of one page in the sidecar.                   *)
(***************************************************************************)
EXTENDS Settings, Pages

CONSTANT Scenarios  \* a world and the command lines tried in it

(* The parts of a world that the settings and their checks look at.        *)
SettingFields ==
  {"on", "allow", "body", "root", "spp", "fwd", "codeBase", "nsBase", "legacyBase",
   "internal"}

(* The pages at module level, those of the discovered modules, and the     *)
(* order the NavigationModel asks for.                                     *)
PageFields == {"script", "found", "order"}

ASSUME ScenarioAssumption ==
  \A s \in Scenarios :
    /\ SettingFields \cup PageFields \subseteq DOMAIN s.world
    /\ s.world.script \in Seq(PageRecords) /\ s.world.found \in Seq(PageRecords)
    /\ s.world.order \in Seq(Texts)

VARIABLES
  world,    \* environment, project and machine: see Settings and Pages
  menu,     \* the command lines of this scenario
  pc,       \* "shell" between commands, else where the command is
  cmd,      \* the command line
  left,     \* pages the application has still to register
  pages,    \* app._pages
  fault,    \* why the import raised, or "none"
  exit,     \* exit code of the last command
  gateway,  \* who started it, where it listens, where its API is
  child,    \* FLUXLIT_INTERNAL_API_BASE of the sidecar
  passed,   \* strict preflight commands that have exited with 0
  disk,     \* what build and new have written
  nav,      \* records the entrypoint makes pages of
  opened,   \* the one that runs, by index
  outcome   \* how its run ends

appVars  == <<left, pages, fault>>
serving  == <<gateway, child>>
pageVars == <<nav, opened, outcome>>
vars == <<world, menu, pc, cmd, appVars, exit, serving, passed, disk, pageVars>>

NoGateway == [by |-> NoName, host |-> NoHost, port |-> NoPort, prefix |-> Empty]
NoPage    == 0

(* A command line: every option is in the record, the ones not given are   *)
(* NoHost, NoPort, NoName, Empty or FALSE; scope is that of a reload.      *)
Line(name) ==
  [name |-> name, target |-> NoName, host |-> NoHost, port |-> NoPort,
   scope |-> "gateway", strict |-> FALSE, pages |-> FALSE, force |-> FALSE,
   warningsOnly |-> FALSE, wanted |-> Empty]

Init ==
  /\ \E s \in Scenarios : world = s.world /\ menu = s.menu
  /\ pc = "shell" /\ cmd = Line("none")
  /\ left = <<>> /\ pages = <<>> /\ fault = "none" /\ exit = 0
  /\ gateway = NoGateway /\ child = NoUrl
  /\ passed = {} /\ disk = {}
  /\ nav = <<>> /\ opened = NoPage /\ outcome = "none"

-----------------------------------------------------------------------------
(* A command begins.  While a gateway runs, all that happens is that       *)
(* browsers open pages.                                                    *)
Invoke(c) ==
  /\ pc = "shell" /\ c \in menu
  /\ (c.name = "open") = (gateway # NoGateway)
  /\ cmd' = c
  /\ pc' = IF c.name \in {"build", "new"} THEN "body" ELSE "import"
  /\ pages' = <<>> /\ left' = <<>> /\ fault' = "none"
  /\ nav' = <<>> /\ opened' = NoPage /\ outcome' = "none"
  /\ UNCHANGED <<world, menu, exit, serving, passed, disk>>

Exits(code) == pc' = "shell" /\ exit' = code

(* _execute_unified_cli looks at --reload-scope before anything else.      *)
BadScope == cmd.name = "serve" /\ cmd.scope \notin {"gateway", "full"}

RefuseScope ==
  /\ pc = "import" /\ BadScope
  /\ Exits(2)
  /\ UNCHANGED <<world, menu, cmd, appVars, serving, passed, disk, pageVars>>

-----------------------------------------------------------------------------
(* The import: load_fluxlit, and what the application's module does.       *)

(* doctor turns an exception of the import into a row, every other command *)
(* ends with it.                                                           *)
Raises(f) ==
  /\ fault' = f
  /\ IF cmd.name = "doctor" THEN pc' = "body" /\ UNCHANGED exit ELSE Exits(1)

(* module:attr names a FluxLit of a module that can be found.              *)
TargetLoads ==
  /\ ResolveTarget(cmd.target, world) # "malformed"
  /\ {"no_module", "no_attribute", "not_fluxlit"} \cap world.facts = {}

(* FluxLit(...): settings first.                                           *)
Import ==
  /\ pc = "import" /\ ~BadScope
  /\ IF ~TargetLoads THEN Raises("target") /\ UNCHANGED left
     ELSE IF ~Constructs(world) THEN Raises("settings") /\ UNCHANGED left
     ELSE pc' = "register" /\ left' = world.script /\ UNCHANGED <<fault, exit>>
  /\ UNCHANGED <<world, menu, cmd, pages, serving, passed, disk, pageVars>>

Registers(r) ==
  /\ pages' = Append(pages, r) /\ left' = Tail(left)
  /\ UNCHANGED <<pc, fault, exit>>

(* @app.page(...) at module level.                                         *)
RegisterPage ==
  /\ pc = "register" /\ left # <<>>
  /\ LET f == RegisterFault(Head(left), pages, world)
     IN  IF f = "none" THEN Registers(Head(left))
         ELSE Raises(f) /\ UNCHANGED <<pages, left>>
  /\ UNCHANGED <<world, menu, cmd, serving, passed, disk, pageVars>>

(* app.discover_pages(...) follows where the application calls it.         *)
DiscoverBegins ==
  /\ pc = "register" /\ left = <<>>
  /\ IF "discover_pages" \notin world.on
       THEN pc' = "body" /\ UNCHANGED <<left, fault, exit>>
       ELSE IF "no_page_package" \in world.facts
              THEN Raises("discover") /\ UNCHANGED left
              ELSE pc' = "discover" /\ left' = world.found /\ UNCHANGED <<fault, exit>>
  /\ UNCHANGED <<world, menu, cmd, pages, serving, passed, disk, pageVars>>

(* register(app) of the next module by name.  When it raises, the pages    *)
(* so far stay and are not sorted; the application may go on.              *)
DiscoverModule ==
  /\ pc = "discover" /\ left # <<>>
  /\ LET f == RegisterFault(Head(left), pages, world)
     IN  IF f = "none" THEN Registers(Head(left))
         ELSE IF "discovery_guarded" \in world.on
                THEN pc' = "body" /\ UNCHANGED <<pages, left, fault, exit>>
                ELSE Raises(f) /\ UNCHANGED <<pages, left>>
  /\ UNCHANGED <<world, menu, cmd, serving, passed, disk, pageVars>>

DiscoverEnds ==
  /\ pc = "discover" /\ left = <<>>
  /\ pages' = SortedBy(pages, PathTitleLess)
  /\ pc' = "body"
  /\ UNCHANGED <<world, menu, cmd, left, fault, exit, serving, passed, disk, pageVars>>

-----------------------------------------------------------------------------
(* What the commands do with the application.                              *)

Body(name) == pc = "body" /\ cmd.name = name

(* dev, run and workbench: the bind is resolved and run_unified starts     *)
(* gateway and sidecar with it.                                            *)
Serve ==
  /\ Body("serve")
  /\ LET bind == ResolveBinding(cmd.host, cmd.port, world)
     IN  IF "port_taken" \in world.facts
           THEN Exits(1) /\ UNCHANGED serving
           ELSE /\ gateway' = [by |-> "serve", host |-> bind.host,
                               port |-> ListensOn(bind.port),
                               prefix |-> NormalizeApiMountPath(world.api)]
                /\ child' = InternalApiBaseUrl(bind, world)
                /\ Exits(0)
  /\ UNCHANGED <<world, menu, cmd, appVars, passed, disk, pageVars>>

(* uvicorn app:app --host --port: asgi_from_fluxlit does not see the bind. *)
ServeAsgi ==
  /\ Body("uvicorn")
  /\ gateway' = [by |-> "uvicorn", host |-> cmd.host, port |-> ListensOn(cmd.port),
                 prefix |-> NormalizeApiMountPath(world.api)]
  /\ child' = IF world.internal # NoUrl THEN world.internal
              ELSE InternalApiBaseUrl(GatewayBindForStreamlitChild(world), world)
  /\ Exits(0)
  /\ UNCHANGED <<world, menu, cmd, appVars, passed, disk, pageVars>>

Stop ==
  /\ pc = "shell" /\ gateway # NoGateway
  /\ gateway' = NoGateway /\ child' = NoUrl
  /\ nav' = <<>> /\ opened' = NoPage /\ outcome' = "none"
  /\ UNCHANGED <<world, menu, pc, cmd, appVars, exit, passed, disk>>

(* doctor with --check-pages or --verbose validates the pages too.         *)
DoctorPages ==
  IF fault # "none" \/ ~cmd.pages THEN {}
  ELSE Row("pages_validate", "FAIL",
           PageErrors(pages, "strict_page_signatures" \in world.on))
         \cup Row("experimental_yield_pages", "WARN",
                  "experimental_yield_pages" \in world.on)

Preflight(ok) ==
  passed' = IF cmd.strict /\ ok THEN passed \cup {cmd.name} ELSE passed

Doctor ==
  /\ Body("doctor")
  /\ LET rows == DoctorRows(world, fault = "none", cmd.strict) \cup DoctorPages
         crash == fault = "none" /\ cmd.pages /\ ManifestRaises(pages)
         fails == crash \/ \E r \in rows : r[2] = "FAIL"
     IN  /\ Exits(IF crash \/ (fails /\ ~cmd.warningsOnly) THEN 1 ELSE 0)
         /\ Preflight(~fails)
  /\ UNCHANGED <<world, menu, cmd, appVars, serving, disk, pageVars>>

Config ==
  /\ Body("config")
  /\ LET levels == {r[2] : r \in ConfigWarnings(world)}
     IN  Exits(IF "error" \in levels \/ (cmd.strict /\ "warn" \in levels) THEN 1 ELSE 0)
  /\ UNCHANGED <<world, menu, cmd, appVars, serving, passed, disk, pageVars>>

PagesValidate ==
  /\ Body("validate")
  /\ LET strict == cmd.strict \/ "strict_page_signatures" \in world.on
         ok == ~ManifestRaises(pages) /\ ~PageErrors(pages, strict)
     IN  Exits(IF ok THEN 0 ELSE 1) /\ Preflight(ok)
  /\ UNCHANGED <<world, menu, cmd, appVars, serving, disk, pageVars>>

PagesManifest ==
  /\ Body("manifest")
  /\ Exits(IF ManifestRaises(pages) THEN 1 ELSE 0)
  /\ UNCHANGED <<world, menu, cmd, appVars, serving, passed, disk, pageVars>>

(* build does not import the application.                                  *)
Build ==
  /\ Body("build")
  /\ IF ~cmd.force /\ {"Dockerfile", ".dockerignore"} \cap disk # {}
       THEN Exits(1) /\ UNCHANGED disk
       ELSE Exits(0) /\ disk' = disk \cup {"Dockerfile", ".dockerignore"}
  /\ UNCHANGED <<world, menu, cmd, appVars, serving, passed, pageVars>>

New ==
  /\ Body("new")
  /\ IF "project" \in disk THEN Exits(1) /\ UNCHANGED disk
     ELSE Exits(0) /\ disk' = disk \cup {"project"}
  /\ UNCHANGED <<world, menu, cmd, appVars, serving, passed, pageVars>>

(* run_streamlit_entrypoint: a match of ?page= is switched to by its slug, *)
(* otherwise the first page runs; without pages there is a notice.         *)
Open ==
  /\ Body("open")
  /\ nav' = NavRecords(world, pages)
  /\ LET m == MatchNavPage(cmd.wanted, nav')
     IN  opened' = IF nav' = <<>> THEN NoPage
                   ELSE IF m = 0 THEN 1
                   ELSE Min({i \in 1..Len(nav') : Slug(nav'[i].path) = Slug(nav'[m].path)})
  /\ outcome' \in IF opened' = NoPage THEN {"notice"}
                  ELSE PageOutcomes(nav'[opened'], world)
  /\ Exits(0)
  /\ UNCHANGED <<world, menu, cmd, appVars, serving, passed, disk>>

(* The operator turns the strict settings on for the next start.           *)
Harden ==
  /\ pc = "shell" /\ gateway = NoGateway
  /\ world' = [world EXCEPT !.on = @ \cup {"strict_startup", "strict_page_signatures"}]
  /\ UNCHANGED <<menu, pc, cmd, appVars, exit, serving, passed, disk, pageVars>>

Next ==
  \/ \E c \in menu : Invoke(c)
  \/ RefuseScope \/ Import \/ RegisterPage
  \/ DiscoverBegins \/ DiscoverModule \/ DiscoverEnds
  \/ Serve \/ ServeAsgi \/ Stop \/ Doctor \/ Config
  \/ PagesValidate \/ PagesManifest \/ Build \/ New \/ Open \/ Harden

Spec == Init /\ [][Next]_vars

-----------------------------------------------------------------------------
(* The strict switches mean the same thing in the commands that check and  *)
(* at the start: once doctor --strict has found no FAIL, strict_startup    *)
(* does not refuse the settings and config reports no error; once pages    *)
(* validate --strict has passed, strict_page_signatures refuses no page    *)
(* (_strict_startup_validate, _doctor_collect,                             *)
(* collect_configuration_warnings, validate_fluxlit_pages).                *)
DoctorVouches ==
  "doctor" \in passed =>
    /\ fault # "settings"
    /\ pc = "shell" /\ cmd.name = "config" /\ ~cmd.strict /\ fault = "none" => exit = 0

PreflightHolds == DoctorVouches /\ ("validate" \in passed => fault # "signature")

(* A uvicorn on the address serve would choose in this project, where the  *)
(* sidecar's address is derived and no environment variable is overruled.  *)
SameSources ==
  LET run == ResolveBinding(NoHost, NoPort, world)
  IN  /\ gateway.host = run.host /\ gateway.port = run.port
      /\ world.internal = NoUrl /\ FilePort(world) # 0
      /\ world.envHost \in {NoHost, "", run.host} /\ world.envPort \in {NoPort, run.port}

(* The address the sidecar is given for its API client is one the gateway  *)
(* answers on with the API mounted there, whatever the command line, the   *)
(* project file, the code and the environment say.  Under serve the bind   *)
(* comes from resolve_binding; under uvicorn the operator gives it, here   *)
(* the one that serve would choose in this project, and the sidecar is     *)
(* told what _gateway_bind_for_streamlit_child makes of the same sources   *)
(* in another order.  Left out are the cases in which the code does tell a *)
(* wrong address: a gateway on "::", where the sidecar is told 127.0.0.1   *)
(* and asyncio accepts IPv6 only; a gateway on a port the system chose,    *)
(* where it is told port 0; and under uvicorn an address that is not       *)
(* serve's, FLUXLIT_INTERNAL_API_BASE, a port 0 in the project file, and   *)
(* environment variables that file or code overrule (internal_api_base_url,*)
(* resolve_binding, _gateway_bind_for_streamlit_child).                    *)
ChildReachesGateway ==
  gateway # NoGateway /\ gateway.host # "::" /\ gateway.port # Ephemeral
    /\ (gateway.by = "uvicorn" => SameSources)
    => /\ Accepts(gateway.host, child.host)
       /\ child.port = gateway.port /\ child.path = gateway.prefix

(* "CLI flags beat environment variables; env beats the project file."     *)
(* (docs/configuration.md:3): the gateway listens on FLUXLIT_GATEWAY_PORT  *)
(* where it is set and neither --port nor the code gives another.          *)
EnvBeatsProjectFile ==
  gateway # NoGateway /\ pc = "shell" /\ cmd.name = "serve" /\ cmd.port = NoPort
    /\ world.codePort = NoPort /\ world.envPort \notin {NoPort, 0}
      => gateway.port = world.envPort

(* In the sidebar every registered page appears once, and a child page     *)
(* after the pages that declare it, unless a cycle of declarations leads   *)
(* to its parent (order_records_with_children, navigation_sort_key).       *)
NavOrder ==
  LET parents == Edges(nav)
      onCycles == {i \in 1..Len(nav) :
                     \E S \in SUBSET (1..Len(nav)) :
                       i \in S /\ \A m \in S : \E p \in S : <<p, m>> \in parents}
  IN  opened # NoPage =>
        /\ Len(nav) = Len(pages)
        /\ {nav[i].path : i \in 1..Len(nav)} = {pages[i].path : i \in 1..Len(pages)}
        /\ \A e \in parents : e[1] \notin onCycles => e[1] < e[2]

(* ?page= with a page's path or slug opens that page, unless the word is   *)
(* blank or the title of some page: the slugs that registration keeps      *)
(* apart are the ones match_nav_page and switch_page go by                 *)
(* (register_streamlit_page, match_nav_page, run_streamlit_entrypoint).    *)
DeepLinkOpensPage ==
  opened # NoPage /\ Strip(cmd.wanted) # Empty
    /\ (\A j \in 1..Len(nav) : nav[j].title # cmd.wanted)
    => \A i \in 1..Len(nav) :
         cmd.wanted \in {nav[i].path, Word(Slug(nav[i].path))} => opened = i

(* A page registered under strict_page_signatures gets a value for each of *)
(* its parameters when it runs.  Positional-only parameters are left out:  *)
(* the check accepts them and the call by keyword fails                    *)
(* (validate_strict_page_signature, resolve_page_kwargs).                  *)
StrictPageRuns ==
  "strict_page_signatures" \in world.on
    => outcome \notin {"missing_argument", "annotations"}
=============================================================================
