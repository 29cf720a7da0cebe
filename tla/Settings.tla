------------------------------ MODULE Settings ------------------------------
(***************************************************************************)
(* fluxlit.config, the diagnostics of fluxlit.cli that read it, and the    *)
(* addresses that fluxlit.runtime derives from it, as operators on a world *)
(* w: the environment, the project file, the keyword arguments of          *)
(* FluxlitSettings and the machine, as far as this code looks at them.     *)
(*   on         boolean settings that are true and variables that are set  *)
(*   facts      what is the case on this machine                           *)
(*   allow, body, api, root, spp, fwd     the settings forwarded_allow_ips,*)
(*              gateway_max_proxy_request_body_bytes, api_mount_path,      *)
(*              root_path, streamlit_public_path and                       *)
(*              gateway_forward_client_headers_to_streamlit as given       *)
(*   codeBase, nsBase, legacyBase, internal   URLs: public_base_url given  *)
(*              in code, FLUXLIT_PUBLIC_BASE_URL, PUBLIC_BASE_URL,         *)
(*              FLUXLIT_INTERNAL_API_BASE                                  *)
(*   envHost, envPort, codeHost, codePort   gateway bind by environment    *)
(*              and by code                                                *)
(*   file, fileHost, filePort, fileTarget, fileMount   the project file    *)
(***************************************************************************)
EXTENDS PathText, Integers, FiniteSets

CONSTANT MaxForwardNames  \* 32 in the code

ASSUME SettingsAssumption == MaxForwardNames \in Nat

NoHost == "unset"
NoPort == 0 - 1
NoName == "unset"
NoUrl  == [abs |-> FALSE, host |-> NoHost, port |-> NoPort, path |-> Empty]

Api == 1                  \* the name "api"

-----------------------------------------------------------------------------
(* FluxlitSettings.                                                        *)

NormalizeApiMountPath(raw) ==
  LET p == Strip(IF raw = Empty THEN Rooted(Api) ELSE raw)
  IN  Rooted(p.name)

PublicMountPath(w) ==
  IF Strip(w.root) # Empty THEN Strip(w.root) ELSE Strip(w.spp)

(* pydantic-settings: arguments given in code win over the environment.    *)
(* PUBLIC_BASE_URL is the fallback of both.                                *)
PublicBaseUrl(w) ==
  LET field == IF w.codeBase # NoUrl THEN w.codeBase ELSE w.nsBase
  IN  IF w.nsBase = NoUrl /\ field = NoUrl THEN w.legacyBase ELSE field

GatewayHost(w) ==
  CASE w.codeHost # NoHost -> w.codeHost
    [] w.codeHost = NoHost /\ w.envHost # NoHost -> w.envHost
    [] OTHER -> "127.0.0.1"

GatewayPort(w) ==
  CASE w.codePort # NoPort -> w.codePort
    [] w.codePort = NoPort /\ w.envPort # NoPort -> w.envPort
    [] OTHER -> 8000

Blocklist  == {"authorization", "cookie"}  \* stands for the 17 names
BadNames   == {"not a name"}               \* what _HEADER_NAME_RE refuses

ForwardAllowlist(w) == w.fwd \ (Blocklist \cup BadNames)
RejectedForwardNames(w) == w.fwd \cap Blocklist

TrustProxy(w) == "trust_proxy" \in w.on
Broad(w) == w.allow \in {"", "*"}

(* The path of public_base_url is not the public mount.                    *)
PathMismatch(w) ==
  LET root == RStrip(PublicMountPath(w))
      path == RStrip(PublicBaseUrl(w).path)
  IN  root # Empty /\ path # Empty /\ path # root

StrictStartupValidate(w) ==
  \/ "strict_startup" \notin w.on
  \/ /\ TrustProxy(w) => ~Broad(w) /\ w.body # 0
     /\ PublicMountPath(w) # Empty => PublicBaseUrl(w) # NoUrl /\ TrustProxy(w)
     /\ RejectedForwardNames(w) = {}
     /\ ~PathMismatch(w)

(* FluxlitSettings() returns instead of raising a ValidationError.         *)
Constructs(w) ==
  /\ Cardinality(ForwardAllowlist(w)) <= MaxForwardNames
  /\ StrictStartupValidate(w)

-----------------------------------------------------------------------------
(* Project file, target and bind.                                          *)

(* load_project_config: None without a file, or with one that has no table *)
(* for fluxlit or does not parse.                                          *)
LoadProjectConfig(w) == w.file = "table"

FileHost(w) == IF LoadProjectConfig(w) THEN w.fileHost ELSE NoHost
FilePort(w) == IF LoadProjectConfig(w) THEN w.filePort ELSE NoPort

ResolveTarget(given, w) ==
  CASE given # NoName -> given
    [] given = NoName /\ LoadProjectConfig(w) /\ w.fileTarget # NoName -> w.fileTarget
    [] OTHER -> "app"

(* CLI, then project file, then settings; an empty host and port 0 count   *)
(* as not given.                                                           *)
ResolveBinding(cliHost, cliPort, w) ==
  LET host == IF cliHost = NoHost THEN FileHost(w) ELSE cliHost
      port == IF cliPort = NoPort THEN FilePort(w) ELSE cliPort
  IN  [host |-> IF host \in {NoHost, ""} THEN GatewayHost(w) ELSE host,
       port |-> IF port \in {NoPort, 0} THEN GatewayPort(w) ELSE port]

(* Mutation: the project file is not looked at.                            *)
GatewayBindFromSettings(w) == [host |-> GatewayHost(w), port |-> GatewayPort(w)]

(* The bind that the sidecar of "uvicorn app:app" is told: environment,    *)
(* then project file, then settings.                                       *)
GatewayBindForStreamlitChild(w) ==
  LET fileHost == IF FileHost(w) \in {NoHost, ""} THEN GatewayHost(w) ELSE FileHost(w)
      filePort == IF FilePort(w) = NoPort THEN GatewayPort(w) ELSE FilePort(w)
  IN  [host |-> IF w.envHost \in {NoHost, ""} THEN fileHost ELSE w.envHost,
       port |-> IF w.envPort = NoPort THEN filePort ELSE w.envPort]

LoopbackHost(h) == IF h \in {"", "0.0.0.0", "::"} THEN "127.0.0.1" ELSE h

InternalApiBaseUrl(bind, w) ==
  [abs |-> TRUE, host |-> LoopbackHost(bind.host), port |-> bind.port,
   path |-> NormalizeApiMountPath(w.api)]

(* external: which connections a socket bound by asyncio accepts; it       *)
(* restricts an IPv6 socket to IPv6.                                       *)
Accepts(bound, target) ==
  CASE target = "127.0.0.1" -> bound \in {"", "0.0.0.0", "127.0.0.1"}
    [] target = "::1"       -> bound \in {"", "::", "::1"}
    [] target \in {"", "0.0.0.0", "::"} -> FALSE
    [] OTHER -> bound = target

(* external: a socket bound to port 0 listens on one the system chooses.   *)
Ephemeral == 49152

ListensOn(port) == IF port = 0 THEN Ephemeral ELSE port

-----------------------------------------------------------------------------
(* fluxlit doctor: the rows of _doctor_collect that are not PASS, in the   *)
(* order of the code.  Without a loaded app most of them are not made.     *)

Row(name, status, found) == IF found THEN {<<name, status>>} ELSE {}
Grade(strict) == IF strict THEN "FAIL" ELSE "WARN"

DoctorImports(w, loaded) ==
  Row("import_shadowing", "WARN", "two_candidates" \in w.facts)
    \cup Row("import_target", "FAIL", ~loaded)
    \cup Row("dependencies", "FAIL", "no_deps" \in w.facts)
    \cup Row("streamlit_version", "WARN", "old_streamlit" \in w.facts)

DoctorBind(w) == Row("gateway_bind", "FAIL", "port_taken" \in w.facts)

InternalPathDiffers(w) ==
  RStrip(w.internal.path) # RStrip(NormalizeApiMountPath(w.api))

DoctorInternalBase(w, loaded) ==
  LET row == "FLUXLIT_INTERNAL_API_BASE"
  IN  IF w.internal = NoUrl THEN {}
      ELSE IF ~w.internal.abs THEN {<<row, "FAIL">>}
      ELSE Row(row, "WARN", loaded /\ InternalPathDiffers(w))

DoctorExtras(w, loaded) ==
  LET auth == "auth_env" \in w.on
      metrics == loaded /\ "prometheus_metrics" \in w.on
  IN  Row("jwt_clock_skew", "WARN", auth)
        \cup Row("fluxlit_auth_extra", "FAIL", auth /\ "no_pyjwt" \in w.facts)
        \cup Row("fluxlit_metrics_extra", "FAIL", metrics /\ "no_prometheus" \in w.facts)

DoctorPublicBase(w, strict) ==
  Row("public_base_url_precedence", Grade(strict \/ "strict_public_base_url" \in w.on),
      /\ w.legacyBase # NoUrl /\ w.nsBase # NoUrl /\ w.legacyBase # w.nsBase)
    \cup Row("oauth_public_base_url", Grade(strict),
             PublicMountPath(w) # Empty /\ PublicBaseUrl(w) = NoUrl)

(* Mutation: the body limit is not looked at.                              *)
DoctorProxyNoBody(w, strict) ==
  Row("proxy_headers", Grade(strict), PublicMountPath(w) # Empty /\ ~TrustProxy(w))
    \cup Row("forwarded_allow_ips", Grade(strict), TrustProxy(w) /\ Broad(w))

DoctorProxy(w, strict) ==
  Row("proxy_headers", Grade(strict), PublicMountPath(w) # Empty /\ ~TrustProxy(w))
    \cup Row("forwarded_allow_ips", Grade(strict), TrustProxy(w) /\ Broad(w))
    \cup Row("gateway_max_proxy_body", Grade(strict), TrustProxy(w) /\ w.body = 0)

(* A path that does not match hides that the URL is not absolute.          *)
DoctorPublicUrl(w, strict) ==
  IF PublicBaseUrl(w) = NoUrl THEN {}
  ELSE IF PathMismatch(w) THEN {<<"public_base_url", Grade(strict)>>}
  ELSE Row("public_base_url", "FAIL", ~PublicBaseUrl(w).abs)

DoctorGateway(w, strict) ==
  Row("gateway_upstream_timeouts", Grade(strict), "low_read_timeout" \in w.on)
    \cup Row("async_depends_streamlit", "WARN", "async_page_depends" \in w.on)
    \cup Row("gateway_forward_client_headers", "WARN", ForwardAllowlist(w) # {})
    \cup Row("gateway_forward_rejected_names", Grade(strict), RejectedForwardNames(w) # {})

(* The state file of the running sidecar, or the variable that names it.   *)
DoctorUpstream(w) ==
  IF "upstream_file" \in w.on
    THEN Row("streamlit_upstream_state", "FAIL", "no_state_file" \in w.facts)
           \cup Row("streamlit_upstream_state", "WARN",
                    "no_state_file" \notin w.facts /\ "sidecar_down" \in w.facts)
    ELSE Row("streamlit_upstream", "WARN",
             "upstream_env" \in w.on /\ "sidecar_down" \in w.facts)

DoctorSecurity(w, strict) ==
  Row("security_headers", Grade(strict), {"cors", "security_headers"} \cap w.on = {"cors"})

DoctorRows(w, loaded, strict) ==
  DoctorImports(w, loaded) \cup DoctorInternalBase(w, loaded)
    \cup DoctorExtras(w, loaded) \cup DoctorUpstream(w)
    \cup IF ~loaded THEN {}
         ELSE DoctorBind(w) \cup DoctorPublicBase(w, strict) \cup DoctorProxy(w, strict)
                \cup DoctorPublicUrl(w, strict) \cup DoctorGateway(w, strict)
                \cup DoctorSecurity(w, strict)

-----------------------------------------------------------------------------
(* fluxlit config: collect_configuration_warnings.                         *)

InternalWarnings(w) ==
  LET derived == InternalApiBaseUrl(ResolveBinding(NoHost, NoPort, w), w)
      differs == w.internal # NoUrl
                   /\ [w.internal EXCEPT !.path = RStrip(@)]
                        # [derived EXCEPT !.path = RStrip(@)]
  IN  Row("internal_api_base_invalid", "error", w.internal # NoUrl /\ ~w.internal.abs)
        \cup Row("internal_api_base_path", "warn", w.internal.abs /\ InternalPathDiffers(w))
        \cup Row("internal_api_base_mismatch", "warn", differs)

PublicUrlWarnings(w) ==
  LET base == PublicBaseUrl(w)
      path == RStrip(base.path)
      ap   == NormalizeApiMountPath(w.api)
      bare == path # Empty /\ ap # Slash /\ path.name # ap.name
  IN  IF base = NoUrl THEN {}
      ELSE IF ~base.abs THEN {<<"public_base_url_invalid", "error">>}
      ELSE Row("public_base_url_path_mismatch", "warn", PathMismatch(w))
             \cup Row("public_base_url_missing_api_prefix", "warn", bare)

ProxyWarnings(w) ==
  LET mounted == PublicMountPath(w) # Empty
  IN  Row("forwarded_allow_ips_broad", "warn", TrustProxy(w) /\ Broad(w))
        \cup Row("oauth_public_base_url", "warn", mounted /\ PublicBaseUrl(w) = NoUrl)
        \cup Row("subpath_without_trust_proxy", "warn", mounted /\ ~TrustProxy(w))
        \cup Row("gateway_max_body_unlimited_trust_proxy", "warn",
                 TrustProxy(w) /\ w.body = 0)

HeaderWarnings(w) ==
  LET sec == "security_headers" \in w.on
  IN  Row("cors_without_security_headers", "warn", "cors" \in w.on /\ ~sec)
        \cup Row("csp_with_security_headers", "warn", sec /\ "csp" \in w.on)
        \cup Row("gateway_forward_blocked_names", "warn", RejectedForwardNames(w) # {})

(* project_file_mount_warnings: mount keys of the project file have no     *)
(* effect on the settings.                                                 *)
ProjectFileMountWarnings(w) ==
  Row("project_file_mount_not_merged", "warn", LoadProjectConfig(w) /\ w.fileMount)

ConfigWarnings(w) ==
  ProjectFileMountWarnings(w) \cup InternalWarnings(w) \cup PublicUrlWarnings(w)
    \cup ProxyWarnings(w) \cup HeaderWarnings(w)
=============================================================================
