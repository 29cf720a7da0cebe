----------------------------- MODULE MC_AppStart -----------------------------
(***************************************************************************)
(* Model-checking root of AppStart: an ordinary project, and what varies   *)
(* around it: the reverse proxy settings, the sources of the bind, one     *)
(* fact or switch at a time, the navigation, the paths and the signatures. *)
(***************************************************************************)
EXTENDS AppStart

Url(path) == [abs |-> TRUE, host |-> "example.org", port |-> 443, path |-> path]
RelativeUrl(path) == [Url(path) EXCEPT !.abs = FALSE]

Ordinary ==
  [on |-> {}, facts |-> {}, allow |-> "10.0.0.0/8", body |-> 1,
   api |-> Rooted(Api), root |-> Empty, spp |-> Empty, fwd |-> {},
   codeBase |-> NoUrl, nsBase |-> NoUrl, legacyBase |-> NoUrl, internal |-> NoUrl,
   envHost |-> NoHost, envPort |-> NoPort, codeHost |-> NoHost, codePort |-> NoPort,
   file |-> "absent", fileHost |-> NoHost, filePort |-> NoPort, fileTarget |-> NoName,
   fileMount |-> FALSE, script |-> <<>>, found |-> <<>>, order |-> <<>>]

Scenario(w, m) == [world |-> w, menu |-> m]
Strict(name) == [Line(name) EXCEPT !.strict = TRUE]

-----------------------------------------------------------------------------
Checks == {Strict("doctor"), Line("doctor"), Line("config"), Strict("config")}

ProxyWorlds ==
  {[Ordinary EXCEPT !.on = on, !.allow = allow, !.body = body, !.root = root,
                    !.nsBase = base, !.legacyBase = legacy, !.fwd = fwd] :
     on \in {{}, {"trust_proxy"}}, allow \in {"", "*", "10.0.0.0/8"}, body \in {0, 1},
     root \in {Empty, Slash, Rooted(3), Word(3), Text(TRUE, 3, TRUE)},
     base \in {NoUrl, Url(Empty), Url(Rooted(3)), Url(Text(TRUE, 3, TRUE)),
               Url(Rooted(4)), RelativeUrl(Word(4))},
     legacy \in {NoUrl, Url(Rooted(3))}, fwd \in {{}, {"cookie", "x-tenant"}}}

BindWorlds ==
  {[Ordinary EXCEPT !.envHost = eh, !.envPort = ep, !.codeHost = ch, !.codePort = cp,
                    !.file = f, !.fileHost = fh, !.filePort = fp, !.api = api] :
     eh \in {NoHost, "0.0.0.0"}, ep \in {NoPort, 0, 8001},
     ch \in {NoHost, "::1", "::", "host.lan"}, cp \in {NoPort, 0, 8002},
     f \in {"broken", "table"}, fh \in {NoHost, "", "::1"},
     fp \in {NoPort, 0, 8002},
     api \in {Empty, Blank, Text(FALSE, 4, TRUE)}}

Serves ==
  {[Line("serve") EXCEPT !.host = h, !.port = p] :
     h \in {NoHost, "0.0.0.0", ""}, p \in {NoPort, 0, 8003}}
  \cup {[Line("uvicorn") EXCEPT !.host = h, !.port = p] :
          h \in {"127.0.0.1", "0.0.0.0", "::1"}, p \in {0, 8001, 8002}}
  \cup {Line("open")}

(* One switch, fact or value at a time, and every command.                 *)
Switches ==
  {"auth_env", "prometheus_metrics", "strict_public_base_url", "low_read_timeout",
   "async_page_depends", "upstream_file", "upstream_env", "cors", "security_headers",
   "csp", "strict_startup", "discover_pages", "experimental_yield_pages"}
Facts ==
  {"two_candidates", "no_deps", "old_streamlit", "port_taken", "no_pyjwt",
   "no_prometheus", "no_state_file", "sidecar_down", "no_module", "no_page_package"}

SwitchWorlds ==
  {[Ordinary EXCEPT !.on = on, !.facts = facts] :
     on \in {{a, b} : a, b \in Switches}, facts \in {{a} : a \in Facts} \cup {{}}}
  \cup {[Ordinary EXCEPT !.spp = Rooted(3), !.codeBase = Url(b), !.legacyBase = Url(Rooted(4)),
                         !.nsBase = Url(Rooted(3)), !.internal = i, !.fileTarget = t,
                         !.file = "table", !.fileMount = m, !.fwd = f] :
          b \in {Empty, Rooted(3)}, m \in BOOLEAN, t \in {NoName, "malformed"},
          i \in {NoUrl, Url(Rooted(Api)), Url(Rooted(4)), RelativeUrl(Word(Api))},
          f \in {{}, {"x-a", "x-b", "x-c"}}}

Commands ==
  Checks \cup {Line(n) : n \in {"serve", "open", "validate", "manifest", "build", "new"}}
    \cup {[Line("build") EXCEPT !.force = TRUE], [Line("serve") EXCEPT !.scope = "all"],
          [Strict("doctor") EXCEPT !.pages = TRUE],
          [Strict("doctor") EXCEPT !.warningsOnly = TRUE]}

-----------------------------------------------------------------------------
Page(path, title, kids) ==
  [path |-> path, title |-> title, params |-> {"st", "client"}, generator |-> FALSE,
   children |-> kids]
Kid(path, title) == [path |-> path, title |-> title]
Opens(texts) == {[Line("open") EXCEPT !.wanted = t] : t \in texts} \cup {Line("serve")}

(* Three pages and every way they can declare one another.                 *)
Declarations == {<<>>, <<Slash>>, <<Rooted(3)>>, <<Word(4)>>, <<Rooted(3), Rooted(4)>>,
                 <<Rooted(4), Slash>>, <<Rooted(9)>>}
Kids(d) == [k \in DOMAIN d |-> Kid(d[k], IF k = 2 THEN Word(7) ELSE Empty)]
NavWorlds ==
  {[Ordinary EXCEPT !.script = <<Page(Slash, Word(5), Kids(a))>>,
                    !.found = <<Page(Rooted(4), Word(6), Kids(b)), Page(Rooted(3), Word(8), Kids(c))>>,
                    !.on = {"discover_pages"}, !.order = order] :
     a, b, c \in Declarations, order \in {<<>>, <<Rooted(4), Word(9)>>}}

(* Paths that are alike, and titles that are paths.                        *)
Paths == {Slash, Rooted(Home), Rooted(3), Word(3), Text(TRUE, 3, TRUE)}
PathWorlds ==
  {[Ordinary EXCEPT !.script = <<Page(p, t, <<>>)>>,
                    !.found = <<Page(q, Word(6), <<>>), Page(r, Word(7), <<>>)>>,
                    !.on = {"discover_pages"} \cup g] :
     p, q, r \in Paths, t \in {Word(3), Word(5)}, g \in {{}, {"discovery_guarded"}}}

(* One page and its parameters.                                            *)
SignatureWorlds ==
  {[Ordinary EXCEPT !.script = <<[Page(Slash, Word(5), <<>>) EXCEPT !.params = {a, b},
                                                                    !.generator = g]>>,
                    !.on = on] :
     a, b \in Kinds, g \in BOOLEAN,
     on \in {{}, {"session_store", "experimental_yield_pages"},
             {"strict_page_signatures", "session_store"},
             {"async_page_depends"}, {"strict_page_signatures", "async_page_depends"}}}

(* The same for the second of two discovered pages.                        *)
DiscoveredWorlds ==
  {[Ordinary EXCEPT !.script = <<Page(Slash, Word(5), <<>>)>>,
                    !.found = <<Page(Rooted(3), Word(6), <<>>),
                                [Page(Rooted(4), Word(7), <<>>) EXCEPT !.params = {a}]>>,
                    !.on = {"discover_pages"} \cup on] :
     a \in Kinds,
     on \in {{}, {"discovery_guarded"}, {"strict_page_signatures"},
             {"strict_page_signatures", "discovery_guarded"}}}

MCScenarios ==
  {Scenario(w, Checks \cup {Line("serve")}) : w \in ProxyWorlds}
  \cup {Scenario(w, Serves) : w \in BindWorlds}
  \cup {Scenario(w, Commands) : w \in SwitchWorlds}
  \cup {Scenario(w, Opens({Empty, Rooted(4)})) : w \in NavWorlds}
  \cup {Scenario(w, Opens(Paths \cup {Word(Home), Word(9)})) : w \in PathWorlds}
  \cup {Scenario(w, {Strict("validate"), Line("validate"), Line("serve"), Line("open")}) :
          w \in SignatureWorlds \cup DiscoveredWorlds}

MCPrecedence == {Scenario(w, Serves) : w \in BindWorlds}
=============================================================================
