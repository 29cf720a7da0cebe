---------------------------- MODULE AppStartProofs ----------------------------
(***************************************************************************)
(* Proofs about AppStart for every project and environment: what a clean   *)
(* doctor --strict and a clean pages validate --strict vouch for, that the *)
(* sidecar is told an address the gateway answers on, that the sidebar     *)
(* has every page once and in order, that a deep link opens its page and   *)
(* that a strict page gets its arguments.                                  *)
(*                                                                         *)
(* Sorting is reasoned about by ranks (Enumerated), the loop that orders   *)
(* parents before children by its rounds; what holds of every round is     *)
(* shown by a least counterexample (LeastNumber).                          *)
(***************************************************************************)
EXTENDS AppStart, TLAPS, FiniteSetTheorems, SequenceTheorems

(* What doctor --strict establishes about the settings: each check of      *)
(* _strict_startup_validate has a row of its own, and both URLs are        *)
(* absolute.                                                               *)
Clean(w) ==
  /\ Cardinality(ForwardAllowlist(w)) <= MaxForwardNames
  /\ TrustProxy(w) => ~Broad(w) /\ w.body # 0
  /\ PublicMountPath(w) # Empty => PublicBaseUrl(w) # NoUrl /\ TrustProxy(w)
  /\ RejectedForwardNames(w) = {}
  /\ ~PathMismatch(w)
  /\ w.internal # NoUrl => w.internal.abs
  /\ PublicBaseUrl(w) # NoUrl => PublicBaseUrl(w).abs

(* Settings that are clean construct: strict_startup refuses none of them. *)
LEMMA CleanConstructs == ASSUME NEW w, Clean(w) PROVE Constructs(w)
BY DEF Clean, Constructs, StrictStartupValidate

(* Settings that are clean give config no row of grade error.              *)
LEMMA CleanConfig ==
  ASSUME NEW w, Clean(w), NEW r \in ConfigWarnings(w)
  PROVE  r[2] # "error"
<1>1. \A name, found : \A q \in Row(name, "warn", found) : q[2] # "error"
  BY DEF Row
<1>2. ASSUME r \in InternalWarnings(w) PROVE r[2] # "error"
  BY <1>1, <1>2 DEF InternalWarnings, Row, Clean
<1>3. ASSUME r \in PublicUrlWarnings(w) PROVE r[2] # "error"
  BY <1>1, <1>3 DEF PublicUrlWarnings, Clean
<1>4. ASSUME r \in ProxyWarnings(w) PROVE r[2] # "error"
  BY <1>1, <1>4 DEF ProxyWarnings
<1>5. ASSUME r \in HeaderWarnings(w) PROVE r[2] # "error"
  BY <1>1, <1>5 DEF HeaderWarnings
<1>6. ASSUME r \in ProjectFileMountWarnings(w) PROVE r[2] # "error"
  BY <1>1, <1>6 DEF ProjectFileMountWarnings
<1>7. QED
  BY <1>2, <1>3, <1>4, <1>5, <1>6 DEF ConfigWarnings

(* doctor --strict without a FAIL row means Clean.                         *)
LEMMA DoctorClean ==
  ASSUME NEW w, NEW strict, strict, Constructs(w),
         \A r \in DoctorRows(w, TRUE, strict) : r[2] # "FAIL"
  PROVE  Clean(w)
<1>1. \A name, found : (\A r \in Row(name, "FAIL", found) : r[2] # "FAIL") => ~found
  BY DEF Row
<1>2. Grade(strict) = "FAIL"
  BY DEF Grade
<1>3. TrustProxy(w) => ~Broad(w) /\ w.body # 0
  BY <1>1, <1>2 DEF DoctorRows, DoctorProxy
<1>4. PublicMountPath(w) # Empty => TrustProxy(w)
  BY <1>1, <1>2 DEF DoctorRows, DoctorProxy
<1>5. PublicMountPath(w) # Empty => PublicBaseUrl(w) # NoUrl
  BY <1>1, <1>2 DEF DoctorRows, DoctorPublicBase
<1>6. RejectedForwardNames(w) = {}
  <2>1. Row("gateway_forward_rejected_names", Grade(strict), RejectedForwardNames(w) # {})
          \subseteq DoctorRows(w, TRUE, strict)
    BY DEF DoctorRows, DoctorGateway
  <2>2. QED BY <1>1, <1>2, <2>1
<1>7. w.internal # NoUrl => w.internal.abs
  <2>1. DoctorInternalBase(w, TRUE) \subseteq DoctorRows(w, TRUE, strict)
    BY DEF DoctorRows
  <2>2. w.internal # NoUrl /\ ~w.internal.abs
          => <<"FLUXLIT_INTERNAL_API_BASE", "FAIL">> \in DoctorInternalBase(w, TRUE)
    BY DEF DoctorInternalBase
  <2>3. QED BY <2>1, <2>2
<1>8. PublicBaseUrl(w) # NoUrl => ~PathMismatch(w) /\ PublicBaseUrl(w).abs
  <2>1. DoctorPublicUrl(w, strict) \subseteq DoctorRows(w, TRUE, strict)
    BY DEF DoctorRows
  <2>2. ASSUME PublicBaseUrl(w) # NoUrl, PathMismatch(w) PROVE FALSE
    <3>1. <<"public_base_url", "FAIL">> \in DoctorPublicUrl(w, strict)
      BY <1>2, <2>2 DEF DoctorPublicUrl
    <3>2. QED BY <2>1, <3>1
  <2>3. ASSUME PublicBaseUrl(w) # NoUrl, ~PathMismatch(w), ~PublicBaseUrl(w).abs
        PROVE  FALSE
    <3>1. <<"public_base_url", "FAIL">> \in DoctorPublicUrl(w, strict)
      BY <2>3 DEF DoctorPublicUrl, Row
    <3>2. QED BY <2>1, <3>1
  <2>4. QED BY <2>2, <2>3
<1>9. PublicBaseUrl(w) = NoUrl => ~PathMismatch(w)
  <2>1. NoUrl.path = Empty
    BY DEF NoUrl
  <2>2. RStrip(Empty) = Empty
    BY DEF RStrip, Empty, Text
  <2>3. QED BY <2>1, <2>2 DEF PathMismatch
<1>10. QED
  BY <1>3, <1>4, <1>5, <1>6, <1>7, <1>8, <1>9 DEF Clean, Constructs

-----------------------------------------------------------------------------
(* The loopback form of a bind address is one the socket accepts.          *)
LEMMA LoopbackAccepted ==
  ASSUME NEW h, h # "::"
  PROVE  Accepts(h, LoopbackHost(h))
BY DEF Accepts, LoopbackHost

(* The two orders in which the code reads the sources of the bind agree    *)
(* where environment variables are not overruled and no port 0 is in the   *)
(* project file: what serve binds is what the sidecar under uvicorn is     *)
(* told.                                                                   *)
LEMMA OrdersAgree ==
  ASSUME NEW w, FilePort(w) # 0,
         NEW run, run = ResolveBinding(NoHost, NoPort, w),
         w.envHost \in {NoHost, "", run.host}, w.envPort \in {NoPort, run.port}
  PROVE  LET told == GatewayBindForStreamlitChild(w)
         IN  told.host = run.host /\ told.port = run.port
<1>1. /\ run.host = IF FileHost(w) \in {NoHost, ""} THEN GatewayHost(w) ELSE FileHost(w)
      /\ run.port = IF FilePort(w) = NoPort THEN GatewayPort(w) ELSE FilePort(w)
  BY DEF ResolveBinding
<1>2. QED
  BY <1>1 DEF GatewayBindForStreamlitChild

(* The sidecar of every started gateway is told an address the gateway     *)
(* answers on, whatever command line, project file, code and environment   *)
(* say, outside the cases ChildReachesGateway names                        *)
(* (internal_api_base_url, resolve_binding,                                *)
(* _gateway_bind_for_streamlit_child): under uvicorn because the two       *)
(* orders of the sources agree, under serve because the loopback form of   *)
(* the bind is accepted and its port is the one listened on.               *)
THEOREM ChildAddress == Spec => []ChildReachesGateway
<1>1. Init => ChildReachesGateway
  BY DEF Init, ChildReachesGateway
<1>2. ASSUME ChildReachesGateway, [Next]_vars PROVE ChildReachesGateway'
  <2>1. CASE UNCHANGED <<gateway, child, world>>
    BY <1>2, <2>1 DEF ChildReachesGateway, SameSources
  <2>2. CASE gateway' = NoGateway
    BY <2>2 DEF ChildReachesGateway
  <2>3. ASSUME Serve, ~UNCHANGED serving PROVE ChildReachesGateway'
    <3> DEFINE bind == ResolveBinding(cmd.host, cmd.port, world)
    <3>1. /\ gateway' = [by |-> "serve", host |-> bind.host, port |-> ListensOn(bind.port),
                         prefix |-> NormalizeApiMountPath(world.api)]
          /\ child' = InternalApiBaseUrl(bind, world)
      BY <2>3 DEF Serve
    <3> HIDE DEF bind
    <3>2. /\ gateway'.host = bind.host /\ gateway'.port = ListensOn(bind.port)
          /\ child'.host = LoopbackHost(bind.host)
          /\ child'.port = bind.port /\ child'.path = gateway'.prefix
      BY <3>1 DEF InternalApiBaseUrl
    <3>3. bind.host # "::" => Accepts(bind.host, LoopbackHost(bind.host))
      BY LoopbackAccepted
    <3>4. gateway'.port # Ephemeral => gateway'.port = bind.port
      BY <3>2 DEF ListensOn
    <3>5. QED BY <3>2, <3>3, <3>4 DEF ChildReachesGateway
  <2>4. ASSUME ServeAsgi PROVE ChildReachesGateway'
    <3> DEFINE told == GatewayBindForStreamlitChild(world)
               run == ResolveBinding(NoHost, NoPort, world)
    <3>1. /\ gateway' = [by |-> "uvicorn", host |-> cmd.host, port |-> ListensOn(cmd.port),
                         prefix |-> NormalizeApiMountPath(world.api)]
          /\ world.internal = NoUrl => child' = InternalApiBaseUrl(told, world)
          /\ world' = world
      BY <2>4 DEF ServeAsgi
    <3>2. SUFFICES ASSUME SameSources', gateway'.host # "::"
                   PROVE  /\ Accepts(gateway'.host, child'.host)
                          /\ child'.port = gateway'.port /\ child'.path = gateway'.prefix
      BY <3>1 DEF ChildReachesGateway
    <3>3. gateway'.host = run.host /\ gateway'.port = run.port /\ world.internal = NoUrl
      BY <3>1, <3>2 DEF SameSources
    <3>4. /\ FilePort(world) # 0
          /\ world.envHost \in {NoHost, "", run.host} /\ world.envPort \in {NoPort, run.port}
      BY <3>1, <3>2 DEF SameSources
    <3>5. told.host = run.host /\ told.port = run.port
      BY <3>4, OrdersAgree
    <3> HIDE DEF told, run
    <3>6. /\ child'.host = LoopbackHost(told.host) /\ child'.port = told.port
          /\ child'.path = gateway'.prefix
      BY <3>1, <3>3 DEF InternalApiBaseUrl
    <3>7. Accepts(run.host, LoopbackHost(run.host))
      BY <3>2, <3>3, LoopbackAccepted
    <3>8. QED BY <3>3, <3>5, <3>6, <3>7
  <2>5. ASSUME Next, ~UNCHANGED <<gateway, child, world>>, gateway' # NoGateway
        PROVE  (Serve /\ ~UNCHANGED serving) \/ ServeAsgi
    BY <2>5 DEF Next, Invoke, RefuseScope, Import, RegisterPage, DiscoverBegins,
       DiscoverModule, DiscoverEnds, Serve, Stop, Doctor, Config, PagesValidate,
       PagesManifest, Build, New, Open, Harden, serving
  <2>6. QED
    BY <1>2, <2>1, <2>2, <2>3, <2>4, <2>5 DEF vars, serving
<1>3. QED
  BY <1>1, <1>2, PTL DEF Spec

-----------------------------------------------------------------------------
(* What keeps DoctorVouches: a loaded application has settings that        *)
(* validate, and after a clean doctor --strict they are Clean.             *)
Built ==
  \/ pc \in {"register", "discover"}
  \/ pc = "body" /\ fault = "none" /\ cmd.name \notin {"build", "new"}

(* What the commands keep: a built application has passed the checks of    *)
(* its construction, and once doctor --strict has passed the settings are  *)
(* clean.                                                                  *)
Vouched ==
  /\ SettingFields \subseteq DOMAIN world
  /\ Built => Constructs(world)
  /\ "doctor" \in passed => Clean(world)
  /\ DoctorVouches

(* The strict settings may be turned on: no other setting changes.         *)
LEMMA HardenClean ==
  ASSUME NEW w, SettingFields \subseteq DOMAIN w, Clean(w)
  PROVE  Clean([w EXCEPT !.on = @ \cup {"strict_startup", "strict_page_signatures"}])
<1> DEFINE v == [w EXCEPT !.on = @ \cup {"strict_startup", "strict_page_signatures"}]
<1>1. /\ v.allow = w.allow /\ v.body = w.body /\ v.root = w.root /\ v.spp = w.spp
      /\ v.fwd = w.fwd /\ v.codeBase = w.codeBase /\ v.nsBase = w.nsBase
      /\ v.legacyBase = w.legacyBase /\ v.internal = w.internal
  BY DEF SettingFields
<1>2. "trust_proxy" \in v.on <=> "trust_proxy" \in w.on
  BY DEF SettingFields
<1> HIDE DEF v
<1>3. /\ PublicMountPath(v) = PublicMountPath(w) /\ PublicBaseUrl(v) = PublicBaseUrl(w)
      /\ ForwardAllowlist(v) = ForwardAllowlist(w)
      /\ RejectedForwardNames(v) = RejectedForwardNames(w)
      /\ Broad(v) = Broad(w) /\ (TrustProxy(v) <=> TrustProxy(w))
  BY <1>1, <1>2 DEF PublicMountPath, PublicBaseUrl, ForwardAllowlist,
     RejectedForwardNames, Broad, TrustProxy
<1>4. PathMismatch(v) <=> PathMismatch(w)
  BY <1>3 DEF PathMismatch
<1>5. Clean(v)
  BY <1>1, <1>3, <1>4 DEF Clean
<1>6. QED BY <1>5 DEF v

(* A page that is refused is no fault of the settings.                     *)
LEMMA RegisterFaults ==
  ASSUME NEW r, NEW ps, NEW w
  PROVE  RegisterFault(r, ps, w) # "settings"
BY DEF RegisterFault

(* Steps of the import.                                                    *)
LEMMA ImportKeeps ==
  ASSUME Vouched,
         Import \/ RegisterPage \/ DiscoverBegins \/ DiscoverModule \/ DiscoverEnds
  PROVE  Vouched'
<1>1. world' = world /\ passed' = passed /\ cmd' = cmd
  BY DEF Import, RegisterPage, DiscoverBegins, DiscoverModule, DiscoverEnds
<1>2. "doctor" \in passed => Constructs(world)
  BY CleanConstructs DEF Vouched
<1>3. CASE Import
  BY <1>1, <1>2, <1>3 DEF Vouched, Built, DoctorVouches, Import, Raises, Exits
<1>4. CASE RegisterPage
  BY <1>1, <1>2, <1>4, RegisterFaults
     DEF Vouched, Built, DoctorVouches, RegisterPage, Raises, Registers, Exits
<1>5. CASE DiscoverBegins
  BY <1>1, <1>2, <1>5 DEF Vouched, Built, DoctorVouches, DiscoverBegins, Raises, Exits
<1>6. CASE DiscoverModule
  BY <1>1, <1>2, <1>6, RegisterFaults
     DEF Vouched, Built, DoctorVouches, DiscoverModule, Raises, Registers, Exits
<1>7. CASE DiscoverEnds
  BY <1>1, <1>2, <1>7 DEF Vouched, Built, DoctorVouches, DiscoverEnds
<1>8. QED BY <1>3, <1>4, <1>5, <1>6, <1>7

(* The doctor command keeps what has been vouched for.                     *)
LEMMA DoctorKeeps == ASSUME Vouched, Doctor PROVE Vouched'
<1>1. /\ world' = world /\ cmd' = cmd /\ fault' = fault /\ pc' = "shell"
      /\ pc = "body" /\ cmd.name = "doctor"
  BY DEF Doctor, Body, Exits, appVars
<1>2. ASSUME "doctor" \in passed', "doctor" \notin passed
      PROVE  Clean(world) /\ fault = "none"
  <2>1. /\ cmd.strict
        /\ \A r \in DoctorRows(world, fault = "none", cmd.strict) : r[2] # "FAIL"
    BY <1>2 DEF Doctor, Preflight
  <2>2. fault = "none"
    <3>1. SUFFICES ASSUME fault # "none" PROVE FALSE
      OBVIOUS
    <3>2. <<"import_target", "FAIL">> \in DoctorRows(world, fault = "none", cmd.strict)
      BY <3>1 DEF DoctorRows, DoctorImports, Row
    <3>3. QED BY <2>1, <3>2
  <2>3. Constructs(world)
    BY <1>1, <2>2 DEF Vouched, Built
  <2>4. (fault = "none") = TRUE
    BY <2>2
  <2>5. QED BY <2>1, <2>2, <2>3, <2>4, DoctorClean
<1>3. "doctor" \in passed' => Clean(world) /\ fault # "settings"
  BY <1>2 DEF Vouched, DoctorVouches
<1>4. QED
  BY <1>1, <1>3 DEF Vouched, Built, DoctorVouches

(* The config command keeps what has been vouched for.                     *)
LEMMA ConfigKeeps == ASSUME Vouched, Config PROVE Vouched'
<1>1. /\ world' = world /\ cmd' = cmd /\ fault' = fault /\ pc' = "shell"
      /\ passed' = passed
  BY DEF Config, Exits, appVars
<1>2. ASSUME "doctor" \in passed, ~cmd.strict PROVE exit' = 0
  <2>1. \A r \in ConfigWarnings(world) : r[2] # "error"
    BY <1>2, CleanConfig DEF Vouched
  <2>2. "error" \notin {r[2] : r \in ConfigWarnings(world)}
    BY <2>1
  <2>3. QED BY <1>2, <2>2 DEF Config, Exits
<1>3. QED
  BY <1>1, <1>2 DEF Vouched, Built, DoctorVouches

(* Once doctor --strict has found no FAIL, strict_startup does not refuse  *)
(* the settings, whatever they are, and config ends with 0                 *)
(* (_doctor_collect, _strict_startup_validate,                             *)
(* collect_configuration_warnings).                                        *)
THEOREM DoctorIsHonest == Spec => []DoctorVouches
<1>1. Init => Vouched
  BY ScenarioAssumption DEF Init, Vouched, Built, DoctorVouches
<1>2. ASSUME Vouched, [Next]_vars PROVE Vouched'
  <2>1. ASSUME NEW c \in menu, Invoke(c) PROVE Vouched'
    BY <1>2, <2>1 DEF Vouched, Built, DoctorVouches, Invoke
  <2>2. ASSUME Import \/ RegisterPage \/ DiscoverBegins \/ DiscoverModule \/ DiscoverEnds
        PROVE  Vouched'
    BY <1>2, <2>2, ImportKeeps
  <2>3. CASE RefuseScope
    BY <1>2, <2>3 DEF Vouched, Built, DoctorVouches, RefuseScope, BadScope, Exits, appVars
  <2>4. CASE Serve \/ ServeAsgi \/ PagesManifest \/ Build \/ New \/ Open
    <3>1. /\ world' = world /\ cmd' = cmd /\ fault' = fault /\ pc' = "shell"
          /\ passed' = passed /\ cmd.name # "config"
      BY <2>4 DEF Serve, ServeAsgi, PagesManifest, Build, New, Open, Body, Exits, appVars
    <3>2. QED BY <1>2, <3>1 DEF Vouched, Built, DoctorVouches
  <2>5. CASE PagesValidate
    <3>1. /\ world' = world /\ cmd' = cmd /\ fault' = fault /\ pc' = "shell"
          /\ cmd.name = "validate" /\ ("doctor" \in passed' <=> "doctor" \in passed)
      BY <2>5 DEF PagesValidate, Body, Exits, appVars, Preflight
    <3>2. QED BY <1>2, <3>1 DEF Vouched, Built, DoctorVouches
  <2>6. CASE Doctor
    BY <1>2, <2>6, DoctorKeeps
  <2>7. CASE Config
    BY <1>2, <2>7, ConfigKeeps
  <2>8. CASE Stop
    BY <1>2, <2>8 DEF Vouched, Built, DoctorVouches, Stop, appVars
  <2>9. CASE Harden
    <3>1. SettingFields \subseteq DOMAIN world'
      BY <1>2, <2>9 DEF Harden, Vouched
    <3>2. "doctor" \in passed' => Clean(world')
      BY <1>2, <2>9, HardenClean DEF Harden, Vouched
    <3>3. QED
      BY <1>2, <2>9, <3>1, <3>2 DEF Vouched, Built, DoctorVouches, Harden, appVars
  <2>10. CASE UNCHANGED vars
    BY <1>2, <2>10 DEF Vouched, Built, DoctorVouches, vars, appVars
  <2>11. QED
    BY <1>2, <2>1, <2>2, <2>3, <2>4, <2>5, <2>6, <2>7, <2>8, <2>9, <2>10 DEF Next
<1>3. Vouched => DoctorVouches
  BY DEF Vouched
<1>4. QED
  BY <1>1, <1>2, <1>3, PTL DEF Spec

(* Every set of numbers with a member has a least one: the form in which   *)
(* induction enters the proofs about sequences below.                      *)
LEMMA LeastNumber ==
  ASSUME NEW S \in SUBSET Nat, S # {}
  PROVE  \E x \in S : \A y \in S : x <= y
<1> DEFINE R == {e \in Nat \X Nat : e[1] < e[2]}
<1>1. IsWellFoundedOn(R, Nat)
  BY NatLessThanWellFounded DEF OpToRel
<1>2. PICK x \in S : \A y \in S : <<y, x>> \notin R
  <2> HIDE DEF R
  <2> QED BY <1>1, WFMin
<1>3. ASSUME NEW y \in S PROVE x <= y
  <2>1. <<y, x>> \notin R
    BY <1>2
  <2>2. ~(y < x)
    BY <2>1
  <2>3. QED BY <2>2
<1>4. QED BY <1>3

(* Min of a set of numbers with a member is its least one.                 *)
LEMMA MinNat ==
  ASSUME NEW S \in SUBSET Nat, S # {}
  PROVE  Min(S) \in S /\ \A y \in S : Min(S) <= y
BY LeastNumber DEF Min

(* The first n numbers are n.                                              *)
LEMMA Interval ==
  ASSUME NEW n \in Nat
  PROVE  IsFiniteSet(1..n) /\ Cardinality(1..n) = n
<1>1. 1 \in Int /\ n \in Int
  OBVIOUS
<1>2. IsFiniteSet(1..n) /\ Cardinality(1..n) = IF 1 > n THEN 0 ELSE n - 1 + 1
  BY <1>1, FS_Interval
<1>3. QED BY <1>2

(* R orders S, and no two members alike.                                   *)
StrictOrder(S, R) ==
  /\ \A i \in S : <<i, i>> \notin R
  /\ \A i, j, k \in S : <<i, j>> \in R /\ <<j, k>> \in R => <<i, k>> \in R
  /\ \A i, j \in S : i = j \/ <<i, j>> \in R \/ <<j, i>> \in R

(* The number of members before one grows along a strict order, and stays  *)
(* below the number of all.                                                *)
LEMMA Places ==
  ASSUME NEW S, IsFiniteSet(S), NEW R, StrictOrder(S, R)
  PROVE  /\ \A i \in S : Cardinality({j \in S : <<j, i>> \in R}) \in 0..(Cardinality(S) - 1)
         /\ \A i, j \in S : <<i, j>> \in R =>
              Cardinality({k \in S : <<k, i>> \in R}) < Cardinality({k \in S : <<k, j>> \in R})
<1> DEFINE below(i) == {j \in S : <<j, i>> \in R}
<1>1. \A i \in S : /\ IsFiniteSet(below(i)) /\ Cardinality(below(i)) \in Nat
                   /\ Cardinality(S) \in Nat
  BY FS_Subset, FS_CardinalityType
<1>2. ASSUME NEW i \in S PROVE Cardinality(below(i)) < Cardinality(S)
  <2>1. below(i) \in SUBSET S /\ below(i) # S
    BY DEF StrictOrder
  <2> HIDE DEF below
  <2>2. QED BY <1>1, <2>1, FS_Subset
<1>3. ASSUME NEW i \in S, NEW j \in S, <<i, j>> \in R
      PROVE  Cardinality(below(i)) < Cardinality(below(j))
  <2>1. below(i) \in SUBSET below(j) /\ below(i) # below(j)
    BY <1>3 DEF StrictOrder
  <2> HIDE DEF below
  <2>2. QED BY <1>1, <2>1, FS_Subset
<1>4. \A i \in S : Cardinality(below(i)) \in 0..(Cardinality(S) - 1)
  <2> HIDE DEF below
  <2> QED BY <1>1, <1>2
<1>5. \A i, j \in S : <<i, j>> \in R => Cardinality(below(i)) < Cardinality(below(j))
  BY <1>3
<1>6. QED BY <1>4, <1>5, Zenon

(* Enumerate lists the members of a finite set, each once, along the order.*)
LEMMA Enumerated ==
  ASSUME NEW S, IsFiniteSet(S), NEW R, StrictOrder(S, R)
  PROVE  /\ Enumerate(S, R) \in Bijection(1..Cardinality(S), S)
         /\ \A a, b \in 1..Cardinality(S) :
              a < b => <<Enumerate(S, R)[a], Enumerate(S, R)[b]>> \in R
<1> DEFINE N == Cardinality(S)
           place(i) == Cardinality({j \in S : <<j, i>> \in R})
           f == [i \in S |-> place(i) + 1]
           q == Enumerate(S, R)
<1>1. N \in Nat /\ IsFiniteSet(1..N) /\ Cardinality(1..N) = N
  BY FS_CardinalityType, Interval
<1>2. /\ \A i \in S : place(i) \in 0..(N - 1)
      /\ \A i, j \in S : <<i, j>> \in R => place(i) < place(j)
  BY Places
<1>3. q = [k \in 1..N |-> CHOOSE i \in S : place(i) = k - 1]
  BY DEF Enumerate
<1> HIDE DEF N, place
<1>4. ASSUME NEW i \in S, NEW j \in S
       PROVE  /\ place(i) = place(j) => i = j
              /\ place(i) < place(j) => <<i, j>> \in R
  <2>1. place(i) \in Nat /\ place(j) \in Nat
    BY <1>1, <1>2
  <2>2. i = j \/ <<i, j>> \in R \/ <<j, i>> \in R
    BY DEF StrictOrder
  <2>3. CASE i = j
    BY <2>1, <2>3
  <2>4. CASE <<i, j>> \in R
    <3>1. place(i) < place(j)
      BY <1>2, <2>4
    <3>2. QED BY <2>1, <2>4, <3>1
  <2>5. CASE <<j, i>> \in R
    <3>1. place(j) < place(i)
      BY <1>2, <2>5
    <3>2. QED BY <2>1, <3>1
  <2>6. QED BY <2>2, <2>3, <2>4, <2>5
<1>5. f \in Injection(S, 1..N)
  <2>1. f \in [S -> 1..N]
    BY <1>1, <1>2
  <2>2. \A i \in S : place(i) \in Nat
    BY <1>1, <1>2
  <2>3. ASSUME NEW i \in S, NEW j \in S, f[i] = f[j] PROVE i = j
    <3>1. place(i) = place(j)
      BY <2>2, <2>3
    <3>2. QED BY <1>4, <3>1
  <2> HIDE DEF f
  <2>4. QED BY <2>1, <2>3 DEF Injection, IsInjective
<1>6. f \in Surjection(S, 1..N)
  <2> HIDE DEF f
  <2> QED BY <1>1, <1>5, FS_Injection DEF N
<1>7. \A k \in 1..N : \E i \in S : place(i) = k - 1
  <2>1. \A k \in 1..N : \E i \in S : f[i] = k
    <3> HIDE DEF f
    <3> QED BY <1>6 DEF Surjection
  <2>2. ASSUME NEW k \in 1..N PROVE \E i \in S : place(i) = k - 1
    <3>1. PICK i \in S : f[i] = k
      BY <2>1
    <3>2. place(i) + 1 = k /\ place(i) \in Nat
      BY <1>1, <1>2, <3>1
    <3>3. QED BY <3>2
  <2>3. QED BY <2>2
<1> HIDE DEF q
<1>8. \A k \in 1..N : q[k] \in S /\ place(q[k]) = k - 1
  BY <1>7, <1>3
<1>9. q \in [1..N -> S]
  <2>1. DOMAIN q = 1..N /\ q = [k \in 1..N |-> q[k]]
    BY <1>3
  <2>2. QED BY <1>8, <2>1
<1>10. \A a, b \in 1..N : a < b => <<q[a], q[b]>> \in R
  <2> SUFFICES ASSUME NEW a \in 1..N, NEW b \in 1..N, a < b PROVE <<q[a], q[b]>> \in R
    OBVIOUS
  <2>1. place(q[a]) < place(q[b]) /\ q[a] \in S /\ q[b] \in S
    BY <1>1, <1>8
  <2>2. QED BY <1>4, <2>1
<1>11. \A i \in S : \E k \in 1..N : q[k] = i
  <2> SUFFICES ASSUME NEW i \in S PROVE \E k \in 1..N : q[k] = i
    OBVIOUS
  <2> DEFINE k == place(i) + 1
  <2>1. k \in 1..N /\ place(i) \in Nat
    BY <1>1, <1>2
  <2>2. place(q[k]) = place(i) /\ q[k] \in S
    BY <1>8, <2>1
  <2>3. q[k] = i
    <3> HIDE DEF k
    <3> QED BY <1>4, <2>2
  <2>4. QED BY <2>1, <2>3
<1>12. q \in Injection(1..N, S)
  BY <1>1, <1>8, <1>9 DEF Injection, IsInjective
<1>13. q \in Surjection(1..N, S)
  BY <1>9, <1>11 DEF Surjection
<1>14. QED BY <1>10, <1>12, <1>13 DEF Bijection, q, N
-----------------------------------------------------------------------------
(* Sorting.                                                                *)

(* Breaking the ties of a sort by position makes it a strict order.        *)
LEMMA StableOrder ==
  ASSUME NEW n \in Nat, NEW L, NEW B,
         \A i, j \in 1..n : <<i, j>> \in L => <<j, i>> \notin L,
         \A i, j, k \in 1..n : <<i, k>> \in L => <<i, j>> \in L \/ <<j, k>> \in L,
         \A i, j \in 1..n :
           <<i, j>> \in B <=> <<i, j>> \in L \/ (<<j, i>> \notin L /\ i < j)
  PROVE  StrictOrder(1..n, B)
<1>1. \A i, j \in 1..n :
        <<i, j>> \in B <=> <<i, j>> \in L \/ (<<j, i>> \notin L /\ i < j)
  OBVIOUS
<1>2. \A i \in 1..n : <<i, i>> \notin B
  BY <1>1
<1>3. ASSUME NEW i \in 1..n, NEW j \in 1..n, NEW k \in 1..n,
             <<i, j>> \in B, <<j, k>> \in B
      PROVE  <<i, k>> \in B
  <2>1. CASE <<i, j>> \in L
    BY <1>1, <1>3, <2>1
  <2>2. CASE <<j, i>> \notin L /\ i < j /\ <<j, k>> \in L
    BY <1>1, <2>2
  <2>3. CASE <<j, i>> \notin L /\ i < j /\ <<k, j>> \notin L /\ j < k
    <3>1. <<k, i>> \notin L
      BY <2>3
    <3>2. i < k
      BY <2>3
    <3>3. QED BY <1>1, <3>1, <3>2
  <2>4. QED BY <1>1, <1>3, <2>1, <2>2, <2>3
<1>4. ASSUME NEW i \in 1..n, NEW j \in 1..n
      PROVE  i = j \/ <<i, j>> \in B \/ <<j, i>> \in B
  <2>1. i = j \/ i < j \/ j < i
    OBVIOUS
  <2>2. QED BY <1>1, <2>1
<1>5. QED BY <1>2, <1>3, <1>4 DEF StrictOrder

(* The order of texts is total.                                            *)
LEMMA TextOrder ==
  ASSUME NEW p \in Texts, NEW q \in Texts, NEW r \in Texts
  PROVE  /\ TextLess(p, q) => ~TextLess(q, p)
         /\ TextLess(p, r) => TextLess(p, q) \/ TextLess(q, r)
         /\ p = q \/ TextLess(p, q) \/ TextLess(q, p)
<1>1. /\ p.lead \in BOOLEAN /\ q.lead \in BOOLEAN /\ r.lead \in BOOLEAN
      /\ p.trail \in BOOLEAN /\ q.trail \in BOOLEAN /\ r.trail \in BOOLEAN
      /\ p.name \in Nat /\ q.name \in Nat /\ r.name \in Nat
  BY DEF Texts
<1>2. p.lead = q.lead /\ p.name = q.name /\ p.trail = q.trail => p = q
  BY DEF Texts
<1>3. TextLess(p, q) => ~TextLess(q, p)
  BY <1>1 DEF TextLess
<1>4. TextLess(p, r) => TextLess(p, q) \/ TextLess(q, r)
  BY <1>1 DEF TextLess
<1>5. p = q \/ TextLess(p, q) \/ TextLess(q, p)
  BY <1>1, <1>2 DEF TextLess
<1>6. QED BY <1>3, <1>4, <1>5

(* What a page of the registry is.                                         *)
LEMMA PageTypes ==
  ASSUME NEW s \in Seq(PageRecords)
  PROVE  /\ Len(s) \in Nat
         /\ \A i \in 1..Len(s) :
              /\ s[i] \in PageRecords /\ s[i].path \in Texts /\ s[i].title \in Texts
              /\ Slug(s[i].path) \in Nat \ {0}
<1>1. Len(s) \in Nat /\ \A i \in 1..Len(s) : s[i] \in PageRecords
  OBVIOUS
<1>2. \A r \in PageRecords : r.path \in Texts /\ r.title \in Texts
  BY DEF PageRecords
<1>3. \A p \in Texts : Slug(p) \in Nat \ {0}
  BY DEF Texts, Slug, Home
<1>4. QED BY <1>1, <1>2, <1>3

(* t is s in another order.                                                *)
Permuted(s, t) ==
  \E p \in Bijection(1..Len(s), 1..Len(s)) : t = [k \in 1..Len(s) |-> s[p[k]]]

(* A sort along a relation whose ties are broken by position permutes.     *)
LEMMA SortPermutes ==
  ASSUME NEW n \in Nat, NEW L, NEW B,
         \A i, j \in 1..n : <<i, j>> \in L => <<j, i>> \notin L,
         \A i, j, k \in 1..n : <<i, k>> \in L => <<i, j>> \in L \/ <<j, k>> \in L,
         \A i, j \in 1..n :
           <<i, j>> \in B <=> <<i, j>> \in L \/ (<<j, i>> \notin L /\ i < j)
  PROVE  Enumerate(1..n, B) \in Bijection(1..n, 1..n)
<1>1. StrictOrder(1..n, B)
  BY StableOrder
<1>2. IsFiniteSet(1..n) /\ Cardinality(1..n) = n
  BY Interval
<1>3. QED BY <1>1, <1>2, Enumerated

(* The sort at the end of discovery keeps every page.                      *)
LEMMA DiscoverySort ==
  ASSUME NEW s \in Seq(PageRecords)
  PROVE  Permuted(s, SortedBy(s, PathTitleLess))
<1> DEFINE n == Len(s)
           L == {e \in (1..n) \X (1..n) : PathTitleLess(s[e[1]], s[e[2]])}
           B == {e \in (1..n) \X (1..n) :
                   \/ PathTitleLess(s[e[1]], s[e[2]])
                   \/ ~PathTitleLess(s[e[2]], s[e[1]]) /\ e[1] < e[2]}
<1>1. n \in Nat /\ n = Len(s) /\ \A i \in 1..n : s[i].path \in Texts /\ s[i].title \in Texts
  BY PageTypes
<1>2. \A i, j \in 1..n : <<i, j>> \in L <=> PathTitleLess(s[i], s[j])
  OBVIOUS
<1>3. SortedBy(s, PathTitleLess) = [k \in 1..n |-> s[Enumerate(1..n, B)[k]]]
  BY DEF SortedBy
<1>4. \A i, j \in 1..n :
        <<i, j>> \in B <=> <<i, j>> \in L \/ (<<j, i>> \notin L /\ i < j)
  OBVIOUS
<1> HIDE DEF n, L, B
<1>5. \A i, j \in 1..n : <<i, j>> \in L => <<j, i>> \notin L
  <2> SUFFICES ASSUME NEW i \in 1..n, NEW j \in 1..n,
                      PathTitleLess(s[i], s[j]), PathTitleLess(s[j], s[i])
               PROVE  FALSE
    BY <1>2
  <2>1. /\ TextLess(s[i].path, s[j].path) => ~TextLess(s[j].path, s[i].path)
        /\ TextLess(s[i].title, s[j].title) => ~TextLess(s[j].title, s[i].title)
        /\ ~TextLess(s[i].path, s[i].path)
    BY <1>1, TextOrder
  <2>2. QED BY <2>1 DEF PathTitleLess
<1>6. \A i, j, k \in 1..n : <<i, k>> \in L => <<i, j>> \in L \/ <<j, k>> \in L
  <2> SUFFICES ASSUME NEW i \in 1..n, NEW j \in 1..n, NEW k \in 1..n,
                      PathTitleLess(s[i], s[k])
               PROVE  PathTitleLess(s[i], s[j]) \/ PathTitleLess(s[j], s[k])
    BY <1>2
  <2>1. CASE TextLess(s[i].path, s[k].path)
    <3>1. TextLess(s[i].path, s[j].path) \/ TextLess(s[j].path, s[k].path)
      BY <1>1, <2>1, TextOrder
    <3>2. QED BY <3>1 DEF PathTitleLess
  <2>2. CASE s[i].path = s[k].path /\ TextLess(s[i].title, s[k].title)
    <3>1. \/ s[j].path = s[i].path
          \/ TextLess(s[i].path, s[j].path) \/ TextLess(s[j].path, s[i].path)
      BY <1>1, TextOrder
    <3>2. TextLess(s[i].title, s[j].title) \/ TextLess(s[j].title, s[k].title)
      BY <1>1, <2>2, TextOrder
    <3>3. QED BY <2>2, <3>1, <3>2 DEF PathTitleLess
  <2>3. QED BY <2>1, <2>2 DEF PathTitleLess
<1>7. Enumerate(1..n, B) \in Bijection(1..n, 1..n)
  BY <1>1, <1>4, <1>5, <1>6, SortPermutes, ZenonT(40)
<1>8. QED BY <1>1, <1>3, <1>7 DEF Permuted

(* So does the order of the navigation model.                              *)
LEMMA NavigationSort ==
  ASSUME NEW w, w.order \in Seq(Texts), NEW s \in Seq(PageRecords)
  PROVE  Permuted(s, NavSorted(w, s))
<1> DEFINE n == Len(s)
           less(i, j) == NavigationSortKeyLess(w, s[i], s[j])
           L == {e \in (1..n) \X (1..n) : less(e[1], e[2])}
           B == {e \in (1..n) \X (1..n) : less(e[1], e[2]) \/ (~less(e[2], e[1]) /\ e[1] < e[2])}
<1>1. n \in Nat /\ n = Len(s) /\ \A i \in 1..n : Slug(s[i].path) \in Nat
  BY PageTypes
<1>2. \A i \in 1..n : SortKey(w, s[i]) \in Nat
  <2> SUFFICES ASSUME NEW i \in 1..n PROVE SortKey(w, s[i]) \in Nat
    OBVIOUS
  <2> DEFINE named == {k \in 1..Len(w.order) : Slug(w.order[k]) = Slug(s[i].path)}
  <2>1. named \in SUBSET Nat /\ Len(w.order) \in Nat
    OBVIOUS
  <2>2. SortKey(w, s[i]) = IF named = {} THEN Len(w.order) + 1 ELSE Min(named)
    BY DEF SortKey
  <2> HIDE DEF named
  <2>3. named # {} => Min(named) \in Nat
    BY <2>1, MinNat
  <2>4. QED BY <2>1, <2>2, <2>3
<1>3. \A i, j \in 1..n : <<i, j>> \in L <=> less(i, j)
  OBVIOUS
<1>4. w.order # <<>> => NavSorted(w, s) = [k \in 1..n |-> s[Enumerate(1..n, B)[k]]]
  BY DEF NavSorted, SortedBy
<1>5. \A i, j \in 1..n :
        <<i, j>> \in B <=> <<i, j>> \in L \/ (<<j, i>> \notin L /\ i < j)
  OBVIOUS
<1>6. \A i, j \in 1..n :
        less(i, j) <=> \/ SortKey(w, s[i]) < SortKey(w, s[j])
                       \/ /\ SortKey(w, s[i]) = SortKey(w, s[j])
                          /\ Slug(s[i].path) < Slug(s[j].path)
  BY DEF NavigationSortKeyLess
<1> HIDE DEF n, L, B, less
<1>7. \A i, j \in 1..n : <<i, j>> \in L => <<j, i>> \notin L
  BY <1>1, <1>2, <1>3, <1>6, SMTT(30)
<1>8. \A i, j, k \in 1..n : <<i, k>> \in L => <<i, j>> \in L \/ <<j, k>> \in L
  <2> SUFFICES ASSUME NEW i \in 1..n, NEW j \in 1..n, NEW k \in 1..n, less(i, k)
               PROVE  less(i, j) \/ less(j, k)
    BY <1>3
  <2>1. /\ SortKey(w, s[i]) \in Nat /\ SortKey(w, s[j]) \in Nat /\ SortKey(w, s[k]) \in Nat
        /\ Slug(s[i].path) \in Nat /\ Slug(s[j].path) \in Nat /\ Slug(s[k].path) \in Nat
    BY <1>1, <1>2
  <2>2. QED BY <1>6, <2>1, SMTT(30)
<1>9. CASE w.order # <<>>
  <2>1. Enumerate(1..n, B) \in Bijection(1..n, 1..n)
    BY <1>1, <1>5, <1>7, <1>8, SortPermutes, ZenonT(40)
  <2>2. QED BY <1>1, <1>4, <1>9, <2>1 DEF Permuted
<1>10. CASE w.order = <<>>
  <2> DEFINE p == [k \in 1..n |-> k]
  <2>1. p \in Bijection(1..n, 1..n)
    BY DEF Bijection, Injection, Surjection, IsInjective
  <2>2. s = [k \in 1..Len(s) |-> s[p[k]]]
    BY DEF n
  <2>3. NavSorted(w, s) = s
    BY <1>10 DEF NavSorted
  <2>4. QED BY <2>1, <2>2, <2>3 DEF Permuted, n
<1>11. QED BY <1>9, <1>10
-----------------------------------------------------------------------------
(* The order of parents and children.                                      *)

(* The first m steps of the loop of order_records_with_children.           *)
Loop(f, m, n, E) ==
  /\ f = [k \in 0..m |-> f[k]] /\ f[0] = <<>>
  /\ \A k \in 1..m : f[k] = Emit(f[k - 1], n, E)

(* The loop can be run for any number of steps.                            *)
LEMMA LoopRuns ==
  ASSUME NEW n, NEW E, NEW m \in Nat
  PROVE  \E f : Loop(f, m, n, E)
<1> DEFINE T == {k \in Nat : ~ \E f : Loop(f, k, n, E)}
<1>1. SUFFICES ASSUME T # {} PROVE FALSE
  OBVIOUS
<1>2. PICK k \in T : \A j \in T : k <= j
  BY <1>1, LeastNumber
<1>3. k # 0
  <2> DEFINE f == [j \in 0..0 |-> <<>>]
  <2>1. Loop(f, 0, n, E)
    BY DEF Loop
  <2>2. QED BY <2>1
<1>4. k - 1 \in Nat /\ k \in Nat
  BY <1>3
<1>5. k - 1 \notin T
  BY <1>2, <1>4
<1>6. PICK f : Loop(f, k - 1, n, E)
  BY <1>4, <1>5
<1> DEFINE g == [j \in 0..k |-> IF j = k THEN Emit(f[k - 1], n, E) ELSE f[j]]
<1>7. Loop(g, k, n, E)
  <2>1. g = [j \in 0..k |-> g[j]] /\ g[0] = <<>>
    BY <1>4, <1>3, <1>6 DEF Loop
  <2>2. ASSUME NEW j \in 1..k PROVE g[j] = Emit(g[j - 1], n, E)
    <3>1. g[j - 1] = f[j - 1]
      BY <1>4
    <3>2. CASE j = k
      BY <1>4, <3>1, <3>2
    <3>3. CASE j # k
      <4>1. j \in 1..(k - 1) /\ g[j] = f[j]
        BY <1>4, <3>3
      <4>2. QED BY <1>6, <3>1, <4>1 DEF Loop
    <3>4. QED BY <3>2, <3>3
  <2> HIDE DEF g
  <2>3. QED BY <2>1, <2>2 DEF Loop
<1>8. QED BY <1>2, <1>7

(* Emitted is what the loop has after n steps.                             *)
LEMMA EmittedIsLoop ==
  ASSUME NEW n \in Nat, NEW E
  PROVE  \E f : Loop(f, n, n, E) /\ Emitted(n, E) = f[n]
<1> DEFINE out == CHOOSE g : g = [k \in 0..n |-> IF k = 0 THEN <<>> ELSE Emit(g[k - 1], n, E)]
<1>1. Emitted(n, E) = out[n]
  BY DEF Emitted
<1>2. PICK f : Loop(f, n, n, E)
  BY LoopRuns
<1>3. f = [k \in 0..n |-> IF k = 0 THEN <<>> ELSE Emit(f[k - 1], n, E)]
  <2>1. \A k \in 0..n : f[k] = IF k = 0 THEN <<>> ELSE Emit(f[k - 1], n, E)
    <3>1. f[0] = <<>> /\ \A k \in 1..n : f[k] = Emit(f[k - 1], n, E)
      BY <1>2 DEF Loop
    <3>2. ASSUME NEW k \in 0..n, k # 0 PROVE f[k] = Emit(f[k - 1], n, E)
      <4>1. k \in 1..n
        BY <3>2
      <4>2. QED BY <3>1, <4>1
    <3>3. QED BY <3>1, <3>2
  <2>2. QED BY <1>2, <2>1 DEF Loop
<1>4. out = [k \in 0..n |-> IF k = 0 THEN <<>> ELSE Emit(out[k - 1], n, E)]
  BY <1>3
<1> HIDE DEF out
<1>5. Loop(out, n, n, E)
  BY <1>4 DEF Loop
<1>6. QED BY <1>1, <1>5

(* What the loop keeps: pages once each, and each behind all its parents.  *)
Ordered(o, n, E) ==
  /\ o \in Seq(1..n)
  /\ \A i, j \in 1..Len(o) : o[i] = o[j] => i = j
  /\ \A j \in 1..Len(o) : \A e \in E : e[2] = o[j] => \E i \in 1..(j - 1) : o[i] = e[1]

(* A sequence's set has the values at its places, and no other.            *)
LEMMA ToSetIs ==
  ASSUME NEW S, NEW o \in Seq(S)
  PROVE  \A x : x \in ToSet(o) <=> \E i \in 1..Len(o) : o[i] = x
BY DEF ToSet

(* One round of the loop of order_records_with_children keeps the emitted  *)
(* pages in order, and adds a page whenever one is ready.                  *)
LEMMA EmitKeeps ==
  ASSUME NEW n \in Nat, NEW E, NEW o, Ordered(o, n, E)
  PROVE  /\ Ordered(Emit(o, n, E), n, E)
         /\ Ready(o, n, E) = {} => Emit(o, n, E) = o
         /\ Ready(o, n, E) # {} => Len(Emit(o, n, E)) = Len(o) + 1
<1> DEFINE ready == Ready(o, n, E)
<1>1. Emit(o, n, E) = IF ready = {} THEN o ELSE Append(o, Min(ready))
  BY DEF Emit
<1>2. o \in Seq(1..n) /\ Len(o) \in Nat
  BY DEF Ordered
<1>3. ready \in SUBSET Nat
  BY DEF Ready
<1>4. \A x : x \in ToSet(o) <=> \E i \in 1..Len(o) : o[i] = x
  BY <1>2, ToSetIs
<1>5. CASE ready # {}
  <2> DEFINE x == Min(ready)
             t == Append(o, x)
  <2>1. x \in ready
    <3> HIDE DEF ready
    <3> QED BY <1>3, <1>5, MinNat
  <2>2. x \in 1..n /\ x \notin ToSet(o) /\ \A e \in E : e[2] = x => e[1] \in ToSet(o)
    <3> HIDE DEF x
    <3> QED BY <2>1 DEF Ready
  <2> HIDE DEF x
  <2>3. t \in Seq(1..n) /\ Len(t) = Len(o) + 1 /\ t[Len(o) + 1] = x
    BY <1>2, <2>2
  <2>4. \A i \in 1..Len(o) : t[i] = o[i]
    BY <1>2, <2>2
  <2> HIDE DEF t
  <2>5. ASSUME NEW i \in 1..Len(t), NEW j \in 1..Len(t), t[i] = t[j] PROVE i = j
    <3>1. \A a \in 1..Len(o) : o[a] # x
      BY <1>4, <2>2
    <3>2. CASE i \in 1..Len(o) /\ j \in 1..Len(o)
      <4>1. o[i] = o[j]
        BY <2>4, <2>5, <3>2
      <4>2. QED BY <3>2, <4>1 DEF Ordered
    <3>3. CASE i = Len(o) + 1 /\ j \in 1..Len(o)
      BY <2>3, <2>4, <2>5, <3>1, <3>3
    <3>4. CASE j = Len(o) + 1 /\ i \in 1..Len(o)
      BY <2>3, <2>4, <2>5, <3>1, <3>4
    <3>5. QED BY <1>2, <2>3, <3>2, <3>3, <3>4, SMTT(30)
  <2>6. ASSUME NEW j \in 1..Len(t), NEW e \in E, e[2] = t[j]
        PROVE  \E i \in 1..(j - 1) : t[i] = e[1]
    <3>1. CASE j \in 1..Len(o)
      <4>1. PICK i \in 1..(j - 1) : o[i] = e[1]
        BY <2>4, <2>6, <3>1 DEF Ordered
      <4>2. i \in 1..Len(o)
        BY <1>2, <3>1
      <4>3. QED BY <2>4, <4>1, <4>2
    <3>2. CASE j = Len(o) + 1
      <4>1. e[1] \in ToSet(o)
        BY <2>2, <2>3, <2>6, <3>2
      <4>2. PICK i \in 1..Len(o) : o[i] = e[1]
        BY <1>4, <4>1
      <4>3. i \in 1..(j - 1)
        BY <1>2, <3>2
      <4>4. QED BY <2>4, <4>2, <4>3
    <3>3. QED BY <1>2, <2>3, <3>1, <3>2
  <2>7. Ordered(t, n, E)
    BY <2>3, <2>5, <2>6 DEF Ordered
  <2>8. Emit(o, n, E) = t
    BY <1>1, <1>5 DEF t, x
  <2>9. QED BY <1>5, <2>3, <2>7, <2>8
<1>6. CASE ready = {}
  BY <1>1, <1>6
<1>7. QED BY <1>5, <1>6

(* The loop ends with an ordered part and no page ready.                   *)
LEMMA EmittedOrdered ==
  ASSUME NEW n \in Nat, NEW E
  PROVE  Ordered(Emitted(n, E), n, E) /\ Ready(Emitted(n, E), n, E) = {}
<1>1. PICK f : Loop(f, n, n, E) /\ Emitted(n, E) = f[n]
  BY EmittedIsLoop
<1> DEFINE P(k) == /\ Ordered(f[k], n, E)
                   /\ Len(f[k]) = k \/ Ready(f[k], n, E) = {}
           T == {k \in 0..n : ~P(k)}
<1>2. P(0)
  <2>1. f[0] = <<>>
    BY <1>1 DEF Loop
  <2>2. Ordered(<<>>, n, E) /\ Len(<<>>) = 0
    BY DEF Ordered
  <2>3. QED BY <2>1, <2>2
<1>3. ASSUME NEW k \in 1..n, P(k - 1) PROVE P(k)
  <2>1. f[k] = Emit(f[k - 1], n, E)
    BY <1>1 DEF Loop
  <2>2. Ordered(f[k - 1], n, E)
    BY <1>3
  <2>3. /\ Ordered(f[k], n, E)
        /\ Ready(f[k - 1], n, E) = {} => f[k] = f[k - 1]
        /\ Ready(f[k - 1], n, E) # {} => Len(f[k]) = Len(f[k - 1]) + 1
    BY <2>1, <2>2, EmitKeeps
  <2>4. QED BY <1>3, <2>3
<1>4. \A k \in 0..n : P(k)
  <2> HIDE DEF P
  <2>1. SUFFICES ASSUME T # {} PROVE FALSE
    OBVIOUS
  <2>2. PICK k \in T : \A j \in T : k <= j
    <3>1. T \in SUBSET Nat
      OBVIOUS
    <3> HIDE DEF T
    <3>2. QED BY <2>1, <3>1, LeastNumber
  <2>3. k \in 1..n /\ k - 1 \in 0..n
    BY <1>2, <2>2
  <2>4. k - 1 \notin T
    BY <2>2, <2>3
  <2>5. P(k)
    BY <1>3, <2>3, <2>4
  <2>6. QED BY <2>5
<1>5. P(n)
  BY <1>4
<1>6. ASSUME Len(f[n]) = n PROVE Ready(f[n], n, E) = {}
  <2>1. f[n] \in Injection(1..n, 1..n)
    BY <1>5, <1>6, SMTT(30) DEF Ordered, Injection, IsInjective
  <2>2. f[n] \in Surjection(1..n, 1..n)
    BY <2>1, FS_Injection, Interval
  <2>3. \A i \in 1..n : i \in ToSet(f[n])
    BY <1>5, <1>6, <2>2, ToSetIs DEF Ordered, Surjection
  <2>4. QED BY <2>3 DEF Ready
<1>7. QED BY <1>1, <1>5, <1>6

(* Listing an ordered part and then the pages that are left is a           *)
(* permutation.                                                            *)
LEMMA RestFollows ==
  ASSUME NEW n \in Nat, NEW E, NEW o, Ordered(o, n, E), NEW q,
         NEW R, R = (1..n) \ ToSet(o), q \in Bijection(1..Cardinality(R), R)
  PROVE  /\ o \o q \in Bijection(1..n, 1..n) /\ Len(o) \in Nat
         /\ \A k \in 1..n : k <= Len(o) => (o \o q)[k] = o[k]
         /\ \A k \in 1..n : k > Len(o) => (o \o q)[k] \in R
<1> DEFINE c == Cardinality(R)
           A == ToSet(o)
           p == o \o q
<1>1. o \in Seq(1..n) /\ Len(o) \in Nat /\ \A x : x \in A <=> \E i \in 1..Len(o) : o[i] = x
  BY ToSetIs DEF Ordered
<1>2. IsFiniteSet(1..n) /\ Cardinality(1..n) = n
  BY Interval
<1>3. A \in SUBSET (1..n)
  BY <1>1
<1>4. o \in Bijection(1..Len(o), A)
  BY <1>1, SMTT(30) DEF Ordered, Bijection, Injection, Surjection, IsInjective
<1>5. Cardinality(A) = Len(o) /\ IsFiniteSet(A)
  <2>1. IsFiniteSet(1..Len(o)) /\ Cardinality(1..Len(o)) = Len(o)
    BY <1>1, Interval
  <2>2. ExistsBijection(1..Len(o), A)
    BY <1>4 DEF ExistsBijection
  <2>3. QED BY <2>1, <2>2, FS_Bijection
<1>6. c = n - Len(o) /\ c \in Nat
  <2>1. (1..n) \cap A = A
    BY <1>3
  <2>2. IsFiniteSet(R) /\ c = n - Len(o)
    <3>1. /\ IsFiniteSet((1..n) \ A)
          /\ Cardinality((1..n) \ A) = Cardinality(1..n) - Cardinality((1..n) \cap A)
      BY <1>2, FS_Difference
    <3>2. QED BY <1>2, <1>5, <2>1, <3>1
  <2>3. QED BY <2>2, FS_CardinalityType
<1>7. q \in Seq(R) /\ Len(q) = c /\ R \in SUBSET (1..n)
  <2>1. q \in [1..c -> R]
    BY DEF Bijection, Injection
  <2> HIDE DEF c
  <2>2. q \in Seq(R)
    BY <1>6, <2>1, SeqDef
  <2>3. DOMAIN q = 1..c
    BY <2>1
  <2>4. Len(q) = c
    BY <1>6, <2>2, <2>3, LenProperties
  <2>5. QED BY <2>2, <2>4
<1>8. /\ p \in Seq(1..n) /\ Len(p) = n
      /\ \A k \in 1..n : k <= Len(o) => p[k] = o[k]
      /\ \A k \in 1..n : k > Len(o) => p[k] = q[k - Len(o)] /\ k - Len(o) \in 1..c
  <2>1. q \in Seq(1..n)
    BY <1>7, SeqMonotonic
  <2>2. Len(o) + Len(q) = n
    BY <1>1, <1>6, <1>7
  <2>3. /\ p \in Seq(1..n) /\ Len(p) = Len(o) + Len(q)
        /\ \A k \in 1..(Len(o) + Len(q)) :
             p[k] = IF k <= Len(o) THEN o[k] ELSE q[k - Len(o)]
    BY <1>1, <2>1, ConcatProperties
  <2> HIDE DEF p, c
  <2>4. Len(o) \in Nat /\ c \in Nat /\ Len(q) = c /\ Len(o) + c = n
    BY <1>1, <1>6, <1>7, <2>2
  <2>5. /\ p \in Seq(1..n) /\ Len(p) = n
        /\ \A k \in 1..n : p[k] = IF k <= Len(o) THEN o[k] ELSE q[k - Len(o)]
    BY <2>3, <2>4
  <2>6. \A k \in 1..n : k > Len(o) => k - Len(o) \in 1..c
    BY <2>4
  <2>7. \A k \in 1..n : k > Len(o) => ~(k <= Len(o))
    BY <2>4
  <2>8. QED BY <2>5, <2>6, <2>7
<1> HIDE DEF p, c
<1>9. \A k \in 1..n : /\ k <= Len(o) => p[k] \in A
                      /\ k > Len(o) => p[k] \in R
  <2>1. q \in [1..c -> R]
    BY DEF Bijection, Injection, c
  <2>2. ASSUME NEW k \in 1..n, k <= Len(o) PROVE p[k] \in A
    <3>1. k \in 1..Len(o) /\ p[k] = o[k]
      BY <1>1, <1>8, <2>2
    <3>2. QED BY <1>1, <3>1
  <2>3. ASSUME NEW k \in 1..n, k > Len(o) PROVE p[k] \in R
    BY <1>8, <2>1, <2>3
  <2>4. QED BY <2>2, <2>3
<1>10. ASSUME NEW i \in 1..n, NEW j \in 1..n, p[i] = p[j] PROVE i = j
  <2>1. CASE i <= Len(o) /\ j <= Len(o)
    <3>1. o[i] = o[j] /\ i \in 1..Len(o) /\ j \in 1..Len(o)
      BY <1>1, <1>8, <1>10, <2>1, SMTT(30)
    <3>2. QED BY <3>1 DEF Ordered
  <2>2. CASE i > Len(o) /\ j > Len(o)
    <3>1. /\ q[i - Len(o)] = q[j - Len(o)]
          /\ i - Len(o) \in 1..c /\ j - Len(o) \in 1..c
      BY <1>8, <1>10, <2>2
    <3>2. i - Len(o) = j - Len(o)
      BY <3>1 DEF Bijection, Injection, IsInjective, c
    <3>3. QED BY <1>1, <3>2
  <2>3. ~(i <= Len(o) /\ j > Len(o)) /\ ~(i > Len(o) /\ j <= Len(o))
    BY <1>9, <1>10
  <2>4. QED BY <1>1, <2>1, <2>2, <2>3
<1>11. p \in Injection(1..n, 1..n)
  BY <1>8, <1>10 DEF Injection, IsInjective
<1>12. p \in Bijection(1..n, 1..n)
  BY <1>2, <1>11, FS_Injection DEF Bijection
<1>13. QED BY <1>1, <1>8, <1>9, <1>12 DEF p

(* order_records_with_children keeps every page, and a parent comes before *)
(* its child unless it is one of a set of pages that each have a parent in *)
(* the set: the pages of a cycle and behind one.                           *)
LEMMA ChildrenOrder ==
  ASSUME NEW s \in Seq(PageRecords)
  PROVE  \E p \in Bijection(1..Len(s), 1..Len(s)), R \in SUBSET (1..Len(s)) :
           /\ OrderRecordsWithChildren(s) = [k \in 1..Len(s) |-> s[p[k]]]
           /\ \A m \in R : \E h \in R : <<h, m>> \in Edges(s)
           /\ \A a, b \in 1..Len(s) :
                <<p[a], p[b]>> \in Edges(s) => a < b \/ p[a] \in R
<1> DEFINE n == Len(s)
           E == Edges(s)
           o == Emitted(n, E)
           R == (1..n) \ ToSet(o)
           q == Enumerate(R, {e \in (1..n) \X (1..n) : e[1] < e[2]})
           p == o \o q
<1>1. n \in Nat /\ E \in SUBSET ((1..n) \X (1..n))
  BY DEF Edges
<1>2. OrderRecordsWithChildren(s) = [k \in 1..n |-> s[p[k]]]
  BY DEF OrderRecordsWithChildren
<1>3. Ordered(o, n, E) /\ Ready(o, n, E) = {}
  BY <1>1, EmittedOrdered
<1>4. q \in Bijection(1..Cardinality(R), R)
  <2>1. IsFiniteSet(R)
    BY <1>1, Interval, FS_Difference
  <2>2. StrictOrder(R, {e \in (1..n) \X (1..n) : e[1] < e[2]})
    BY <1>1 DEF StrictOrder
  <2>3. QED BY <2>1, <2>2, Enumerated
<1> HIDE DEF n, E, o, q
<1>5. /\ p \in Bijection(1..n, 1..n) /\ Len(o) \in Nat
      /\ \A k \in 1..n : k <= Len(o) => p[k] = o[k]
      /\ \A k \in 1..n : k > Len(o) => p[k] \in R
  BY <1>1, <1>3, <1>4, RestFollows
<1>6. ASSUME NEW m \in R PROVE \E h \in R : <<h, m>> \in E
  <2>1. PICK e \in E : e[2] = m /\ e[1] \notin ToSet(o)
    BY <1>3 DEF Ready
  <2>2. e[1] \in R /\ <<e[1], m>> \in E
    BY <1>1, <2>1
  <2>3. QED BY <2>2
<1> HIDE DEF p
<1>7. ASSUME NEW a \in 1..n, NEW b \in 1..n, <<p[a], p[b]>> \in E, p[a] \notin R
      PROVE  a < b
  <2>1. a <= Len(o) /\ p[a] = o[a]
    BY <1>1, <1>5, <1>7
  <2>2. CASE b > Len(o)
    BY <1>1, <1>5, <2>1, <2>2
  <2>3. CASE b <= Len(o)
    <3>1. b \in 1..Len(o) /\ a \in 1..Len(o) /\ p[b] = o[b]
      BY <1>1, <1>5, <2>1, <2>3
    <3>2. PICK i \in 1..(b - 1) : o[i] = p[a]
      BY <1>3, <1>7, <3>1 DEF Ordered
    <3>3. i \in 1..Len(o) /\ o[i] = o[a]
      BY <1>5, <2>1, <3>1, <3>2
    <3>4. i = a
      BY <1>3, <3>1, <3>3 DEF Ordered
    <3>5. QED BY <3>1, <3>2, <3>4
  <2>4. QED BY <1>1, <1>5, <2>2, <2>3
<1>8. R \in SUBSET (1..n)
  OBVIOUS
<1> HIDE DEF R
<1>9. QED BY <1>2, <1>5, <1>6, <1>7, <1>8 DEF n, E

(* A function on the first n numbers is a sequence of length n.            *)
LEMMA FunctionLen ==
  ASSUME NEW n \in Nat, NEW S, NEW f \in [1..n -> S]
  PROVE  f \in Seq(S) /\ Len(f) = n
<1>1. f \in Seq(S)
  BY SeqDef
<1>2. DOMAIN f = 1..n /\ DOMAIN f = 1..Len(f) /\ Len(f) \in Nat
  BY <1>1, LenProperties
<1>3. QED BY <1>1, <1>2

(* The function reaches each of the first n numbers once.                  *)
ReachesOnce(p, n) ==
  /\ p \in [1..n -> 1..n]
  /\ \A i \in 1..n : \E k \in 1..n : p[k] = i
  /\ \A i, j \in 1..n : p[i] = p[j] => i = j

(* The bijections of the first n numbers are those functions.              *)
LEMMA BijectionIs ==
  ASSUME NEW n, NEW p
  PROVE  p \in Bijection(1..n, 1..n) <=> ReachesOnce(p, n)
<1>1. ASSUME p \in Bijection(1..n, 1..n) PROVE ReachesOnce(p, n)
  BY <1>1 DEF Bijection, Injection, Surjection, IsInjective, ReachesOnce
<1>2. ASSUME ReachesOnce(p, n) PROVE p \in Bijection(1..n, 1..n)
  <2>1. p \in Injection(1..n, 1..n)
    BY <1>2 DEF Injection, IsInjective, ReachesOnce
  <2>2. p \in Surjection(1..n, 1..n)
    BY <1>2 DEF Surjection, ReachesOnce
  <2>3. QED BY <2>1, <2>2 DEF Bijection
<1>3. QED BY <1>1, <1>2

(* The first page declares the second one as a child.                      *)
Declares(r, q) == \E k \in 1..Len(r.children) : Slug(r.children[k].path) = Slug(q.path)

(* Two records that differ in the title at most.                           *)
Alike(r, q) == r.path = q.path /\ r.params = q.params /\ r.children = q.children

(* An edge of the declarations is a page and another one that it declares. *)
LEMMA EdgesAre ==
  ASSUME NEW s, NEW a \in 1..Len(s), NEW b \in 1..Len(s)
  PROVE  <<a, b>> \in Edges(s) <=> a # b /\ Declares(s[a], s[b])
BY DEF Edges, Declares

(* A permutation of the pages has the same pages.                          *)
LEMMA PermutedPages ==
  ASSUME NEW s \in Seq(PageRecords), NEW t, Permuted(s, t)
  PROVE  t \in Seq(PageRecords) /\ Len(t) = Len(s) /\ ToSet(t) = ToSet(s)
<1>1. PICK p \in Bijection(1..Len(s), 1..Len(s)) : t = [k \in 1..Len(s) |-> s[p[k]]]
  BY DEF Permuted
<1>2. p \in [1..Len(s) -> 1..Len(s)] /\ \A i \in 1..Len(s) : \E k \in 1..Len(s) : p[k] = i
  BY DEF Bijection, Surjection
<1>3. t \in [1..Len(s) -> PageRecords] /\ Len(s) \in Nat
  BY <1>1, <1>2
<1>4. t \in Seq(PageRecords) /\ Len(t) = Len(s)
  BY <1>3, FunctionLen
<1>5. ASSUME NEW x PROVE x \in ToSet(t) <=> x \in ToSet(s)
  <2>1. x \in ToSet(t) <=> \E i \in 1..Len(s) : t[i] = x
    BY <1>4, ToSetIs
  <2>2. x \in ToSet(s) <=> \E i \in 1..Len(s) : s[i] = x
    BY ToSetIs
  <2>3. (\E i \in 1..Len(s) : t[i] = x) <=> \E i \in 1..Len(s) : s[i] = x
    BY <1>1, <1>2
  <2>4. QED BY <2>1, <2>2, <2>3
<1>6. QED BY <1>4, <1>5

(* apply_children_overrides changes titles only.                           *)
LEMMA OverridesTitles ==
  ASSUME NEW s \in Seq(PageRecords)
  PROVE  /\ Len(ApplyChildrenOverrides(s)) = Len(s)
         /\ \E S : ApplyChildrenOverrides(s) \in Seq(S)
         /\ \A i \in 1..Len(s) : Alike(ApplyChildrenOverrides(s)[i], s[i])
<1> DEFINE n == Len(s)
           t == ApplyChildrenOverrides(s)
<1>1. n \in Nat /\ \A i \in 1..n : s[i] \in PageRecords
  OBVIOUS
<1>2. \A r \in PageRecords : \A x : Alike([r EXCEPT !.title = x], r) /\ Alike(r, r)
  BY SMTT(30) DEF PageRecords, Alike
<1>3. /\ t = [i \in 1..n |-> t[i]]
      /\ \A i \in 1..n : t[i] = s[i] \/ \E x : t[i] = [s[i] EXCEPT !.title = x]
  BY Zenon DEF ApplyChildrenOverrides
<1> HIDE DEF t, n
<1>4. \A i \in 1..n : Alike(t[i], s[i])
  BY <1>1, <1>2, <1>3, ZenonT(40)
<1>5. t \in [1..n -> {t[i] : i \in 1..n}]
  BY <1>3
<1>6. Len(t) = n /\ t \in Seq({t[i] : i \in 1..n})
  BY <1>1, <1>5, FunctionLen
<1>7. QED BY <1>4, <1>6 DEF t, n

(* The records of the sidebar are the registered pages, each once, and     *)
(* parents precede their children unless a cycle is above them.            *)
LEMMA NavRecordsOrder ==
  ASSUME NEW w, w.order \in Seq(Texts), NEW s \in Seq(PageRecords),
         NEW n, n = Len(s), NEW t, t = NavRecords(w, s)
  PROVE  /\ Len(t) = n /\ \E S : t \in Seq(S)
         /\ \E p \in Bijection(1..n, 1..n) : \A k \in 1..n : Alike(t[k], s[p[k]])
         /\ \E R \in SUBSET (1..n) :
              /\ \A m \in R : \E h \in R : <<h, m>> \in Edges(t)
              /\ \A e \in Edges(t) : e[1] < e[2] \/ e[1] \in R
<1> DEFINE u == NavSorted(w, s)
           v == OrderRecordsWithChildren(u)
<1>1. t = ApplyChildrenOverrides(v)
  BY DEF NavRecords
<1>2. Permuted(s, u)
  BY NavigationSort
<1> HIDE DEF u
<1>3. u \in Seq(PageRecords) /\ Len(u) = n
  BY <1>2, PermutedPages
<1>4. PICK p1 \in Bijection(1..n, 1..n) : u = [k \in 1..n |-> s[p1[k]]]
  BY <1>2 DEF Permuted
<1>5. PICK p2 \in Bijection(1..n, 1..n), R2 \in SUBSET (1..n) :
        /\ v = [k \in 1..n |-> u[p2[k]]]
        /\ \A m \in R2 : \E h \in R2 : <<h, m>> \in Edges(u)
        /\ \A a, b \in 1..n : <<p2[a], p2[b]>> \in Edges(u) => a < b \/ p2[a] \in R2
  BY <1>3, ChildrenOrder
<1> HIDE DEF v
<1>6. v \in Seq(PageRecords) /\ Len(v) = n
  <2>1. Permuted(u, v)
    BY <1>3, <1>5 DEF Permuted
  <2>2. QED BY <1>3, <2>1, PermutedPages
<1>7. Len(t) = n /\ (\E S : t \in Seq(S)) /\ \A k \in 1..n : Alike(t[k], v[k])
  BY <1>1, <1>6, OverridesTitles
<1>8. /\ p1 \in [1..n -> 1..n] /\ \A i \in 1..n : \E k \in 1..n : p1[k] = i
      /\ \A i, j \in 1..n : p1[i] = p1[j] => i = j
      /\ p2 \in [1..n -> 1..n] /\ \A i \in 1..n : \E k \in 1..n : p2[k] = i
      /\ \A i, j \in 1..n : p2[i] = p2[j] => i = j
  <2>1. ReachesOnce(p1, n)
    BY BijectionIs
  <2>2. ReachesOnce(p2, n)
    BY BijectionIs
  <2>3. QED BY <2>1, <2>2 DEF ReachesOnce
<1>9. \A k \in 1..n : Alike(t[k], u[p2[k]])
  BY <1>5, <1>7
<1>10. \E p \in Bijection(1..n, 1..n) : \A k \in 1..n : Alike(t[k], s[p[k]])
  <2> DEFINE p == [k \in 1..n |-> p1[p2[k]]]
  <2>1. p \in [1..n -> 1..n]
    BY <1>8
  <2>2. ASSUME NEW i \in 1..n, NEW j \in 1..n, p[i] = p[j] PROVE i = j
    <3>1. p2[i] \in 1..n /\ p2[j] \in 1..n /\ p1[p2[i]] = p1[p2[j]]
      BY <1>8, <2>2
    <3>2. \A x, y \in 1..n : p1[x] = p1[y] => x = y
      BY <1>8
    <3>3. p2[i] = p2[j]
      BY <3>1, <3>2
    <3>4. QED BY <1>8, <3>3
  <2>3. ASSUME NEW i \in 1..n PROVE \E k \in 1..n : p[k] = i
    <3>1. PICK j \in 1..n : p1[j] = i
      BY <1>8
    <3>2. PICK k \in 1..n : p2[k] = j
      BY <1>8
    <3>3. QED BY <3>1, <3>2
  <2>4. \A k \in 1..n : Alike(t[k], s[p[k]])
    BY <1>4, <1>8, <1>9
  <2> HIDE DEF p
  <2>5. p \in Bijection(1..n, 1..n)
    <3>1. ReachesOnce(p, n)
      BY <2>1, <2>2, <2>3 DEF ReachesOnce
    <3>2. QED BY <3>1, BijectionIs
  <2>6. QED BY <2>4, <2>5
<1>11. \A a, b \in 1..n : <<a, b>> \in Edges(t) <=> <<p2[a], p2[b]>> \in Edges(u)
  <2> SUFFICES ASSUME NEW a \in 1..n, NEW b \in 1..n
               PROVE  <<a, b>> \in Edges(t) <=> <<p2[a], p2[b]>> \in Edges(u)
    OBVIOUS
  <2>1. <<a, b>> \in Edges(t) <=> a # b /\ Declares(t[a], t[b])
    BY <1>7, EdgesAre
  <2>2. <<p2[a], p2[b]>> \in Edges(u) <=> p2[a] # p2[b] /\ Declares(u[p2[a]], u[p2[b]])
    BY <1>3, <1>8, EdgesAre
  <2>3. Declares(t[a], t[b]) <=> Declares(u[p2[a]], u[p2[b]])
    BY <1>9 DEF Declares, Alike
  <2>4. QED BY <1>8, <2>1, <2>2, <2>3
<1>12. \E R \in SUBSET (1..n) :
         /\ \A m \in R : \E h \in R : <<h, m>> \in Edges(t)
         /\ \A e \in Edges(t) : e[1] < e[2] \/ e[1] \in R
  <2> DEFINE R == {k \in 1..n : p2[k] \in R2}
  <2>1. ASSUME NEW m \in R PROVE \E h \in R : <<h, m>> \in Edges(t)
    <3>1. PICK h2 \in R2 : <<h2, p2[m]>> \in Edges(u)
      BY <1>5
    <3>2. PICK h \in 1..n : p2[h] = h2
      BY <1>8
    <3>3. QED BY <1>11, <3>1, <3>2
  <2>2. ASSUME NEW e \in Edges(t) PROVE e[1] < e[2] \/ e[1] \in R
    <3>1. e[1] \in 1..n /\ e[2] \in 1..n /\ e = <<e[1], e[2]>>
      BY <1>7 DEF Edges
    <3>2. <<p2[e[1]], p2[e[2]]>> \in Edges(u)
      BY <1>11, <3>1
    <3>3. QED BY <1>5, <3>1, <3>2
  <2>3. R \in SUBSET (1..n)
    OBVIOUS
  <2> HIDE DEF R
  <2>4. QED BY <2>1, <2>2, <2>3
<1>13. QED BY <1>7, <1>10, <1>12
-----------------------------------------------------------------------------
(* No two pages have the same slug.                                        *)
Apart(s) == \A i, j \in 1..Len(s) : Slug(s[i].path) = Slug(s[j].path) => i = j

(* The registry: what every import starts from and what it has registered. *)
Registry ==
  /\ SettingFields \cup PageFields \subseteq DOMAIN world
  /\ world.script \in Seq(PageRecords) /\ world.found \in Seq(PageRecords)
  /\ world.order \in Seq(Texts)
  /\ pages \in Seq(PageRecords) /\ left \in Seq(PageRecords)
  /\ Apart(pages)

(* During a command every registered page has passed the checks of its     *)
(* signature.                                                              *)
Accepted(r, w) ==
  /\ "strict_page_signatures" \in w.on => ValidateStrictPageSignature(r)
  /\ ValidateSessionStoreOnPage(r, w)

Checked == pc # "shell" => \A r \in ToSet(pages) : Accepted(r, world)

(* The pages an import has to get through: those at module level, and the  *)
(* discovered ones unless the application goes on when discovery fails.    *)
Due(w) ==
  ToSet(w.script)
    \cup (IF "discover_pages" \in w.on /\ "discovery_guarded" \notin w.on
            THEN ToSet(w.found) ELSE {})

(* How far the import is.                                                  *)
Progress ==
  /\ pc = "register" => /\ ToSet(left) \subseteq ToSet(world.script)
                        /\ ToSet(world.script) \subseteq ToSet(pages) \cup ToSet(left)
  /\ pc = "discover" => /\ "discover_pages" \in world.on
                        /\ ToSet(left) \subseteq ToSet(world.found)
                        /\ ToSet(world.script) \subseteq ToSet(pages)
                        /\ ToSet(world.found) \subseteq ToSet(pages) \cup ToSet(left)
  /\ Built /\ pc = "body" => Due(world) \subseteq ToSet(pages)
  /\ pc # "shell" /\ fault # "none" => pc = "body" /\ cmd.name = "doctor"

(* Once pages validate --strict has passed, every page due has a strict    *)
(* signature.                                                              *)
Vetted ==
  "validate" \in passed =>
    fault # "signature" /\ \A r \in Due(world) : ValidateStrictPageSignature(r)

(* The page that is switched to.                                           *)
SwitchedTo(wanted, records) ==
  IF records = <<>> THEN NoPage
  ELSE IF MatchNavPage(wanted, records) = 0 THEN 1
  ELSE Min({i \in 1..Len(records) :
              Slug(records[i].path) = Slug(records[MatchNavPage(wanted, records)].path)})

(* A page is shown while a gateway runs, with the registry and the         *)
(* settings it was opened with.                                            *)
Shown ==
  /\ pc # "shell" => opened = NoPage /\ outcome = "none"
  /\ pc # "shell" /\ cmd.name = "open" => gateway # NoGateway
  /\ opened # NoPage \/ outcome # "none" => gateway # NoGateway
  /\ opened # NoPage => nav = NavRecords(world, pages) /\ opened = SwitchedTo(cmd.wanted, nav)
  /\ StrictPageRuns

(* One registration keeps the slugs apart.                                 *)
LEMMA RegisterOne ==
  ASSUME NEW s \in Seq(PageRecords), Apart(s), NEW r \in PageRecords, NEW w,
         RegisterFault(r, s, w) = "none"
  PROVE  /\ Append(s, r) \in Seq(PageRecords) /\ Apart(Append(s, r))
         /\ ToSet(Append(s, r)) = ToSet(s) \cup {r} /\ Accepted(r, w)
<1> DEFINE t == Append(s, r)
<1>1. Accepted(r, w) /\ Free(r, s)
  BY DEF RegisterFault, Accepted
<1>2. /\ t \in Seq(PageRecords) /\ Len(s) \in Nat /\ Len(t) = Len(s) + 1
      /\ t[Len(s) + 1] = r /\ \A i \in 1..Len(s) : t[i] = s[i]
  OBVIOUS
<1> HIDE DEF t
<1>3. ASSUME NEW i \in 1..Len(t), NEW j \in 1..Len(t), Slug(t[i].path) = Slug(t[j].path)
      PROVE  i = j
  <2>1. CASE i \in 1..Len(s) /\ j \in 1..Len(s)
    BY <1>2, <1>3, <2>1 DEF Apart
  <2>2. CASE i = Len(s) + 1 /\ j \in 1..Len(s)
    BY <1>1, <1>2, <1>3, <2>2 DEF Free
  <2>3. CASE j = Len(s) + 1 /\ i \in 1..Len(s)
    BY <1>1, <1>2, <1>3, <2>3 DEF Free
  <2>4. QED BY <1>2, <2>1, <2>2, <2>3
<1>4. ASSUME NEW x PROVE x \in ToSet(t) <=> x \in ToSet(s) \cup {r}
  <2>1. x \in ToSet(t) <=> \E i \in 1..Len(t) : t[i] = x
    BY <1>2, ToSetIs
  <2>2. x \in ToSet(s) <=> \E i \in 1..Len(s) : s[i] = x
    BY ToSetIs
  <2>3. \A i \in 1..Len(t) : i \in 1..Len(s) \/ i = Len(s) + 1
    BY <1>2
  <2>4. Len(s) + 1 \in 1..Len(t) /\ \A i \in 1..Len(s) : i \in 1..Len(t)
    BY <1>2
  <2>5. QED BY <1>2, <2>1, <2>2, <2>3, <2>4
<1>5. QED BY <1>1, <1>2, <1>3, <1>4 DEF t, Apart

(* Taking the next page from the list.                                     *)
LEMMA TakeOne ==
  ASSUME NEW S, NEW s \in Seq(S), s # <<>>
  PROVE  /\ Head(s) \in S /\ Tail(s) \in Seq(S)
         /\ ToSet(s) = ToSet(Tail(s)) \cup {Head(s)}
<1> DEFINE t == Tail(s)
<1>1. /\ Head(s) = s[1] /\ Len(s) \in Nat \ {0} /\ Head(s) \in S /\ t \in Seq(S)
      /\ Len(t) = Len(s) - 1 /\ \A i \in 1..Len(t) : t[i] = s[i + 1]
  BY HeadTailProperties, EmptySeq
<1> HIDE DEF t
<1>2. ASSUME NEW x PROVE x \in ToSet(s) <=> x \in ToSet(t) \cup {Head(s)}
  <2>1. x \in ToSet(t) <=> \E i \in 1..Len(t) : t[i] = x
    BY <1>1, ToSetIs
  <2>2. x \in ToSet(s) <=> \E i \in 1..Len(s) : s[i] = x
    BY ToSetIs
  <2>3. \A i \in 1..Len(s) : i = 1 \/ (i - 1 \in 1..Len(t) /\ t[i - 1] = s[i])
    BY <1>1
  <2>4. 1 \in 1..Len(s) /\ \A i \in 1..Len(t) : i + 1 \in 1..Len(s) /\ t[i] = s[i + 1]
    BY <1>1
  <2>5. QED BY <1>1, <2>1, <2>2, <2>3, <2>4, ZenonT(40)
<1>3. QED BY <1>1, <1>2 DEF t

(* A permutation of pages with different slugs has different slugs.        *)
LEMMA PermutedApart ==
  ASSUME NEW s, NEW t, Permuted(s, t), Apart(s), Len(t) = Len(s)
  PROVE  Apart(t)
<1>1. PICK p \in Bijection(1..Len(s), 1..Len(s)) : t = [k \in 1..Len(s) |-> s[p[k]]]
  BY DEF Permuted
<1>2. /\ p \in [1..Len(s) -> 1..Len(s)]
      /\ \A i, j \in 1..Len(s) : p[i] = p[j] => i = j
  BY BijectionIs DEF ReachesOnce
<1>3. QED BY <1>1, <1>2 DEF Apart

(* The commands that end without opening a page.                           *)
Ends ==
  \/ RefuseScope \/ Serve \/ ServeAsgi \/ Doctor \/ Config
  \/ PagesValidate \/ PagesManifest \/ Build \/ New

(* A command that ends leaves the registry and the settings as they are.   *)
LEMMA EndsLeave ==
  ASSUME Ends
  PROVE  /\ pc # "shell" /\ pc' = "shell"
         /\ UNCHANGED <<world, cmd, left, pages, fault, nav, opened, outcome>>
BY DEF Ends, RefuseScope, Serve, ServeAsgi, Doctor, Config, PagesValidate, PagesManifest,
   Build, New, Exits, Body, appVars, pageVars

(* Opening a page changes what is shown and nothing else.                  *)
LEMMA OpenLeaves ==
  ASSUME Open
  PROVE  /\ pc = "body" /\ cmd.name = "open" /\ pc' = "shell"
         /\ UNCHANGED <<world, cmd, left, pages, fault, gateway, passed>>
BY DEF Open, Exits, Body, appVars, serving

(* The strict settings are turned on: the pages are the same.              *)
LEMMA HardenLeaves ==
  ASSUME Registry, Harden
  PROVE  /\ pc = "shell" /\ gateway = NoGateway
         /\ UNCHANGED <<pc, cmd, left, pages, fault, nav, opened, outcome, passed, gateway>>
         /\ DOMAIN world' = DOMAIN world
         /\ world'.script = world.script /\ world'.found = world.found
         /\ world'.order = world.order
         /\ world'.on = world.on \cup {"strict_startup", "strict_page_signatures"}
BY DEF Registry, SettingFields, PageFields, Harden, appVars, serving, pageVars

(* Every step keeps the registry's types and its slugs apart: a page is    *)
(* registered only under a path that is free.                              *)
LEMMA RegistryKept == ASSUME Registry, [Next]_vars PROVE Registry'
<1> DEFINE Same == UNCHANGED <<world, pages, left>>
<1>1. Same => Registry'
  BY DEF Registry
<1>2. ASSUME NEW c \in menu, Invoke(c) PROVE Registry'
  <2>1. world' = world /\ pages' = <<>> /\ left' = <<>>
    BY <1>2 DEF Invoke
  <2>2. <<>> \in Seq(PageRecords) /\ Apart(<<>>)
    BY DEF Apart
  <2>3. QED BY <2>1, <2>2 DEF Registry
<1>3. CASE Ends
  BY <1>1, <1>3, EndsLeave
<1>4. CASE Import
  BY <1>4 DEF Import, Registry, Raises, Exits
<1>5. ASSUME RegisterPage \/ DiscoverModule PROVE Registry'
  <2>1. world' = world /\ left # <<>>
    BY <1>5 DEF RegisterPage, DiscoverModule
  <2>2. CASE Same
    BY <1>1, <2>2
  <2>3. CASE ~Same
    <3>1. /\ RegisterFault(Head(left), pages, world) = "none"
          /\ pages' = Append(pages, Head(left)) /\ left' = Tail(left)
      BY <1>5, <2>3 DEF RegisterPage, DiscoverModule, Registers
    <3>2. Head(left) \in PageRecords /\ left' \in Seq(PageRecords)
      BY <2>1, <3>1, TakeOne DEF Registry
    <3>3. pages' \in Seq(PageRecords) /\ Apart(pages')
      BY <3>1, <3>2, RegisterOne DEF Registry
    <3>4. QED BY <2>1, <3>2, <3>3 DEF Registry, Apart
  <2>4. QED BY <2>2, <2>3
<1>6. CASE DiscoverBegins
  BY <1>6 DEF DiscoverBegins, Registry, Raises, Exits
<1>7. CASE DiscoverEnds
  <2>1. world' = world /\ left' = left /\ pages' = SortedBy(pages, PathTitleLess)
    BY <1>7 DEF DiscoverEnds
  <2>2. Permuted(pages, SortedBy(pages, PathTitleLess))
    BY DiscoverySort DEF Registry
  <2>3. Permuted(pages, pages')
    BY <2>1, <2>2
  <2>4. pages' \in Seq(PageRecords) /\ Len(pages') = Len(pages)
    BY <2>3, PermutedPages DEF Registry
  <2>5. Apart(pages')
    BY <2>3, <2>4, PermutedApart DEF Registry
  <2>6. QED BY <2>1, <2>4, <2>5 DEF Registry, Apart
<1>8. CASE Stop
  BY <1>1, <1>8 DEF Stop, appVars
<1>9. CASE Open
  BY <1>1, <1>9, OpenLeaves
<1>10. CASE Harden
  BY <1>10, HardenLeaves DEF Registry
<1>11. CASE UNCHANGED vars
  BY <1>1, <1>11 DEF vars, appVars
<1>12. QED
  BY <1>2, <1>3, <1>4, <1>5, <1>6, <1>7, <1>8, <1>9, <1>10, <1>11 DEF Next, Ends

(* Every step keeps the registered pages checked: a page is registered     *)
(* after its checks, under settings that only change back in the shell.    *)
LEMMA CheckedKept == ASSUME Registry, Checked, [Next]_vars PROVE Checked'
<1>1. ASSUME UNCHANGED <<world, pages>>, pc # "shell" PROVE Checked'
  BY <1>1 DEF Checked
<1>2. pc' = "shell" => Checked'
  BY DEF Checked
<1>3. ASSUME NEW c \in menu, Invoke(c) PROVE Checked'
  <2>1. pages' = <<>>
    BY <1>3 DEF Invoke
  <2>2. ToSet(<<>>) = {}
    BY DEF ToSet
  <2>3. QED BY <2>1, <2>2 DEF Checked
<1>4. CASE Ends
  BY <1>2, <1>4, EndsLeave
<1>5. ASSUME Import \/ DiscoverBegins PROVE Checked'
  BY <1>1, <1>5 DEF Import, DiscoverBegins
<1>6. ASSUME RegisterPage \/ DiscoverModule PROVE Checked'
  <2>1. world' = world /\ left # <<>> /\ pc # "shell"
    BY <1>6 DEF RegisterPage, DiscoverModule
  <2>2. CASE pages' = pages
    BY <1>1, <2>1, <2>2
  <2>3. CASE pages' # pages
    <3>1. /\ RegisterFault(Head(left), pages, world) = "none"
          /\ pages' = Append(pages, Head(left))
      BY <1>6, <2>3 DEF RegisterPage, DiscoverModule, Registers
    <3>2. Head(left) \in PageRecords
      BY <2>1, TakeOne DEF Registry
    <3>3. ToSet(pages') = ToSet(pages) \cup {Head(left)} /\ Accepted(Head(left), world)
      BY <3>1, <3>2, RegisterOne DEF Registry
    <3>4. QED BY <2>1, <3>3 DEF Checked
  <2>4. QED BY <2>2, <2>3
<1>7. CASE DiscoverEnds
  <2>1. world' = world /\ pc # "shell" /\ pages' = SortedBy(pages, PathTitleLess)
    BY <1>7 DEF DiscoverEnds
  <2>2. Permuted(pages, SortedBy(pages, PathTitleLess))
    BY DiscoverySort DEF Registry
  <2>3. Permuted(pages, pages')
    BY <2>1, <2>2
  <2>4. ToSet(pages') = ToSet(pages)
    BY <2>3, PermutedPages DEF Registry
  <2>5. QED BY <2>1, <2>4 DEF Checked
<1>8. ASSUME Stop \/ Open \/ Harden PROVE Checked'
  BY <1>2, <1>8 DEF Stop, Open, Harden, Exits
<1>9. CASE UNCHANGED vars
  BY <1>9 DEF Checked, vars, appVars
<1>10. QED
  BY <1>3, <1>4, <1>5, <1>6, <1>7, <1>8, <1>9 DEF Next, Ends

(* The empty sequence has no members.                                      *)
LEMMA EmptySet == ToSet(<<>>) = {}
BY DEF ToSet

(* A failed import leaves a loaded application to no command.              *)
LEMMA RaisesKept ==
  ASSUME NEW f, f # "none", Raises(f), UNCHANGED cmd
  PROVE  Progress'
BY DEF Raises, Exits, Progress, Built

(* Every step keeps the account of how far the import is.                  *)
LEMMA ProgressKept == ASSUME Registry, Progress, [Next]_vars PROVE Progress'
<1>1. pc' = "shell" => Progress'
  BY DEF Progress, Built
<1>2. ASSUME NEW c \in menu, Invoke(c) PROVE Progress'
  BY <1>2 DEF Invoke, Progress, Built
<1>3. CASE Ends
  BY <1>1, <1>3, EndsLeave
<1>4. CASE Import
  <2>1. cmd' = cmd /\ world' = world /\ fault = "none"
    BY <1>4 DEF Import, Progress
  <2>2. CASE Raises("target") \/ Raises("settings")
    BY <2>1, <2>2, RaisesKept
  <2>3. CASE pc' = "register" /\ left' = world.script /\ fault' = fault
    BY <2>1, <2>3 DEF Progress, Built
  <2>4. QED BY <1>4, <2>2, <2>3 DEF Import
<1>5. ASSUME RegisterPage \/ DiscoverModule PROVE Progress'
  <2> DEFINE f == RegisterFault(Head(left), pages, world)
  <2>1. /\ cmd' = cmd /\ world' = world /\ fault = "none" /\ left # <<>>
        /\ pc \in {"register", "discover"}
    BY <1>5 DEF RegisterPage, DiscoverModule, Progress
  <2>2. Head(left) \in PageRecords /\ ToSet(left) = ToSet(Tail(left)) \cup {Head(left)}
    BY <2>1, TakeOne DEF Registry
  <2>3. CASE f = "none"
    <3>1. /\ pages' = Append(pages, Head(left)) /\ left' = Tail(left)
          /\ pc' = pc /\ fault' = fault
      BY <1>5, <2>3 DEF RegisterPage, DiscoverModule, Registers
    <3>2. ToSet(pages') = ToSet(pages) \cup {Head(left)}
      BY <2>2, <2>3, <3>1, RegisterOne DEF Registry
    <3>3. QED BY <2>1, <2>2, <3>1, <3>2 DEF Progress, Built
  <2>4. CASE f # "none" /\ Raises(f)
    <3> HIDE DEF f
    <3> QED BY <2>1, <2>4, RaisesKept
  <2>5. CASE /\ pc = "discover" /\ "discovery_guarded" \in world.on /\ pc' = "body"
             /\ pages' = pages /\ fault' = fault
    BY <2>1, <2>5 DEF Progress, Built, Due
  <2>6. QED BY <1>5, <2>3, <2>4, <2>5 DEF RegisterPage, DiscoverModule
<1>6. CASE DiscoverBegins
  <2>1. /\ cmd' = cmd /\ world' = world /\ pages' = pages /\ fault = "none"
        /\ pc = "register" /\ ToSet(left) = {}
    BY <1>6, EmptySet DEF DiscoverBegins, Progress
  <2>2. CASE Raises("discover")
    BY <2>1, <2>2, RaisesKept
  <2>3. CASE "discover_pages" \notin world.on /\ pc' = "body" /\ fault' = fault
    BY <2>1, <2>3 DEF Progress, Built, Due
  <2>4. CASE /\ "discover_pages" \in world.on /\ pc' = "discover"
             /\ left' = world.found /\ fault' = fault
    BY <2>1, <2>4 DEF Progress, Built
  <2>5. QED BY <1>6, <2>2, <2>3, <2>4 DEF DiscoverBegins
<1>7. CASE DiscoverEnds
  <2>1. /\ cmd' = cmd /\ world' = world /\ fault' = fault /\ fault = "none"
        /\ pc = "discover" /\ pc' = "body" /\ ToSet(left) = {}
        /\ pages' = SortedBy(pages, PathTitleLess)
    BY <1>7, EmptySet DEF DiscoverEnds, Progress
  <2>2. Permuted(pages, SortedBy(pages, PathTitleLess))
    BY DiscoverySort DEF Registry
  <2>3. Permuted(pages, pages')
    BY <2>1, <2>2
  <2>4. ToSet(pages') = ToSet(pages)
    BY <2>3, PermutedPages DEF Registry
  <2>5. QED BY <2>1, <2>4 DEF Progress, Built, Due
<1>8. ASSUME Stop \/ Open \/ Harden PROVE Progress'
  BY <1>1, <1>8 DEF Stop, Open, Harden, Exits
<1>9. CASE UNCHANGED vars
  BY <1>9 DEF Progress, Built, vars, appVars
<1>10. QED
  BY <1>2, <1>3, <1>4, <1>5, <1>6, <1>7, <1>8, <1>9 DEF Next, Ends

(* The pages to get through are settled with the project.                  *)
LEMMA DueKept == ASSUME Registry, Harden PROVE Due(world') = Due(world)
<1>1. /\ world'.script = world.script /\ world'.found = world.found
      /\ world'.on = world.on \cup {"strict_startup", "strict_page_signatures"}
  BY HardenLeaves
<1>2. QED BY <1>1 DEF Due

(* Every step keeps what pages validate --strict has established:          *)

(* hardening changes neither the pages nor what discovery takes in.        *)
LEMMA VettedKept == ASSUME Registry, Progress, Vetted, [Next]_vars PROVE Vetted'
<1>1. ASSUME world' = world, passed' = passed, fault' # "signature" PROVE Vetted'
  BY <1>1 DEF Vetted
<1>2. ASSUME world' = world, passed' = passed, fault' = fault PROVE Vetted'
  BY <1>2 DEF Vetted
<1>3. ASSUME NEW c \in menu, Invoke(c) PROVE Vetted'
  BY <1>1, <1>3 DEF Invoke
<1>4. ASSUME Ends, ~PagesValidate, ~Doctor PROVE Vetted'
  <2>1. passed' = passed
    BY <1>4 DEF Ends, RefuseScope, Serve, ServeAsgi, Config, PagesManifest, Build, New
  <2>2. QED BY <1>2, <1>4, <2>1, EndsLeave
<1>5. CASE Doctor
  <2>1. "validate" \in passed' <=> "validate" \in passed
    BY <1>5 DEF Doctor, Body, Preflight
  <2>2. world' = world /\ fault' = fault
    BY <1>5 DEF Doctor, appVars
  <2>3. QED BY <2>1, <2>2 DEF Vetted
<1>6. CASE PagesValidate
  <2>1. world' = world /\ fault' = fault /\ pc = "body" /\ cmd.name = "validate"
    BY <1>6 DEF PagesValidate, Body, appVars
  <2>2. fault = "none" /\ Due(world) \subseteq ToSet(pages)
    BY <2>1 DEF Progress, Built
  <2>3. ASSUME "validate" \in passed', "validate" \notin passed
        PROVE  \A r \in ToSet(pages) : ValidateStrictPageSignature(r)
    <3>1. cmd.strict /\ ~PageErrors(pages, cmd.strict \/ "strict_page_signatures" \in world.on)
      BY <1>6, <2>3 DEF PagesValidate, Preflight
    <3>2. \A i \in 1..Len(pages) : ValidateStrictPageSignature(pages[i])
      BY <3>1 DEF PageErrors
    <3>3. QED BY <3>2, ToSetIs DEF Registry
  <2>4. QED BY <2>1, <2>2, <2>3 DEF Vetted
<1>7. CASE Import
  BY <1>1, <1>2, <1>7 DEF Import, Raises
<1>8. ASSUME RegisterPage \/ DiscoverModule PROVE Vetted'
  <2> DEFINE f == RegisterFault(Head(left), pages, world)
  <2>1. world' = world /\ passed' = passed /\ left # <<>>
    BY <1>8 DEF RegisterPage, DiscoverModule
  <2>2. CASE fault' = fault
    BY <1>2, <2>1, <2>2
  <2>3. CASE fault' # fault
    <3>1. fault' = f /\ (DiscoverModule => "discovery_guarded" \notin world.on)
      BY <1>8, <2>3 DEF RegisterPage, DiscoverModule, Registers, Raises
    <3>2. Head(left) \in ToSet(left)
      BY <2>1, TakeOne DEF Registry
    <3>3. Head(left) \in Due(world)
      BY <1>8, <3>1, <3>2 DEF RegisterPage, DiscoverModule, Progress, Due
    <3>4. "validate" \in passed => f # "signature"
      BY <3>3 DEF Vetted, RegisterFault
    <3>5. QED BY <2>1, <3>1, <3>4 DEF Vetted
  <2>4. QED BY <2>2, <2>3
<1>9. CASE DiscoverBegins
  BY <1>1, <1>2, <1>9 DEF DiscoverBegins, Raises
<1>10. CASE DiscoverEnds
  BY <1>2, <1>10 DEF DiscoverEnds
<1>11. CASE Stop
  BY <1>2, <1>11 DEF Stop, appVars
<1>12. CASE Open
  BY <1>2, <1>12, OpenLeaves
<1>13. CASE Harden
  BY <1>13, DueKept, HardenLeaves DEF Vetted
<1>14. CASE UNCHANGED vars
  BY <1>2, <1>14 DEF vars, appVars
<1>15. QED
  BY <1>3, <1>4, <1>5, <1>6, <1>7, <1>8, <1>9, <1>10, <1>11, <1>12, <1>13, <1>14
     DEF Next, Ends

(* A page is switched to among the records.                                *)
LEMMA MatchInRange ==
  ASSUME NEW wanted, NEW t, Len(t) \in Nat
  PROVE  LET hits == {i \in 1..Len(t) : Matches(wanted, t[i])}
         IN  /\ MatchNavPage(wanted, t) # 0 => MatchNavPage(wanted, t) \in hits
             /\ Strip(wanted) # Empty /\ hits # {} => MatchNavPage(wanted, t) \in hits
<1> DEFINE hits == {i \in 1..Len(t) : Matches(wanted, t[i])}
<1>1. hits \in SUBSET Nat
  OBVIOUS
<1>2. MatchNavPage(wanted, t) = IF Strip(wanted) = Empty \/ hits = {} THEN 0 ELSE Min(hits)
  BY DEF MatchNavPage
<1> HIDE DEF hits
<1>3. hits # {} => Min(hits) \in hits
  BY <1>1, MinNat
<1>4. /\ MatchNavPage(wanted, t) # 0 => MatchNavPage(wanted, t) \in hits
      /\ Strip(wanted) # Empty /\ hits # {} => MatchNavPage(wanted, t) \in hits
  BY <1>2, <1>3
<1>5. QED BY <1>4 DEF hits

(* A match leads to a place in the sidebar with the slug of the page that  *)
(* was matched.                                                            *)
LEMMA SwitchInRange ==
  ASSUME NEW wanted, NEW t, Len(t) \in Nat, NEW m, m = MatchNavPage(wanted, t), m # 0
  PROVE  /\ m \in 1..Len(t) /\ Matches(wanted, t[m])
         /\ SwitchedTo(wanted, t) \in 1..Len(t) \/ t = <<>>
         /\ t # <<>> => Slug(t[SwitchedTo(wanted, t)].path) = Slug(t[m].path)
<1> DEFINE same == {i \in 1..Len(t) : Slug(t[i].path) = Slug(t[m].path)}
<1>1. m \in 1..Len(t) /\ Matches(wanted, t[m])
  BY MatchInRange
<1>2. same \in SUBSET Nat /\ same # {}
  BY <1>1
<1>3. t # <<>> => SwitchedTo(wanted, t) = Min(same)
  BY DEF SwitchedTo
<1> HIDE DEF same
<1>4. Min(same) \in same
  BY <1>2, MinNat
<1>5. t # <<>> => SwitchedTo(wanted, t) \in same
  BY <1>3, <1>4
<1>6. QED BY <1>1, <1>5 DEF same

(* A page with a strict signature gets its arguments.                      *)
LEMMA StrictPageGetsArguments ==
  ASSUME NEW r, NEW w, ValidateStrictPageSignature(r), ValidateSessionStoreOnPage(r, w),
         NEW x \in PageOutcomes(r, w)
  PROVE  x \notin {"missing_argument", "annotations"}
<1>1. /\ r.params \cap {"depends_nothing", "plain", "foreign", "unresolved"} = {}
      /\ "store" \in r.params => "session_store" \in w.on
  BY DEF ValidateStrictPageSignature, ValidateSessionStoreOnPage, Injected, Marked, Named
<1>2. (r.params \cap {"store", "depends_nothing", "plain", "foreign"}) \ Resolved(r, w) = {}
  BY <1>1 DEF Resolved
<1>3. CallOutcome(r, w) # "missing_argument" /\ CallOutcome(r, w) # "annotations"
  BY <1>2 DEF CallOutcome
<1>4. QED BY <1>1, <1>3 DEF PageOutcomes, DependsFailures

(* The page that opens is one of the registered ones.                      *)
LEMMA OpenedIsRegistered ==
  ASSUME Registry, NEW t, t = NavRecords(world, pages), t # <<>>, NEW wanted
  PROVE  /\ SwitchedTo(wanted, t) \in 1..Len(t)
         /\ \E r \in ToSet(pages) : Alike(t[SwitchedTo(wanted, t)], r)
<1> DEFINE n == Len(pages)
           k == SwitchedTo(wanted, t)
<1>1. pages \in Seq(PageRecords) /\ n \in Nat /\ world.order \in Seq(Texts)
  BY DEF Registry
<1>2. Len(t) = n /\ \E S : t \in Seq(S)
  BY <1>1, NavRecordsOrder
<1>3. PICK p \in Bijection(1..n, 1..n) : \A i \in 1..n : Alike(t[i], pages[p[i]])
  BY <1>1, NavRecordsOrder
<1>4. n # 0
  <2>1. PICK S : t \in Seq(S)
    BY <1>2
  <2>2. Len(t) \in Nat \ {0}
    BY <2>1, EmptySeq
  <2>3. QED BY <1>2, <2>2
<1>5. k \in 1..n
  <2>1. CASE MatchNavPage(wanted, t) = 0
    BY <1>1, <1>4, <2>1 DEF SwitchedTo
  <2>2. CASE MatchNavPage(wanted, t) # 0
    BY <1>1, <1>2, <2>2, SwitchInRange
  <2>3. QED BY <2>1, <2>2
<1> HIDE DEF n, k
<1>6. p[k] \in 1..n
  <2>1. p \in [1..n -> 1..n]
    BY BijectionIs DEF ReachesOnce
  <2>2. QED BY <1>5, <2>1
<1>7. pages[p[k]] \in ToSet(pages) /\ Alike(t[k], pages[p[k]])
  BY <1>1, <1>3, <1>5, <1>6, ToSetIs DEF n
<1>8. QED BY <1>2, <1>5, <1>7 DEF k

(* Every step keeps the shown page that of the running gateway, and its    *)
(* parameters answered.                                                    *)
LEMMA ShownKept == ASSUME Registry, Checked, Shown, [Next]_vars PROVE Shown'
<1>1. ASSUME opened' = NoPage, outcome' = "none",
             pc' # "shell" /\ cmd'.name = "open" => gateway' # NoGateway
      PROVE  Shown'
  BY <1>1 DEF Shown, StrictPageRuns
<1>2. ASSUME NEW c \in menu, Invoke(c) PROVE Shown'
  BY <1>1, <1>2 DEF Invoke, serving
<1>3. CASE Ends
  <2>1. opened' = NoPage /\ outcome' = "none" /\ pc' = "shell"
    BY <1>3, EndsLeave DEF Shown
  <2>2. QED BY <1>1, <2>1
<1>4. ASSUME Import \/ RegisterPage \/ DiscoverBegins \/ DiscoverModule \/ DiscoverEnds
      PROVE  Shown'
  <2>1. pc # "shell" /\ UNCHANGED <<cmd, gateway, opened, outcome>>
    BY <1>4 DEF Import, RegisterPage, DiscoverBegins, DiscoverModule, DiscoverEnds,
       serving, pageVars
  <2>2. QED BY <1>1, <2>1 DEF Shown
<1>5. CASE Stop
  BY <1>1, <1>5 DEF Stop
<1>6. CASE Harden
  <2>1. opened = NoPage /\ outcome = "none" /\ pc = "shell"
    BY <1>6, HardenLeaves DEF Shown
  <2>2. QED BY <1>1, <1>6, <2>1, HardenLeaves
<1>7. CASE Open
  <2>1. /\ pc = "body" /\ cmd.name = "open" /\ pc' = "shell"
        /\ UNCHANGED <<world, cmd, pages, gateway>>
    BY <1>7, OpenLeaves
  <2>2. gateway # NoGateway
    BY <2>1 DEF Shown
  <2>3. nav' = NavRecords(world, pages) /\ opened' = SwitchedTo(cmd.wanted, nav')
    BY <1>7 DEF Open, SwitchedTo
  <2>4. ASSUME "strict_page_signatures" \in world.on
        PROVE  outcome' \notin {"missing_argument", "annotations"}
    <3>1. CASE opened' = NoPage
      BY <1>7, <3>1 DEF Open
    <3>2. CASE opened' # NoPage
      <4>1. nav' # <<>>
        BY <2>3, <3>2 DEF SwitchedTo
      <4>2. PICK r \in ToSet(pages) : Alike(nav'[opened'], r)
        BY <2>3, <4>1, OpenedIsRegistered
      <4>3. ValidateStrictPageSignature(r) /\ ValidateSessionStoreOnPage(r, world)
        BY <2>1, <2>4 DEF Checked, Accepted
      <4>4. /\ ValidateStrictPageSignature(nav'[opened'])
            /\ ValidateSessionStoreOnPage(nav'[opened'], world)
        BY <4>2, <4>3 DEF Alike, ValidateStrictPageSignature, ValidateSessionStoreOnPage
      <4>5. outcome' \in PageOutcomes(nav'[opened'], world)
        BY <1>7, <3>2 DEF Open
      <4>6. QED BY <4>4, <4>5, StrictPageGetsArguments
    <3>3. QED BY <3>1, <3>2
  <2>5. QED BY <2>1, <2>2, <2>3, <2>4 DEF Shown, StrictPageRuns
<1>8. CASE UNCHANGED vars
  BY <1>8 DEF Shown, StrictPageRuns, vars, appVars, serving, pageVars
<1>9. QED
  BY <1>2, <1>3, <1>4, <1>5, <1>6, <1>7, <1>8 DEF Next, Ends

(* The registry through every command.                                     *)
PageInv == Registry /\ Checked /\ Progress /\ Vetted /\ Shown

(* The invariant of the page registry holds of every run.                  *)
LEMMA PageInvHolds == Spec => []PageInv
<1>1. Init => PageInv
  <2> SUFFICES ASSUME Init PROVE PageInv
    OBVIOUS
  <2>1. Registry
    BY ScenarioAssumption DEF Init, Registry, Apart
  <2>2. Checked /\ Progress /\ Vetted /\ Shown
    BY DEF Init, Checked, Progress, Built, Vetted, Shown, StrictPageRuns, NoPage
  <2>3. QED BY <2>1, <2>2 DEF PageInv
<1>2. PageInv /\ [Next]_vars => PageInv'
  BY RegistryKept, CheckedKept, ProgressKept, VettedKept, ShownKept DEF PageInv
<1>3. QED BY <1>1, <1>2, PTL DEF Spec

(* What the strict preflight commands accept, the start accepts, whatever  *)
(* settings and pages the project has: a clean doctor --strict means that  *)
(* strict_startup refuses no setting and config reports no error, a clean  *)
(* pages validate --strict that strict_page_signatures refuses no page     *)
(* (_doctor_collect, _strict_startup_validate, validate_fluxlit_pages,     *)
(* register_streamlit_page).                                               *)
THEOREM PreflightIsHonest == Spec => []PreflightHolds
<1>1. PageInv /\ DoctorVouches => PreflightHolds
  BY DEF PageInv, Vetted, PreflightHolds
<1>2. QED BY <1>1, PageInvHolds, DoctorIsHonest, PTL

(* A page registered under strict_page_signatures gets a value for each of *)
(* its parameters when it runs, for every set of pages, every way to       *)
(* discover and order them and every deep link: the settings cannot        *)
(* change under an open page, and ordering and renaming keep its           *)
(* signature (validate_strict_page_signature, resolve_page_kwargs).        *)
THEOREM StrictPagesRun == Spec => []StrictPageRuns
<1>1. PageInv => StrictPageRuns
  BY DEF PageInv, Shown
<1>2. QED BY <1>1, PageInvHolds, PTL

(* For any number of pages and any declarations of children, cyclic ones   *)
(* included, the sidebar has every registered page once and a child after  *)
(* the pages that declare it, unless a cycle leads to its parent           *)
(* (order_records_with_children, apply_children_overrides,                 *)
(* navigation_sort_key).                                                   *)
THEOREM NavInOrder == Spec => []NavOrder
<1>1. ASSUME Registry, Shown, opened # NoPage PROVE NavOrder
  <2> DEFINE n == Len(nav)
             parents == Edges(nav)
             onCycles == {i \in 1..n : \E S \in SUBSET (1..n) :
                            i \in S /\ \A m \in S : \E h \in S : <<h, m>> \in parents}
  <2>1. nav = NavRecords(world, pages) /\ pages \in Seq(PageRecords) /\ world.order \in Seq(Texts)
    BY <1>1 DEF Shown, Registry
  <2>2. Len(nav) = Len(pages)
    BY <2>1, NavRecordsOrder
  <2>3. {nav[i].path : i \in 1..Len(nav)} = {pages[i].path : i \in 1..Len(pages)}
    <3> HIDE DEF n
    <3>0. n = Len(pages)
      BY <2>2 DEF n
    <3>1. PICK p \in Bijection(1..n, 1..n) : \A k \in 1..n : Alike(nav[k], pages[p[k]])
      BY <2>1, <3>0, NavRecordsOrder
    <3>2. p \in [1..n -> 1..n] /\ \A i \in 1..n : \E k \in 1..n : p[k] = i
      BY BijectionIs DEF ReachesOnce
    <3>3. \A k \in 1..n : p[k] \in 1..n /\ nav[k].path = pages[p[k]].path
      BY <3>1, <3>2 DEF Alike
    <3>4. ASSUME NEW i \in 1..n PROVE \E k \in 1..n : pages[i].path = nav[k].path
      <4>1. PICK k \in 1..n : p[k] = i
        BY <3>2
      <4>2. QED BY <3>3, <4>1
    <3>5. {nav[i].path : i \in 1..n} = {pages[i].path : i \in 1..n}
      <4>1. \A x : x \in {nav[i].path : i \in 1..n} => x \in {pages[i].path : i \in 1..n}
        BY <3>3
      <4>2. \A x : x \in {pages[i].path : i \in 1..n} => x \in {nav[i].path : i \in 1..n}
        BY <3>4
      <4>3. QED BY <4>1, <4>2
    <3>6. QED BY <2>2, <3>5 DEF n
  <2>4. ASSUME NEW e \in parents, e[1] \notin onCycles PROVE e[1] < e[2]
    <3>1. PICK R \in SUBSET (1..n) :
            /\ \A m \in R : \E h \in R : <<h, m>> \in parents
            /\ \A d \in parents : d[1] < d[2] \/ d[1] \in R
      BY <2>1, <2>2, NavRecordsOrder
    <3>2. R \subseteq onCycles
      BY <3>1
    <3>3. QED BY <2>4, <3>1, <3>2
  <2>5. QED BY <2>2, <2>3, <2>4 DEF NavOrder
<1>2. PageInv => NavOrder
  BY <1>1 DEF PageInv, NavOrder
<1>3. QED BY <1>2, PageInvHolds, PTL

(* The slugs of the sidebar are apart, as those of the registry.           *)
LEMMA NavApart ==
  ASSUME Registry, NEW t, t = NavRecords(world, pages)
  PROVE  /\ Len(t) \in Nat /\ Apart(t)
         /\ \A i \in 1..Len(t) : t[i].path \in Texts /\ Slug(t[i].path) \in Nat \ {0}
<1> DEFINE n == Len(pages)
<1>1. pages \in Seq(PageRecords) /\ n \in Nat /\ world.order \in Seq(Texts) /\ Apart(pages)
  BY DEF Registry
<1>2. Len(t) = n
  BY <1>1, NavRecordsOrder
<1>3. PICK p \in Bijection(1..n, 1..n) : \A i \in 1..n : Alike(t[i], pages[p[i]])
  BY <1>1, NavRecordsOrder
<1>4. \A i \in 1..n : pages[i].path \in Texts /\ Slug(pages[i].path) \in Nat \ {0}
  BY <1>1, PageTypes
<1>5. \A i, j \in 1..n : Slug(pages[i].path) = Slug(pages[j].path) => i = j
  BY <1>1 DEF Apart
<1> HIDE DEF n
<1>6. /\ p \in [1..n -> 1..n] /\ \A i, j \in 1..n : p[i] = p[j] => i = j
  BY BijectionIs DEF ReachesOnce
<1>7. \A i \in 1..n : p[i] \in 1..n /\ t[i].path = pages[p[i]].path
  BY <1>3, <1>6 DEF Alike
<1>8. \A i, j \in 1..n : Slug(t[i].path) = Slug(t[j].path) => i = j
  BY <1>5, <1>6, <1>7
<1>9. \A i \in 1..n : t[i].path \in Texts /\ Slug(t[i].path) \in Nat \ {0}
  BY <1>4, <1>7
<1>10. QED BY <1>1, <1>2, <1>8, <1>9 DEF Apart

(* A text that match_nav_page takes for a page, titles aside, has the      *)
(* page's slug.                                                            *)
LEMMA MatchBySlug ==
  ASSUME NEW wanted, NEW r, wanted # r.title, r.path \in Texts,
         Slug(r.path) \in Nat \ {0}, Matches(wanted, r)
  PROVE  Slug(wanted) = Slug(r.path)
<1>1. Slug(Word(Slug(r.path))) = Slug(r.path)
  BY DEF Word, Text, Slug
<1>2. QED BY <1>1 DEF Matches, Slug

(* ?page= with a page's path or slug opens that page, for every set of     *)
(* pages and every order of them, unless the word is blank or the title of *)
(* some page (register_streamlit_page, match_nav_page,                     *)
(* run_streamlit_entrypoint).                                              *)
THEOREM DeepLinksOpen == Spec => []DeepLinkOpensPage
<1>1. ASSUME Registry, Shown, opened # NoPage, Strip(cmd.wanted) # Empty,
             \A j \in 1..Len(nav) : nav[j].title # cmd.wanted,
             NEW i \in 1..Len(nav), cmd.wanted \in {nav[i].path, Word(Slug(nav[i].path))}
      PROVE  opened = i
  <2> DEFINE m == MatchNavPage(cmd.wanted, nav)
  <2>1. nav = NavRecords(world, pages) /\ opened = SwitchedTo(cmd.wanted, nav)
    BY <1>1 DEF Shown
  <2>2. /\ Len(nav) \in Nat /\ Apart(nav)
        /\ \A j \in 1..Len(nav) : nav[j].path \in Texts /\ Slug(nav[j].path) \in Nat \ {0}
    BY <1>1, <2>1, NavApart
  <2>3. Slug(cmd.wanted) = Slug(nav[i].path)
    BY <1>1, <2>2 DEF Word, Text, Slug
  <2>4. Matches(cmd.wanted, nav[i])
    BY <1>1 DEF Matches
  <2>5. m \in 1..Len(nav) /\ Matches(cmd.wanted, nav[m])
    BY <1>1, <2>2, <2>4, MatchInRange
  <2> HIDE DEF m
  <2>6. Slug(nav[m].path) = Slug(nav[i].path)
    BY <1>1, <2>2, <2>3, <2>5, MatchBySlug
  <2>7. nav # <<>> /\ m # 0
    BY <1>1, <2>1, <2>5 DEF SwitchedTo
  <2>8. opened \in 1..Len(nav) /\ Slug(nav[opened].path) = Slug(nav[m].path)
    BY <2>1, <2>2, <2>7, SwitchInRange DEF m
  <2>9. QED BY <2>2, <2>6, <2>8 DEF Apart
<1>2. PageInv => DeepLinkOpensPage
  <2> SUFFICES ASSUME PageInv, opened # NoPage, Strip(cmd.wanted) # Empty,
                      \A j \in 1..Len(nav) : nav[j].title # cmd.wanted,
                      NEW i \in 1..Len(nav),
                      cmd.wanted \in {nav[i].path, Word(Slug(nav[i].path))}
               PROVE  opened = i
    BY DEF DeepLinkOpensPage
  <2>1. Registry /\ Shown
    BY DEF PageInv
  <2>2. QED BY <1>1, <2>1
<1>3. QED BY <1>2, PageInvHolds, PTL

=============================================================================
