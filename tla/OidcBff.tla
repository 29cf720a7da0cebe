------------------------------- MODULE OidcBff -------------------------------
(***************************************************************************)
(* The OIDC backend-for-frontend of fluxlit.auth: the login, callback and  *)
(* exchange routes of register_oidc_bff_routes over the process-local      *)
(* InMemoryOIDCBFFTokenStore, and the Streamlit pages that redeem the      *)
(* one-time auth_code (prepare_streamlit_api_client and                    *)
(* exchange_auth_code_from_query).                                         *)
(*                                                                         *)
(* The routes are synchronous, so requests run on threads of a pool: a     *)
(* handler reads time.monotonic() first and takes the store's lock later,  *)
(* with other requests and the passing of time in between.  A state is     *)
(* named by the login that drew it and an auth_code by the callback that   *)
(* drew it, both drawn with secrets.token_urlsafe and never repeated.      *)
(*                                                                         *)
(* A request without code or state is refused before the store is touched  *)
(* and changes nothing.  What tokens contain is left out.                  *)
(***************************************************************************)
EXTENDS Integers

CONSTANTS
  Logins,      \* GET login requests, one per state
  Callbacks,   \* GET callback requests, one auth_code each at most
  Tabs,        \* Streamlit sessions
  NoLogin,     \* not a login
  NoCode,      \* not an auth_code
  StateTtl,    \* state_ttl_seconds
  OtcTtl,      \* otc_ttl_seconds
  MaxTime      \* bound on the clock

ASSUME BffAssumption ==
  /\ StateTtl \in Nat /\ OtcTtl \in Nat /\ MaxTime \in Nat
  /\ NoLogin \notin Logins /\ NoCode \notin Callbacks

VARIABLES
  clock,     \* time.monotonic()
  pkce,      \* _pkce: per state, when it was saved, or Absent
  exchange,  \* _exchange: per auth_code, when it was saved, or Absent
  spent,     \* per auth_code: how often the store handed out its token (history)
  \* per login request
  loginPc, began,
  \* per callback request: the state it carries, the two times it reads
  callbackPc, state, arrived, minted,
  \* per Streamlit session: the script, the page's ?auth_code=, the code it
  \* posted and when, the token in session_state, how the last run ended
  tabPc, page, url, code, posted, token, outcome

storeVars == <<pkce, exchange, spent>>
loginVars == <<loginPc, began>>
callbackVars == <<callbackPc, state, arrived, minted>>
tabVars == <<tabPc, page, url, code, posted, token, outcome>>
vars == <<clock, storeVars, loginVars, callbackVars, tabVars>>

Absent == -1
Times == 0..MaxTime
Stamps == Times \cup {Absent}

LoginPC == {"idle", "saving", "redirected", "failed"}
CallbackPC == {"idle", "popping", "idp", "saving", "redirected", "rejected", "failed"}
TabPC == {"closed", "idle", "posted", "token", "denied"}
Pages == {"helper", "recipe"}
Outcomes == {"none", "authenticated", "anonymous", "raised"}

Init ==
  /\ clock = 0
  /\ pkce = [l \in Logins |-> Absent]
  /\ exchange = [c \in Callbacks |-> Absent]
  /\ spent = [c \in Callbacks |-> 0]
  /\ loginPc = [l \in Logins |-> "idle"]
  /\ began = [l \in Logins |-> 0]
  /\ callbackPc = [c \in Callbacks |-> "idle"]
  /\ state = [c \in Callbacks |-> NoLogin]
  /\ arrived = [c \in Callbacks |-> 0]
  /\ minted = [c \in Callbacks |-> 0]
  /\ tabPc = [t \in Tabs |-> "closed"]
  /\ page \in [Tabs -> Pages]
  /\ url = [t \in Tabs |-> NoCode]
  /\ code = [t \in Tabs |-> NoCode]
  /\ posted = [t \in Tabs |-> 0]
  /\ token = [t \in Tabs |-> NoCode]
  /\ outcome = [t \in Tabs |-> "none"]

-----------------------------------------------------------------------------
(* The token store: each operation purges its own dictionary first, under  *)
(* the lock and with the caller's now.                                     *)

\* Mutant: entries are never purged.
PurgeExpiredNothing(store, ttl, now) == store

\* Mutant: an entry is gone at its last second already.
PurgeExpiredEarly(store, ttl, now) ==
  [k \in DOMAIN store |->
     IF store[k] # Absent /\ now - store[k] >= ttl THEN Absent ELSE store[k]]

\* _purge_expired
PurgeExpired(store, ttl, now) ==
  [k \in DOMAIN store |->
     IF store[k] # Absent /\ now - store[k] > ttl THEN Absent ELSE store[k]]

\* save_pkce_verifier, save_exchange_token
Save(store, ttl, k, now) == [PurgeExpired(store, ttl, now) EXCEPT ![k] = now]

\* Mutant: the entry is read and left in place.
PopKeeps(store, ttl, k, now) == PurgeExpired(store, ttl, now)

\* pop_pkce_verifier, pop_exchange_token: the store afterwards...
Pop(store, ttl, k, now) == [PurgeExpired(store, ttl, now) EXCEPT ![k] = Absent]

\* Mutant: what is found counts, out of date or not.
HoldsUnpurged(store, ttl, k, now) == store[k] # Absent

\* ...and whether they return a value.
Holds(store, ttl, k, now) == PurgeExpired(store, ttl, now)[k] # Absent

-----------------------------------------------------------------------------
(* The routes *)

\* GET login: draw a state, read the clock.
LoginBegin(l) ==
  /\ loginPc[l] = "idle"
  /\ loginPc' = [loginPc EXCEPT ![l] = "saving"]
  /\ began' = [began EXCEPT ![l] = clock]
  /\ UNCHANGED <<clock, storeVars, callbackVars, tabVars>>

\* save_pkce_verifier, then the redirect to the identity provider; if
\* authorization_url raises, nobody learns the state and it stays until purged.
LoginSave(l) ==
  /\ loginPc[l] = "saving"
  /\ pkce' = Save(pkce, StateTtl, l, began[l])
  /\ \E answer \in {"redirected", "failed"} : loginPc' = [loginPc EXCEPT ![l] = answer]
  /\ UNCHANGED <<clock, exchange, spent, began, callbackVars, tabVars>>

\* GET callback: the browser returns with a state it was given, possibly for
\* the second time (a reload, a back button, a retry).
CallbackBegin(c) ==
  /\ callbackPc[c] = "idle"
  /\ \E l \in Logins :
       /\ loginPc[l] = "redirected"
       /\ state' = [state EXCEPT ![c] = l]
  /\ callbackPc' = [callbackPc EXCEPT ![c] = "popping"]
  /\ arrived' = [arrived EXCEPT ![c] = clock]
  /\ UNCHANGED <<clock, storeVars, loginVars, minted, tabVars>>

\* pop_pkce_verifier; an absent state is answered 400.
CallbackPop(c) ==
  /\ callbackPc[c] = "popping"
  /\ pkce' = Pop(pkce, StateTtl, state[c], arrived[c])
  /\ callbackPc' = [callbackPc EXCEPT ![c] =
       IF Holds(pkce, StateTtl, state[c], arrived[c]) THEN "idp" ELSE "rejected"]
  /\ UNCHANGED <<clock, exchange, spent, loginVars, state, arrived, minted, tabVars>>

\* exchange_code, the id_token check and issue_hs256_access_token succeed; the
\* handler draws the auth_code and reads the clock again.
IdpAccepts(c) ==
  /\ callbackPc[c] = "idp"
  /\ callbackPc' = [callbackPc EXCEPT ![c] = "saving"]
  /\ minted' = [minted EXCEPT ![c] = clock]
  /\ UNCHANGED <<clock, storeVars, loginVars, state, arrived, tabVars>>

\* exchange_code raises, the id_token is missing (502) or does not verify (502,
\* 500): the state has been consumed.
IdpFails(c) ==
  /\ callbackPc[c] = "idp"
  /\ callbackPc' = [callbackPc EXCEPT ![c] = "failed"]
  /\ UNCHANGED <<clock, storeVars, loginVars, state, arrived, minted, tabVars>>

\* save_exchange_token, then the redirect to the page with ?auth_code=.
CallbackSave(c) ==
  /\ callbackPc[c] = "saving"
  /\ exchange' = Save(exchange, OtcTtl, c, minted[c])
  /\ callbackPc' = [callbackPc EXCEPT ![c] = "redirected"]
  /\ UNCHANGED <<clock, pkce, spent, loginVars, state, arrived, minted, tabVars>>

\* POST exchange from tab t: pop_exchange_token; an absent code is answered 401.
ExchangePop(t) ==
  LET found == Holds(exchange, OtcTtl, code[t], posted[t]) IN
  /\ tabPc[t] = "posted"
  /\ exchange' = Pop(exchange, OtcTtl, code[t], posted[t])
  /\ spent' = IF found THEN [spent EXCEPT ![code[t]] = @ + 1] ELSE spent
  /\ tabPc' = [tabPc EXCEPT ![t] = IF found THEN "token" ELSE "denied"]
  /\ UNCHANGED <<clock, pkce, loginVars, callbackVars, page, url, code, posted, token,
                 outcome>>

-----------------------------------------------------------------------------
(* The Streamlit pages: a page calls prepare_streamlit_api_client          *)
(* ("helper") or, like the recipes in the docs,                            *)
(* exchange_auth_code_from_query itself ("recipe").                        *)

\* A browser opens the redirect target, or a link or bookmark of it: a new
\* session.
OpenTab(t) ==
  /\ tabPc[t] = "closed"
  /\ \E c \in Callbacks :
       /\ callbackPc[c] = "redirected"
       /\ url' = [url EXCEPT ![t] = c]
  /\ tabPc' = [tabPc EXCEPT ![t] = "idle"]
  /\ UNCHANGED <<clock, storeVars, loginVars, callbackVars, page, code, posted, token,
                 outcome>>

\* Mutant: the helper posts whatever the session holds.
HasSessionIgnored(t) == FALSE

\* prepare_streamlit_api_client looks for an existing token first.
HasSession(t) == page[t] = "helper" /\ token[t] # NoCode

\* A script run that posts nothing: the session already has a token, or the
\* URL carries no code.
RunWithoutExchange(t) ==
  /\ tabPc[t] = "idle"
  /\ HasSession(t) \/ url[t] = NoCode
  /\ outcome' = [outcome EXCEPT ![t] =
                   IF token[t] # NoCode THEN "authenticated" ELSE "anonymous"]
  /\ UNCHANGED <<clock, storeVars, loginVars, callbackVars, tabPc, page, url, code,
                 posted, token>>

\* A script run that posts the code of its URL; the route reads the clock.
RunExchange(t) ==
  /\ tabPc[t] = "idle"
  /\ ~HasSession(t)
  /\ url[t] # NoCode
  /\ tabPc' = [tabPc EXCEPT ![t] = "posted"]
  /\ code' = [code EXCEPT ![t] = url[t]]
  /\ posted' = [posted EXCEPT ![t] = clock]
  /\ outcome' = [outcome EXCEPT ![t] = "none"]
  /\ UNCHANGED <<clock, storeVars, loginVars, callbackVars, page, url, token>>

\* 200: the token is stored in session_state, then the URL is cleaned, which may
\* fail without being noticed.
StoreToken(t) ==
  /\ tabPc[t] = "token"
  /\ tabPc' = [tabPc EXCEPT ![t] = "idle"]
  /\ token' = [token EXCEPT ![t] = code[t]]
  /\ url' \in {url, [url EXCEPT ![t] = NoCode]}
  /\ outcome' = [outcome EXCEPT ![t] = "authenticated"]
  /\ UNCHANGED <<clock, storeVars, loginVars, callbackVars, page, code, posted>>

\* 401, or the answer is lost on its way (a client timeout, a rerun of the
\* script): the run ends with an exception and the session is as it was.
ExchangeRaises(t) ==
  /\ tabPc[t] \in {"token", "denied"}
  /\ tabPc' = [tabPc EXCEPT ![t] = "idle"]
  /\ outcome' = [outcome EXCEPT ![t] = "raised"]
  /\ UNCHANGED <<clock, storeVars, loginVars, callbackVars, page, url, code, posted,
                 token>>

Tick ==
  /\ clock < MaxTime
  /\ clock' = clock + 1
  /\ UNCHANGED <<storeVars, loginVars, callbackVars, tabVars>>

Next ==
  \/ \E l \in Logins : LoginBegin(l) \/ LoginSave(l)
  \/ \E c \in Callbacks :
       \/ CallbackBegin(c) \/ CallbackPop(c) \/ IdpAccepts(c) \/ IdpFails(c)
       \/ CallbackSave(c)
  \/ \E t \in Tabs :
       \/ OpenTab(t) \/ RunWithoutExchange(t) \/ RunExchange(t) \/ ExchangePop(t)
       \/ StoreToken(t) \/ ExchangeRaises(t)
  \/ Tick

Spec == Init /\ [][Next]_vars

-----------------------------------------------------------------------------
(* Properties *)

TypeOK ==
  /\ clock \in Times
  /\ pkce \in [Logins -> Stamps] /\ exchange \in [Callbacks -> Stamps]
  /\ spent \in [Callbacks -> Nat]
  /\ loginPc \in [Logins -> LoginPC] /\ began \in [Logins -> Times]
  /\ callbackPc \in [Callbacks -> CallbackPC]
  /\ state \in [Callbacks -> Logins \cup {NoLogin}]
  /\ arrived \in [Callbacks -> Times] /\ minted \in [Callbacks -> Times]
  /\ tabPc \in [Tabs -> TabPC] /\ page \in [Tabs -> Pages]
  /\ url \in [Tabs -> Callbacks \cup {NoCode}]
  /\ code \in [Tabs -> Callbacks \cup {NoCode}]
  /\ posted \in [Tabs -> Times]
  /\ token \in [Tabs -> Callbacks \cup {NoCode}]
  /\ outcome \in [Tabs -> Outcomes]

\* Callbacks that were let through with their state.
Admitted(c) == callbackPc[c] \in {"idp", "saving", "redirected", "failed"}

Consumed(l) == \E c \in Callbacks : Admitted(c) /\ state[c] = l

(***************************************************************************)
(* How the store, the handlers and the pages agree: an entry is there from *)
(* its save until it is handed out or out of date, and it carries the time *)
(* its handler read.  The three properties after it follow from it.         *)
(***************************************************************************)
ClockInv ==
  /\ \A l \in Logins : began[l] <= clock
  /\ \A c \in Callbacks : arrived[c] <= clock /\ minted[c] <= clock
  /\ \A t \in Tabs : posted[t] <= clock

LinkInv ==
  /\ \A c \in Callbacks :
       callbackPc[c] # "idle" => state[c] \in Logins /\ loginPc[state[c]] = "redirected"
  /\ \A t \in Tabs :
       /\ url[t] # NoCode => callbackPc[url[t]] = "redirected"
       /\ tabPc[t] \in {"posted", "token", "denied"} =>
            code[t] \in Callbacks /\ callbackPc[code[t]] = "redirected"

PkceInv ==
  \A l \in Logins :
    /\ pkce[l] # Absent =>
         loginPc[l] \in {"redirected", "failed"} /\ pkce[l] = began[l] /\ ~Consumed(l)
    /\ loginPc[l] \in {"redirected", "failed"} /\ pkce[l] = Absent =>
         Consumed(l) \/ clock > began[l] + StateTtl

ExchangeInv ==
  \A c \in Callbacks :
    /\ exchange[c] # Absent =>
         callbackPc[c] = "redirected" /\ exchange[c] = minted[c] /\ spent[c] = 0
    /\ callbackPc[c] = "redirected" /\ exchange[c] = Absent =>
         spent[c] > 0 \/ clock > minted[c] + OtcTtl
    /\ callbackPc[c] # "redirected" => spent[c] = 0

AnsweredInv ==
  /\ \A c \in Callbacks : callbackPc[c] = "rejected" => pkce[state[c]] = Absent
  /\ \A t \in Tabs : tabPc[t] \in {"token", "denied"} => exchange[code[t]] = Absent

StoreInv == ClockInv /\ LinkInv /\ PkceInv /\ ExchangeInv /\ AnsweredInv

\* A state admits one callback.
OneCallbackPerState ==
  \A c, d \in Callbacks : Admitted(c) /\ Admitted(d) /\ state[c] = state[d] => c = d

\* An auth_code is redeemed once.
OneTokenPerCode == \A c \in Callbacks : spent[c] <= 1

(***************************************************************************)
(* States and auth_codes work once.  Of two callbacks that carry a state,  *)
(* whatever their order and however the identity provider answers the      *)
(* first, one gets 400 (pop_pkce_verifier pops); the store hands a token   *)
(* to one exchange request, however many tabs, reloads and reruns post the *)
(* code (pop_exchange_token pops).                                         *)
(***************************************************************************)
UsedOnce == OneCallbackPerState /\ OneTokenPerCode

(***************************************************************************)
(* What is admitted is fresh: a callback arrived at most state_ttl_seconds *)
(* after its login, an exchange at most otc_ttl_seconds after its code was *)
(* drawn, although the store is asked later than the clock is read and     *)
(* purges with the clock of whoever calls it.                              *)
(***************************************************************************)
OnlyFresh ==
  /\ \A c \in Callbacks : Admitted(c) => arrived[c] <= began[state[c]] + StateTtl
  /\ \A t \in Tabs : tabPc[t] = "token" => posted[t] <= minted[code[t]] + OtcTtl

(***************************************************************************)
(* Nobody is turned away early: a callback gets 400 and an exchange 401    *)
(* only when the value was used before or its lifetime is over by now,     *)
(* even when another request's purge removed it.                           *)
(***************************************************************************)
NoFalseReject ==
  /\ \A c \in Callbacks :
       callbackPc[c] = "rejected" =>
         Consumed(state[c]) \/ clock > began[state[c]] + StateTtl
  /\ \A t \in Tabs :
       tabPc[t] = "denied" => spent[code[t]] > 0 \/ clock > minted[code[t]] + OtcTtl

(***************************************************************************)
(* Once a session of a page that uses prepare_streamlit_api_client has a   *)
(* token, no later run of its script raises, even if the spent code is     *)
(* still in the URL because cleaning it failed.                            *)
(***************************************************************************)
LoggedInNeverRaises ==
  [][\A t \in Tabs :
       page[t] = "helper" /\ token[t] # NoCode => outcome'[t] # "raised"]_vars

(***************************************************************************)
(* InMemoryOIDCBFFTokenStore, called by the routes with times they read    *)
(* before they take its lock, implements the abstract TokenStore twice:    *)
(* for the states, which callbacks ask for, and for the auth_codes, which  *)
(* the sessions of pages ask for.  A login or callback saves at the time   *)
(* it began or got its token.                                              *)
(***************************************************************************)
PkceEntry ==
  [l \in Logins |->
     IF loginPc[l] \in {"idle", "saving"} THEN "none"
     ELSE IF pkce[l] # Absent THEN "held"
     ELSE IF Consumed(l) THEN "given" ELSE "lapsed"]
PkceStamp == [l \in Logins |-> IF loginPc[l] \in {"idle", "saving"} THEN 0 ELSE began[l]]
PkceAnswer ==
  [c \in Callbacks |->
     CASE callbackPc[c] = "idle" -> "none"
       [] callbackPc[c] = "popping" -> "asked"
       [] callbackPc[c] = "rejected" -> "refused"
       [] OTHER -> "given"]

PkceStore ==
  INSTANCE TokenStore WITH Keys <- Logins, Requests <- Callbacks, Ttl <- StateTtl,
    NoKey <- NoLogin, now <- clock, entry <- PkceEntry, stamp <- PkceStamp,
    answer <- PkceAnswer, key <- state, asked <- arrived

ExchangeEntry ==
  [c \in Callbacks |->
     IF callbackPc[c] # "redirected" THEN "none"
     ELSE IF exchange[c] # Absent THEN "held"
     ELSE IF spent[c] > 0 THEN "given" ELSE "lapsed"]
ExchangeStamp ==
  [c \in Callbacks |-> IF callbackPc[c] # "redirected" THEN 0 ELSE minted[c]]
ExchangeAnswer ==
  [t \in Tabs |->
     CASE tabPc[t] = "posted" -> "asked"
       [] tabPc[t] = "token" -> "given"
       [] tabPc[t] = "denied" -> "refused"
       [] OTHER -> "none"]

ExchangeStore ==
  INSTANCE TokenStore WITH Keys <- Callbacks, Requests <- Tabs, Ttl <- OtcTtl,
    NoKey <- NoCode, now <- clock, entry <- ExchangeEntry, stamp <- ExchangeStamp,
    answer <- ExchangeAnswer, key <- code, asked <- posted

(* The store implements TokenStore with both its dictionaries: with the    *)
(* states against pop_pkce_verifier, with the auth_codes against           *)
(* pop_exchange_token.                                                     *)
ImplementsTokenStore == PkceStore!Spec /\ ExchangeStore!Spec
=============================================================================
