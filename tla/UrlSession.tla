------------------------------ MODULE UrlSession ------------------------------
(***************************************************************************)
(* fluxlit.url_session: session continuity through an id in the URL, kept  *)
(* in an InMemorySessionStore that the script threads of all browser tabs  *)
(* of one Streamlit process share without a lock.                          *)
(*                                                                         *)
(* A step lasts until a point where the interpreter may switch threads     *)
(* between two accesses to the shared dict _data.  An entry of the dict is *)
(* an immutable pair of payload and deadline, written in one step: it is   *)
(* represented by the number of the write it comes from (0: no entry).  A  *)
(* tab's session_state is represented by the last write it took a key      *)
(* from.                                                                   *)
(***************************************************************************)
EXTENDS Naturals, Sequences

CONSTANTS
  Tabs,        \* browser tabs, each with a session and a script thread
  Sids,        \* what new_session_id can return
  NoSid,       \* no session id
  MaxEntries,  \* max_entries of the store
  Ttls,        \* time to live of a write: the argument or the default, 0 none
  MaxTime,     \* bound of the clock
  MaxWrites    \* bound: number of store.set calls of a behaviour

ASSUME UrlSessionAssumption ==
  /\ MaxEntries \in Nat \ {0}
  /\ MaxTime \in Nat /\ MaxWrites \in Nat
  /\ Ttls \subseteq Nat
  /\ NoSid \notin Sids

VARIABLES
  time,     \* time.monotonic()
  order,    \* the keys of _data in insertion order
  data,     \* per sid: its entry
  due,      \* per write: its deadline, 0 none
  writes,   \* writes so far
  latest,   \* per sid: the last write made for it
  url,      \* per tab: the session id in its URL
  state,    \* per tab: the last write its session_state was hydrated from
  pc,       \* per tab: control point of its script thread
  op,       \* per tab: what its helper is doing
  sid,      \* per tab: the session id the helper works on
  now,      \* per tab: the clock when _evict_expired began
  size,     \* per tab: len(_data) when _evict_expired began
  dead,     \* per tab: keys _evict_expired has still to pop
  pick,     \* per tab: the key _trim_size has chosen
  ent,      \* per tab: the entry as get read it
  floor,    \* per tab: latest[sid] when its get began
  tripped   \* a call has raised inside _trim_size

storeVars == <<order, data, due, writes, latest>>
tabVars   == <<url, state>>
callVars  == <<pc, op, sid, now, size, dead, pick, ent, floor, tripped>>
vars == <<time, storeVars, tabVars, callVars>>

Writes == 1..MaxWrites
Gets   == {"hydrate", "ensure"}
Sets   == {"update", "mint", "persist"}
Stored == {order[i] : i \in 1..Len(order)}

Init ==
  /\ time = 0 /\ order = <<>> /\ writes = 0 /\ tripped = FALSE
  /\ data = [s \in Sids |-> 0] /\ latest = [s \in Sids |-> 0]
  /\ due = [w \in Writes |-> 0]
  /\ url = [t \in Tabs |-> NoSid] /\ state = [t \in Tabs |-> 0]
  /\ pc = [t \in Tabs |-> "idle"] /\ op = [t \in Tabs |-> "none"]
  /\ sid = [t \in Tabs |-> NoSid] /\ pick = [t \in Tabs |-> NoSid]
  /\ now = [t \in Tabs |-> 0] /\ size = [t \in Tabs |-> 0]
  /\ dead = [t \in Tabs |-> {}]
  /\ ent = [t \in Tabs |-> 0] /\ floor = [t \in Tabs |-> 0]

Goto(t, l) == pc' = [pc EXCEPT ![t] = l]

(* self._data.pop(s, None). *)
Without(s) ==
  LET i == CHOOSE j \in 1..Len(order) : order[j] = s
  IN  SubSeq(order, 1, i - 1) \o SubSeq(order, i + 1, Len(order))

Pop(s) ==
  /\ order' = IF s \in Stored THEN Without(s) ELSE order
  /\ data' = [data EXCEPT ![s] = 0]

(* A helper returns or raises: its local variables are gone.               *)
Leave(t, l) ==
  /\ Goto(t, l)
  /\ op' = [op EXCEPT ![t] = "none"] /\ sid' = [sid EXCEPT ![t] = NoSid]
  /\ now' = [now EXCEPT ![t] = 0] /\ size' = [size EXCEPT ![t] = 0]
  /\ dead' = [dead EXCEPT ![t] = {}]
  /\ pick' = [pick EXCEPT ![t] = NoSid]
  /\ ent' = [ent EXCEPT ![t] = 0] /\ floor' = [floor EXCEPT ![t] = 0]

-----------------------------------------------------------------------------
(* The helpers begin a store call, which begins with _evict_expired: the   *)
(* clock is read and the iteration over the dict starts.  A helper without *)
(* a parameter in the URL, with URL sessions disabled, without initial     *)
(* data or with a session_state that cannot be read returns at once.       *)

StartCall(t, o, s) ==
  /\ Goto(t, "scan")
  /\ op' = [op EXCEPT ![t] = o] /\ sid' = [sid EXCEPT ![t] = s]
  /\ now' = [now EXCEPT ![t] = time] /\ size' = [size EXCEPT ![t] = Len(order)]
  /\ floor' = [floor EXCEPT ![t] = latest[s]]
  /\ dead' = [dead EXCEPT ![t] = {}] /\ pick' = [pick EXCEPT ![t] = NoSid]
  /\ ent' = [ent EXCEPT ![t] = 0]

(* hydrate_url_session and its typed variant.                              *)
Hydrate(t) ==
  /\ pc[t] = "idle" /\ url[t] # NoSid
  /\ StartCall(t, "hydrate", url[t])
  /\ UNCHANGED <<time, storeVars, tabVars, tripped>>

(* ensure_url_session with an id in the URL and initial data reads first.  *)
EnsureExisting(t) ==
  /\ pc[t] = "idle" /\ url[t] # NoSid
  /\ StartCall(t, "ensure", url[t])
  /\ UNCHANGED <<time, storeVars, tabVars, tripped>>

(* ensure_url_session without an id in the URL mints a fresh one, seeds    *)
(* the store and sets the query parameter afterwards.                      *)
Fresh(s) == latest[s] = 0 /\ \A u \in Tabs : sid[u] # s

EnsureMints(t, s) ==
  /\ pc[t] = "idle" /\ url[t] = NoSid /\ Fresh(s)
  /\ StartCall(t, "mint", s)
  /\ UNCHANGED <<time, storeVars, tabVars, tripped>>

(* persist_url_session: session_state goes to the store.                   *)
Persist(t) ==
  /\ pc[t] = "idle" /\ url[t] # NoSid
  /\ StartCall(t, "persist", url[t])
  /\ UNCHANGED <<time, storeVars, tabVars, tripped>>

(* The application ends a session with store.delete.                       *)
Delete(t) ==
  /\ pc[t] = "idle" /\ url[t] # NoSid
  /\ Pop(url[t])
  /\ UNCHANGED <<time, due, writes, latest, tabVars, callVars>>

-----------------------------------------------------------------------------
(* _evict_expired.                                                         *)

Overdue(w, at) == due[w] # 0 /\ due[w] <= at

ScanEnds(t) ==
  /\ pc[t] = "scan"
  /\ dead' = [dead EXCEPT ![t] = {s \in Stored : Overdue(data[s], now[t])}]
  /\ now' = [now EXCEPT ![t] = 0] /\ size' = [size EXCEPT ![t] = 0]
  /\ Goto(t, "pop")
  /\ UNCHANGED <<time, storeVars, tabVars, op, sid, pick, ent, floor, tripped>>

(* The dict changed its size between two entries of the iteration:         *)
(* RuntimeError.                                                           *)
ScanRaises(t) ==
  /\ pc[t] = "scan" /\ size[t] \notin {0, Len(order)}
  /\ Leave(t, "raised")
  /\ UNCHANGED <<time, storeVars, tabVars, tripped>>

PopDead(t) ==
  /\ pc[t] = "pop"
  /\ \E s \in dead[t] : Pop(s) /\ dead' = [dead EXCEPT ![t] = @ \ {s}]
  /\ UNCHANGED <<time, due, writes, latest, tabVars, pc, op, sid, now, size, pick,
                 ent, floor, tripped>>

-----------------------------------------------------------------------------
(* InMemorySessionStore.get after the eviction: the entry is read, and     *)
(* its deadline is compared with a later reading of the clock.             *)

(* Mutation: the entry is looked up under the key that is in the store     *)
(* longest.                                                                *)
LookupOldest(t) ==
  /\ pc[t] = "pop" /\ dead[t] = {} /\ op[t] \in Gets
  /\ ent' = [ent EXCEPT ![t] = IF order = <<>> THEN 0 ELSE data[Head(order)]]
  /\ Goto(t, "judge")
  /\ UNCHANGED <<time, storeVars, tabVars, op, sid, now, size, dead, pick, floor,
                 tripped>>

Lookup(t) ==
  /\ pc[t] = "pop" /\ dead[t] = {} /\ op[t] \in Gets
  /\ ent' = [ent EXCEPT ![t] = data[sid[t]]]
  /\ Goto(t, "judge")
  /\ UNCHANGED <<time, storeVars, tabVars, op, sid, now, size, dead, pick, floor,
                 tripped>>

(* Mutation: only _evict_expired looks at deadlines.                       *)
ExpiredNever(t) == FALSE

Expired(t) == ent[t] # 0 /\ Overdue(ent[t], time)

(* What session_state may become.  A payload takes effect unless it is     *)
(* empty, all its keys are there already (merge: setdefault), or the typed *)
(* variant finds that it is not valid for its model.                       *)
Merged(t) ==
  IF ent[t] = 0 \/ Expired(t) \/ op[t] = "ensure"
    THEN {state[t]}
    ELSE {state[t], ent[t]}

(* get returns.  ensure_url_session goes on with the write.                *)
GetReturns(t) ==
  /\ pc[t] = "judge"
  /\ IF Expired(t) THEN Pop(sid[t]) ELSE UNCHANGED <<order, data>>
  /\ \E m \in Merged(t) : state' = [state EXCEPT ![t] = m]
  /\ IF op[t] = "ensure"
       THEN StartCall(t, "update", sid[t])
       ELSE Leave(t, "idle")
  /\ UNCHANGED <<time, due, writes, latest, url, tripped>>

-----------------------------------------------------------------------------
(* InMemorySessionStore.set after the eviction: the entry is written (a    *)
(* known key keeps its place), then _trim_size pops the oldest insertions. *)

Write(t) ==
  /\ pc[t] = "pop" /\ dead[t] = {} /\ op[t] \in Sets
  /\ writes < MaxWrites
  /\ writes' = writes + 1
  /\ \E ttl \in Ttls :
       due' = [due EXCEPT ![writes + 1] = IF ttl > 0 THEN time + ttl ELSE 0]
  /\ data' = [data EXCEPT ![sid[t]] = writes + 1]
  /\ latest' = [latest EXCEPT ![sid[t]] = writes + 1]
  /\ order' = IF sid[t] \in Stored THEN order ELSE Append(order, sid[t])
  /\ Goto(t, "check")
  /\ UNCHANGED <<time, tabVars, op, sid, now, size, dead, pick, ent, floor, tripped>>

TrimPicks(t) ==
  /\ pc[t] = "check" /\ Len(order) > MaxEntries
  /\ pick' = [pick EXCEPT ![t] = Head(order)]
  /\ Goto(t, "trim")
  /\ UNCHANGED <<time, storeVars, tabVars, op, sid, now, size, dead, ent, floor,
                 tripped>>

TrimPops(t) ==
  /\ pc[t] = "trim" /\ pick[t] \in Stored
  /\ Pop(pick[t])
  /\ pick' = [pick EXCEPT ![t] = NoSid]
  /\ Goto(t, "check")
  /\ UNCHANGED <<time, due, writes, latest, tabVars, op, sid, now, size, dead, ent,
                 floor, tripped>>

(* Another thread has popped the same key: pop without a default raises.   *)
TrimRaises(t) ==
  /\ pc[t] = "trim" /\ pick[t] \notin Stored
  /\ tripped' = TRUE
  /\ Leave(t, "raised")
  /\ UNCHANGED <<time, storeVars, tabVars>>

(* Mutation: set returns without looking at the size.                      *)
SetReturnsUntrimmed(t) ==
  /\ pc[t] = "check" /\ op[t] # "mint"
  /\ Leave(t, "idle")
  /\ UNCHANGED <<time, storeVars, tabVars, tripped>>

SetReturns(t) ==
  /\ pc[t] = "check" /\ Len(order) <= MaxEntries /\ op[t] # "mint"
  /\ Leave(t, "idle")
  /\ UNCHANGED <<time, storeVars, tabVars, tripped>>

(* Mutation: the parameter is set whenever a new id has been minted.       *)
LinkUnseeded(t) ==
  /\ op[t] = "mint" /\ url' = [url EXCEPT ![t] = sid[t]]
  /\ Leave(t, "idle")
  /\ UNCHANGED <<time, storeVars, state, tripped>>

(* _query_param_set follows the set of a minted id; it may fail silently.  *)
Link(t) ==
  /\ pc[t] = "check" /\ Len(order) <= MaxEntries /\ op[t] = "mint"
  /\ \/ url' = [url EXCEPT ![t] = sid[t]]
     \/ UNCHANGED url
  /\ Leave(t, "idle")
  /\ UNCHANGED <<time, storeVars, state, tripped>>

-----------------------------------------------------------------------------
(* A full reload, or a tab opened with a copied address: fresh session.    *)
Open(t, u) ==
  /\ pc[t] = "idle" /\ url[u] # NoSid
  /\ url' = [url EXCEPT ![t] = url[u]] /\ state' = [state EXCEPT ![t] = 0]
  /\ UNCHANGED <<time, storeVars, callVars>>

(* The run that raised is over; the next interaction starts another.       *)
Rerun(t) ==
  /\ pc[t] = "raised"
  /\ Goto(t, "idle")
  /\ UNCHANGED <<time, storeVars, tabVars, op, sid, now, size, dead, pick, ent,
                 floor, tripped>>

Tick ==
  /\ time < MaxTime
  /\ time' = time + 1
  /\ UNCHANGED <<storeVars, tabVars, callVars>>

HelperBegins(t) ==
  \/ Hydrate(t) \/ EnsureExisting(t) \/ Persist(t) \/ Delete(t)
  \/ \E s \in Sids : EnsureMints(t, s)

StoreStep(t) ==
  \/ ScanEnds(t) \/ ScanRaises(t) \/ PopDead(t) \/ Lookup(t) \/ GetReturns(t)
  \/ Write(t) \/ TrimPicks(t) \/ TrimPops(t) \/ TrimRaises(t) \/ SetReturns(t)
  \/ Link(t)

Next ==
  \/ \E t \in Tabs : HelperBegins(t) \/ StoreStep(t) \/ Rerun(t)
  \/ \E t, u \in Tabs : Open(t, u)
  \/ Tick

Spec == Init /\ [][Next]_vars

-----------------------------------------------------------------------------
TypeOK ==
  /\ time \in Nat /\ writes \in 0..MaxWrites /\ tripped \in BOOLEAN
  /\ order \in Seq(Sids)
  /\ data \in [Sids -> 0..MaxWrites] /\ latest \in [Sids -> 0..MaxWrites]
  /\ due \in [Writes -> Nat]
  /\ url \in [Tabs -> Sids \cup {NoSid}] /\ state \in [Tabs -> 0..MaxWrites]
  /\ pc \in [Tabs -> {"idle", "scan", "pop", "judge", "check", "trim", "raised"}]
  /\ op \in [Tabs -> Gets \cup Sets \cup {"none"}]
  /\ sid \in [Tabs -> Sids \cup {NoSid}] /\ pick \in [Tabs -> Sids \cup {NoSid}]
  /\ now \in [Tabs -> Nat] /\ size \in [Tabs -> Nat] /\ dead \in [Tabs -> SUBSET Sids]
  /\ ent \in [Tabs -> 0..MaxWrites] /\ floor \in [Tabs -> 0..MaxWrites]

(* A tab is never hydrated from a write that has outlived its time to      *)
(* live, however long the thread was suspended inside get                  *)
(* (InMemorySessionStore.get, the comparison after the lookup).            *)
HydratesFresh ==
  [][\A t \in Tabs :
       state'[t] \notin {state[t], 0} => ~Overdue(state'[t], time)]_vars

(* A tab is hydrated from the last write its session had when the call     *)
(* began or from a later one, never from an older one, and never from      *)
(* another session's (get, hydrate_url_session).                           *)
HydratesLatest ==
  [][\A t \in Tabs :
       state'[t] \notin {state[t], 0}
         => state'[t] >= floor[t] /\ state'[t] <= latest[url[t]]]_vars

(* The store holds more than max_entries only while a set call is at work  *)
(* on it, unless a set call raised before it was done (_trim_size).        *)
CapHolds ==
  Len(order) > MaxEntries => tripped \/ \E t \in Tabs : pc[t] \in {"check", "trim"}

(* The id of a session reaches an address bar only after the store has     *)
(* been seeded for it (ensure_url_session: set, then _query_param_set).    *)
LinkedMeansSeeded == \A t \in Tabs : url[t] # NoSid => latest[url[t]] # 0
=============================================================================
