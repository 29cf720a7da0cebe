--------------------------- MODULE UrlSessionProofs ---------------------------
(***************************************************************************)
(* Proofs about UrlSession: the bound on the store, the order of seeding   *)
(* and linking, and what a tab is hydrated from, for any number of tabs,   *)
(* ids, entries and writes.                                                *)
(***************************************************************************)
EXTENDS UrlSession, SequenceTheorems, TLAPS

(* What the threads inside a store call know: which session they work on,  *)
(* that it has been written once they trim, and that the entry a get has   *)
(* read is no older than the call.                                         *)
InCall ==
  \A t \in Tabs :
    /\ pc[t] \in {"scan", "pop", "judge", "check", "trim"} => sid[t] \in Sids
    /\ pc[t] \in {"check", "trim"} => latest[sid[t]] # 0
    /\ pc[t] = "trim" => pick[t] \in Sids
    /\ pc[t] \in {"scan", "pop", "judge"} /\ op[t] \in Gets
         => url[t] = sid[t] /\ floor[t] <= latest[sid[t]]
    /\ pc[t] = "judge"
         => /\ op[t] \in Gets
            /\ ent[t] # 0 => floor[t] <= ent[t] /\ ent[t] <= latest[sid[t]]

(* An entry in the dict is the last write of its key.                      *)
EntriesLatest ==
  \A s \in Sids : latest[s] <= writes /\ (data[s] # 0 => data[s] = latest[s])

IInv == TypeOK /\ InCall /\ EntriesLatest /\ LinkedMeansSeeded /\ CapHolds

(* The part of the type invariant about the threads' local variables.      *)
LocalsTyped ==
  /\ pc \in [Tabs -> {"idle", "scan", "pop", "judge", "check", "trim", "raised"}]
  /\ op \in [Tabs -> Gets \cup Sets \cup {"none"}]
  /\ sid \in [Tabs -> Sids \cup {NoSid}] /\ pick \in [Tabs -> Sids \cup {NoSid}]
  /\ now \in [Tabs -> Nat] /\ size \in [Tabs -> Nat] /\ dead \in [Tabs -> SUBSET Sids]
  /\ ent \in [Tabs -> 0..MaxWrites] /\ floor \in [Tabs -> 0..MaxWrites]

-----------------------------------------------------------------------------
(* An entry of the dict removed: the rest is a sequence of ids no longer   *)
(* than before (dict.pop).                                                 *)
LEMMA WithoutShortens ==
  ASSUME order \in Seq(Sids), NEW s, s \in Stored
  PROVE  Without(s) \in Seq(Sids) /\ Len(Without(s)) <= Len(order)
<1> DEFINE i == CHOOSE j \in 1..Len(order) : order[j] = s
           A == SubSeq(order, 1, i - 1)
           B == SubSeq(order, i + 1, Len(order))
<1>1. i \in 1..Len(order) /\ Len(order) \in Nat
  BY DEF Stored
<1>2. Without(s) = A \o B
  BY DEF Without
<1> HIDE DEF i
<1>3. A \in Seq(Sids) /\ Len(A) <= i - 1
  <2>1. \A k \in 1..(i - 1) : order[k] \in Sids
    BY <1>1
  <2>2. QED
    BY <1>1, <2>1, SubSeqProperties
<1>4. B \in Seq(Sids) /\ Len(B) <= Len(order) - i
  <2>1. \A k \in (i + 1)..Len(order) : order[k] \in Sids
    BY <1>1
  <2>2. QED
    BY <1>1, <2>1, SubSeqProperties
<1> HIDE DEF A, B
<1>5. A \o B \in Seq(Sids) /\ Len(A \o B) = Len(A) + Len(B)
  BY <1>3, <1>4, ConcatProperties
<1>6. Len(A) \in Nat /\ Len(B) \in Nat
  BY <1>3, <1>4
<1>7. QED
  BY <1>1, <1>2, <1>3, <1>4, <1>5, <1>6

(* dict.pop keeps the shape of the dict, never lengthens it and never      *)
(* brings back an older entry.                                             *)
LEMMA PopShortens ==
  ASSUME TypeOK, EntriesLatest, NEW s \in Sids, Pop(s)
  PROVE  /\ order' \in Seq(Sids) /\ Len(order') <= Len(order)
         /\ data' \in [Sids -> 0..MaxWrites]
         /\ \A r \in Sids : data'[r] # 0 => data'[r] = latest[r]
<1>1. order' \in Seq(Sids) /\ Len(order') <= Len(order)
  <2>1. CASE s \in Stored
    BY <2>1, WithoutShortens DEF TypeOK, Pop
  <2>2. CASE s \notin Stored
    BY <2>2 DEF TypeOK, Pop
  <2>3. QED BY <2>1, <2>2
<1>2. data' \in [Sids -> 0..MaxWrites]
  BY UrlSessionAssumption DEF TypeOK, Pop
<1>3. \A r \in Sids : data'[r] # 0 => data'[r] = latest[r]
  BY DEF TypeOK, EntriesLatest, Pop
<1>4. QED BY <1>1, <1>2, <1>3

(* A step that makes the dict no longer and takes no thread out of set     *)
(* respects the bound.                                                     *)
LEMMA CapKept ==
  ASSUME IInv, order' \in Seq(Sids), Len(order') <= Len(order),
         tripped => tripped',
         \A u \in Tabs : pc[u] \in {"check", "trim"} => pc'[u] \in {"check", "trim"}
  PROVE  CapHolds'
<1>1. Len(order') \in Nat /\ Len(order) \in Nat /\ MaxEntries \in Nat
  BY UrlSessionAssumption DEF IInv, TypeOK
<1>2. Len(order') > MaxEntries => Len(order) > MaxEntries
  BY <1>1
<1>3. QED
  BY <1>2 DEF IInv, CapHolds

-----------------------------------------------------------------------------
(* A helper that returns or raises leaves a tab that is in no call.        *)
LEMMA LeaveTyped ==
  ASSUME IInv, NEW t \in Tabs, NEW l \in {"idle", "raised"}, Leave(t, l),
         latest' = latest, url' = url
  PROVE  InCall'
BY SMTT(30) DEF IInv, TypeOK, InCall, Leave, Goto

(* A call that ends keeps the types of its thread's variables.             *)
LEMMA LeaveLocals ==
  ASSUME IInv, NEW t \in Tabs, NEW l \in {"idle", "raised"}, Leave(t, l)
  PROVE  LocalsTyped'
<1> USE UrlSessionAssumption
<1>1. pc' \in [Tabs -> {"idle", "scan", "pop", "judge", "check", "trim", "raised"}]
  BY DEF IInv, TypeOK, Leave, Goto
<1>2. op' \in [Tabs -> Gets \cup Sets \cup {"none"}] /\ dead' \in [Tabs -> SUBSET Sids]
  BY DEF IInv, TypeOK, Leave
<1>3. sid' \in [Tabs -> Sids \cup {NoSid}] /\ pick' \in [Tabs -> Sids \cup {NoSid}]
  BY DEF IInv, TypeOK, Leave
<1>4. now' \in [Tabs -> Nat] /\ size' \in [Tabs -> Nat]
  BY DEF IInv, TypeOK, Leave
<1>5. ent' \in [Tabs -> 0..MaxWrites] /\ floor' \in [Tabs -> 0..MaxWrites]
  BY DEF IInv, TypeOK, Leave
<1>6. QED BY <1>1, <1>2, <1>3, <1>4, <1>5 DEF LocalsTyped

(* A call that begins keeps the types of its thread's variables.           *)
LEMMA StartLocals ==
  ASSUME IInv, NEW t \in Tabs, NEW s \in Sids, NEW o \in Gets \cup Sets,
         StartCall(t, o, s)
  PROVE  LocalsTyped'
<1> USE UrlSessionAssumption
<1>1. pc' \in [Tabs -> {"idle", "scan", "pop", "judge", "check", "trim", "raised"}]
  BY DEF IInv, TypeOK, StartCall, Goto
<1>2. op' \in [Tabs -> Gets \cup Sets \cup {"none"}] /\ dead' \in [Tabs -> SUBSET Sids]
  BY DEF IInv, TypeOK, StartCall
<1>3. sid' \in [Tabs -> Sids \cup {NoSid}] /\ pick' \in [Tabs -> Sids \cup {NoSid}]
  BY DEF IInv, TypeOK, StartCall
<1>4. now' \in [Tabs -> Nat] /\ size' \in [Tabs -> Nat]
  <2>1. Len(order) \in Nat /\ time \in Nat
    BY DEF IInv, TypeOK
  <2>2. QED BY <2>1 DEF IInv, TypeOK, StartCall
<1>5. ent' \in [Tabs -> 0..MaxWrites] /\ floor' \in [Tabs -> 0..MaxWrites]
  BY DEF IInv, TypeOK, StartCall
<1>6. QED BY <1>1, <1>2, <1>3, <1>4, <1>5 DEF LocalsTyped

(* A helper that begins a store call works on its own session id.          *)
LEMMA StartTyped ==
  ASSUME IInv, NEW t \in Tabs, NEW s \in Sids,
         NEW o \in Gets \cup Sets, o \in Gets => url[t] = s, StartCall(t, o, s),
         latest' = latest, url' = url
  PROVE  InCall'
BY SMTT(30) DEF IInv, TypeOK, InCall, StartCall, Goto

(* Every step of the helpers, the store and the tabs keeps the invariant.  *)
THEOREM Inductive == IInv /\ [Next]_vars => IInv'
<1> SUFFICES ASSUME IInv, [Next]_vars PROVE IInv'
  OBVIOUS
<1> USE UrlSessionAssumption
<1>1. ASSUME NEW t \in Tabs, HelperBegins(t) PROVE IInv'
  <2>1. CASE Delete(t)
    <3>1. url[t] \in Sids /\ Pop(url[t])
      BY <2>1 DEF Delete, IInv, TypeOK
    <3>2. /\ order' \in Seq(Sids) /\ Len(order') <= Len(order)
          /\ data' \in [Sids -> 0..MaxWrites]
          /\ \A r \in Sids : data'[r] # 0 => data'[r] = latest[r]
      BY <3>1, PopShortens DEF IInv
    <3>3. TypeOK' /\ InCall' /\ EntriesLatest' /\ LinkedMeansSeeded'
      BY <2>1, <3>2 DEF Delete, IInv, TypeOK, InCall, EntriesLatest,
                        LinkedMeansSeeded, tabVars, callVars, Writes
    <3>4. CapHolds'
      BY <2>1, <3>2, CapKept DEF Delete, callVars
    <3>5. QED BY <3>3, <3>4 DEF IInv
  <2>2. ASSUME NEW s \in Sids, NEW o \in Gets \cup Sets, pc[t] = "idle",
               o \in Gets => url[t] = s, StartCall(t, o, s),
               UNCHANGED <<time, storeVars, tabVars, tripped>>
        PROVE  IInv'
    <3>1. InCall'
      BY <2>2, StartTyped DEF storeVars, tabVars
    <3>2. TypeOK'
      BY <2>2, StartLocals DEF IInv, TypeOK, LocalsTyped, storeVars, tabVars, Writes
    <3>3. EntriesLatest' /\ LinkedMeansSeeded'
      BY <2>2 DEF IInv, EntriesLatest, LinkedMeansSeeded, storeVars, tabVars
    <3>4. CapHolds'
      BY <2>2 DEF IInv, TypeOK, CapHolds, StartCall, Goto, storeVars
    <3>5. QED BY <3>1, <3>2, <3>3, <3>4 DEF IInv
  <2>3. CASE Hydrate(t)
    BY <2>3, <2>2 DEF Hydrate, IInv, TypeOK, Gets
  <2>4. CASE EnsureExisting(t)
    BY <2>4, <2>2 DEF EnsureExisting, IInv, TypeOK, Gets
  <2>5. CASE Persist(t)
    BY <2>5, <2>2 DEF Persist, IInv, TypeOK, Gets, Sets
  <2>6. CASE \E s \in Sids : EnsureMints(t, s)
    BY <2>6, <2>2 DEF EnsureMints, Gets, Sets
  <2>7. QED BY <1>1, <2>1, <2>3, <2>4, <2>5, <2>6 DEF HelperBegins
<1>2. ASSUME NEW t \in Tabs, NEW l \in {"idle", "raised"}, Leave(t, l),
             UNCHANGED <<time, storeVars, tabVars>>, tripped' \in BOOLEAN,
             tripped => tripped',
             pc[t] \in {"check", "trim"} => tripped' \/ Len(order) <= MaxEntries
      PROVE  IInv'
  <2>1. InCall'
    BY <1>2, LeaveTyped DEF storeVars, tabVars
  <2>2. TypeOK'
    BY <1>2, LeaveLocals, ZenonT(40) DEF IInv, TypeOK, LocalsTyped, storeVars, tabVars, Writes
  <2>3. EntriesLatest' /\ LinkedMeansSeeded'
    BY <1>2 DEF IInv, EntriesLatest, LinkedMeansSeeded, storeVars, tabVars
  <2>4. CapHolds'
    BY <1>2, SMTT(30) DEF IInv, TypeOK, CapHolds, Leave, Goto, storeVars
  <2>5. QED BY <2>1, <2>2, <2>3, <2>4 DEF IInv
<1>3. ASSUME NEW t \in Tabs, StoreStep(t) PROVE IInv'
  <2>1. CASE ScanEnds(t)
    <3>1. TypeOK'
      <4>1. Stored \subseteq Sids
        BY SMTT(30) DEF IInv, TypeOK, Stored
      <4>2. dead' \in [Tabs -> SUBSET Sids]
        BY <2>1, <4>1 DEF ScanEnds, IInv, TypeOK
      <4>3. now' \in [Tabs -> Nat] /\ size' \in [Tabs -> Nat]
        BY <2>1 DEF ScanEnds, IInv, TypeOK
      <4>4. pc' \in [Tabs -> {"idle", "scan", "pop", "judge", "check", "trim", "raised"}]
        BY <2>1 DEF ScanEnds, Goto, IInv, TypeOK
      <4>5. UNCHANGED <<time, order, data, due, writes, latest, url, state, op, sid,
                        pick, ent, floor, tripped>>
        BY <2>1 DEF ScanEnds, storeVars, tabVars
      <4>6. QED BY <4>2, <4>3, <4>4, <4>5 DEF IInv, TypeOK
    <3>2. InCall'
      BY <2>1, ZenonT(40) DEF ScanEnds, Goto, IInv, TypeOK, InCall, storeVars, tabVars
    <3>3. EntriesLatest' /\ LinkedMeansSeeded'
      BY <2>1 DEF ScanEnds, IInv, EntriesLatest, LinkedMeansSeeded, storeVars, tabVars
    <3>4. CapHolds'
      BY <2>1 DEF ScanEnds, Goto, IInv, TypeOK, CapHolds, storeVars
    <3>5. QED BY <3>1, <3>2, <3>3, <3>4 DEF IInv
  <2>2. CASE ScanRaises(t)
    BY <2>2, <1>2 DEF ScanRaises, IInv, TypeOK
  <2>3. CASE PopDead(t)
    <3>1. PICK s \in dead[t] : Pop(s) /\ dead' = [dead EXCEPT ![t] = @ \ {s}]
      BY <2>3 DEF PopDead
    <3>2. /\ order' \in Seq(Sids) /\ Len(order') <= Len(order)
          /\ data' \in [Sids -> 0..MaxWrites]
          /\ \A r \in Sids : data'[r] # 0 => data'[r] = latest[r]
      BY <3>1, PopShortens DEF IInv, TypeOK
    <3>3. dead' \in [Tabs -> SUBSET Sids]
      BY <3>1 DEF IInv, TypeOK
    <3>4. TypeOK'
      BY <2>3, <3>2, <3>3 DEF PopDead, IInv, TypeOK, tabVars, Writes
    <3>5. InCall' /\ EntriesLatest' /\ LinkedMeansSeeded'
      BY <2>3, <3>2 DEF PopDead, IInv, TypeOK, InCall, EntriesLatest,
                        LinkedMeansSeeded, tabVars
    <3>6. CapHolds'
      BY <2>3, <3>2, CapKept DEF PopDead
    <3>7. QED BY <3>4, <3>5, <3>6 DEF IInv
  <2>4. CASE Lookup(t)
    <3>1. TypeOK'
      BY <2>4 DEF Lookup, Goto, IInv, TypeOK, InCall, storeVars, tabVars, Writes
    <3>2. InCall'
      BY <2>4, SMTT(30) DEF Lookup, Goto, IInv, TypeOK, InCall, EntriesLatest, storeVars, tabVars
    <3>3. EntriesLatest' /\ LinkedMeansSeeded'
      BY <2>4 DEF Lookup, IInv, EntriesLatest, LinkedMeansSeeded, storeVars, tabVars
    <3>4. CapHolds'
      BY <2>4 DEF Lookup, Goto, IInv, TypeOK, CapHolds, storeVars
    <3>5. QED BY <3>1, <3>2, <3>3, <3>4 DEF IInv
  <2>5. CASE GetReturns(t)
    <3>1. sid[t] \in Sids /\ op[t] \in Gets /\ url[t] = sid[t]
      BY <2>5 DEF GetReturns, IInv, InCall
    <3>2. /\ order' \in Seq(Sids) /\ Len(order') <= Len(order)
          /\ data' \in [Sids -> 0..MaxWrites]
          /\ \A r \in Sids : data'[r] # 0 => data'[r] = latest[r]
      <4>1. CASE Expired(t)
        BY <2>5, <3>1, <4>1, PopShortens DEF GetReturns, IInv
      <4>2. CASE ~Expired(t)
        BY <2>5, <4>2 DEF GetReturns, IInv, TypeOK, EntriesLatest
      <4>3. QED BY <4>1, <4>2
    <3>3. state' \in [Tabs -> 0..MaxWrites]
      BY <2>5 DEF GetReturns, Merged, IInv, TypeOK
    <3>4. InCall'
      <4>1. CASE op[t] = "ensure"
        BY <2>5, <3>1, <4>1, StartTyped DEF GetReturns, Gets, Sets
      <4>2. CASE op[t] # "ensure"
        BY <2>5, <4>2, LeaveTyped DEF GetReturns
      <4>3. QED BY <4>1, <4>2
    <3>5. LocalsTyped'
      <4>1. CASE op[t] = "ensure"
        BY <2>5, <3>1, <4>1, StartLocals DEF GetReturns, Sets
      <4>2. CASE op[t] # "ensure"
        BY <2>5, <4>2, LeaveLocals DEF GetReturns
      <4>3. QED BY <4>1, <4>2
    <3>6. TypeOK'
      BY <2>5, <3>2, <3>3, <3>5 DEF GetReturns, IInv, TypeOK, LocalsTyped, Writes
    <3>7. EntriesLatest' /\ LinkedMeansSeeded'
      BY <2>5, <3>2 DEF GetReturns, IInv, TypeOK, EntriesLatest, LinkedMeansSeeded
    <3>8. \A u \in Tabs : pc[u] \in {"check", "trim"} => pc'[u] = pc[u]
      <4>1. CASE op[t] = "ensure"
        BY <2>5, <4>1 DEF GetReturns, StartCall, Goto, IInv, TypeOK
      <4>2. CASE op[t] # "ensure"
        BY <2>5, <4>2 DEF GetReturns, Leave, Goto, IInv, TypeOK
      <4>3. QED BY <4>1, <4>2
    <3>9. CapHolds'
      BY <2>5, <3>2, <3>8, CapKept DEF GetReturns
    <3>10. QED BY <3>4, <3>6, <3>7, <3>9 DEF IInv
  <2>6. CASE Write(t)
    <3>1. sid[t] \in Sids /\ writes + 1 \in 1..MaxWrites
      BY <2>6 DEF Write, IInv, TypeOK, InCall
    <3>2. order' \in Seq(Sids)
      BY <2>6, <3>1, AppendProperties DEF Write, IInv, TypeOK
    <3>3. due' \in [Writes -> Nat]
      BY <2>6, <3>1, SMTT(30) DEF Write, IInv, TypeOK, Writes
    <3>4. /\ data' \in [Sids -> 0..MaxWrites] /\ latest' \in [Sids -> 0..MaxWrites]
          /\ writes' \in 0..MaxWrites
      BY <2>6, <3>1 DEF Write, IInv, TypeOK
    <3>5. TypeOK'
      BY <2>6, <3>2, <3>3, <3>4 DEF Write, Goto, IInv, TypeOK, tabVars
    <3>6. /\ \A s \in Sids : latest[s] <= latest'[s]
          /\ latest'[sid[t]] # 0
      BY <2>6, <3>1, SMTT(30) DEF Write, IInv, TypeOK, EntriesLatest
    <3>7. InCall'
      BY <2>6, <3>1, <3>4, <3>6, SMTT(30) DEF Write, Goto, IInv, TypeOK, InCall, tabVars, Gets, Sets
    <3>8. EntriesLatest'
      BY <2>6, <3>1, SMTT(30) DEF Write, IInv, TypeOK, EntriesLatest
    <3>9. LinkedMeansSeeded'
      BY <2>6, <3>4, <3>6 DEF Write, IInv, TypeOK, LinkedMeansSeeded, tabVars
    <3>10. CapHolds'
      BY <2>6 DEF Write, Goto, IInv, TypeOK, CapHolds
    <3>11. QED BY <3>5, <3>7, <3>8, <3>9, <3>10 DEF IInv
  <2>7. CASE TrimPicks(t)
    <3>1. Head(order) \in Sids
      BY <2>7, HeadTailProperties DEF TrimPicks, IInv, TypeOK
    <3>2. TypeOK'
      BY <2>7, <3>1 DEF TrimPicks, Goto, IInv, TypeOK, storeVars, tabVars, Writes
    <3>3. InCall'
      BY <2>7, <3>1 DEF TrimPicks, Goto, IInv, TypeOK, InCall, storeVars, tabVars
    <3>4. EntriesLatest' /\ LinkedMeansSeeded'
      BY <2>7 DEF TrimPicks, IInv, EntriesLatest, LinkedMeansSeeded, storeVars, tabVars
    <3>5. CapHolds'
      BY <2>7 DEF TrimPicks, Goto, IInv, TypeOK, CapHolds, storeVars
    <3>6. QED BY <3>2, <3>3, <3>4, <3>5 DEF IInv
  <2>8. CASE TrimPops(t)
    <3>1. pick[t] \in Sids /\ Pop(pick[t])
      BY <2>8 DEF TrimPops, IInv, InCall
    <3>2. /\ order' \in Seq(Sids) /\ Len(order') <= Len(order)
          /\ data' \in [Sids -> 0..MaxWrites]
          /\ \A r \in Sids : data'[r] # 0 => data'[r] = latest[r]
      BY <3>1, PopShortens DEF IInv
    <3>3. TypeOK'
      BY <2>8, <3>2 DEF TrimPops, Goto, IInv, TypeOK, tabVars, Writes
    <3>4. InCall'
      BY <2>8 DEF TrimPops, Goto, IInv, TypeOK, InCall, tabVars
    <3>5. EntriesLatest' /\ LinkedMeansSeeded'
      BY <2>8, <3>2 DEF TrimPops, IInv, EntriesLatest, LinkedMeansSeeded, tabVars
    <3>6. CapHolds'
      BY <2>8, <3>2 DEF TrimPops, Goto, IInv, TypeOK, CapHolds
    <3>7. QED BY <3>3, <3>4, <3>5, <3>6 DEF IInv
  <2>9. CASE TrimRaises(t)
    BY <2>9, <1>2 DEF TrimRaises, IInv, TypeOK
  <2>10. CASE SetReturns(t)
    BY <2>10, <1>2 DEF SetReturns, IInv, TypeOK
  <2>11. CASE Link(t)
    <3>1. sid[t] \in Sids /\ latest[sid[t]] # 0
      BY <2>11 DEF Link, IInv, InCall
    <3>2. TypeOK'
      <4>1. LocalsTyped' /\ url' \in [Tabs -> Sids \cup {NoSid}]
        BY <2>11, <3>1, LeaveLocals DEF Link, IInv, TypeOK
      <4>2. QED BY <2>11, <4>1 DEF Link, IInv, TypeOK, LocalsTyped, storeVars, Writes
    <3>3. InCall'
      BY <2>11, ZenonT(40) DEF Link, Leave, Goto, IInv, TypeOK, InCall, storeVars
    <3>4. EntriesLatest' /\ LinkedMeansSeeded'
      BY <2>11, <3>1 DEF Link, IInv, TypeOK, EntriesLatest, LinkedMeansSeeded, storeVars
    <3>5. CapHolds'
      BY <2>11 DEF Link, Leave, Goto, IInv, TypeOK, CapHolds, storeVars
    <3>6. QED BY <3>2, <3>3, <3>4, <3>5 DEF IInv
  <2>12. QED
    BY <1>3, <2>1, <2>2, <2>3, <2>4, <2>5, <2>6, <2>7, <2>8, <2>9, <2>10, <2>11
       DEF StoreStep
<1>4. ASSUME NEW t \in Tabs, Rerun(t) PROVE IInv'
  BY <1>4, ZenonT(40) DEF Rerun, Goto, IInv, TypeOK, InCall, EntriesLatest,
              LinkedMeansSeeded, CapHolds, storeVars, tabVars, Writes
<1>5. ASSUME NEW t \in Tabs, NEW u \in Tabs, Open(t, u) PROVE IInv'
  <2>1. url' \in [Tabs -> Sids \cup {NoSid}] /\ state' \in [Tabs -> 0..MaxWrites]
    BY <1>5, SMTT(30) DEF Open, IInv, TypeOK
  <2>2. TypeOK'
    BY <1>5, <2>1 DEF Open, IInv, TypeOK, storeVars, callVars, Writes
  <2>3. InCall'
    BY <1>5 DEF Open, IInv, TypeOK, InCall, storeVars, callVars
  <2>4. EntriesLatest' /\ LinkedMeansSeeded' /\ CapHolds'
    BY <1>5 DEF Open, IInv, TypeOK, EntriesLatest, LinkedMeansSeeded, CapHolds,
                storeVars, callVars
  <2>5. QED BY <2>2, <2>3, <2>4 DEF IInv
<1>6. CASE Tick
  BY <1>6, SMTT(30) DEF Tick, IInv, TypeOK, InCall, EntriesLatest, LinkedMeansSeeded,
              CapHolds, storeVars, tabVars, callVars, Writes
<1>7. CASE UNCHANGED vars
  BY <1>7 DEF vars, IInv, TypeOK, InCall, EntriesLatest, LinkedMeansSeeded,
              CapHolds, storeVars, tabVars, callVars, Writes
<1>8. QED
  BY <1>1, <1>3, <1>4, <1>5, <1>6, <1>7 DEF Next

(* The strengthened invariant holds in every reachable state.              *)
THEOREM Invariance == Spec => []IInv
<1>1. Init => IInv
  <2> SUFFICES ASSUME Init PROVE IInv
    OBVIOUS
  <2>1. TypeOK
    <3>1. order \in Seq(Sids) /\ 0 \in 0..MaxWrites
      BY UrlSessionAssumption DEF Init
    <3>2. LocalsTyped
      BY <3>1 DEF Init, LocalsTyped
    <3>3. /\ data \in [Sids -> 0..MaxWrites] /\ latest \in [Sids -> 0..MaxWrites]
          /\ due \in [Writes -> Nat]
      BY <3>1 DEF Init
    <3>4. url \in [Tabs -> Sids \cup {NoSid}] /\ state \in [Tabs -> 0..MaxWrites]
      BY <3>1 DEF Init
    <3>5. time \in Nat /\ writes \in 0..MaxWrites /\ tripped \in BOOLEAN
      BY <3>1 DEF Init
    <3>6. QED BY <3>1, <3>2, <3>3, <3>4, <3>5 DEF TypeOK, LocalsTyped
  <2>2. InCall /\ EntriesLatest /\ LinkedMeansSeeded
    BY DEF Init, InCall, EntriesLatest, LinkedMeansSeeded
  <2>3. Len(order) = 0
    BY DEF Init
  <2>4. CapHolds
    BY <2>3, UrlSessionAssumption DEF CapHolds
  <2>5. QED BY <2>1, <2>2, <2>4 DEF IInv
<1>2. QED
  BY <1>1, Inductive, PTL DEF Spec

(* The store outgrows max_entries only while a set call is at work on it,  *)
(* unless a call has raised in _trim_size.                                 *)
THEOREM StoreIsBounded == Spec => []CapHolds
BY Invariance, PTL DEF IInv

(* ensure_url_session seeds the store before it puts the id in the URL,    *)
(* and no copied address refers to a session that never existed.           *)
THEOREM SeededBeforeLinked == Spec => []LinkedMeansSeeded
BY Invariance, PTL DEF IInv

-----------------------------------------------------------------------------
(* The only step that hydrates a tab is the return of its get.             *)
LEMMA HydratedByGet ==
  ASSUME IInv, [Next]_vars, NEW t \in Tabs, state'[t] \notin {state[t], 0}
  PROVE  GetReturns(t) /\ ent[t] # 0 /\ state'[t] = ent[t] /\ ~Expired(t)
<1>1. ASSUME NEW u \in Tabs, GetReturns(u)
      PROVE  u = t /\ ent[t] # 0 /\ state'[t] = ent[t] /\ ~Expired(t)
  <2>1. PICK m \in Merged(u) : state' = [state EXCEPT ![u] = m]
    BY <1>1 DEF GetReturns
  <2>2. u = t /\ m # state[t] /\ state'[t] = m
    BY <2>1 DEF IInv, TypeOK
  <2>3. QED BY <2>1, <2>2 DEF Merged
<1>2. ASSUME NEW u \in Tabs, HelperBegins(u) PROVE FALSE
  BY <1>2 DEF HelperBegins, Hydrate, EnsureExisting, EnsureMints, Persist,
              Delete, tabVars
<1>3. ASSUME NEW u \in Tabs, StoreStep(u), ~GetReturns(u) PROVE FALSE
  BY <1>3 DEF StoreStep, ScanEnds, ScanRaises, PopDead, Lookup, Write,
              TrimPicks, TrimPops, TrimRaises, SetReturns, Link, tabVars
<1>4. ASSUME NEW u \in Tabs, NEW v \in Tabs, Open(u, v) PROVE FALSE
  BY <1>4 DEF Open, IInv, TypeOK
<1>5. ASSUME NEW u \in Tabs, Rerun(u) PROVE FALSE
  BY <1>5 DEF Rerun, tabVars
<1>6. ~Tick /\ ~UNCHANGED vars
  BY DEF Tick, vars, tabVars
<1>7. QED BY <1>1, <1>2, <1>3, <1>4, <1>5, <1>6 DEF Next

(* No tab is hydrated from an expired write, however get is interleaved.   *)
THEOREM HydrationIsFresh == Spec => HydratesFresh
<1>1. IInv /\ [Next]_vars
        => [\A t \in Tabs :
              state'[t] \notin {state[t], 0} => ~Overdue(state'[t], time)]_vars
  BY HydratedByGet DEF Expired
<1>2. QED
  BY <1>1, Invariance, PTL DEF Spec, HydratesFresh

(* A tab is hydrated from its own session's last write, as of the call or  *)
(* later.                                                                  *)
THEOREM HydrationIsLatest == Spec => HydratesLatest
<1>1. IInv /\ [Next]_vars
        => [\A t \in Tabs :
              state'[t] \notin {state[t], 0}
                => state'[t] >= floor[t] /\ state'[t] <= latest[url[t]]]_vars
  <2> SUFFICES ASSUME IInv, [Next]_vars, NEW t \in Tabs,
                      state'[t] \notin {state[t], 0}
               PROVE  state'[t] >= floor[t] /\ state'[t] <= latest[url[t]]
    OBVIOUS
  <2>1. pc[t] = "judge" /\ ent[t] # 0 /\ state'[t] = ent[t]
    BY HydratedByGet DEF GetReturns
  <2>2. QED BY <2>1 DEF IInv, InCall, TypeOK
<1>2. QED
  BY <1>1, Invariance, PTL DEF Spec, HydratesLatest
=============================================================================
