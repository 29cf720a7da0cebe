---------------------------- MODULE OidcBffProofs ----------------------------
(***************************************************************************)
(* Proofs about OidcBff for every number of logins, callbacks and tabs and *)
(* for every lifetime: the store's invariant, from which one-time use,     *)
(* freshness and the absence of early rejections follow, and with which    *)
(* the store implements TokenStore twice.                                  *)
(***************************************************************************)
EXTENDS OidcBff, TLAPS

(***************************************************************************)
(* What one call of the store does to each entry: a save leaves the saved  *)
(* entry with the caller's time, a pop leaves none, and any other entry    *)
(* stays unless it is out of date on the caller's clock.                   *)
(***************************************************************************)
LEMMA SaveFacts ==
  ASSUME NEW S, NEW store \in [S -> Stamps], NEW ttl \in Nat,
         NEW k \in S, NEW now \in Times
  PROVE  /\ Save(store, ttl, k, now) \in [S -> Stamps]
         /\ Save(store, ttl, k, now)[k] = now
         /\ \A j \in S \ {k} :
              \/ Save(store, ttl, k, now)[j] = store[j]
              \/ /\ Save(store, ttl, k, now)[j] = Absent
                 /\ store[j] # Absent /\ now > store[j] + ttl
  BY BffAssumption DEF Save, PurgeExpired, Stamps, Times, Absent

(* A pop: none is left under the key, the others as after a save.          *)
LEMMA PopFacts ==
  ASSUME NEW S, NEW store \in [S -> Stamps], NEW ttl \in Nat,
         NEW k \in S, NEW now \in Times
  PROVE  /\ Pop(store, ttl, k, now) \in [S -> Stamps]
         /\ Pop(store, ttl, k, now)[k] = Absent
         /\ \A j \in S \ {k} :
              \/ Pop(store, ttl, k, now)[j] = store[j]
              \/ /\ Pop(store, ttl, k, now)[j] = Absent
                 /\ store[j] # Absent /\ now > store[j] + ttl
  BY BffAssumption DEF Pop, PurgeExpired, Stamps, Times, Absent

(* A pop returns a value if there is one and it is not out of date.        *)
LEMMA HoldsFact ==
  ASSUME NEW S, NEW store \in [S -> Stamps], NEW ttl \in Nat,
         NEW k \in S, NEW now \in Times
  PROVE  Holds(store, ttl, k, now) <=> store[k] # Absent /\ now <= store[k] + ttl
  BY BffAssumption DEF Holds, PurgeExpired, Stamps, Times, Absent

(***************************************************************************)
(* The lemmas at the store's four calls.                                   *)
(***************************************************************************)
LEMMA LoginSaveFacts ==
  ASSUME TypeOK, NEW l \in Logins, LoginSave(l)
  PROVE  /\ pkce'[l] = began[l]
         /\ \A j \in Logins \ {l} :
              \/ pkce'[j] = pkce[j]
              \/ pkce'[j] = Absent /\ pkce[j] # Absent /\ began[l] > pkce[j] + StateTtl
<1>1. pkce \in [Logins -> Stamps] /\ began[l] \in Times /\ StateTtl \in Nat
  BY BffAssumption DEF TypeOK
<1>2. pkce' = Save(pkce, StateTtl, l, began[l])
  BY DEF LoginSave
<1>3. QED
  BY <1>1, <1>2, SaveFacts

(* A callback pops its state.                                              *)
LEMMA CallbackPopFacts ==
  ASSUME TypeOK, LinkInv, NEW c \in Callbacks, CallbackPop(c)
  PROVE  /\ state[c] \in Logins /\ pkce'[state[c]] = Absent
         /\ \A j \in Logins \ {state[c]} :
              \/ pkce'[j] = pkce[j]
              \/ pkce'[j] = Absent /\ pkce[j] # Absent /\ arrived[c] > pkce[j] + StateTtl
         /\ Holds(pkce, StateTtl, state[c], arrived[c])
              <=> pkce[state[c]] # Absent /\ arrived[c] <= pkce[state[c]] + StateTtl
<1>1. pkce \in [Logins -> Stamps] /\ arrived[c] \in Times /\ StateTtl \in Nat
  BY BffAssumption DEF TypeOK
<1>2. state[c] \in Logins
  BY DEF CallbackPop, LinkInv
<1>3. pkce' = Pop(pkce, StateTtl, state[c], arrived[c])
  BY DEF CallbackPop
<1>4. Holds(pkce, StateTtl, state[c], arrived[c]) <=> pkce[state[c]] # Absent /\ arrived[c] <= pkce[state[c]] + StateTtl
  BY <1>1, <1>2, HoldsFact
<1>5. LET after == Pop(pkce, StateTtl, state[c], arrived[c])
      IN  /\ after[state[c]] = Absent
          /\ \A j \in Logins \ {state[c]} :
               \/ after[j] = pkce[j]
               \/ after[j] = Absent /\ pkce[j] # Absent /\ arrived[c] > pkce[j] + StateTtl
  BY <1>1, <1>2, PopFacts
<1>6. QED
  BY <1>2, <1>3, <1>4, <1>5

(* A callback saves its auth_code.                                         *)
LEMMA CallbackSaveFacts ==
  ASSUME TypeOK, NEW c \in Callbacks, CallbackSave(c)
  PROVE  /\ exchange'[c] = minted[c]
         /\ \A j \in Callbacks \ {c} :
              \/ exchange'[j] = exchange[j]
              \/ exchange'[j] = Absent /\ exchange[j] # Absent /\ minted[c] > exchange[j] + OtcTtl
<1>1. exchange \in [Callbacks -> Stamps] /\ minted[c] \in Times /\ OtcTtl \in Nat
  BY BffAssumption DEF TypeOK
<1>2. exchange' = Save(exchange, OtcTtl, c, minted[c])
  BY DEF CallbackSave
<1>3. QED
  BY <1>1, <1>2, SaveFacts

(* A post pops its auth_code.                                              *)
LEMMA ExchangePopFacts ==
  ASSUME TypeOK, LinkInv, NEW t \in Tabs, ExchangePop(t)
  PROVE  /\ code[t] \in Callbacks /\ exchange'[code[t]] = Absent
         /\ \A j \in Callbacks \ {code[t]} :
              \/ exchange'[j] = exchange[j]
              \/ exchange'[j] = Absent /\ exchange[j] # Absent /\ posted[t] > exchange[j] + OtcTtl
         /\ Holds(exchange, OtcTtl, code[t], posted[t])
              <=> exchange[code[t]] # Absent /\ posted[t] <= exchange[code[t]] + OtcTtl
<1>1. exchange \in [Callbacks -> Stamps] /\ posted[t] \in Times /\ OtcTtl \in Nat
  BY BffAssumption DEF TypeOK
<1>2. code[t] \in Callbacks
  BY DEF ExchangePop, LinkInv
<1>3. exchange' = Pop(exchange, OtcTtl, code[t], posted[t])
  BY DEF ExchangePop
<1>4. Holds(exchange, OtcTtl, code[t], posted[t]) <=> exchange[code[t]] # Absent /\ posted[t] <= exchange[code[t]] + OtcTtl
  BY <1>1, <1>2, HoldsFact
<1>5. LET after == Pop(exchange, OtcTtl, code[t], posted[t])
      IN  /\ after[code[t]] = Absent
          /\ \A j \in Callbacks \ {code[t]} :
               \/ after[j] = exchange[j]
               \/ after[j] = Absent /\ exchange[j] # Absent /\ posted[t] > exchange[j] + OtcTtl
  BY <1>1, <1>2, PopFacts
<1>6. QED
  BY <1>2, <1>3, <1>4, <1>5

(* The invariant of the store holds at the start.                          *)
LEMMA InitStoreInv == Init => TypeOK /\ StoreInv
<1> SUFFICES ASSUME Init PROVE TypeOK /\ StoreInv
  OBVIOUS
<1> USE BffAssumption DEF Init
<1>1. TypeOK
  BY DEF TypeOK, Stamps, Times, LoginPC, CallbackPC, TabPC, Outcomes, Pages
<1>2. ClockInv
  BY DEF ClockInv
<1>3. LinkInv
  BY DEF LinkInv
<1>4. PkceInv
  BY DEF PkceInv
<1>5. ExchangeInv
  BY DEF ExchangeInv
<1>6. AnsweredInv
  BY DEF AnsweredInv
<1>7. QED
  BY <1>1, <1>2, <1>3, <1>4, <1>5, <1>6 DEF StoreInv

(***************************************************************************)
(* Every step of a route, of a page or of the clock keeps the state typed. *)
(***************************************************************************)
LEMMA NextTypeOK == TypeOK /\ LinkInv /\ [Next]_vars => TypeOK'
<1> SUFFICES ASSUME TypeOK, LinkInv, [Next]_vars PROVE TypeOK'
  OBVIOUS
<1> USE BffAssumption
    DEF TypeOK, LoginPC, CallbackPC, TabPC, Outcomes, storeVars, loginVars, callbackVars,
        tabVars
<1>1. ASSUME NEW l \in Logins, LoginBegin(l) PROVE TypeOK'
  BY <1>1 DEF LoginBegin
<1>2. ASSUME NEW l \in Logins, LoginSave(l) PROVE TypeOK'
  <2>1. pkce' \in [Logins -> Stamps]
    BY <1>2, SaveFacts, ZenonT(40) DEF LoginSave
  <2>2. QED
    BY <1>2, <2>1 DEF LoginSave
<1>3. ASSUME NEW c \in Callbacks, CallbackBegin(c) PROVE TypeOK'
  BY <1>3 DEF CallbackBegin
<1>4. ASSUME NEW c \in Callbacks, CallbackPop(c) PROVE TypeOK'
  <2>1. pkce' \in [Logins -> Stamps]
    BY <1>4, PopFacts, ZenonT(40) DEF CallbackPop, LinkInv
  <2>2. QED
    BY <1>4, <2>1 DEF CallbackPop
<1>5. ASSUME NEW c \in Callbacks, IdpAccepts(c) \/ IdpFails(c) PROVE TypeOK'
  BY <1>5 DEF IdpAccepts, IdpFails
<1>6. ASSUME NEW c \in Callbacks, CallbackSave(c) PROVE TypeOK'
  <2>1. exchange' \in [Callbacks -> Stamps]
    BY <1>6, SaveFacts, ZenonT(40) DEF CallbackSave
  <2>2. QED
    BY <1>6, <2>1 DEF CallbackSave
<1>7. ASSUME NEW t \in Tabs, OpenTab(t) \/ RunWithoutExchange(t) PROVE TypeOK'
  BY <1>7 DEF OpenTab, RunWithoutExchange
<1>8. ASSUME NEW t \in Tabs, RunExchange(t) PROVE TypeOK'
  BY <1>8 DEF RunExchange
<1>9. ASSUME NEW t \in Tabs, ExchangePop(t) PROVE TypeOK'
  <2>1. code[t] \in Callbacks
    BY <1>9 DEF ExchangePop, LinkInv
  <2>2. exchange' \in [Callbacks -> Stamps]
    BY <1>9, <2>1, PopFacts DEF ExchangePop
  <2>3. QED
    BY <1>9, <2>1, <2>2 DEF ExchangePop
<1>10. ASSUME NEW t \in Tabs, StoreToken(t) PROVE TypeOK'
  BY <1>10 DEF StoreToken
<1>11. ASSUME NEW t \in Tabs, ExchangeRaises(t) PROVE TypeOK'
  BY <1>11 DEF ExchangeRaises
<1>12. CASE Tick
  BY <1>12 DEF Tick, Times
<1>13. CASE UNCHANGED vars
  BY <1>13 DEF vars
<1>14. QED
  BY <1>1, <1>2, <1>3, <1>4, <1>5, <1>6, <1>7, <1>8, <1>9, <1>10, <1>11, <1>12, <1>13
     DEF Next

(***************************************************************************)
(* No handler holds a time ahead of the clock, and requests carry only     *)
(* states and codes that were handed out.                                  *)
(***************************************************************************)
LEMMA NextClockLink == TypeOK /\ ClockInv /\ LinkInv /\ [Next]_vars => ClockInv' /\ LinkInv'
<1> SUFFICES ASSUME TypeOK, ClockInv, LinkInv, [Next]_vars PROVE ClockInv' /\ LinkInv'
  OBVIOUS
<1> USE BffAssumption
    DEF TypeOK, Times, storeVars, loginVars, callbackVars, tabVars, ClockInv, LinkInv
<1>1. ASSUME NEW l \in Logins, LoginBegin(l) PROVE ClockInv' /\ LinkInv'
  BY <1>1 DEF LoginBegin
<1>2. ASSUME NEW l \in Logins, LoginSave(l) PROVE ClockInv' /\ LinkInv'
  BY <1>2 DEF LoginSave
<1>3. ASSUME NEW c \in Callbacks, CallbackBegin(c) PROVE ClockInv' /\ LinkInv'
  BY <1>3 DEF CallbackBegin
<1>4. ASSUME NEW c \in Callbacks, CallbackPop(c) PROVE ClockInv' /\ LinkInv'
  BY <1>4 DEF CallbackPop
<1>5. ASSUME NEW c \in Callbacks, IdpAccepts(c) \/ IdpFails(c) \/ CallbackSave(c)
      PROVE  ClockInv' /\ LinkInv'
  BY <1>5 DEF IdpAccepts, IdpFails, CallbackSave
<1>6. ASSUME NEW t \in Tabs, OpenTab(t) \/ RunWithoutExchange(t) PROVE ClockInv' /\ LinkInv'
  BY <1>6 DEF OpenTab, RunWithoutExchange
<1>7. ASSUME NEW t \in Tabs, RunExchange(t) PROVE ClockInv' /\ LinkInv'
  BY <1>7 DEF RunExchange
<1>8. ASSUME NEW t \in Tabs, ExchangePop(t) PROVE ClockInv' /\ LinkInv'
  BY <1>8 DEF ExchangePop
<1>9. ASSUME NEW t \in Tabs, StoreToken(t) PROVE ClockInv' /\ LinkInv'
  BY <1>9 DEF StoreToken
<1>10. ASSUME NEW t \in Tabs, ExchangeRaises(t) PROVE ClockInv' /\ LinkInv'
  BY <1>10 DEF ExchangeRaises
<1>11. CASE Tick
  BY <1>11 DEF Tick
<1>12. CASE UNCHANGED vars
  BY <1>12 DEF vars
<1>13. QED
  BY <1>1, <1>2, <1>3, <1>4, <1>5, <1>6, <1>7, <1>8, <1>9, <1>10, <1>11, <1>12 DEF Next

(***************************************************************************)
(* A state is in the store from its login's save until a callback takes it *)
(* or it is out of date.                                                   *)
(***************************************************************************)
LEMMA NextPkce ==
  TypeOK /\ TypeOK' /\ ClockInv /\ LinkInv /\ PkceInv /\ [Next]_vars => PkceInv'
<1> SUFFICES ASSUME TypeOK, TypeOK', ClockInv, LinkInv, PkceInv, [Next]_vars PROVE PkceInv'
  OBVIOUS
<1> USE BffAssumption
    DEF TypeOK, storeVars, loginVars, callbackVars, tabVars, PkceInv, Consumed, Admitted
<1>1. ASSUME NEW l \in Logins, LoginBegin(l) PROVE PkceInv'
  BY <1>1 DEF LoginBegin
<1>2. ASSUME NEW l \in Logins, LoginSave(l) PROVE PkceInv'
  <2>1. \A j \in Logins \ {l} :
          pkce'[j] = pkce[j] \/ (pkce'[j] = Absent /\ pkce[j] # Absent
                                /\ began[l] > pkce[j] + StateTtl)
    BY <1>2, LoginSaveFacts
  <2>2. pkce'[l] = began[l]
    BY <1>2, LoginSaveFacts
  <2>3. ~Consumed(l)'
    BY <1>2 DEF LoginSave, LinkInv
  <2>4. \A j \in Logins : Consumed(j)' <=> Consumed(j)
    BY <1>2 DEF LoginSave
  <2>5. QED
    BY <1>2, <2>1, <2>2, <2>3, <2>4 DEF LoginSave, ClockInv, Absent, Stamps, Times
<1>3. ASSUME NEW c \in Callbacks, CallbackBegin(c) PROVE PkceInv'
  BY <1>3 DEF CallbackBegin
<1>4. ASSUME NEW c \in Callbacks, CallbackPop(c) PROVE PkceInv'
  <2> DEFINE l == state[c]
  <2>1. l \in Logins /\ loginPc[l] = "redirected"
    BY <1>4 DEF CallbackPop, LinkInv
  <2>2. /\ pkce'[l] = Absent
        /\ \A j \in Logins \ {l} :
             pkce'[j] = pkce[j] \/ (pkce'[j] = Absent /\ pkce[j] # Absent
                                   /\ arrived[c] > pkce[j] + StateTtl)
        /\ Holds(pkce, StateTtl, l, arrived[c])
             <=> pkce[l] # Absent /\ arrived[c] <= pkce[l] + StateTtl
    BY <1>4, CallbackPopFacts
  <2>3. \A j \in Logins \ {l} : Consumed(j)' <=> Consumed(j)
    BY <1>4 DEF CallbackPop
  <2>4. Consumed(l) => Consumed(l)'
    BY <1>4 DEF CallbackPop
  <2>5. pkce[l] # Absent => Consumed(l)' \/ clock > began[l] + StateTtl
    BY <1>4, <2>1, <2>2 DEF CallbackPop, ClockInv, Absent, Stamps, Times
  <2>6. \A j \in Logins \ {l} :
           pkce'[j] = Absent /\ pkce[j] # Absent => clock > began[j] + StateTtl
    BY <2>2 DEF ClockInv, Absent, Stamps, Times
  <2>7. QED
    BY <1>4, <2>1, <2>2, <2>3, <2>4, <2>5, <2>6 DEF CallbackPop
<1>5. ASSUME NEW c \in Callbacks, IdpAccepts(c) \/ IdpFails(c) \/ CallbackSave(c)
      PROVE  PkceInv'
  <2>1. \A d \in Callbacks : Admitted(d)' <=> Admitted(d)
    BY <1>5 DEF IdpAccepts, IdpFails, CallbackSave
  <2>2. UNCHANGED <<pkce, loginPc, began, state, clock>>
    BY <1>5 DEF IdpAccepts, IdpFails, CallbackSave
  <2> HIDE DEF Admitted
  <2>3. QED
    BY <2>1, <2>2
<1>6. ASSUME NEW t \in Tabs,
             \/ OpenTab(t) \/ RunWithoutExchange(t) \/ RunExchange(t) \/ ExchangePop(t)
             \/ StoreToken(t) \/ ExchangeRaises(t)
      PROVE  PkceInv'
  BY <1>6 DEF OpenTab, RunWithoutExchange, RunExchange, ExchangePop, StoreToken,
     ExchangeRaises
<1>7. CASE Tick
  BY <1>7 DEF Tick, Times
<1>8. CASE UNCHANGED vars
  BY <1>8 DEF vars
<1>9. QED
  BY <1>1, <1>2, <1>3, <1>4, <1>5, <1>6, <1>7, <1>8 DEF Next

(***************************************************************************)
(* An auth_code is in the store from its callback's save until an exchange *)
(* takes it or it is out of date.                                          *)
(***************************************************************************)
LEMMA NextExchange ==
  TypeOK /\ TypeOK' /\ ClockInv /\ LinkInv /\ ExchangeInv /\ [Next]_vars => ExchangeInv'
<1> SUFFICES ASSUME TypeOK, TypeOK', ClockInv, LinkInv, ExchangeInv, [Next]_vars
             PROVE  ExchangeInv'
  OBVIOUS
<1> USE BffAssumption
    DEF TypeOK, storeVars, loginVars, callbackVars, tabVars, ExchangeInv
<1>1. ASSUME NEW l \in Logins, LoginBegin(l) \/ LoginSave(l) PROVE ExchangeInv'
  BY <1>1 DEF LoginBegin, LoginSave
<1>2. ASSUME NEW c \in Callbacks,
             CallbackBegin(c) \/ CallbackPop(c) \/ IdpFails(c) \/ IdpAccepts(c)
      PROVE  ExchangeInv'
  BY <1>2 DEF CallbackBegin, CallbackPop, IdpFails, IdpAccepts
<1>3. ASSUME NEW c \in Callbacks, CallbackSave(c) PROVE ExchangeInv'
  <2>1. /\ exchange'[c] = minted[c]
        /\ \A d \in Callbacks \ {c} :
             exchange'[d] = exchange[d]
             \/ (exchange'[d] = Absent /\ exchange[d] # Absent
                 /\ minted[c] > exchange[d] + OtcTtl)
    BY <1>3, CallbackSaveFacts
  <2>2. \A d \in Callbacks \ {c} :
          exchange'[d] = Absent /\ exchange[d] # Absent => clock > minted[d] + OtcTtl
    BY <2>1 DEF ClockInv, Absent, Stamps, Times
  <2>3. minted[c] # Absent
    BY DEF Absent, Times
  <2>4. QED
    BY <1>3, <2>1, <2>2, <2>3 DEF CallbackSave
<1>4. ASSUME NEW t \in Tabs, ExchangePop(t) PROVE ExchangeInv'
  <2> DEFINE c == code[t]
  <2>1. c \in Callbacks /\ callbackPc[c] = "redirected"
    BY <1>4 DEF ExchangePop, LinkInv
  <2>2. /\ exchange'[c] = Absent
        /\ \A d \in Callbacks \ {c} :
             exchange'[d] = exchange[d]
             \/ (exchange'[d] = Absent /\ exchange[d] # Absent
                 /\ posted[t] > exchange[d] + OtcTtl)
        /\ Holds(exchange, OtcTtl, c, posted[t])
             <=> exchange[c] # Absent /\ posted[t] <= exchange[c] + OtcTtl
    BY <1>4, ExchangePopFacts
  <2>3. \A d \in Callbacks \ {c} :
          exchange'[d] = Absent /\ exchange[d] # Absent => clock > minted[d] + OtcTtl
    BY <2>2 DEF ClockInv, Absent, Stamps, Times
  <2>4. \A d \in Callbacks \ {c} : spent'[d] = spent[d]
    BY <1>4, <2>1 DEF ExchangePop
  <2>5. spent'[c] > 0 \/ clock > minted[c] + OtcTtl
    <3>1. CASE Holds(exchange, OtcTtl, c, posted[t])
      BY <1>4, <2>1, <3>1 DEF ExchangePop
    <3>2. CASE ~Holds(exchange, OtcTtl, c, posted[t])
      BY <1>4, <2>1, <2>2, <3>2 DEF ExchangePop, ClockInv, Absent, Stamps, Times
    <3>3. QED
      BY <3>1, <3>2
  <2>6. QED
    BY <1>4, <2>1, <2>2, <2>3, <2>4, <2>5 DEF ExchangePop
<1>5. ASSUME NEW t \in Tabs,
             \/ OpenTab(t) \/ RunWithoutExchange(t) \/ RunExchange(t) \/ StoreToken(t)
             \/ ExchangeRaises(t)
      PROVE  ExchangeInv'
  BY <1>5 DEF OpenTab, RunWithoutExchange, RunExchange, StoreToken, ExchangeRaises
<1>6. CASE Tick
  BY <1>6 DEF Tick, Times
<1>7. CASE UNCHANGED vars
  BY <1>7 DEF vars
<1>8. QED
  BY <1>1, <1>2, <1>3, <1>4, <1>5, <1>6, <1>7 DEF Next

(***************************************************************************)
(* A state or code that a request was answered about never returns to the  *)
(* store.                                                                  *)
(***************************************************************************)
LEMMA NextAnswered ==
  TypeOK /\ TypeOK' /\ LinkInv /\ AnsweredInv /\ [Next]_vars => AnsweredInv'
<1> SUFFICES ASSUME TypeOK, TypeOK', LinkInv, AnsweredInv, [Next]_vars PROVE AnsweredInv'
  OBVIOUS
<1> USE DEF TypeOK, storeVars, loginVars, callbackVars, tabVars, AnsweredInv, LinkInv
<1>1. ASSUME NEW l \in Logins, LoginBegin(l) \/ LoginSave(l) PROVE AnsweredInv'
  <2>1. CASE LoginBegin(l)
    BY <2>1 DEF LoginBegin
  <2>2. CASE LoginSave(l)
    BY <2>2, LoginSaveFacts, ZenonT(40) DEF LoginSave
  <2>3. QED
    BY <1>1, <2>1, <2>2
<1>2. ASSUME NEW c \in Callbacks, CallbackBegin(c) \/ IdpFails(c) \/ IdpAccepts(c)
      PROVE  AnsweredInv'
  BY <1>2 DEF CallbackBegin, IdpFails, IdpAccepts
<1>3. ASSUME NEW c \in Callbacks, CallbackPop(c) PROVE AnsweredInv'
  BY <1>3, CallbackPopFacts, ZenonT(40) DEF CallbackPop
<1>4. ASSUME NEW c \in Callbacks, CallbackSave(c) PROVE AnsweredInv'
  BY <1>4, CallbackSaveFacts, ZenonT(40) DEF CallbackSave
<1>5. ASSUME NEW t \in Tabs, ExchangePop(t) PROVE AnsweredInv'
  BY <1>5, ExchangePopFacts, ZenonT(40) DEF ExchangePop
<1>6. ASSUME NEW t \in Tabs,
             \/ OpenTab(t) \/ RunWithoutExchange(t) \/ RunExchange(t) \/ StoreToken(t)
             \/ ExchangeRaises(t)
      PROVE  AnsweredInv'
  BY <1>6 DEF OpenTab, RunWithoutExchange, RunExchange, StoreToken, ExchangeRaises
<1>7. CASE Tick \/ UNCHANGED vars
  BY <1>7 DEF Tick, vars
<1>8. QED
  BY <1>1, <1>2, <1>3, <1>4, <1>5, <1>6, <1>7 DEF Next

(***************************************************************************)
(* The store, the routes and the pages stay typed and in agreement.        *)
(***************************************************************************)
THEOREM StoreInvariant == Spec => [](TypeOK /\ StoreInv)
<1>1. TypeOK /\ StoreInv /\ [Next]_vars => TypeOK' /\ StoreInv'
  BY NextTypeOK, NextClockLink, NextPkce, NextExchange, NextAnswered DEF StoreInv
<1>2. QED
  BY InitStoreInv, <1>1, PTL DEF Spec

(***************************************************************************)
(* Every auth_code is redeemed at most once.                               *)
(***************************************************************************)
THEOREM RedeemedOnce == Spec => []OneTokenPerCode
<1> DEFINE Once == OneTokenPerCode
<1>1. Init => Once
  BY DEF Init, OneTokenPerCode
<1>2. TypeOK /\ StoreInv /\ Once /\ [Next]_vars => Once'
  <2> SUFFICES ASSUME TypeOK, StoreInv, OneTokenPerCode, [Next]_vars PROVE OneTokenPerCode'
    OBVIOUS
  <2>1. ASSUME NEW t \in Tabs, ExchangePop(t) PROVE OneTokenPerCode'
    <3>1. code[t] \in Callbacks
      BY <2>1 DEF ExchangePop, StoreInv, LinkInv
    <3>2. Holds(exchange, OtcTtl, code[t], posted[t]) => exchange[code[t]] # Absent
      BY <2>1, ExchangePopFacts DEF StoreInv
    <3>3. Holds(exchange, OtcTtl, code[t], posted[t]) => spent[code[t]] = 0
      BY <3>1, <3>2 DEF StoreInv, ExchangeInv
    <3>4. QED
      BY <2>1, <3>1, <3>3 DEF ExchangePop, TypeOK, OneTokenPerCode
  <2>2. CASE UNCHANGED spent
    BY <2>2 DEF OneTokenPerCode
  <2>3. QED
    BY <2>1, <2>2 DEF Next, vars, storeVars, LoginBegin, LoginSave, CallbackBegin, CallbackPop,
       IdpAccepts, IdpFails, CallbackSave, OpenTab, RunWithoutExchange, RunExchange,
       StoreToken, ExchangeRaises, Tick
<1>3. QED
  BY <1>1, <1>2, StoreInvariant, PTL DEF Spec

(***************************************************************************)
(* Nobody is turned away early, at the callback or at the exchange.        *)
(***************************************************************************)
THEOREM RejectedForCause == Spec => []NoFalseReject
<1>1. TypeOK /\ StoreInv => NoFalseReject
  BY DEF TypeOK, StoreInv, LinkInv, PkceInv, ExchangeInv, AnsweredInv, NoFalseReject
<1>2. QED
  BY <1>1, StoreInvariant, PTL

(***************************************************************************)
(* A login state admits one callback.                                      *)
(***************************************************************************)
THEOREM StateUsedOnce == Spec => []OneCallbackPerState
<1>1. Init => OneCallbackPerState
  BY DEF Init, OneCallbackPerState, Admitted
<1>2. TypeOK /\ StoreInv /\ OneCallbackPerState /\ [Next]_vars => OneCallbackPerState'
  <2> SUFFICES ASSUME TypeOK, StoreInv, OneCallbackPerState, [Next]_vars
               PROVE  OneCallbackPerState'
    OBVIOUS
  <2> USE DEF OneCallbackPerState, storeVars, loginVars, callbackVars, tabVars
  <2>1. ASSUME NEW c \in Callbacks, CallbackPop(c) PROVE OneCallbackPerState'
    <3>1. Holds(pkce, StateTtl, state[c], arrived[c]) => ~Consumed(state[c])
      BY <2>1, CallbackPopFacts DEF StoreInv, PkceInv
    <3>2. state' = state
          /\ \A d \in Callbacks \ {c} : Admitted(d)' <=> Admitted(d)
      BY <2>1 DEF CallbackPop, TypeOK, Admitted
    <3>3. Admitted(c)' => \A d \in Callbacks : Admitted(d) => state[d] # state[c]
      BY <2>1, <3>1 DEF CallbackPop, TypeOK, Admitted, Consumed
    <3>4. QED
      BY <3>2, <3>3
  <2>2. ASSUME NEW c \in Callbacks, CallbackBegin(c) PROVE OneCallbackPerState'
    BY <2>2 DEF CallbackBegin, TypeOK, Admitted
  <2>3. ASSUME NEW c \in Callbacks, IdpAccepts(c) \/ IdpFails(c) \/ CallbackSave(c)
        PROVE  OneCallbackPerState'
    BY <2>3 DEF IdpAccepts, IdpFails, CallbackSave, TypeOK, Admitted
  <2>4. CASE UNCHANGED <<callbackPc, state>>
    BY <2>4 DEF Admitted
  <2>5. QED
    BY <2>1, <2>2, <2>3, <2>4 DEF Next, vars, LoginBegin, LoginSave, OpenTab,
       RunWithoutExchange, RunExchange, ExchangePop, StoreToken, ExchangeRaises, Tick
<1>3. QED
  BY <1>1, <1>2, StoreInvariant, PTL DEF Spec

(***************************************************************************)
(* Every state is let through once and every auth_code redeemed once, for  *)
(* any number of requests, pages and reruns (pop_pkce_verifier,            *)
(* pop_exchange_token).                                                    *)
(***************************************************************************)
THEOREM ValuesUsedOnce == Spec => []UsedOnce
BY StateUsedOnce, RedeemedOnce, PTL DEF UsedOnce

(***************************************************************************)
(* Callbacks and exchanges are admitted within the lifetime of what they   *)
(* carry only.                                                             *)
(***************************************************************************)
THEOREM AdmittedFresh == Spec => []OnlyFresh
<1>1. Init => OnlyFresh
  BY DEF Init, OnlyFresh, Admitted
<1>2. TypeOK /\ StoreInv /\ OnlyFresh /\ [Next]_vars => OnlyFresh'
  <2> SUFFICES ASSUME TypeOK, StoreInv, OnlyFresh, [Next]_vars PROVE OnlyFresh'
    OBVIOUS
  <2> USE DEF OnlyFresh, Admitted, TypeOK, storeVars, loginVars, callbackVars, tabVars
  <2>1. LinkInv
    BY DEF StoreInv
  <2>2. ASSUME NEW l \in Logins, LoginBegin(l) \/ LoginSave(l) PROVE OnlyFresh'
    BY <2>1, <2>2 DEF LoginBegin, LoginSave, LinkInv
  <2>3. ASSUME NEW c \in Callbacks, CallbackBegin(c) \/ IdpAccepts(c) PROVE OnlyFresh'
    BY <2>1, <2>3 DEF CallbackBegin, IdpAccepts, LinkInv
  <2>4. ASSUME NEW c \in Callbacks, CallbackPop(c) PROVE OnlyFresh'
    <3>1. Holds(pkce, StateTtl, state[c], arrived[c])
            => arrived[c] <= began[state[c]] + StateTtl
      BY <2>4, CallbackPopFacts DEF StoreInv, PkceInv
    <3>2. QED
      BY <2>4, <3>1 DEF CallbackPop
  <2>5. ASSUME NEW c \in Callbacks, IdpFails(c) \/ CallbackSave(c) PROVE OnlyFresh'
    BY <2>5 DEF IdpFails, CallbackSave
  <2>6. ASSUME NEW t \in Tabs, ExchangePop(t) PROVE OnlyFresh'
    <3>1. Holds(exchange, OtcTtl, code[t], posted[t])
            => posted[t] <= minted[code[t]] + OtcTtl
      BY <2>6, ExchangePopFacts DEF StoreInv, ExchangeInv
    <3>2. QED
      BY <2>6, <3>1 DEF ExchangePop
  <2>7. ASSUME NEW t \in Tabs,
               \/ OpenTab(t) \/ RunWithoutExchange(t) \/ RunExchange(t) \/ StoreToken(t)
               \/ ExchangeRaises(t)
        PROVE  OnlyFresh'
    BY <2>7 DEF OpenTab, RunWithoutExchange, RunExchange, StoreToken, ExchangeRaises
  <2>8. CASE Tick \/ UNCHANGED vars
    BY <2>8 DEF Tick, vars
  <2>9. QED
    BY <2>2, <2>3, <2>4, <2>5, <2>6, <2>7, <2>8 DEF Next
<1>3. QED
  BY <1>1, <1>2, StoreInvariant, PTL DEF Spec

\* A session that prepare_streamlit_api_client finds a token in is at rest.
SessionInv == \A t \in Tabs : HasSession(t) => tabPc[t] = "idle" /\ outcome[t] # "raised"

(***************************************************************************)
(* A page that uses prepare_streamlit_api_client never raises once its     *)
(* session holds a token.                                                  *)
(***************************************************************************)
THEOREM LoggedInStays == Spec => LoggedInNeverRaises
<1>1. Init => SessionInv
  BY DEF Init, SessionInv, HasSession
<1>2. TypeOK /\ SessionInv /\ [Next]_vars
        => SessionInv' /\ \A t \in Tabs : HasSession(t) => outcome'[t] # "raised"
  <2> SUFFICES ASSUME TypeOK, SessionInv, [Next]_vars
               PROVE  SessionInv' /\ \A t \in Tabs : HasSession(t) => outcome'[t] # "raised"
    OBVIOUS
  <2> USE DEF TypeOK, SessionInv, HasSession, storeVars, loginVars, callbackVars, tabVars
  <2>1. ASSUME NEW t \in Tabs,
               \/ OpenTab(t) \/ RunWithoutExchange(t) \/ RunExchange(t) \/ ExchangePop(t)
               \/ StoreToken(t) \/ ExchangeRaises(t)
        PROVE  SessionInv' /\ \A u \in Tabs : HasSession(u) => outcome'[u] # "raised"
    <3>1. CASE OpenTab(t) \/ RunWithoutExchange(t)
      BY <3>1 DEF OpenTab, RunWithoutExchange
    <3>2. CASE RunExchange(t)
      BY <3>2 DEF RunExchange
    <3>3. CASE ExchangePop(t)
      BY <3>3 DEF ExchangePop
    <3>4. CASE StoreToken(t)
      BY <3>4 DEF StoreToken
    <3>5. CASE ExchangeRaises(t)
      BY <3>5 DEF ExchangeRaises
    <3>6. QED
      BY <2>1, <3>1, <3>2, <3>3, <3>4, <3>5
  <2>2. CASE UNCHANGED tabVars
    BY <2>2
  <2>3. QED
    BY <2>1, <2>2 DEF Next, vars, LoginBegin, LoginSave, CallbackBegin, CallbackPop,
       IdpAccepts, IdpFails, CallbackSave, Tick
<1>3. [][\A t \in Tabs : HasSession(t) => outcome'[t] # "raised"]_vars => LoggedInNeverRaises
  BY PTL DEF LoggedInNeverRaises, HasSession
<1>4. QED
  BY <1>1, <1>2, <1>3, StoreInvariant, PTL DEF Spec

-----------------------------------------------------------------------------
(* The refinement of TokenStore.                                           *)

(* The abstract view of the states, one at a time.                         *)
LEMMA PkceViews ==
  /\ PkceEntry \in [Logins -> PkceStore!Entries]
  /\ \A l \in Logins :
       /\ loginPc[l] \in {"idle", "saving"} => PkceEntry[l] = "none" /\ PkceStamp[l] = 0
       /\ loginPc[l] \notin {"idle", "saving"} =>
            /\ PkceStamp[l] = began[l]
            /\ pkce[l] # Absent => PkceEntry[l] = "held"
            /\ pkce[l] = Absent /\ Consumed(l) => PkceEntry[l] = "given"
            /\ pkce[l] = Absent /\ ~Consumed(l) => PkceEntry[l] = "lapsed"
BY DEF PkceEntry, PkceStamp, PkceStore!Entries

(* A step that touches neither states nor callbacks is a stutter there.    *)
LEMMA PkceUntouched ==
  ASSUME UNCHANGED <<loginPc, pkce, callbackPc, state, began>>
  PROVE  UNCHANGED <<PkceEntry, PkceStamp, PkceAnswer>>
BY DEF PkceEntry, PkceStamp, PkceAnswer, Consumed, Admitted

(* A store call on the states leaves every other state as it is, or drops  *)
(* one that is out of date by the clock.                                   *)
LEMMA PkceOthers ==
  ASSUME TypeOK, ClockInv, PkceInv, NEW k \in Logins, NEW at \in Times, at <= clock,
         UNCHANGED began,
         \A j \in Logins \ {k} :
           /\ loginPc'[j] = loginPc[j] /\ (Consumed(j)' <=> Consumed(j))
           /\ \/ pkce'[j] = pkce[j]
              \/ pkce'[j] = Absent /\ pkce[j] # Absent /\ at > pkce[j] + StateTtl
  PROVE  PkceStore!Lapses(Logins \ {k})
<1>1. PkceEntry' \in [Logins -> PkceStore!Entries]
  BY DEF PkceEntry, PkceStore!Entries
<1>2. ASSUME NEW j \in Logins \ {k}
      PROVE  \/ PkceEntry'[j] = PkceEntry[j]
             \/ PkceEntry[j] = "held" /\ PkceStore!Over(j) /\ PkceEntry'[j] = "lapsed"
  <2>1. CASE pkce'[j] = pkce[j]
    <3>1. loginPc'[j] = loginPc[j] /\ (Consumed(j)' <=> Consumed(j)) /\ pkce'[j] = pkce[j]
      BY <2>1
    <3>2. PkceEntry'[j] = PkceEntry[j]
      BY <3>1 DEF PkceEntry
    <3>3. QED BY <3>2
  <2>2. CASE pkce'[j] = Absent /\ pkce[j] # Absent /\ at > pkce[j] + StateTtl
    <3>1. loginPc[j] \notin {"idle", "saving"} /\ pkce[j] = began[j] /\ ~Consumed(j)
      BY <2>2 DEF PkceInv
    <3>2. PkceEntry[j] = "held" /\ PkceStamp[j] = began[j]
      BY <2>2, <3>1, PkceViews
    <3>3. loginPc'[j] \notin {"idle", "saving"} /\ ~Consumed(j)'
      BY <3>1
    <3>4. PkceEntry'[j] = "lapsed"
      BY <2>2, <3>3 DEF PkceEntry
    <3>5. clock > PkceStamp[j] + StateTtl
      BY <2>2, <3>1, <3>2, BffAssumption DEF TypeOK, Times
    <3>6. QED BY <3>2, <3>4, <3>5 DEF PkceStore!Over
  <2>3. QED BY <2>1, <2>2
<1>3. QED BY <1>1, <1>2 DEF PkceStore!Lapses

(* LoginSave saves the state with the time its login began.                *)
LEMMA LoginSaves ==
  ASSUME TypeOK, TypeOK', StoreInv, NEW l \in Logins, LoginSave(l)
  PROVE  PkceStore!Save(l)
<1>1. /\ loginPc[l] = "saving" /\ loginPc'[l] \in {"redirected", "failed"}
      /\ \A j \in Logins \ {l} : loginPc'[j] = loginPc[j]
  BY DEF LoginSave, TypeOK
<1>2. UNCHANGED <<clock, began, callbackPc, state, arrived>>
  BY DEF LoginSave, callbackVars
<1>3. \A j \in Logins : Consumed(j)' <=> Consumed(j)
  BY <1>2 DEF Consumed, Admitted
<1>4. began[l] \in Times /\ began[l] <= clock /\ clock \in Times
  BY DEF TypeOK, StoreInv, ClockInv
<1>5. PkceStore!Lapses(Logins \ {l})
  BY <1>1, <1>2, <1>3, <1>4, LoginSaveFacts, PkceOthers DEF StoreInv
<1>6. PkceEntry[l] = "none"
  BY <1>1, PkceViews
<1>7. PkceEntry'[l] = "held"
  <2>1. pkce'[l] # Absent
    BY <1>4, LoginSaveFacts DEF Absent, Times
  <2>2. QED BY <1>1, <2>1 DEF PkceEntry
<1>8. PkceStamp' = [PkceStamp EXCEPT ![l] = began[l]]
  BY <1>1, <1>2 DEF PkceStamp
<1>9. began[l] \in 0..clock
  BY <1>4 DEF Times
<1>10. PkceAnswer' = PkceAnswer
  BY <1>2 DEF PkceAnswer
<1>11. QED BY <1>2, <1>5, <1>6, <1>7, <1>8, <1>9, <1>10 DEF PkceStore!Save

(* CallbackBegin asks for a state.                                         *)
LEMMA CallbackAsks ==
  ASSUME TypeOK, NEW c \in Callbacks, CallbackBegin(c)
  PROVE  PkceStore!Ask(c)
<1>1. PICK l \in Logins : loginPc[l] = "redirected" /\ state' = [state EXCEPT ![c] = l]
  BY DEF CallbackBegin
<1>2. /\ callbackPc[c] = "idle" /\ callbackPc' = [callbackPc EXCEPT ![c] = "popping"]
      /\ arrived' = [arrived EXCEPT ![c] = clock]
      /\ UNCHANGED <<clock, pkce, loginPc, began>>
  BY DEF CallbackBegin, storeVars, loginVars
<1>3. \A j \in Logins : Consumed(j)' <=> Consumed(j)
  BY <1>1, <1>2 DEF Consumed, Admitted, TypeOK
<1>4. UNCHANGED <<PkceEntry, PkceStamp>>
  <2>1. \A j \in Logins : (IF Consumed(j)' THEN "given" ELSE "lapsed")
                        = (IF Consumed(j) THEN "given" ELSE "lapsed")
    BY <1>3
  <2>2. QED BY <1>2, <2>1 DEF PkceEntry, PkceStamp
<1>5. PkceEntry[l] # "none"
  BY <1>1, PkceViews DEF PkceEntry
<1>6. PkceAnswer[c] = "none" /\ PkceAnswer' = [PkceAnswer EXCEPT ![c] = "asked"]
  BY <1>2 DEF PkceAnswer, TypeOK
<1>7. QED BY <1>1, <1>2, <1>4, <1>5, <1>6 DEF PkceStore!Ask

(* CallbackPop is answered: the first one to ask in time is given the      *)
(* state, any other finds it given or out of date.                         *)
LEMMA CallbackAnswered ==
  ASSUME TypeOK, TypeOK', StoreInv, NEW c \in Callbacks, CallbackPop(c)
  PROVE  PkceStore!Give(c) \/ PkceStore!Refuse(c)
<1> DEFINE k == state[c]
           found == Holds(pkce, StateTtl, k, arrived[c])
<1>1. /\ callbackPc[c] = "popping"
      /\ callbackPc' = [callbackPc EXCEPT ![c] = IF found THEN "idp" ELSE "rejected"]
      /\ UNCHANGED <<clock, loginPc, began, state, arrived>>
  BY DEF CallbackPop, loginVars
<1>2. /\ k \in Logins /\ pkce'[k] = Absent
      /\ \A j \in Logins \ {k} :
           \/ pkce'[j] = pkce[j]
           \/ pkce'[j] = Absent /\ pkce[j] # Absent /\ arrived[c] > pkce[j] + StateTtl
      /\ found <=> pkce[k] # Absent /\ arrived[c] <= pkce[k] + StateTtl
  BY CallbackPopFacts DEF StoreInv
<1>3. loginPc[k] = "redirected" /\ loginPc'[k] = "redirected"
  BY <1>1 DEF StoreInv, LinkInv
<1>4. /\ arrived[c] \in Times /\ clock \in Times /\ began[k] \in Times /\ arrived[c] <= clock
  BY <1>2 DEF TypeOK, StoreInv, ClockInv
<1> HIDE DEF found
<1>5. \A j \in Logins \ {k} : Consumed(j)' <=> Consumed(j)
  BY <1>1 DEF Consumed, Admitted, TypeOK
<1>6. Consumed(k)' <=> found \/ Consumed(k)
  BY <1>1 DEF Consumed, Admitted, TypeOK
<1>7. PkceStore!Lapses(Logins \ {k})
  BY <1>1, <1>2, <1>4, <1>5, PkceOthers DEF StoreInv
<1>8. /\ PkceStamp[k] = began[k] /\ PkceStamp' = PkceStamp
      /\ pkce[k] # Absent => PkceEntry[k] = "held" /\ pkce[k] = began[k] /\ ~Consumed(k)
      /\ pkce[k] = Absent /\ Consumed(k) => PkceEntry[k] = "given"
      /\ pkce[k] = Absent /\ ~Consumed(k) =>
           PkceEntry[k] = "lapsed" /\ clock > began[k] + StateTtl
  BY <1>1, <1>2, <1>3, PkceViews DEF StoreInv, PkceInv, PkceStamp
<1>9. /\ Consumed(k)' => PkceEntry'[k] = "given"
      /\ ~Consumed(k)' => PkceEntry'[k] = "lapsed"
  <2>1. state'[c] = k /\ pkce'[k] = Absent /\ loginPc'[k] \notin {"idle", "saving"}
    BY <1>1, <1>2, <1>3
  <2>2. QED BY <1>2, <2>1 DEF PkceEntry
<1>10. CASE found
  <2>1. PkceAnswer[c] = "asked" /\ PkceAnswer' = [PkceAnswer EXCEPT ![c] = "given"]
    BY <1>1, <1>10 DEF PkceAnswer, TypeOK
  <2>2. PkceEntry[k] = "held" /\ PkceEntry'[k] = "given"
    BY <1>2, <1>6, <1>8, <1>9, <1>10
  <2>3. arrived[c] <= PkceStamp[k] + StateTtl
    BY <1>2, <1>8, <1>10
  <2>4. QED BY <1>1, <1>7, <1>8, <2>1, <2>2, <2>3 DEF PkceStore!Give
<1>11. CASE ~found
  <2>1. PkceAnswer[c] = "asked" /\ PkceAnswer' = [PkceAnswer EXCEPT ![c] = "refused"]
    BY <1>1, <1>11 DEF PkceAnswer, TypeOK
  <2>2. CASE pkce[k] # Absent
    <3>1. clock > PkceStamp[k] + StateTtl
      BY <1>2, <1>4, <1>8, <1>11, <2>2, BffAssumption DEF Times
    <3>2. PkceEntry[k] = "held" /\ PkceEntry'[k] = "lapsed"
      BY <1>6, <1>8, <1>9, <1>11, <2>2
    <3>3. PkceStore!Lapses(Logins)
      BY <1>7, <3>1, <3>2 DEF PkceStore!Lapses, PkceStore!Over
    <3>4. QED BY <1>1, <1>8, <2>1, <3>1, <3>3 DEF PkceStore!Refuse, PkceStore!Over
  <2>3. CASE pkce[k] = Absent
    <3>1. PkceEntry[k] = "given" \/ PkceStore!Over(k)
      BY <1>8, <2>3 DEF PkceStore!Over
    <3>2. PkceEntry'[k] = PkceEntry[k]
      BY <1>6, <1>8, <1>9, <1>11, <2>3
    <3>3. PkceStore!Lapses(Logins)
      BY <1>7, <3>2 DEF PkceStore!Lapses
    <3>4. QED BY <1>1, <1>8, <2>1, <3>1, <3>3 DEF PkceStore!Refuse
  <2>4. QED BY <2>2, <2>3
<1>12. QED BY <1>10, <1>11

(* InMemoryOIDCBFFTokenStore keeps the states as a TokenStore does, for    *)
(* any number of logins and callbacks, any lifetime and any interleaving   *)
(* of the routes: each call of the store is one step of the abstract one,  *)
(* and the clock a route read before the lock never gives a state twice,   *)
(* late, or loses it early (save_pkce_verifier, pop_pkce_verifier).        *)
THEOREM PkceStoreImplemented == Spec => PkceStore!Spec
<1>1. Init => PkceStore!Init
  BY BffAssumption DEF Init, PkceStore!Init, PkceEntry, PkceStamp, PkceAnswer, Times
<1>2. ASSUME TypeOK, TypeOK', StoreInv, [Next]_vars PROVE [PkceStore!Next]_(PkceStore!vars)
  <2>1. ASSUME UNCHANGED <<clock, loginPc, pkce, callbackPc, state, began, arrived>>
        PROVE  UNCHANGED PkceStore!vars
    BY <2>1, PkceUntouched DEF PkceStore!vars
  <2>2. ASSUME NEW l \in Logins, LoginBegin(l) PROVE UNCHANGED PkceStore!vars
    <3>1. /\ loginPc[l] = "idle" /\ loginPc' = [loginPc EXCEPT ![l] = "saving"]
          /\ began' = [began EXCEPT ![l] = clock]
          /\ UNCHANGED <<clock, pkce, callbackPc, state, arrived>>
      BY <2>2 DEF LoginBegin, storeVars, callbackVars
    <3>2. PkceEntry' = PkceEntry
      BY <1>2, <3>1 DEF PkceEntry, Consumed, Admitted, TypeOK
    <3>3. PkceStamp' = PkceStamp /\ PkceAnswer' = PkceAnswer
      BY <1>2, <3>1 DEF PkceStamp, PkceAnswer, TypeOK
    <3>4. QED BY <3>1, <3>2, <3>3 DEF PkceStore!vars
  <2>3. ASSUME NEW l \in Logins, LoginSave(l) PROVE PkceStore!Next
    BY <1>2, <2>3, LoginSaves DEF PkceStore!Next
  <2>4. ASSUME NEW c \in Callbacks, CallbackBegin(c) PROVE PkceStore!Next
    BY <1>2, <2>4, CallbackAsks DEF PkceStore!Next
  <2>5. ASSUME NEW c \in Callbacks, CallbackPop(c) PROVE PkceStore!Next
    BY <1>2, <2>5, CallbackAnswered DEF PkceStore!Next
  <2>6. ASSUME NEW c \in Callbacks, IdpAccepts(c) \/ IdpFails(c) \/ CallbackSave(c)
        PROVE  UNCHANGED PkceStore!vars
    <3>1. PICK after \in {"saving", "failed", "redirected"} :
            callbackPc' = [callbackPc EXCEPT ![c] = after]
      BY <2>6 DEF IdpAccepts, IdpFails, CallbackSave
    <3>2. /\ callbackPc[c] \in {"idp", "saving"}
          /\ UNCHANGED <<clock, loginPc, pkce, state, began, arrived>>
      BY <2>6 DEF IdpAccepts, IdpFails, CallbackSave, storeVars, loginVars
    <3>3. \A d \in Callbacks : Admitted(d)' <=> Admitted(d)
      BY <1>2, <3>1, <3>2 DEF Admitted, TypeOK
    <3>4. \A j \in Logins : (IF Consumed(j)' THEN "given" ELSE "lapsed")
                          = (IF Consumed(j) THEN "given" ELSE "lapsed")
      BY <3>2, <3>3 DEF Consumed
    <3>5. PkceEntry' = PkceEntry /\ PkceStamp' = PkceStamp
      BY <3>2, <3>4 DEF PkceEntry, PkceStamp
    <3>6. PkceAnswer' = PkceAnswer
      BY <1>2, <3>1, <3>2 DEF PkceAnswer, TypeOK
    <3>7. QED BY <3>2, <3>5, <3>6 DEF PkceStore!vars
  <2>7. ASSUME NEW t \in Tabs,
               \/ OpenTab(t) \/ RunWithoutExchange(t) \/ RunExchange(t) \/ ExchangePop(t)
               \/ StoreToken(t) \/ ExchangeRaises(t)
        PROVE  UNCHANGED PkceStore!vars
    <3>1. UNCHANGED <<clock, loginPc, pkce, callbackPc, state, began, arrived>>
      BY <2>7 DEF OpenTab, RunWithoutExchange, RunExchange, ExchangePop, StoreToken,
         ExchangeRaises, storeVars, loginVars, callbackVars
    <3>2. QED BY <2>1, <3>1
  <2>8. CASE Tick
    <3>1. /\ clock' \in Nat /\ clock' > clock
          /\ UNCHANGED <<loginPc, pkce, callbackPc, state, began, arrived>>
      BY <1>2, <2>8, BffAssumption DEF Tick, storeVars, loginVars, callbackVars, TypeOK, Times
    <3>2. PkceStore!Pass
      BY <3>1, PkceUntouched DEF PkceStore!Pass
    <3>3. QED BY <3>2 DEF PkceStore!Next
  <2>9. CASE UNCHANGED vars
    BY <2>1, <2>9 DEF vars, storeVars, loginVars, callbackVars
  <2>10. QED
    BY <1>2, <2>2, <2>3, <2>4, <2>5, <2>6, <2>7, <2>8, <2>9 DEF Next
<1>3. QED
  BY <1>1, <1>2, StoreInvariant, PTL DEF Spec, PkceStore!Spec

(* The abstract view of the auth_codes, one at a time.                     *)
LEMMA ExchangeViews ==
  /\ ExchangeEntry \in [Callbacks -> ExchangeStore!Entries]
  /\ \A c \in Callbacks :
       /\ callbackPc[c] # "redirected" => ExchangeEntry[c] = "none" /\ ExchangeStamp[c] = 0
       /\ callbackPc[c] = "redirected" =>
            /\ ExchangeStamp[c] = minted[c]
            /\ exchange[c] # Absent => ExchangeEntry[c] = "held"
            /\ exchange[c] = Absent /\ spent[c] > 0 => ExchangeEntry[c] = "given"
            /\ exchange[c] = Absent /\ ~(spent[c] > 0) => ExchangeEntry[c] = "lapsed"
BY DEF ExchangeEntry, ExchangeStamp, ExchangeStore!Entries

(* A step that touches neither auth_codes nor the posts of the sessions is *)
(* a stutter there.                                                        *)
LEMMA ExchangeUntouched ==
  ASSUME UNCHANGED <<callbackPc, exchange, spent, minted, tabPc>>
  PROVE  UNCHANGED <<ExchangeEntry, ExchangeStamp, ExchangeAnswer>>
BY DEF ExchangeEntry, ExchangeStamp, ExchangeAnswer

(* A store call on the auth_codes leaves every other one as it is, or      *)
(* drops one that is out of date by the clock.                             *)
LEMMA ExchangeOthers ==
  ASSUME TypeOK, ClockInv, ExchangeInv, NEW k \in Callbacks, NEW at \in Times, at <= clock,
         UNCHANGED minted,
         \A j \in Callbacks \ {k} :
           /\ callbackPc'[j] = callbackPc[j] /\ spent'[j] = spent[j]
           /\ \/ exchange'[j] = exchange[j]
              \/ exchange'[j] = Absent /\ exchange[j] # Absent /\ at > exchange[j] + OtcTtl
  PROVE  ExchangeStore!Lapses(Callbacks \ {k})
<1>1. ExchangeEntry' \in [Callbacks -> ExchangeStore!Entries]
  BY DEF ExchangeEntry, ExchangeStore!Entries
<1>2. ASSUME NEW j \in Callbacks \ {k}
      PROVE  \/ ExchangeEntry'[j] = ExchangeEntry[j]
             \/ /\ ExchangeEntry[j] = "held" /\ ExchangeStore!Over(j)
                /\ ExchangeEntry'[j] = "lapsed"
  <2>1. CASE exchange'[j] = exchange[j]
    BY <2>1 DEF ExchangeEntry
  <2>2. CASE exchange'[j] = Absent /\ exchange[j] # Absent /\ at > exchange[j] + OtcTtl
    <3>1. callbackPc[j] = "redirected" /\ exchange[j] = minted[j] /\ spent[j] = 0
      BY <2>2 DEF ExchangeInv
    <3>2. ExchangeEntry[j] = "held" /\ ExchangeStamp[j] = minted[j]
      BY <2>2, <3>1, ExchangeViews
    <3>3. callbackPc'[j] = "redirected" /\ ~(spent'[j] > 0)
      BY <3>1
    <3>4. ExchangeEntry'[j] = "lapsed"
      BY <2>2, <3>3 DEF ExchangeEntry
    <3>5. clock > ExchangeStamp[j] + OtcTtl
      BY <2>2, <3>1, <3>2, BffAssumption DEF TypeOK, Times
    <3>6. QED BY <3>2, <3>4, <3>5 DEF ExchangeStore!Over
  <2>3. QED BY <2>1, <2>2
<1>3. QED BY <1>1, <1>2 DEF ExchangeStore!Lapses

(* CallbackSave saves the auth_code with the time it was drawn.            *)
LEMMA CallbackSaves ==
  ASSUME TypeOK, StoreInv, NEW c \in Callbacks, CallbackSave(c)
  PROVE  ExchangeStore!Save(c)
<1>1. /\ callbackPc[c] = "saving" /\ callbackPc' = [callbackPc EXCEPT ![c] = "redirected"]
      /\ UNCHANGED <<clock, spent, minted, tabPc, code, posted>>
  BY DEF CallbackSave, tabVars
<1>2. /\ callbackPc'[c] = "redirected"
      /\ \A j \in Callbacks \ {c} : callbackPc'[j] = callbackPc[j]
  BY <1>1 DEF TypeOK
<1>3. minted[c] \in Times /\ minted[c] <= clock /\ clock \in Times
  BY DEF TypeOK, StoreInv, ClockInv
<1>4. ExchangeStore!Lapses(Callbacks \ {c})
  BY <1>1, <1>2, <1>3, CallbackSaveFacts, ExchangeOthers DEF StoreInv
<1>5. ExchangeEntry[c] = "none"
  BY <1>1, ExchangeViews
<1>6. ExchangeEntry'[c] = "held"
  <2>1. exchange'[c] # Absent
    BY <1>3, CallbackSaveFacts DEF Absent, Times
  <2>2. QED BY <1>2, <2>1 DEF ExchangeEntry
<1>7. ExchangeStamp' = [ExchangeStamp EXCEPT ![c] = minted[c]]
  BY <1>1, <1>2 DEF ExchangeStamp
<1>8. minted[c] \in 0..clock
  BY <1>3 DEF Times
<1>9. ExchangeAnswer' = ExchangeAnswer
  BY <1>1 DEF ExchangeAnswer
<1>10. QED BY <1>1, <1>4, <1>5, <1>6, <1>7, <1>8, <1>9 DEF ExchangeStore!Save

(* RunExchange asks for the auth_code of its address.                      *)
LEMMA PageAsks ==
  ASSUME TypeOK, StoreInv, NEW t \in Tabs, RunExchange(t)
  PROVE  ExchangeStore!Ask(t)
<1>1. /\ tabPc[t] = "idle" /\ tabPc' = [tabPc EXCEPT ![t] = "posted"]
      /\ code' = [code EXCEPT ![t] = url[t]] /\ posted' = [posted EXCEPT ![t] = clock]
      /\ UNCHANGED <<clock, exchange, spent, callbackPc, minted>>
  BY DEF RunExchange, storeVars, callbackVars
<1>2. url[t] \in Callbacks /\ callbackPc[url[t]] = "redirected"
  BY DEF RunExchange, TypeOK, StoreInv, LinkInv
<1>3. ExchangeEntry[url[t]] # "none"
  BY <1>2 DEF ExchangeEntry
<1>4. UNCHANGED <<ExchangeEntry, ExchangeStamp>>
  BY <1>1 DEF ExchangeEntry, ExchangeStamp
<1>5. ExchangeAnswer[t] = "none" /\ ExchangeAnswer' = [ExchangeAnswer EXCEPT ![t] = "asked"]
  BY <1>1 DEF ExchangeAnswer, TypeOK
<1>6. QED BY <1>1, <1>2, <1>3, <1>4, <1>5 DEF ExchangeStore!Ask

(* ExchangePop is answered: the first one to ask in time is given the      *)
(* token, any other finds it given or out of date.                         *)
LEMMA ExchangeAnswered ==
  ASSUME TypeOK, StoreInv, NEW t \in Tabs, ExchangePop(t)
  PROVE  ExchangeStore!Give(t) \/ ExchangeStore!Refuse(t)
<1> DEFINE k == code[t]
           found == Holds(exchange, OtcTtl, k, posted[t])
<1>1. /\ tabPc[t] = "posted"
      /\ tabPc' = [tabPc EXCEPT ![t] = IF found THEN "token" ELSE "denied"]
      /\ spent' = IF found THEN [spent EXCEPT ![k] = @ + 1] ELSE spent
      /\ UNCHANGED <<clock, callbackPc, minted, code, posted>>
  BY DEF ExchangePop, callbackVars
<1>2. /\ k \in Callbacks /\ exchange'[k] = Absent
      /\ \A j \in Callbacks \ {k} :
           \/ exchange'[j] = exchange[j]
           \/ exchange'[j] = Absent /\ exchange[j] # Absent /\ posted[t] > exchange[j] + OtcTtl
      /\ found <=> exchange[k] # Absent /\ posted[t] <= exchange[k] + OtcTtl
  BY ExchangePopFacts DEF StoreInv
<1>3. callbackPc[k] = "redirected" /\ callbackPc'[k] = "redirected"
  BY <1>1 DEF StoreInv, LinkInv
<1>4. /\ posted[t] \in Times /\ clock \in Times /\ minted[k] \in Times /\ posted[t] <= clock
      /\ spent[k] \in Nat
  BY <1>2 DEF TypeOK, StoreInv, ClockInv
<1> HIDE DEF found
<1>5. \A j \in Callbacks \ {k} : spent'[j] = spent[j]
  BY <1>1 DEF TypeOK
<1>6. spent'[k] > 0 <=> found \/ spent[k] > 0
  BY <1>1, <1>2, <1>4 DEF TypeOK
<1>7. ExchangeStore!Lapses(Callbacks \ {k})
  BY <1>1, <1>2, <1>4, <1>5, ExchangeOthers DEF StoreInv
<1>8. /\ ExchangeStamp[k] = minted[k] /\ ExchangeStamp' = ExchangeStamp
      /\ exchange[k] # Absent =>
           ExchangeEntry[k] = "held" /\ exchange[k] = minted[k] /\ ~(spent[k] > 0)
      /\ exchange[k] = Absent /\ spent[k] > 0 => ExchangeEntry[k] = "given"
      /\ exchange[k] = Absent /\ ~(spent[k] > 0) =>
           ExchangeEntry[k] = "lapsed" /\ clock > minted[k] + OtcTtl
  BY <1>1, <1>2, <1>3, ExchangeViews DEF StoreInv, ExchangeInv, ExchangeStamp
<1>9. /\ spent'[k] > 0 => ExchangeEntry'[k] = "given"
      /\ ~(spent'[k] > 0) => ExchangeEntry'[k] = "lapsed"
  BY <1>2, <1>3 DEF ExchangeEntry
<1>10. CASE found
  <2>1. ExchangeAnswer[t] = "asked" /\ ExchangeAnswer' = [ExchangeAnswer EXCEPT ![t] = "given"]
    BY <1>1, <1>10 DEF ExchangeAnswer, TypeOK
  <2>2. ExchangeEntry[k] = "held" /\ ExchangeEntry'[k] = "given"
    BY <1>2, <1>6, <1>8, <1>9, <1>10
  <2>3. posted[t] <= ExchangeStamp[k] + OtcTtl
    BY <1>2, <1>8, <1>10
  <2>4. QED BY <1>1, <1>7, <1>8, <2>1, <2>2, <2>3 DEF ExchangeStore!Give
<1>11. CASE ~found
  <2>1. /\ ExchangeAnswer[t] = "asked"
        /\ ExchangeAnswer' = [ExchangeAnswer EXCEPT ![t] = "refused"]
    BY <1>1, <1>11 DEF ExchangeAnswer, TypeOK
  <2>2. CASE exchange[k] # Absent
    <3>1. clock > ExchangeStamp[k] + OtcTtl
      BY <1>2, <1>4, <1>8, <1>11, <2>2, BffAssumption DEF Times
    <3>2. ExchangeEntry[k] = "held" /\ ExchangeEntry'[k] = "lapsed"
      BY <1>6, <1>8, <1>9, <1>11, <2>2
    <3>3. ExchangeStore!Lapses(Callbacks)
      BY <1>7, <3>1, <3>2 DEF ExchangeStore!Lapses, ExchangeStore!Over
    <3>4. QED BY <1>1, <1>8, <2>1, <3>1, <3>3 DEF ExchangeStore!Refuse, ExchangeStore!Over
  <2>3. CASE exchange[k] = Absent
    <3>1. ExchangeEntry[k] = "given" \/ ExchangeStore!Over(k)
      BY <1>8, <2>3 DEF ExchangeStore!Over
    <3>2. ExchangeEntry'[k] = ExchangeEntry[k]
      BY <1>6, <1>8, <1>9, <1>11, <2>3
    <3>3. ExchangeStore!Lapses(Callbacks)
      BY <1>7, <3>2 DEF ExchangeStore!Lapses
    <3>4. QED BY <1>1, <1>8, <2>1, <3>1, <3>3 DEF ExchangeStore!Refuse
  <2>4. QED BY <2>2, <2>3
<1>12. QED BY <1>10, <1>11

(* It keeps the auth_codes as a TokenStore does, for any number of         *)
(* callbacks and sessions of pages: however often a code is posted, and    *)
(* whether or not the answer arrives, one post is given the token, and the *)
(* others are refused because it was (save_exchange_token,                 *)
(* pop_exchange_token).                                                    *)
THEOREM ExchangeStoreImplemented == Spec => ExchangeStore!Spec
<1>1. Init => ExchangeStore!Init
  BY BffAssumption DEF Init, ExchangeStore!Init, ExchangeEntry, ExchangeStamp,
     ExchangeAnswer, Times
<1>2. ASSUME TypeOK, StoreInv, [Next]_vars
      PROVE  [ExchangeStore!Next]_(ExchangeStore!vars)
  <2>1. ASSUME UNCHANGED <<clock, callbackPc, exchange, spent, minted, tabPc, code, posted>>
        PROVE  UNCHANGED ExchangeStore!vars
    BY <2>1, ExchangeUntouched DEF ExchangeStore!vars
  <2>2. ASSUME NEW l \in Logins, LoginBegin(l) \/ LoginSave(l)
        PROVE  UNCHANGED ExchangeStore!vars
    BY <2>1, <2>2 DEF LoginBegin, LoginSave, storeVars, callbackVars, tabVars
  <2>3. ASSUME NEW c \in Callbacks,
               CallbackBegin(c) \/ CallbackPop(c) \/ IdpAccepts(c) \/ IdpFails(c)
        PROVE  UNCHANGED ExchangeStore!vars
    <3>1. PICK after \in {"popping", "idp", "rejected", "saving", "failed"} :
            callbackPc' = [callbackPc EXCEPT ![c] = after]
      BY <2>3 DEF CallbackBegin, CallbackPop, IdpAccepts, IdpFails
    <3>2. /\ callbackPc[c] # "redirected" /\ minted' \in {minted, [minted EXCEPT ![c] = clock]}
          /\ UNCHANGED <<clock, exchange, spent, tabPc, code, posted>>
      BY <2>3 DEF CallbackBegin, CallbackPop, IdpAccepts, IdpFails, storeVars, tabVars
    <3>3. ExchangeEntry' = ExchangeEntry /\ ExchangeStamp' = ExchangeStamp
      BY <1>2, <3>1, <3>2 DEF ExchangeEntry, ExchangeStamp, TypeOK
    <3>4. QED BY <3>2, <3>3 DEF ExchangeStore!vars, ExchangeAnswer
  <2>4. ASSUME NEW c \in Callbacks, CallbackSave(c) PROVE ExchangeStore!Next
    BY <1>2, <2>4, CallbackSaves DEF ExchangeStore!Next
  <2>5. ASSUME NEW t \in Tabs, OpenTab(t) \/ RunWithoutExchange(t)
        PROVE  UNCHANGED ExchangeStore!vars
    <3>1. /\ UNCHANGED <<clock, callbackPc, exchange, spent, minted, code, posted>>
          /\ \/ tabPc' = tabPc
             \/ tabPc[t] = "closed" /\ tabPc' = [tabPc EXCEPT ![t] = "idle"]
      BY <2>5 DEF OpenTab, RunWithoutExchange, storeVars, callbackVars
    <3>2. ExchangeAnswer' = ExchangeAnswer
      BY <1>2, <3>1 DEF ExchangeAnswer, TypeOK
    <3>3. QED BY <3>1, <3>2 DEF ExchangeStore!vars, ExchangeEntry, ExchangeStamp
  <2>6. ASSUME NEW t \in Tabs, RunExchange(t) PROVE ExchangeStore!Next
    BY <1>2, <2>6, PageAsks DEF ExchangeStore!Next
  <2>7. ASSUME NEW t \in Tabs, ExchangePop(t) PROVE ExchangeStore!Next
    BY <1>2, <2>7, ExchangeAnswered DEF ExchangeStore!Next
  <2>8. ASSUME NEW t \in Tabs, StoreToken(t) \/ ExchangeRaises(t) PROVE ExchangeStore!Next
    <3>1. /\ tabPc[t] \in {"token", "denied"} /\ tabPc' = [tabPc EXCEPT ![t] = "idle"]
          /\ UNCHANGED <<clock, callbackPc, exchange, spent, minted, code, posted>>
      BY <2>8 DEF StoreToken, ExchangeRaises, storeVars, callbackVars
    <3>2. /\ ExchangeAnswer[t] \in {"given", "refused"}
          /\ ExchangeAnswer' = [ExchangeAnswer EXCEPT ![t] = "none"]
      BY <1>2, <3>1 DEF ExchangeAnswer, TypeOK
    <3>3. UNCHANGED <<ExchangeEntry, ExchangeStamp>>
      BY <3>1 DEF ExchangeEntry, ExchangeStamp
    <3>4. ExchangeStore!Done(t)
      BY <3>1, <3>2, <3>3 DEF ExchangeStore!Done
    <3>5. QED BY <3>4 DEF ExchangeStore!Next
  <2>9. CASE Tick
    <3>1. /\ clock' \in Nat /\ clock' > clock
          /\ UNCHANGED <<callbackPc, exchange, spent, minted, tabPc, code, posted>>
      BY <1>2, <2>9, BffAssumption DEF Tick, storeVars, callbackVars, tabVars, TypeOK, Times
    <3>2. ExchangeStore!Pass
      BY <3>1, ExchangeUntouched DEF ExchangeStore!Pass
    <3>3. QED BY <3>2 DEF ExchangeStore!Next
  <2>10. CASE UNCHANGED vars
    BY <2>1, <2>10 DEF vars, storeVars, callbackVars, tabVars
  <2>11. QED
    BY <1>2, <2>2, <2>3, <2>4, <2>5, <2>6, <2>7, <2>8, <2>9, <2>10 DEF Next
<1>3. QED
  BY <1>1, <1>2, StoreInvariant, PTL DEF Spec, ExchangeStore!Spec

(* InMemoryOIDCBFFTokenStore, as the routes use it, is an implementation   *)
(* of what they expect of an OIDCBFFTokenStore.                            *)
THEOREM TokenStoreImplemented == Spec => ImplementsTokenStore
BY PkceStoreImplemented, ExchangeStoreImplemented, PTL DEF ImplementsTokenStore

=============================================================================
