------------------------------ MODULE TokenStore ------------------------------
(***************************************************************************)
(* What the routes expect of an OIDCBFFTokenStore, for one of its two      *)
(* dictionaries (states or auth_codes), wherever it is kept: in the memory *)
(* of the process or, for several replicas, in a shared store with         *)
(* expiring entries.                                                       *)
(*                                                                         *)
(* A key is saved once, with a time that its caller read before.  A        *)
(* request asks for a key at the time it reads, and is answered later.     *)
(* The value is given to one request at most, to none that asked after the *)
(* key's lifetime, and nobody is refused a value that is neither given nor *)
(* out of date.  An entry may lapse at any time once its lifetime is over, *)
(* during a call or between calls.                                         *)
(***************************************************************************)
EXTENDS Naturals

CONSTANTS Keys, Requests, Ttl, NoKey

VARIABLES
  now,     \* the clock
  entry,   \* per key: "none" (not saved yet), "held", "given" or "lapsed"
  stamp,   \* per key: the time it was saved with
  answer,  \* per request: "none", "asked", "given" or "refused"
  key,     \* per request: the key it asked for last...
  asked    \* ...and when

vars == <<now, entry, stamp, answer, key, asked>>

Entries == {"none", "held", "given", "lapsed"}

Init ==
  /\ now \in Nat
  /\ entry = [k \in Keys |-> "none"] /\ stamp = [k \in Keys |-> 0]
  /\ answer = [r \in Requests |-> "none"]
  /\ key = [r \in Requests |-> NoKey] /\ asked = [r \in Requests |-> 0]

Over(k) == now > stamp[k] + Ttl

\* Of the keys in S, some that are out of date may lapse.
Lapses(S) ==
  /\ entry' \in [Keys -> Entries]
  /\ \A k \in S : \/ entry'[k] = entry[k]
                  \/ entry[k] = "held" /\ Over(k) /\ entry'[k] = "lapsed"

Pass ==
  /\ now' \in Nat /\ now' > now
  /\ UNCHANGED <<entry, stamp, answer, key, asked>>

Lapse == Lapses(Keys) /\ UNCHANGED <<now, stamp, answer, key, asked>>

Save(k) ==
  /\ entry[k] = "none" /\ entry'[k] = "held" /\ Lapses(Keys \ {k})
  /\ \E t \in 0..now : stamp' = [stamp EXCEPT ![k] = t]
  /\ UNCHANGED <<now, answer, key, asked>>

Ask(r) ==
  /\ answer[r] # "asked" /\ answer' = [answer EXCEPT ![r] = "asked"]
  /\ \E k \in Keys : entry[k] # "none" /\ key' = [key EXCEPT ![r] = k]
  /\ asked' = [asked EXCEPT ![r] = now]
  /\ UNCHANGED <<now, entry, stamp>>

Give(r) ==
  LET k == key[r] IN
  /\ answer[r] = "asked" /\ answer' = [answer EXCEPT ![r] = "given"]
  /\ entry[k] = "held" /\ asked[r] <= stamp[k] + Ttl
  /\ entry'[k] = "given" /\ Lapses(Keys \ {k})
  /\ UNCHANGED <<now, stamp, key, asked>>

Refuse(r) ==
  LET k == key[r] IN
  /\ answer[r] = "asked" /\ answer' = [answer EXCEPT ![r] = "refused"]
  /\ entry[k] = "given" \/ Over(k)
  /\ Lapses(Keys)
  /\ UNCHANGED <<now, stamp, key, asked>>

\* The answer has arrived, or is lost; the caller may ask again.
Done(r) ==
  /\ answer[r] \in {"given", "refused"} /\ answer' = [answer EXCEPT ![r] = "none"]
  /\ UNCHANGED <<now, entry, stamp, key, asked>>

Next ==
  \/ Pass \/ Lapse
  \/ \E k \in Keys : Save(k)
  \/ \E r \in Requests : Ask(r) \/ Give(r) \/ Refuse(r) \/ Done(r)

Spec == Init /\ [][Next]_vars
=============================================================================
