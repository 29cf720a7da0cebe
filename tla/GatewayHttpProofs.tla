-------------------------- MODULE GatewayHttpProofs --------------------------
(***************************************************************************)
(* Proofs about GatewayHttp: the semaphore, the body limit, cut bodies and *)
(* the metrics, for any number of requests and slots and any limits.       *)
(***************************************************************************)
EXTENDS GatewayHttp, FiniteSetTheorems, SequenceTheorems, TLAPS

Types ==
  /\ maxBody \in Nat /\ kind \in [Reqs -> Kinds] /\ pc \in [Reqs -> PCs]
  /\ got \in [Reqs -> Nat] /\ body \in [Reqs -> {"open", "complete", "cut"}]
  /\ contacted \in [Reqs -> BOOLEAN] /\ whole \in [Reqs -> BOOLEAN]
  /\ slots \in Nat /\ counted \in Nat /\ observed \in Nat

(* The queue of upstream_sem holds each waiting request once.              *)
Queue ==
  /\ waiters \in Seq(Reqs)
  /\ \A i \in 1..Len(waiters) : pc[waiters[i]] = "waiting"
  /\ \A i, j \in 1..Len(waiters) : waiters[i] = waiters[j] => i = j
  /\ \A r \in Reqs : pc[r] = "waiting" => \E i \in 1..Len(waiters) : waiters[i] = r

(* Without a limit the semaphore is not used; with one the slots add up    *)
(* and nobody waits beside a free one.                                     *)
Slots ==
  /\ MaxConcurrent = 0 => waiters = <<>>
  /\ MaxConcurrent > 0 => slots + Cardinality(Holding) = MaxConcurrent
  /\ MaxConcurrent > 0 /\ waiters # <<>> => slots = 0

(* What is known of a body when its upstream call is about to be made, and *)
(* after that.                                                             *)
Bodies ==
  \A r \in Reqs :
    /\ pc[r] = "call" => /\ Buffered(r) => body[r] = "complete"
                         /\ maxBody > 0 => got[r] <= maxBody
    /\ contacted[r] = TRUE => pc[r] \in {"upstream", "done"}
    /\ pc[r] = "upstream" => contacted[r] = TRUE
    /\ contacted[r] = TRUE /\ maxBody > 0
         => body[r] = "complete" /\ got[r] <= maxBody
    /\ whole[r] = TRUE => body[r] = "complete" /\ contacted[r] = TRUE

IInv == Types /\ Queue /\ Slots /\ Bodies /\ MetricsBalance

-----------------------------------------------------------------------------
(* The sets of requests that are counted are finite.                       *)
LEMMA SetsFinite ==
  /\ IsFiniteSet(Holding) /\ Cardinality(Holding) \in Nat
  /\ IsFiniteSet(InFlight) /\ Cardinality(InFlight) \in Nat
<1>1. Holding \subseteq Reqs /\ InFlight \subseteq Reqs
  BY DEF Holding, InFlight
<1>2. QED
  BY <1>1, FS_Subset, FS_CardinalityType, GatewayAssumption

(* The same after a step.                                                  *)
LEMMA SetsFinitePrimed ==
  /\ IsFiniteSet(Holding') /\ Cardinality(Holding') \in Nat
  /\ IsFiniteSet(InFlight') /\ Cardinality(InFlight') \in Nat
<1>1. Holding' \subseteq Reqs /\ InFlight' \subseteq Reqs
  BY DEF Holding, InFlight
<1>2. QED
  BY <1>1, FS_Subset, FS_CardinalityType, GatewayAssumption

(* A set with one element more, or one less.                               *)
LEMMA OneMore ==
  ASSUME NEW S, IsFiniteSet(S), NEW x, x \notin S
  PROVE  Cardinality(S \cup {x}) = Cardinality(S) + 1 /\ Cardinality(S) \in Nat
BY FS_AddElement, FS_CardinalityType

(* A set that loses one member has one member less.                        *)
LEMMA OneLess ==
  ASSUME NEW S, IsFiniteSet(S), NEW x, x \in S
  PROVE  Cardinality(S) = Cardinality(S \ {x}) + 1 /\ Cardinality(S \ {x}) \in Nat
<1>1. IsFiniteSet(S \ {x}) /\ Cardinality(S \ {x}) = Cardinality(S) - 1
  BY FS_RemoveElement
<1>2. Cardinality(S) \in Nat /\ Cardinality(S \ {x}) \in Nat
  BY <1>1, FS_CardinalityType
<1>3. QED
  BY <1>1, <1>2

-----------------------------------------------------------------------------
(* Leaving the semaphore: the request is no longer in flight, and its slot *)
(* is free or has gone to the first in the queue (Semaphore.release).      *)
LEMMA Leaving ==
  ASSUME IInv, NEW r \in Reqs, r \in Holding, LeaveProxy(r)
  PROVE  /\ pc' \in [Reqs -> PCs] /\ slots' \in Nat
         /\ pc'[r] = "done"
         /\ \A q \in Reqs \ {r} : \/ pc'[q] = pc[q]
                                  \/ pc[q] = "waiting" /\ pc'[q] = "body"
         /\ Queue' /\ Slots'
         /\ Cardinality(InFlight) = Cardinality(InFlight') + 1
<1> USE DEF IInv, Types
<1>1. CASE waiters = <<>>
  <2>1. /\ pc' = [pc EXCEPT ![r] = "done"] /\ waiters' = <<>>
        /\ slots' = IF MaxConcurrent = 0 THEN slots ELSE slots + 1
    BY <1>1 DEF LeaveProxy
  <2>2. pc[r] \in {"body", "call", "upstream"}
    BY DEF Holding
  <2>3. Holding' = Holding \ {r} /\ InFlight' = InFlight \ {r} /\ r \in InFlight
    BY <2>1, <2>2 DEF Holding, InFlight
  <2>4. /\ Cardinality(Holding) = Cardinality(Holding') + 1
        /\ Cardinality(InFlight) = Cardinality(InFlight') + 1
        /\ Cardinality(Holding') \in Nat
    BY <2>3, SetsFinite, OneLess
  <2>5. Queue'
    BY <1>1, <2>1, <2>2 DEF Queue
  <2>6. Slots'
    BY <1>1, <2>1, <2>4, GatewayAssumption DEF Slots
  <2>7. QED
    BY <2>1, <2>4, <2>5, <2>6, GatewayAssumption DEF PCs
<1>2. CASE waiters # <<>>
  <2> DEFINE h == Head(waiters)
  <2>1. /\ pc' = [pc EXCEPT ![r] = "done", ![h] = "body"]
        /\ waiters' = Tail(waiters) /\ slots' = slots
    BY <1>2 DEF LeaveProxy
  <2>2. /\ Len(waiters) \in Nat \ {0} /\ h = waiters[1] /\ h \in Reqs
        /\ Tail(waiters) \in Seq(Reqs) /\ Len(Tail(waiters)) = Len(waiters) - 1
        /\ \A i \in 1..(Len(waiters) - 1) : Tail(waiters)[i] = waiters[i + 1]
    BY <1>2 DEF Queue
  <2>3. pc[r] \in {"body", "call", "upstream"} /\ pc[h] = "waiting" /\ h # r
    BY <2>2 DEF Holding, Queue
  <2> HIDE DEF h
  <2>4. /\ pc' \in [Reqs -> PCs] /\ pc'[r] = "done" /\ pc'[h] = "body"
        /\ \A q \in Reqs \ {r, h} : pc'[q] = pc[q]
    BY <2>1, <2>2, <2>3 DEF PCs
  <2>5. Queue'
    <3>1. \A i \in 1..Len(waiters') :
            waiters'[i] = waiters[i + 1] /\ i + 1 \in 1..Len(waiters)
      BY <2>1, <2>2
    <3>2. \A i \in 1..Len(waiters') : waiters'[i] \in Reqs \ {r, h}
      BY <3>1, <2>2, <2>3, SMTT(30) DEF Queue
    <3>3. \A i \in 1..Len(waiters') : pc'[waiters'[i]] = "waiting"
      BY <3>1, <3>2, <2>4, SMTT(30) DEF Queue
    <3>4. \A i, j \in 1..Len(waiters') : waiters'[i] = waiters'[j] => i = j
      BY <3>1, <2>1, <2>2 DEF Queue
    <3>5. ASSUME NEW q \in Reqs, pc'[q] = "waiting"
          PROVE  \E i \in 1..Len(waiters') : waiters'[i] = q
      <4>1. q # h /\ q # r /\ pc[q] = "waiting"
        BY <3>5, <2>4
      <4>2. PICK i \in 1..Len(waiters) : waiters[i] = q
        BY <4>1 DEF Queue
      <4>3. i - 1 \in 1..Len(waiters') /\ waiters'[i - 1] = q
        BY <4>1, <4>2, <2>1, <2>2
      <4>4. QED
        BY <4>3
    <3>6. QED
      BY <2>1, <2>2, <3>3, <3>4, <3>5 DEF Queue
  <2>6. /\ Holding' = (Holding \ {r}) \cup {h} /\ h \notin Holding \ {r}
        /\ InFlight' = InFlight \ {r} /\ r \in InFlight
    BY <2>2, <2>3, <2>4 DEF Holding, InFlight
  <2>7. Cardinality(Holding') = Cardinality(Holding)
    <3>1. IsFiniteSet(Holding \ {r})
      BY SetsFinite, FS_RemoveElement
    <3>2. QED
      BY <3>1, <2>6, SetsFinite, OneLess, OneMore, ZenonT(40)
  <2>8. Cardinality(InFlight) = Cardinality(InFlight') + 1
    BY <2>6, SetsFinite, OneLess
  <2>9. Slots'
    BY <1>2, <2>1, <2>7, GatewayAssumption DEF Slots
  <2>10. QED
    BY <2>1, <2>3, <2>4, <2>5, <2>8, <2>9
<1>3. QED
  BY <1>1, <1>2

(* Asking for a slot: the request is in flight and has one or waits for it *)
(* at the end of the queue (Semaphore.acquire).                            *)
LEMMA Entering ==
  ASSUME IInv, NEW r \in Reqs, pc[r] = "new", EnterProxy(r)
  PROVE  /\ pc' \in [Reqs -> PCs] /\ slots' \in Nat
         /\ pc'[r] \in {"body", "waiting"}
         /\ \A q \in Reqs \ {r} : pc'[q] = pc[q]
         /\ Queue' /\ Slots'
         /\ Cardinality(InFlight') = Cardinality(InFlight) + 1
<1> USE DEF IInv, Types
<1>1. CASE /\ MaxConcurrent = 0 \/ (slots > 0 /\ waiters = <<>>)
           /\ pc' = [pc EXCEPT ![r] = "body"]
           /\ slots' = IF MaxConcurrent = 0 THEN slots ELSE slots - 1
           /\ waiters' = waiters
  <2>1. waiters = <<>>
    BY <1>1 DEF Slots
  <2>2. /\ Holding' = Holding \cup {r} /\ r \notin Holding
        /\ InFlight' = InFlight \cup {r} /\ r \notin InFlight
    BY <1>1 DEF Holding, InFlight
  <2>3. /\ Cardinality(Holding') = Cardinality(Holding) + 1
        /\ Cardinality(InFlight') = Cardinality(InFlight) + 1
    BY <2>2, SetsFinite, OneMore
  <2>4. Queue'
    BY <1>1, <2>1 DEF Queue
  <2>5. Slots'
    BY <1>1, <2>1, <2>3, SetsFinite, GatewayAssumption DEF Slots
  <2>6. QED
    BY <1>1, <2>3, <2>4, <2>5, GatewayAssumption DEF PCs
<1>2. CASE /\ MaxConcurrent > 0 /\ (slots = 0 \/ waiters # <<>>)
           /\ pc' = [pc EXCEPT ![r] = "waiting"]
           /\ waiters' = Append(waiters, r)
           /\ slots' = slots
  <2>1. /\ Holding' = Holding
        /\ InFlight' = InFlight \cup {r} /\ r \notin InFlight
    BY <1>2 DEF Holding, InFlight
  <2>2. Cardinality(InFlight') = Cardinality(InFlight) + 1
    BY <2>1, SetsFinite, OneMore
  <2>3. /\ waiters' \in Seq(Reqs) /\ Len(waiters') = Len(waiters) + 1
        /\ Len(waiters) \in Nat /\ waiters'[Len(waiters) + 1] = r
        /\ \A i \in 1..Len(waiters) : waiters'[i] = waiters[i]
    BY <1>2 DEF Queue
  <2>4. \A i \in 1..Len(waiters) : waiters[i] \in Reqs \ {r} /\ pc'[waiters[i]] = "waiting"
    BY <1>2 DEF Queue
  <2>5. Queue'
    <3>1. \A i \in 1..Len(waiters') : pc'[waiters'[i]] = "waiting"
      BY <1>2, <2>3, <2>4
    <3>2. \A i, j \in 1..Len(waiters') : waiters'[i] = waiters'[j] => i = j
      <4>1. \A i \in 1..Len(waiters') : i \in 1..Len(waiters) \/ i = Len(waiters) + 1
        BY <2>3
      <4>2. \A i \in 1..Len(waiters) : waiters'[i] # r
        BY <2>3, <2>4
      <4>3. \A i, j \in 1..Len(waiters) : waiters'[i] = waiters'[j] => i = j
        BY <2>3 DEF Queue
      <4>4. QED
        BY <4>1, <4>2, <4>3, <2>3
    <3>3. ASSUME NEW q \in Reqs, pc'[q] = "waiting"
          PROVE  \E i \in 1..Len(waiters') : waiters'[i] = q
      <4>1. CASE q = r
        BY <4>1, <2>3, SMTT(30)
      <4>2. CASE q # r
        <5>1. PICK i \in 1..Len(waiters) : waiters[i] = q
          BY <3>3, <4>2, <1>2 DEF Queue
        <5>2. QED
          BY <5>1, <2>3, SMTT(30)
      <4>3. QED
        BY <4>1, <4>2
    <3>4. QED
      BY <2>3, <3>1, <3>2, <3>3 DEF Queue
  <2>6. Slots'
    BY <1>2, <2>1, GatewayAssumption DEF Slots
  <2>7. QED
    BY <1>2, <2>2, <2>5, <2>6 DEF PCs
<1>3. QED
  BY <1>1, <1>2 DEF EnterProxy

(* A request leaves the queue before its turn (a cancelled acquire).       *)
LEMMA GivingUp ==
  ASSUME IInv, NEW r \in Reqs, NEW i \in DOMAIN waiters, waiters[i] = r,
         waiters' = Without(waiters, i), pc' = [pc EXCEPT ![r] = "done"]
  PROVE  Queue' /\ pc[r] = "waiting" /\ waiters # <<>>
<1> USE DEF IInv, Types
<1> DEFINE at(k) == IF k < i THEN k ELSE k + 1
<1>1. Len(waiters) \in Nat /\ i \in 1..Len(waiters) /\ pc[r] = "waiting"
  BY SMTT(30) DEF Queue
<1>2. /\ waiters' \in Seq(Reqs) /\ Len(waiters') = Len(waiters) - 1
      /\ \A k \in 1..Len(waiters') : waiters'[k] = waiters[at(k)]
  <2>1. waiters' = [k \in 1..(Len(waiters) - 1) |-> waiters[at(k)]]
    BY DEF Without
  <2>2. \A k \in 1..(Len(waiters) - 1) : waiters[at(k)] \in Reqs
    BY <1>1 DEF Queue
  <2>3. QED
    BY <1>1, <2>1, <2>2
<1>3. \A k \in 1..Len(waiters') : at(k) \in 1..Len(waiters) /\ at(k) # i
  BY <1>1, <1>2
<1>4. \A k, l \in 1..Len(waiters') : at(k) = at(l) => k = l
  BY <1>1, <1>2, SMTT(30)
<1>5. ASSUME NEW k \in 1..Len(waiters')
      PROVE  waiters'[k] \in Reqs \ {r} /\ pc'[waiters'[k]] = "waiting"
  <2>1. PICK j \in 1..Len(waiters) : j # i /\ waiters'[k] = waiters[j]
    BY <1>2, <1>3
  <2>2. waiters[j] \in Reqs \ {r} /\ pc[waiters[j]] = "waiting"
    BY <1>1, <2>1, SMTT(30) DEF Queue
  <2>3. QED
    BY <2>1, <2>2
<1>6. ASSUME NEW k \in 1..Len(waiters'), NEW l \in 1..Len(waiters'),
             waiters'[k] = waiters'[l]
      PROVE  k = l
  <2>1. waiters[at(k)] = waiters[at(l)]
    BY <1>2, <1>6
  <2>2. at(k) \in 1..Len(waiters) /\ at(l) \in 1..Len(waiters)
    BY <1>3
  <2>3. at(k) = at(l)
    BY <2>1, <2>2 DEF Queue
  <2>4. QED
    BY <2>3, <1>4
<1>7. ASSUME NEW q \in Reqs, pc'[q] = "waiting"
      PROVE  \E k \in 1..Len(waiters') : waiters'[k] = q
  <2>1. q # r /\ pc[q] = "waiting"
    BY <1>7
  <2>2. PICK j \in 1..Len(waiters) : waiters[j] = q
    BY <2>1 DEF Queue
  <2>3. j # i
    BY <2>1, <2>2
  <2>4. CASE j < i
    <3>1. j \in 1..Len(waiters') /\ at(j) = j
      BY <2>4, <1>1, <1>2
    <3>2. QED
      BY <3>1, <2>2, <1>2
  <2>5. CASE j > i
    <3>1. j - 1 \in 1..Len(waiters') /\ at(j - 1) = j
      BY <2>5, <1>1, <1>2
    <3>2. QED
      BY <3>1, <2>2, <1>2
  <2>6. QED
    BY <2>3, <2>4, <2>5, <1>1
<1>8. QED
  BY <1>1, <1>2, <1>5, <1>6, <1>7, SMTT(30) DEF Queue

(* A request that holds a slot ends, whatever becomes of its body, as long *)
(* as the body it has sent upstream stays as it was.                       *)
LEMMA Ending ==
  ASSUME IInv, NEW r \in Reqs, r \in Holding, NEW a, EndProxied(r, a),
         got' \in [Reqs -> Nat], body' \in [Reqs -> {"open", "complete", "cut"}],
         \A q \in Reqs \ {r} : got'[q] = got[q] /\ body'[q] = body[q],
         contacted[r] = TRUE /\ maxBody > 0 => got'[r] = got[r],
         body[r] = "complete" => body'[r] = "complete" \/ contacted[r] = FALSE
  PROVE  IInv'
<1> USE DEF IInv
<1>1. /\ LeaveProxy(r) /\ observed' = observed + 1 /\ counted' = counted
      /\ maxBody' = maxBody /\ kind' = kind
      /\ contacted' = contacted /\ whole' = whole
  BY DEF EndProxied, Observe, conf
<1>2. /\ pc' \in [Reqs -> PCs] /\ slots' \in Nat /\ pc'[r] = "done"
      /\ \A q \in Reqs \ {r} : \/ pc'[q] = pc[q]
                               \/ pc[q] = "waiting" /\ pc'[q] = "body"
      /\ Queue' /\ Slots'
      /\ Cardinality(InFlight) = Cardinality(InFlight') + 1
  BY <1>1, Leaving
<1>3. Types'
  BY <1>1, <1>2 DEF Types
<1>4. MetricsBalance'
  BY <1>1, <1>2, SetsFinitePrimed DEF MetricsBalance, Types
<1>5. Bodies'
  <2> SUFFICES ASSUME NEW q \in Reqs
               PROVE  Bodies!(q)'
    BY DEF Bodies
  <2>1. CASE q = r
    BY <2>1, <1>1, <1>2 DEF Bodies, Types, Buffered
  <2>2. CASE q # r
    BY <2>2, <1>1, <1>2 DEF Bodies, Types, Buffered
  <2>3. QED
    BY <2>1, <2>2
<1>6. QED
  BY <1>2, <1>3, <1>4, <1>5

(* Control moves and nothing that the semaphore or the metrics look at     *)
(* does.                                                                   *)
LEMMA Moving ==
  ASSUME IInv, NEW r \in Reqs, r \in Holding,
         NEW p \in {"body", "call", "upstream"}, pc' = [pc EXCEPT ![r] = p],
         UNCHANGED <<conf, slots, waiters, counted, observed>>
  PROVE  /\ pc' \in [Reqs -> PCs] /\ slots' \in Nat
         /\ counted' \in Nat /\ observed' \in Nat
         /\ Queue' /\ Slots' /\ MetricsBalance'
<1> USE DEF IInv, Types, conf
<1>1. pc[r] \in {"body", "call", "upstream"}
  BY DEF Holding
<1>2. Holding' = Holding /\ InFlight' = InFlight
  BY <1>1 DEF Holding, InFlight
<1>3. Queue'
  BY <1>1 DEF Queue
<1>4. QED
  BY <1>2, <1>3 DEF Slots, MetricsBalance, PCs

-----------------------------------------------------------------------------
(* The invariant holds at the start.                                       *)
LEMMA InitInv == Init => IInv
<1> SUFFICES ASSUME Init PROVE IInv
  OBVIOUS
<1>1. Types
  BY GatewayAssumption DEF Init, Types, PCs
<1>2. Queue /\ Bodies
  BY DEF Init, Queue, Bodies
<1>3. Holding = {} /\ InFlight = {}
  BY DEF Init, Holding, InFlight
<1>4. Cardinality(Holding) = 0 /\ Cardinality(InFlight) = 0
  BY <1>3, FS_EmptySet
<1>5. Slots /\ MetricsBalance
  BY <1>4, GatewayAssumption DEF Init, Slots, MetricsBalance
<1>6. QED
  BY <1>1, <1>2, <1>5 DEF IInv

(* The dispatch of a new request (make_gateway_app).                       *)
LEMMA DispatchInv ==
  ASSUME IInv, NEW r \in Reqs, DispatchNext(r)
  PROVE  IInv'
<1> USE DEF IInv, conf, bodyVars, semVars
<1>0. pc[r] = "new" /\ contacted[r] = FALSE /\ whole[r] = FALSE
  BY DEF DispatchNext, DispatchLocal, DispatchApi, DispatchAnswered, DispatchProxy,
         Bodies, Types
<1>1. ASSUME pc' = [pc EXCEPT ![r] = "done"],
             UNCHANGED <<conf, bodyVars, semVars>>,
             \/ counted' = counted /\ observed' = observed
             \/ counted' = counted + 1 /\ observed' = observed + 1
      PROVE  IInv'
  <2>1. Holding' = Holding /\ InFlight' = InFlight
    BY <1>0, <1>1 DEF Holding, InFlight, Types
  <2>2. Types' /\ Queue'
    BY <1>0, <1>1, SMTT(30) DEF Types, Queue, PCs
  <2>3. Slots' /\ MetricsBalance'
    BY <1>1, <2>1, SetsFinite DEF Slots, MetricsBalance, Types
  <2>4. Bodies'
    BY <1>0, <1>1 DEF Bodies, Types, Buffered
  <2>5. QED
    BY <2>2, <2>3, <2>4
<1>2. CASE DispatchLocal(r)
  BY <1>1, <1>2 DEF DispatchLocal
<1>3. CASE DispatchAnswered(r)
  BY <1>1, <1>3 DEF DispatchAnswered, Observe
<1>4. CASE DispatchApi(r)
  <2>1. /\ pc' = [pc EXCEPT ![r] = "api"] /\ counted' = counted + 1
        /\ observed' = observed /\ UNCHANGED <<conf, bodyVars, semVars>>
    BY <1>4 DEF DispatchApi
  <2>2. /\ Holding' = Holding
        /\ InFlight' = InFlight \cup {r} /\ r \notin InFlight
    BY <1>0, <2>1 DEF Holding, InFlight, Types
  <2>3. Cardinality(InFlight') = Cardinality(InFlight) + 1
    BY <2>2, SetsFinite, OneMore
  <2>4. Types' /\ Queue'
    BY <1>0, <2>1 DEF Types, Queue, PCs
  <2>5. Slots' /\ MetricsBalance'
    BY <2>1, <2>2, <2>3, SetsFinite DEF Slots, MetricsBalance, Types
  <2>6. Bodies'
    BY <1>0, <2>1 DEF Bodies, Types, Buffered
  <2>7. QED
    BY <2>4, <2>5, <2>6
<1>5. CASE DispatchProxy(r)
  <2>1. /\ EnterProxy(r) /\ counted' = counted + 1
        /\ observed' = observed /\ UNCHANGED <<conf, bodyVars>>
    BY <1>5 DEF DispatchProxy
  <2>2. /\ pc' \in [Reqs -> PCs] /\ slots' \in Nat
        /\ pc'[r] \in {"body", "waiting"}
        /\ \A q \in Reqs \ {r} : pc'[q] = pc[q]
        /\ Queue' /\ Slots'
        /\ Cardinality(InFlight') = Cardinality(InFlight) + 1
    BY <1>0, <2>1, Entering
  <2>3. Types'
    BY <2>1, <2>2 DEF Types
  <2>4. MetricsBalance'
    BY <2>1, <2>2, SetsFinite DEF MetricsBalance, Types
  <2>5. Bodies'
    BY <1>0, <2>1, <2>2 DEF Bodies, Types, Buffered
  <2>6. QED
    BY <2>2, <2>3, <2>4, <2>5
<1>6. QED
  BY <1>2, <1>3, <1>4, <1>5 DEF DispatchNext

(* An API request or a waiting one ends outside the semaphore.             *)
LEMMA EndingOutside ==
  ASSUME IInv, NEW r \in Reqs, pc[r] \in {"api", "waiting"},
         pc' = [pc EXCEPT ![r] = "done"], Queue',
         MaxConcurrent = 0 => waiters' = <<>>, waiters' # <<>> => waiters # <<>>,
         UNCHANGED <<conf, bodyVars, slots, counted>>, observed' = observed + 1
  PROVE  IInv'
<1> USE DEF IInv, conf, bodyVars
<1>1. Holding' = Holding /\ InFlight' = InFlight \ {r} /\ r \in InFlight
  BY DEF Holding, InFlight, Types
<1>2. Cardinality(InFlight) = Cardinality(InFlight') + 1
  BY <1>1, SetsFinite, OneLess
<1>3. Types'
  BY DEF Types, PCs
<1>4. Slots' /\ MetricsBalance'
  BY <1>1, <1>2, SetsFinitePrimed DEF Slots, MetricsBalance, Types
<1>5. Bodies'
  BY DEF Bodies, Types, Buffered
<1>6. QED
  BY <1>3, <1>4, <1>5

(* The steps of proxy_http_inner.                                          *)
LEMMA ProxyInv ==
  ASSUME IInv, NEW r \in Reqs, ProxyNext(r)
  PROVE  IInv'
<1> USE DEF conf, bodyVars, semVars
<1>1. CASE ReceiveBody(r)
  <2>1. pc[r] = "body" /\ r \in Holding /\ contacted[r] = FALSE /\ whole[r] = FALSE
    BY <1>1 DEF ReceiveBody, Holding, IInv, Bodies, Types
  <2>2. PICK n \in got[r] .. got[r] + 1, last \in BOOLEAN :
          /\ got' = [got EXCEPT ![r] = n]
          /\ body' = [body EXCEPT ![r] = IF last THEN "complete" ELSE "open"]
          /\ \/ TooLarge(n) /\ EndProxied(r, "too_large")
             \/ /\ ~TooLarge(n)
                /\ pc' = [pc EXCEPT ![r] = IF last \/ ~Buffered(r) THEN "call" ELSE "body"]
                /\ UNCHANGED <<life, conf, answer, contacted, whole, semVars, clients,
                               counted, observed>>
    BY <1>1 DEF ReceiveBody
  <2>3. /\ got' \in [Reqs -> Nat] /\ body' \in [Reqs -> {"open", "complete", "cut"}]
        /\ \A q \in Reqs \ {r} : got'[q] = got[q] /\ body'[q] = body[q]
    BY <2>2 DEF IInv, Types
  <2>4. CASE EndProxied(r, "too_large")
    BY <2>1, <2>3, <2>4, Ending
  <2>5. CASE /\ ~TooLarge(n)
             /\ pc' = [pc EXCEPT ![r] = IF last \/ ~Buffered(r) THEN "call" ELSE "body"]
             /\ UNCHANGED <<conf, contacted, whole, semVars, counted, observed>>
    <3> DEFINE p == IF last \/ ~Buffered(r) THEN "call" ELSE "body"
    <3>1. p \in {"body", "call", "upstream"}
      OBVIOUS
    <3>2. /\ pc' \in [Reqs -> PCs] /\ slots' \in Nat
          /\ counted' \in Nat /\ observed' \in Nat
          /\ Queue' /\ Slots' /\ MetricsBalance'
      BY <2>1, <2>5, <3>1, Moving
    <3>3. Types'
      BY <2>3, <2>5, <3>2 DEF Types, IInv
    <3>4. Bodies'
      <4> SUFFICES ASSUME NEW q \in Reqs
                   PROVE  Bodies!(q)'
        BY DEF Bodies
      <4>1. CASE q = r
        <5>1. p = "call" => /\ Buffered(r) => last = TRUE
                            /\ maxBody > 0 => n <= maxBody
          BY <2>2, <2>5 DEF TooLarge, IInv, Types
        <5>2. pc'[r] = p /\ got'[r] = n /\ (last = TRUE => body'[r] = "complete")
          BY <2>2, <2>5 DEF IInv, Types
        <5>3. (Buffered(r)' <=> Buffered(r)) /\ maxBody' = maxBody
              /\ contacted'[r] = FALSE /\ whole'[r] = FALSE
          BY <2>1, <2>5 DEF Buffered
        <5>4. QED
          BY <4>1, <5>1, <5>2, <5>3
      <4>2. CASE q # r
        BY <4>2, <2>3, <2>5 DEF Bodies, IInv, Types, Buffered
      <4>3. QED
        BY <4>1, <4>2
    <3>5. QED
      BY <3>2, <3>3, <3>4 DEF IInv
  <2>6. QED
    BY <2>2, <2>4, <2>5
<1>2. CASE Disconnected(r) \/ StreamDisconnected(r)
  <2>1. /\ r \in Holding /\ body' = [body EXCEPT ![r] = "cut"] /\ got' = got
        /\ EndProxied(r, "disconnected")
        /\ body[r] = "complete" => contacted[r] = FALSE
    BY <1>2 DEF Disconnected, StreamDisconnected, Holding, IInv, Bodies, Types
  <2>2. /\ got' \in [Reqs -> Nat] /\ body' \in [Reqs -> {"open", "complete", "cut"}]
        /\ \A q \in Reqs \ {r} : got'[q] = got[q] /\ body'[q] = body[q]
    BY <2>1 DEF IInv, Types
  <2>3. QED
    BY <2>1, <2>2, Ending
<1>3. CASE CallUpstream(r)
  <2>1. /\ pc[r] = "call" /\ pc' = [pc EXCEPT ![r] = "upstream"]
        /\ contacted' = [contacted EXCEPT ![r] = TRUE]
        /\ whole' = [whole EXCEPT ![r] = Buffered(r) \/ body[r] = "complete"]
        /\ UNCHANGED <<conf, got, body, semVars, counted, observed>>
    BY <1>3 DEF CallUpstream
  <2>2. r \in Holding
    BY <2>1 DEF Holding
  <2>3. /\ pc' \in [Reqs -> PCs] /\ slots' \in Nat
        /\ counted' \in Nat /\ observed' \in Nat
        /\ Queue' /\ Slots' /\ MetricsBalance'
    BY <2>1, <2>2, Moving
  <2>4. /\ Buffered(r) \in BOOLEAN
        /\ Buffered(r) => body[r] = "complete" /\ (maxBody > 0 => got[r] <= maxBody)
        /\ maxBody > 0 => Buffered(r)
    BY <2>1 DEF Buffered, IInv, Bodies, Types
  <2>5. Types'
    BY <2>1, <2>3, <2>4 DEF Types, IInv
  <2>6. Bodies'
    <3> SUFFICES ASSUME NEW q \in Reqs
                 PROVE  Bodies!(q)'
      BY DEF Bodies
    <3>1. CASE q = r
      BY <3>1, <2>1, <2>4 DEF IInv, Types
    <3>2. CASE q # r
      BY <3>2, <2>1 DEF Bodies, IInv, Types, Buffered
    <3>3. QED
      BY <3>1, <3>2
  <2>7. QED
    BY <2>3, <2>5, <2>6 DEF IInv
<1>4. CASE StreamBody(r)
  <2>1. PICK n \in got[r] .. got[r] + 1, last \in BOOLEAN :
          /\ got' = [got EXCEPT ![r] = n]
          /\ body' = [body EXCEPT ![r] = IF last THEN "complete" ELSE "open"]
          /\ whole' = [whole EXCEPT ![r] = last]
    BY <1>4 DEF StreamBody
  <2>2. /\ pc[r] = "upstream" /\ body[r] = "open" /\ pc' = pc
        /\ UNCHANGED <<conf, contacted, semVars, counted, observed>>
    BY <1>4 DEF StreamBody
  <2>3. r \in Holding /\ pc' = [pc EXCEPT ![r] = "upstream"]
    BY <2>2 DEF Holding, IInv, Types
  <2>4. /\ pc' \in [Reqs -> PCs] /\ slots' \in Nat
        /\ counted' \in Nat /\ observed' \in Nat
        /\ Queue' /\ Slots' /\ MetricsBalance'
    BY <2>2, <2>3, Moving
  <2>5. Types'
    BY <2>1, <2>2, <2>4 DEF Types, IInv
  <2>6. Bodies'
    <3> SUFFICES ASSUME NEW q \in Reqs
                 PROVE  Bodies!(q)'
      BY DEF Bodies
    <3>1. CASE q = r
      <4>1. contacted[r] = TRUE /\ ~(maxBody > 0)
        BY <2>2 DEF Bodies, IInv
      <4>2. QED
        BY <3>1, <4>1, <2>1, <2>2 DEF IInv, Types
    <3>2. CASE q # r
      BY <3>2, <2>1, <2>2 DEF Bodies, IInv, Types, Buffered
    <3>3. QED
      BY <3>1, <3>2
  <2>7. QED
    BY <2>4, <2>5, <2>6 DEF IInv
<1>5. CASE UpstreamEnds(r)
  <2>1. PICK a \in {"proxied", "bad_gateway", "raised"} : EndProxied(r, a)
    BY <1>5 DEF UpstreamEnds
  <2>2. r \in Holding /\ got' = got /\ body' = body
    BY <1>5 DEF UpstreamEnds, Holding
  <2>3. QED
    BY <2>1, <2>2, Ending DEF IInv, Types
<1>6. QED
  BY <1>1, <1>2, <1>3, <1>4, <1>5 DEF ProxyNext

(* The inner application answers or raises; the server cancels.            *)
LEMMA ApiInv ==
  ASSUME IInv, NEW r \in Reqs, ApiReturns(r)
  PROVE  IInv'
<1>1. /\ pc[r] = "api" /\ pc' = [pc EXCEPT ![r] = "done"]
      /\ observed' = observed + 1
      /\ UNCHANGED <<conf, bodyVars, semVars, counted>>
  BY DEF ApiReturns, Observe
<1>2. Queue'
  BY <1>1 DEF IInv, Queue, Types, semVars
<1>3. QED
  BY <1>1, <1>2, EndingOutside DEF IInv, Slots, semVars

(* A request that gives up keeps the invariant.                            *)
LEMMA CancelInv ==
  ASSUME IInv, NEW r \in Reqs, ServerCancels(r)
  PROVE  IInv'
<1>1. CASE r \in Holding /\ EndProxied(r, "cancelled") /\ UNCHANGED <<got, body>>
  BY <1>1, Ending DEF IInv, Types
<1>2. CASE /\ \/ pc[r] = "api" /\ UNCHANGED waiters
              \/ \E i \in DOMAIN waiters :
                   waiters[i] = r /\ waiters' = Without(waiters, i)
           /\ pc' = [pc EXCEPT ![r] = "done"]
           /\ Observe(r, "cancelled")
           /\ UNCHANGED <<life, conf, bodyVars, slots, clients, counted>>
  <2>1. observed' = observed + 1
    BY <1>2 DEF Observe
  <2>2. CASE pc[r] = "api" /\ waiters' = waiters
    <3>1. Queue'
      BY <1>2, <2>2 DEF IInv, Queue, Types
    <3>2. QED
      BY <1>2, <2>1, <2>2, <3>1, EndingOutside DEF IInv, Slots
  <2>3. ASSUME NEW i \in DOMAIN waiters, waiters[i] = r, waiters' = Without(waiters, i)
        PROVE  IInv'
    <3>1. Queue' /\ pc[r] = "waiting" /\ waiters # <<>>
      BY <1>2, <2>3, GivingUp
    <3>2. MaxConcurrent # 0
      BY <3>1 DEF IInv, Slots
    <3>3. QED
      BY <1>2, <2>1, <3>1, <3>2, EndingOutside
  <2>4. QED
    BY <1>2, <2>2, <2>3
<1>3. QED
  BY <1>1, <1>2 DEF ServerCancels

(* Every step keeps the invariant.                                         *)
LEMMA NextInv == IInv /\ [Next]_vars => IInv'
<1> SUFFICES ASSUME IInv, [Next]_vars PROVE IInv'
  OBVIOUS
<1>1. ASSUME UNCHANGED <<conf, pc, bodyVars, semVars, counted, observed>>
      PROVE  IInv'
  BY <1>1 DEF IInv, Types, Queue, Slots, Bodies, MetricsBalance, Holding, InFlight,
              Buffered, conf, bodyVars, semVars
<1>2. CASE ServerDrains \/ LifespanEnds \/ Finished \/ UNCHANGED vars
  BY <1>1, <1>2 DEF ServerDrains, LifespanEnds, Finished, vars
<1>3. ASSUME NEW r \in Reqs, DispatchNext(r) \/ RequestNext(r) \/ ServerCancels(r)
      PROVE  IInv'
  BY <1>3, DispatchInv, ApiInv, ProxyInv, CancelInv DEF RequestNext
<1>4. QED
  BY <1>2, <1>3 DEF Next

(* The inductive invariant of the HTTP gateway: queue, slots, bodies and   *)
(* metrics, for any number of requests and any concurrency limit.          *)
THEOREM GatewayInvariant == Spec => []IInv
BY InitInv, NextInv, PTL DEF Spec

(* Type correctness; IInv gives the types of what the semaphore, the       *)
(* bodies and the metrics are about.                                       *)
THEOREM TypeCorrect == Spec => []TypeOK
<1> DEFINE Rest == /\ life \in {"up", "draining", "down", "failed"}
                   /\ maxBody \in Limits /\ kind \in Mixes
                   /\ answer \in [Reqs -> Answers]
                   /\ got \in [Reqs -> 0..MaxChunks] /\ clients \in Nat
<1>1. Init => Rest
  BY GatewayAssumption DEF Init, Answers
<1>2. IInv /\ Rest /\ [Next]_vars => Rest'
  <2> SUFFICES ASSUME IInv, Rest, [Next]_vars PROVE Rest'
    OBVIOUS
  <2> USE GatewayAssumption DEF conf, bodyVars, semVars
  <2>1. CASE ServerDrains \/ LifespanEnds \/ Finished \/ UNCHANGED vars
    BY <2>1 DEF ServerDrains, LifespanEnds, Finished, vars
  <2>2. ASSUME NEW r \in Reqs, DispatchNext(r) PROVE Rest'
    BY <2>2 DEF DispatchNext, DispatchLocal, DispatchApi, DispatchAnswered,
                DispatchProxy, Observe, Answers
  <2>3. ASSUME NEW r \in Reqs, RequestNext(r) PROVE Rest'
    <3>1. CASE ApiReturns(r)
      BY <3>1 DEF ApiReturns, Observe, Answers
    <3>2. CASE ReceiveBody(r)
      BY <3>2 DEF ReceiveBody, EndProxied, Observe, Answers
    <3>3. CASE Disconnected(r) \/ StreamDisconnected(r) \/ UpstreamEnds(r)
      BY <3>3 DEF Disconnected, StreamDisconnected, UpstreamEnds, EndProxied, Observe,
                  Answers
    <3>4. CASE CallUpstream(r) \/ StreamBody(r)
      BY <3>4 DEF CallUpstream, StreamBody
    <3>5. QED
      BY <2>3, <3>1, <3>2, <3>3, <3>4 DEF RequestNext, ProxyNext
  <2>4. ASSUME NEW r \in Reqs, ServerCancels(r) PROVE Rest'
    BY <2>4 DEF ServerCancels, EndProxied, Observe, Answers
  <2>5. QED
    BY <2>1, <2>2, <2>3, <2>4 DEF Next
<1>3. IInv /\ Rest => TypeOK
  BY DEF IInv, Types, Queue, TypeOK
<1> HIDE DEF Rest
<1>4. QED
  BY <1>1, <1>2, <1>3, GatewayInvariant, PTL DEF Spec

(* collect_limited_request_body fails closed: with a limit, the sidecar is *)
(* called only for bodies that are complete and within it.                 *)
THEOREM LimitIsHard == Spec => []LimitFailsClosed
<1>1. IInv => LimitFailsClosed
  BY DEF IInv, Bodies, LimitFailsClosed, Types
<1>2. QED
  BY <1>1, GatewayInvariant, PTL

(* A body that its client has cut off is never sent on as complete.        *)
THEOREM NoCutBody == Spec => []CutNeverWhole
<1>1. IInv => CutNeverWhole
  BY DEF IInv, Bodies, CutNeverWhole, Types
<1>2. QED
  BY <1>1, GatewayInvariant, PTL

(* proxy_http: slots in use and slots free add up to the limit on every    *)
(* path, cancellation included, and nobody waits beside a free slot.       *)
THEOREM SlotsAddUp == Spec => []SlotsConserved
<1>1. ASSUME IInv, MaxConcurrent > 0 PROVE SlotsConserved
  <2>1. {waiters[i] : i \in DOMAIN waiters} = {r \in Reqs : pc[r] = "waiting"}
    BY <1>1 DEF IInv, Queue
  <2>2. QED
    BY <1>1, <2>1 DEF IInv, Slots, SlotsConserved
<1>2. IInv => SlotsConserved
  BY <1>1 DEF SlotsConserved
<1>3. QED
  BY <1>2, GatewayInvariant, PTL

(* The counter and the histogram differ by the requests in flight.         *)
THEOREM MetricsAddUp == Spec => []MetricsBalance
<1>1. IInv => MetricsBalance
  BY DEF IInv
<1>2. QED
  BY <1>1, GatewayInvariant, PTL

-----------------------------------------------------------------------------
(***************************************************************************)
(* What RequestEnds rests on besides the scheduling.  The model checker    *)
(* shows that every request ends under the fairness of GatewayHttp; the    *)
(* theorems below are the parts of that argument that need no fairness,    *)
(* for any number of requests, slots and chunks.                           *)
(***************************************************************************)

(* The request is where it was.                                            *)
Rests(q) == pc'[q] = pc[q] /\ got'[q] = got[q] /\ body'[q] = body[q]

(* The moves one request can make, by its own step, by the slot that       *)
(* another one hands to it or by the server's cancellation.                *)
Moves(q) ==
  \/ /\ pc[q] = "new" /\ pc'[q] \in {"api", "waiting", "body", "done"}
     /\ got'[q] = got[q] /\ body'[q] = body[q]
  \/ /\ pc[q] = "waiting" /\ pc'[q] \in {"body", "done"}
     /\ got'[q] = got[q] /\ body'[q] = body[q]
  \/ /\ pc[q] \in {"api", "body", "call", "upstream"} /\ pc'[q] = "done"
     /\ got'[q] \in got[q] .. MaxChunks
  \/ /\ pc[q] = "body" /\ pc'[q] = "body" /\ body'[q] = "open"
     /\ got'[q] \in got[q] + 1 .. MaxChunks
  \/ /\ pc[q] = "body" /\ pc'[q] = "call" /\ got'[q] \in got[q] .. MaxChunks
  \/ /\ pc[q] = "call" /\ pc'[q] = "upstream"
     /\ got'[q] = got[q] /\ body'[q] = body[q]
  \/ /\ pc[q] = "upstream" /\ pc'[q] = "upstream" /\ body[q] = "open"
     /\ got'[q] \in got[q] .. MaxChunks
     /\ got'[q] # got[q] \/ body'[q] # "open"

(* The steps a request has left at most.                                   *)
Work(r) ==
  IF pc[r] = "done" THEN 0
  ELSE IF pc[r] = "upstream" THEN MaxChunks - got[r] + (IF body[r] = "open" THEN 2 ELSE 1)
  ELSE IF pc[r] = "call" THEN MaxChunks - got[r] + 3
  ELSE IF pc[r] = "body" THEN MaxChunks - got[r] + 4
  ELSE IF pc[r] = "new" THEN MaxChunks + 6
  ELSE MaxChunks + 5

(* Before its body is read a request has an open body, and no body is      *)
(* longer than what clients send.                                          *)
Unread ==
  \A r \in Reqs : /\ got[r] \in 0..MaxChunks
                  /\ pc[r] \in {"new", "waiting", "body"} => body[r] = "open"

(* A move lowers the work that is left, and leaves the body open as long   *)
(* as it is not read.                                                      *)
LEMMA MoveShrinks ==
  ASSUME Unread, NEW q \in Reqs, Moves(q)
  PROVE  /\ Work(q) \in Nat /\ Work(q)' \in Nat /\ Work(q)' < Work(q)
         /\ got'[q] \in 0..MaxChunks
         /\ pc'[q] \in {"new", "waiting", "body"} => body'[q] = "open"
<1> DEFINE M == MaxChunks
<1>1. M \in Nat /\ got[q] \in 0..M
  BY GatewayAssumption DEF Unread
<1>2. got'[q] \in 0..M /\ got'[q] >= got[q]
  BY <1>1 DEF Moves
<1>3. pc'[q] \in {"new", "waiting", "body"} => body'[q] = "open"
  BY DEF Moves, Unread
<1>4. Work(q) \in Nat /\ Work(q)' \in Nat
  BY <1>1, <1>2 DEF Work
<1>5. Work(q)' < Work(q)
  BY <1>1, <1>2, SMTT(30) DEF Work, Moves
<1>6. QED BY <1>2, <1>3, <1>4, <1>5

(* Leaving the proxy moves the request itself and, from the queue, at most *)
(* the one that gets its slot.                                             *)
LEMMA LeavingMoves ==
  ASSUME IInv, Unread, NEW r \in Reqs, r \in Holding, LeaveProxy(r),
         got'[r] \in got[r] .. MaxChunks,
         \A q \in Reqs \ {r} : got'[q] = got[q] /\ body'[q] = body[q]
  PROVE  Moves(r) /\ \A q \in Reqs : Rests(q) \/ Moves(q)
<1>1. /\ pc'[r] = "done"
      /\ \A q \in Reqs \ {r} : pc'[q] = pc[q] \/ (pc[q] = "waiting" /\ pc'[q] = "body")
  BY Leaving
<1>2. Moves(r)
  BY <1>1 DEF Moves, Holding
<1>3. ASSUME NEW q \in Reqs \ {r} PROVE Rests(q) \/ Moves(q)
  BY <1>1 DEF Moves, Rests
<1>4. QED BY <1>2, <1>3

(* A step of the request's task is a move of that request, or an empty     *)
(* body message that changes nothing; the others rest, or get its slot.    *)
LEMMA RequestMoves ==
  ASSUME IInv, Unread, NEW r \in Reqs, RequestNext(r)
  PROVE  (Moves(r) \/ UNCHANGED vars) /\ \A q \in Reqs : Rests(q) \/ Moves(q)
<1> USE GatewayAssumption DEF IInv, Types, Unread, bodyVars, conf, semVars
<1>1. CASE ApiReturns(r)
  BY <1>1 DEF ApiReturns, Moves, Rests
<1>2. CASE ReceiveBody(r)
  <2>1. PICK n \in got[r] .. got[r] + 1, last \in BOOLEAN :
          /\ pc[r] = "body" /\ n <= MaxChunks
          /\ got' = [got EXCEPT ![r] = n]
          /\ body' = [body EXCEPT ![r] = IF last THEN "complete" ELSE "open"]
          /\ \/ EndProxied(r, "too_large")
             \/ /\ pc' = [pc EXCEPT ![r] = IF last \/ ~Buffered(r) THEN "call" ELSE "body"]
                /\ UNCHANGED <<life, conf, answer, contacted, whole, semVars, clients,
                               counted, observed>>
    BY <1>2 DEF ReceiveBody
  <2>2. /\ got'[r] \in got[r] .. MaxChunks
        /\ \A q \in Reqs \ {r} : got'[q] = got[q] /\ body'[q] = body[q]
    BY <2>1
  <2>3. CASE EndProxied(r, "too_large")
    BY <2>1, <2>2, <2>3, LeavingMoves DEF EndProxied, Holding
  <2>4. CASE /\ pc' = [pc EXCEPT ![r] = IF last \/ ~Buffered(r) THEN "call" ELSE "body"]
             /\ UNCHANGED <<life, conf, answer, contacted, whole, semVars, clients,
                            counted, observed>>
    <3>1. \A q \in Reqs \ {r} : Rests(q)
      BY <2>2, <2>4 DEF Rests
    <3>2. CASE last \/ ~Buffered(r)
      <4>1. Moves(r)
        BY <2>1, <2>2, <2>4, <3>2 DEF Moves
      <4>2. QED BY <3>1, <4>1
    <3>3. CASE ~(last \/ ~Buffered(r)) /\ n # got[r]
      <4>1. Moves(r)
        BY <2>1, <2>2, <2>4, <3>3 DEF Moves
      <4>2. QED BY <3>1, <4>1
    <3>4. CASE ~(last \/ ~Buffered(r)) /\ n = got[r]
      <4>1. pc' = pc /\ got' = got /\ body' = body
        BY <2>1, <2>4, <3>4
      <4>2. UNCHANGED vars
        BY <2>4, <4>1 DEF vars
      <4>3. QED BY <4>1, <4>2 DEF Rests
    <3>5. QED BY <3>2, <3>3, <3>4
  <2>5. QED BY <2>1, <2>3, <2>4
<1>3. CASE Disconnected(r) \/ StreamDisconnected(r) \/ UpstreamEnds(r)
  <2>1. /\ r \in Holding /\ LeaveProxy(r) /\ got' = got
        /\ body' = body \/ body' = [body EXCEPT ![r] = "cut"]
    BY <1>3 DEF Disconnected, StreamDisconnected, UpstreamEnds, EndProxied, Holding
  <2>2. /\ got'[r] \in got[r] .. MaxChunks
        /\ \A q \in Reqs \ {r} : got'[q] = got[q] /\ body'[q] = body[q]
    BY <2>1
  <2>3. QED BY <2>1, <2>2, LeavingMoves
<1>4. CASE CallUpstream(r)
  BY <1>4 DEF CallUpstream, Moves, Rests
<1>5. CASE StreamBody(r)
  <2>1. PICK n \in got[r] .. got[r] + 1, last \in BOOLEAN :
          /\ pc[r] = "upstream" /\ body[r] = "open" /\ pc' = pc
          /\ n <= MaxChunks /\ (n = got[r] => last)
          /\ got' = [got EXCEPT ![r] = n]
          /\ body' = [body EXCEPT ![r] = IF last THEN "complete" ELSE "open"]
    BY <1>5 DEF StreamBody
  <2>2. \A q \in Reqs \ {r} : Rests(q)
    BY <2>1 DEF Rests
  <2>3. Moves(r)
    BY <2>1 DEF Moves
  <2>4. QED BY <2>2, <2>3
<1>6. QED
  BY <1>1, <1>2, <1>3, <1>4, <1>5 DEF RequestNext, ProxyNext

(* So does every other step: each request rests or moves.                  *)
LEMMA StepMoves ==
  ASSUME IInv, Unread, [Next]_vars
  PROVE  \A q \in Reqs : Rests(q) \/ Moves(q)
<1> USE GatewayAssumption DEF IInv, Types, Unread, bodyVars, conf, semVars
<1>1. CASE ServerDrains \/ LifespanEnds \/ Finished \/ UNCHANGED vars
  BY <1>1 DEF ServerDrains, LifespanEnds, Finished, vars, Rests
<1>2. ASSUME NEW r \in Reqs, DispatchNext(r) PROVE \A q \in Reqs : Rests(q) \/ Moves(q)
  <2>1. /\ pc[r] = "new" /\ got' = got /\ body' = body
        /\ \E x \in {"api", "waiting", "body", "done"} : pc' = [pc EXCEPT ![r] = x]
    BY <1>2 DEF DispatchNext, DispatchLocal, DispatchApi, DispatchAnswered, DispatchProxy,
                EnterProxy
  <2>2. QED BY <2>1 DEF Rests, Moves
<1>3. ASSUME NEW r \in Reqs, ServerCancels(r) PROVE \A q \in Reqs : Rests(q) \/ Moves(q)
  <2>1. CASE r \in Holding /\ EndProxied(r, "cancelled") /\ UNCHANGED <<got, body>>
    BY <2>1, LeavingMoves DEF EndProxied
  <2>2. CASE /\ pc[r] = "api" \/ \E i \in DOMAIN waiters : waiters[i] = r
             /\ pc' = [pc EXCEPT ![r] = "done"] /\ got' = got /\ body' = body
    <3>1. pc[r] \in {"api", "waiting"}
      BY <2>2, SMTT(30) DEF Queue
    <3>2. QED BY <2>2, <3>1 DEF Rests, Moves
  <2>3. QED BY <1>3, <2>1, <2>2 DEF ServerCancels
<1>4. QED
  BY <1>1, <1>2, <1>3, RequestMoves DEF Next

(* What is unread stays open (an invariant by itself, given the slots).    *)
LEMMA UnreadHolds == Spec => []Unread
<1>1. Init => Unread
  BY GatewayAssumption DEF Init, Unread
<1>2. IInv /\ Unread /\ [Next]_vars => Unread'
  <2> SUFFICES ASSUME IInv, Unread, [Next]_vars, NEW q \in Reqs
               PROVE  /\ got'[q] \in 0..MaxChunks
                      /\ pc'[q] \in {"new", "waiting", "body"} => body'[q] = "open"
    BY DEF Unread
  <2>1. Rests(q) \/ Moves(q)
    BY StepMoves
  <2>2. CASE Rests(q)
    BY <2>2 DEF Rests, Unread
  <2>3. CASE Moves(q)
    BY <2>3, MoveShrinks
  <2>4. QED BY <2>1, <2>2, <2>3
<1>3. QED
  BY <1>1, <1>2, GatewayInvariant, PTL DEF Spec

(* No step of anybody gives a request more work, one that moves it takes   *)
(* some away, and every step of its own task does.                         *)
WorkShrinks ==
  \A r \in Reqs : /\ Work(r)' <= Work(r)
                  /\ Work(r)' = Work(r) => Rests(r)
                  /\ RequestNext(r) => Work(r)' < Work(r)

(* Every request is done after at most MaxChunks + 6 steps that concern    *)
(* it: the measure Work is a natural number that starts there, never grows *)
(* and shrinks with every step of the request, with the slot it is handed  *)
(* and with its cancellation.  No schedule makes the proxy (proxy_http,    *)
(* request_body, the dispatch) go round without end.                       *)
THEOREM RequestsRunDown == Spec => [](\A r \in Reqs : Work(r) \in Nat) /\ [][WorkShrinks]_vars
<1>1. ASSUME Unread PROVE \A r \in Reqs : Work(r) \in Nat
  BY <1>1, GatewayAssumption DEF Unread, Work
<1>2. ASSUME IInv, Unread, [Next]_vars PROVE [WorkShrinks]_vars
  <2> SUFFICES ASSUME ~UNCHANGED vars, NEW r \in Reqs
               PROVE  /\ Work(r)' <= Work(r)
                      /\ Work(r)' = Work(r) => Rests(r)
                      /\ RequestNext(r) => Work(r)' < Work(r)
    BY DEF WorkShrinks
  <2>1. Work(r) \in Nat
    BY <1>1, <1>2
  <2>2. CASE Moves(r)
    BY <1>2, <2>1, <2>2, MoveShrinks
  <2>3. CASE Rests(r) /\ ~Moves(r)
    <3>1. Work(r)' = Work(r)
      BY <2>3 DEF Rests, Work
    <3>2. ~RequestNext(r)
      BY <1>2, <2>3, RequestMoves
    <3>3. QED BY <2>1, <2>3, <3>1, <3>2
  <2>4. QED BY <1>2, <2>2, <2>3, StepMoves
<1>3. QED
  BY <1>1, <1>2, GatewayInvariant, UnreadHolds, PTL DEF Spec

-----------------------------------------------------------------------------
(* Who is served before the request, in a queue.                           *)
AheadIn(s, r) ==
  {q \in Reqs : \E i, j \in 1..Len(s) : i < j /\ s[i] = q /\ s[j] = r}

(* A request that joins at the end is ahead of nobody who waits already.   *)
LEMMA JoinsBehind ==
  ASSUME NEW s \in Seq(Reqs), NEW x \in Reqs, NEW r \in Reqs, r # x
  PROVE  AheadIn(Append(s, x), r) = AheadIn(s, r)
<1> DEFINE t == Append(s, x)
<1>1. /\ Len(s) \in Nat /\ Len(t) = Len(s) + 1 /\ t[Len(s) + 1] = x
      /\ \A i \in 1..Len(s) : t[i] = s[i]
  BY AppendProperties
<1> HIDE DEF t
<1>2. ASSUME NEW q \in Reqs, NEW i \in 1..Len(s), NEW j \in 1..Len(s), i < j, s[i] = q, s[j] = r
      PROVE  q \in AheadIn(t, r)
  <2>1. i \in 1..Len(t) /\ j \in 1..Len(t) /\ t[i] = q /\ t[j] = r
    BY <1>1, <1>2
  <2>2. QED BY <1>2, <2>1 DEF AheadIn
<1>3. ASSUME NEW q \in Reqs, NEW i \in 1..Len(t), NEW j \in 1..Len(t), i < j, t[i] = q, t[j] = r
      PROVE  q \in AheadIn(s, r)
  <2>1. j # Len(s) + 1
    BY <1>1, <1>3
  <2>2. i \in 1..Len(s) /\ j \in 1..Len(s)
    BY <1>1, <1>3, <2>1
  <2>3. s[i] = q /\ s[j] = r
    BY <1>1, <1>3, <2>2
  <2>4. QED BY <1>3, <2>2, <2>3 DEF AheadIn
<1>4. QED BY <1>2, <1>3 DEF AheadIn, t

(* A queue that loses one member, at its head or anywhere, keeps its       *)
(* order: nobody gets ahead of those who stay.                             *)
LEMMA LeavesAhead ==
  ASSUME NEW s \in Seq(Reqs), NEW i \in 1..Len(s), NEW r \in Reqs, NEW t,
         Len(t) = Len(s) - 1,
         \A k \in 1..Len(t) : t[k] = s[IF k < i THEN k ELSE k + 1]
  PROVE  AheadIn(t, r) \subseteq AheadIn(s, r)
<1> DEFINE at(k) == IF k < i THEN k ELSE k + 1
<1> SUFFICES ASSUME NEW q \in Reqs, NEW k \in 1..Len(t), NEW l \in 1..Len(t),
                    k < l, t[k] = q, t[l] = r
             PROVE  q \in AheadIn(s, r)
  BY DEF AheadIn
<1>1. at(k) \in 1..Len(s) /\ at(l) \in 1..Len(s) /\ at(k) < at(l)
  OBVIOUS
<1>2. s[at(k)] = q /\ s[at(l)] = r
  OBVIOUS
<1> HIDE DEF at
<1>3. QED BY <1>1, <1>2 DEF AheadIn

(* The first in the queue is ahead of every other one, and after it has    *)
(* left of none.                                                           *)
LEMMA HeadIsAhead ==
  ASSUME NEW s \in Seq(Reqs), s # <<>>, \A i, j \in 1..Len(s) : s[i] = s[j] => i = j,
         NEW r \in Reqs
  PROVE  /\ Head(s) \in Reqs
         /\ AheadIn(Tail(s), r) \subseteq AheadIn(s, r)
         /\ Head(s) \notin AheadIn(Tail(s), r)
         /\ (\E i \in 1..Len(s) : s[i] = r) => r = Head(s) \/ Head(s) \in AheadIn(s, r)
<1> DEFINE t == Tail(s)
<1>1. /\ Len(s) \in Nat \ {0} /\ Head(s) = s[1] /\ Head(s) \in Reqs
      /\ Len(t) = Len(s) - 1 /\ \A k \in 1..Len(t) : t[k] = s[k + 1]
  BY HeadTailProperties, EmptySeq
<1> HIDE DEF t
<1>2. AheadIn(t, r) \subseteq AheadIn(s, r)
  <2>1. 1 \in 1..Len(s) /\ \A k \in 1..Len(t) : t[k] = s[IF k < 1 THEN k ELSE k + 1]
    BY <1>1
  <2>2. QED BY <1>1, <2>1, LeavesAhead
<1>3. ASSUME Head(s) \in AheadIn(t, r) PROVE FALSE
  <2>1. PICK k \in 1..Len(t) : t[k] = s[1]
    BY <1>1, <1>3 DEF AheadIn
  <2>2. k + 1 \in 1..Len(s) /\ 1 \in 1..Len(s) /\ s[k + 1] = s[1] /\ k + 1 # 1
    BY <1>1, <2>1
  <2>3. QED BY <2>2
<1>4. ASSUME NEW i \in 1..Len(s), s[i] = r PROVE r = Head(s) \/ Head(s) \in AheadIn(s, r)
  <2>1. CASE i = 1
    BY <1>1, <1>4, <2>1
  <2>2. CASE i # 1
    <3>1. 1 \in 1..Len(s) /\ 1 < i
      BY <1>1, <2>2
    <3>2. QED BY <1>1, <1>4, <3>1 DEF AheadIn
  <2>3. QED BY <2>1, <2>2
<1>5. QED BY <1>1, <1>2, <1>3, <1>4 DEF t

(* Only requests ahead of this one, or it itself, begin to hold a slot;    *)
(* while it goes on waiting nobody gets ahead of it, and everybody who     *)
(* gives a slot back shortens its way.                                     *)
InTurn(r) ==
  /\ Holding' \ Holding \subseteq AheadIn(waiters, r) \cup {r}
  /\ pc'[r] = "waiting" =>
       /\ AheadIn(waiters', r) \subseteq AheadIn(waiters, r)
       /\ Holding \ Holding' # {} => AheadIn(waiters', r) # AheadIn(waiters, r)

(* Whoever waits for upstream_sem waits for somebody who holds a slot, and *)
(* is served in turn.                                                      *)
ServedInTurn == \A r \in Reqs : pc[r] = "waiting" => Holding # {} /\ InTurn(r)

(* The slots are handed on in the order of the queue: a waiting request is *)
(* overtaken by nobody, and when as many requests have given their slots   *)
(* back as were ahead of it, the next slot is its own (asyncio.Semaphore   *)
(* as proxy_http uses it, cancellation of holders and waiters included).   *)
THEOREM SlotsInTurn == Spec => [][ServedInTurn]_vars
<1>1. ASSUME IInv, [Next]_vars PROVE [ServedInTurn]_vars
  <2> SUFFICES ASSUME NEW r \in Reqs, pc[r] = "waiting", ~UNCHANGED vars
               PROVE  Holding # {} /\ InTurn(r)
    BY DEF ServedInTurn
  <2> USE GatewayAssumption DEF bodyVars, conf, semVars
  <2>1. /\ waiters \in Seq(Reqs) /\ pc \in [Reqs -> PCs]
        /\ \A i \in 1..Len(waiters) : pc[waiters[i]] = "waiting"
        /\ \A i, j \in 1..Len(waiters) : waiters[i] = waiters[j] => i = j
        /\ \E i \in 1..Len(waiters) : waiters[i] = r
    BY <1>1 DEF IInv, Types, Queue
  <2>2. waiters # <<>>
    BY <2>1
  <2>3. MaxConcurrent > 0 /\ slots = 0 /\ Holding # {}
    <3>1. MaxConcurrent > 0
      BY <1>1, <2>2 DEF IInv, Slots
    <3>2. slots = 0 /\ Cardinality(Holding) = MaxConcurrent
      BY <1>1, <2>2, <3>1, SetsFinite DEF IInv, Slots
    <3>3. QED BY <3>1, <3>2, FS_EmptySet
  <2>4. ASSUME waiters' = waiters, Holding' = Holding
        PROVE  InTurn(r)
    BY <2>4 DEF InTurn
  <2>5. CASE ServerDrains \/ LifespanEnds \/ Finished
    BY <2>3, <2>4, <2>5 DEF ServerDrains, LifespanEnds, Finished, vars, Holding
  <2>6. ASSUME NEW x \in Reqs, x \in Holding, LeaveProxy(x)
        PROVE  InTurn(r)
    <3> DEFINE h == Head(waiters)
    <3>1. pc' = [pc EXCEPT ![x] = "done", ![h] = "body"] /\ waiters' = Tail(waiters)
      BY <2>2, <2>6 DEF LeaveProxy
    <3>2. /\ h \in Reqs
          /\ AheadIn(waiters', r) \subseteq AheadIn(waiters, r)
          /\ h \notin AheadIn(waiters', r)
          /\ r = h \/ h \in AheadIn(waiters, r)
      BY <2>1, <2>2, <3>1, HeadIsAhead
    <3> HIDE DEF h
    <3>3. Holding' \ Holding \subseteq {h}
      BY <2>1, <3>1, <3>2 DEF Holding
    <3>4. r = h => pc'[r] = "body"
      BY <2>1, <3>1, <3>2
    <3>5. QED BY <3>2, <3>3, <3>4 DEF InTurn
  <2>7. ASSUME NEW x \in Reqs, DispatchNext(x)
        PROVE  InTurn(r)
    <3>1. CASE DispatchLocal(x) \/ DispatchApi(x) \/ DispatchAnswered(x)
      <4>1. /\ pc[x] = "new" /\ waiters' = waiters
            /\ \E y \in {"api", "done"} : pc' = [pc EXCEPT ![x] = y]
        BY <3>1 DEF DispatchLocal, DispatchApi, DispatchAnswered
      <4>2. Holding' = Holding
        BY <2>1, <4>1 DEF Holding
      <4>3. QED BY <2>4, <4>1, <4>2
    <3>2. CASE DispatchProxy(x)
      <4>1. /\ pc[x] = "new" /\ pc' = [pc EXCEPT ![x] = "waiting"]
            /\ waiters' = Append(waiters, x)
        BY <2>2, <2>3, <3>2 DEF DispatchProxy, EnterProxy
      <4>2. Holding' = Holding /\ r # x
        BY <2>1, <4>1 DEF Holding
      <4>3. AheadIn(waiters', r) = AheadIn(waiters, r)
        BY <2>1, <4>1, <4>2, JoinsBehind
      <4>4. QED BY <4>2, <4>3 DEF InTurn
    <3>3. QED BY <2>7, <3>1, <3>2 DEF DispatchNext
  <2>8. ASSUME NEW x \in Reqs, RequestNext(x)
        PROVE  InTurn(r)
    <3>1. \/ x \in Holding /\ LeaveProxy(x)
          \/ /\ waiters' = waiters
             /\ pc[x] = "api" /\ pc' = [pc EXCEPT ![x] = "done"]
          \/ /\ waiters' = waiters /\ x \in Holding
             /\ \E y \in {"body", "call", "upstream"} : pc' = [pc EXCEPT ![x] = y]
      <4>1. CASE ApiReturns(x)
        BY <4>1 DEF ApiReturns
      <4>2. CASE Disconnected(x) \/ StreamDisconnected(x) \/ UpstreamEnds(x)
        BY <4>2 DEF Disconnected, StreamDisconnected, UpstreamEnds, EndProxied, Holding
      <4>3. CASE ReceiveBody(x)
        BY <4>3 DEF ReceiveBody, EndProxied, Holding
      <4>4. CASE CallUpstream(x)
        BY <4>4 DEF CallUpstream, Holding
      <4>5. CASE StreamBody(x)
        BY <2>1, <4>5 DEF StreamBody, Holding
      <4>6. QED
        BY <2>8, <4>1, <4>2, <4>3, <4>4, <4>5 DEF RequestNext, ProxyNext
    <3>2. CASE waiters' = waiters /\ pc[x] = "api" /\ pc' = [pc EXCEPT ![x] = "done"]
      <4>1. Holding' = Holding
        BY <2>1, <3>2 DEF Holding
      <4>2. QED BY <2>4, <3>2, <4>1
    <3>3. CASE /\ waiters' = waiters /\ x \in Holding
               /\ \E y \in {"body", "call", "upstream"} : pc' = [pc EXCEPT ![x] = y]
      <4>1. Holding' = Holding
        BY <2>1, <3>3 DEF Holding
      <4>2. QED BY <2>4, <3>3, <4>1
    <3>4. QED BY <2>6, <3>1, <3>2, <3>3
  <2>9. ASSUME NEW x \in Reqs, ServerCancels(x)
        PROVE  InTurn(r)
    <3>1. CASE x \in Holding /\ EndProxied(x, "cancelled")
      BY <2>6, <3>1 DEF EndProxied
    <3>2. CASE pc[x] = "api" /\ waiters' = waiters /\ pc' = [pc EXCEPT ![x] = "done"]
      <4>1. Holding' = Holding
        BY <2>1, <3>2 DEF Holding
      <4>2. QED BY <2>4, <3>2, <4>1
    <3>3. ASSUME NEW i \in DOMAIN waiters, waiters[i] = x, waiters' = Without(waiters, i),
                 pc' = [pc EXCEPT ![x] = "done"]
          PROVE  /\ Holding' = Holding
                 /\ AheadIn(waiters', r) \subseteq AheadIn(waiters, r)
      <4>1. i \in 1..Len(waiters) /\ Len(waiters) \in Nat /\ pc[x] = "waiting"
        BY <2>1, <3>3
      <4>2. Holding' = Holding
        BY <2>1, <3>3, <4>1 DEF Holding
      <4>3. waiters' = [k \in 1..(Len(waiters) - 1) |-> waiters[IF k < i THEN k ELSE k + 1]]
        BY <3>3 DEF Without
      <4>4. /\ Len(waiters') = Len(waiters) - 1
            /\ \A k \in 1..Len(waiters') : waiters'[k] = waiters[IF k < i THEN k ELSE k + 1]
        <5>1. \A k \in 1..(Len(waiters) - 1) : waiters[IF k < i THEN k ELSE k + 1] \in Reqs
          BY <2>1, <4>1
        <5>2. waiters' \in Seq(Reqs) /\ Len(waiters') = Len(waiters) - 1
          BY <4>1, <4>3, <5>1
        <5>3. QED BY <4>3, <5>2
      <4>5. QED BY <2>1, <4>1, <4>2, <4>4, LeavesAhead
    <3>4. QED BY <2>9, <3>1, <3>2, <3>3 DEF ServerCancels, InTurn
  <2>10. QED
    BY <1>1, <2>3, <2>5, <2>7, <2>8, <2>9 DEF Next
<1>2. QED
  BY <1>1, GatewayInvariant, PTL DEF Spec
=============================================================================
