---------------------------- MODULE GatewayWsProofs ----------------------------
(***************************************************************************)
(* Proofs about GatewayWs, for any number of frames.                       *)
(***************************************************************************)
EXTENDS GatewayWs, TLAPS

(***************************************************************************)
(* The closes are accounted for by relay_close_sent until the handler      *)
(* returns, and a handler that returned left nothing behind.               *)
(***************************************************************************)
THEOREM CloseInvariant == Spec => []CloseInv
<1>1. Init => CloseInv
  BY DEF Init, CloseInv
<1>2. ASSUME CloseInv, [Next]_vars PROVE CloseInv'
  <2> USE <1>2 DEF CloseInv, relayVars
  <2>1. CASE MainNext
    BY <2>1 DEF MainNext, NoUpstream, FirstMessage, ConnectUpstream, Accept, RelayEnds
  <2>2. CASE C2uNext
    BY <2>2 DEF C2uNext, C2uReceive, C2uSend, C2uCloseUpstream, C2uClosed, TryCloseClient
  <2>3. CASE U2cNext
    BY <2>3 DEF U2cNext, U2cReceive, U2cSend, U2cClosed, TryCloseClient
  <2>4. CASE Cancelled
    BY <2>4 DEF Cancelled
  <2>5. CASE PeerNext
    BY <2>5 DEF PeerNext, ClientSends, ClientLeaves, UpstreamSends, UpstreamCloses
  <2>6. CASE UNCHANGED vars
    BY <2>6 DEF vars
  <2>7. QED
    BY <1>2, <2>1, <2>2, <2>3, <2>4, <2>5, <2>6 DEF Next, Finished
<1>3. QED
  BY <1>1, <1>2, PTL DEF Spec

(***************************************************************************)
(* The browser is sent websocket.close at most once.                       *)
(***************************************************************************)
THEOREM ClosedOnce == Spec => []OneClose
<1>1. CloseInv => OneClose
  BY DEF CloseInv, OneClose
<1>2. QED
  BY <1>1, CloseInvariant, PTL

(***************************************************************************)
(* Appending the next number keeps a sequence of frames in order.          *)
(***************************************************************************)
LEMMA AppendInOrder ==
  ASSUME NEW s \in Seq(Nat), InOrder(s)
  PROVE  /\ Append(s, Len(s) + 1) \in Seq(Nat)
         /\ Len(Append(s, Len(s) + 1)) = Len(s) + 1
         /\ InOrder(Append(s, Len(s) + 1))
BY DEF InOrder

(***************************************************************************)
(* Each task delivers what it takes, in order.                             *)
(***************************************************************************)
THEOREM OrderInvariant == Spec => []OrderInv
<1> USE DEF Tasks, Peers
<1>1. Init => OrderInv
  BY DEF Init, OrderInv, TaskInv, InOrder
<1>2. ASSUME OrderInv, CloseInv, [Next]_vars PROVE OrderInv'
  <2> USE <1>2
  <2>1. CASE MainNext
    BY <2>1 DEF MainNext, NoUpstream, FirstMessage, ConnectUpstream, Accept, RelayEnds,
                relayVars, CloseInv, OrderInv, TaskInv
  <2>2. CASE C2uSend
    <3>1. CASE UNCHANGED gotBy
      BY <2>2, <3>1 DEF C2uSend, OrderInv, TaskInv
    <3>2. CASE /\ gotBy' = [gotBy EXCEPT !["upstream"] = Append(@, held["c2u"])]
               /\ c2u' = "receive"
      <4> DEFINE s == gotBy["upstream"]
      <4>1. s \in Seq(Nat) /\ InOrder(s) /\ held["c2u"] = Len(s) + 1
        BY <2>2 DEF C2uSend, OrderInv, TaskInv
      <4>2. /\ Append(s, held["c2u"]) \in Seq(Nat)
            /\ Len(Append(s, held["c2u"])) = Len(s) + 1
            /\ InOrder(Append(s, held["c2u"]))
        BY <4>1, AppendInOrder
      <4>3. /\ gotBy'["upstream"] = Append(s, held["c2u"])
            /\ gotBy'["client"] = gotBy["client"]
            /\ gotBy' \in [Peers -> Seq(Nat)]
        BY <3>2, <4>2 DEF OrderInv
      <4>4. QED
        BY <2>2, <3>2, <4>1, <4>2, <4>3 DEF C2uSend, OrderInv, TaskInv
    <3>3. QED
      BY <2>2, <3>1, <3>2 DEF C2uSend
  <2>3. CASE U2cSend
    <3>1. CASE UNCHANGED gotBy
      BY <2>3, <3>1 DEF U2cSend, OrderInv, TaskInv
    <3>2. CASE /\ gotBy' = [gotBy EXCEPT !["client"] = Append(@, held["u2c"])]
               /\ u2c' = "receive"
      <4> DEFINE s == gotBy["client"]
      <4>1. s \in Seq(Nat) /\ InOrder(s) /\ held["u2c"] = Len(s) + 1
        BY <2>3 DEF U2cSend, OrderInv, TaskInv
      <4>2. /\ Append(s, held["u2c"]) \in Seq(Nat)
            /\ Len(Append(s, held["u2c"])) = Len(s) + 1
            /\ InOrder(Append(s, held["u2c"]))
        BY <4>1, AppendInOrder
      <4>3. /\ gotBy'["client"] = Append(s, held["u2c"])
            /\ gotBy'["upstream"] = gotBy["upstream"]
            /\ gotBy' \in [Peers -> Seq(Nat)]
        BY <3>2, <4>2 DEF OrderInv
      <4>4. QED
        BY <2>3, <3>2, <4>1, <4>2, <4>3 DEF U2cSend, OrderInv, TaskInv
    <3>3. QED
      BY <2>3, <3>1, <3>2 DEF U2cSend
  <2>4. CASE C2uReceive \/ U2cReceive
    BY <2>4, SMTT(30) DEF C2uReceive, U2cReceive, OrderInv, TaskInv
  <2>5. CASE C2uCloseUpstream \/ C2uClosed \/ U2cClosed \/ Cancelled
    BY <2>5 DEF C2uCloseUpstream, C2uClosed, U2cClosed, Cancelled, OrderInv, TaskInv
  <2>6. CASE PeerNext
    <3>1. /\ UNCHANGED <<c2u, u2c, held, takenBy, gotBy>>
          /\ sentBy' \in [Peers -> Nat]
          /\ \A p \in Peers : sentBy[p] <= sentBy'[p]
      BY <2>6, SMTT(30) DEF PeerNext, ClientSends, ClientLeaves, UpstreamSends, UpstreamCloses,
                  relayVars, OrderInv
    <3>2. /\ takenBy["c2u"] <= sentBy'["client"]
          /\ takenBy["u2c"] <= sentBy'["upstream"]
      BY <3>1 DEF OrderInv, TaskInv
    <3>3. QED
      BY <3>1, <3>2 DEF OrderInv, TaskInv
  <2>7. CASE UNCHANGED vars
    BY <2>7 DEF vars, relayVars, OrderInv, TaskInv
  <2>8. QED
    BY <2>1, <2>2, <2>3, <2>4, <2>5, <2>6, <2>7 DEF Next, C2uNext, U2cNext, Finished
<1>3. QED
  BY <1>1, <1>2, CloseInvariant, PTL DEF Spec

(***************************************************************************)
(* Each peer receives a prefix of what the other sent.                     *)
(***************************************************************************)
THEOREM RelaysInOrder == Spec => []RelayInOrder
<1>1. OrderInv => RelayInOrder
  BY DEF OrderInv, TaskInv, RelayInOrder, IsPrefixOf, InOrder, Tasks, Peers
<1>2. QED
  BY <1>1, OrderInvariant, PTL

(***************************************************************************)
(* Handler, tasks, peers and frames keep their types.                      *)
(***************************************************************************)
THEOREM TypeCorrect == Spec => []TypeOK
<1> DEFINE ControlOK ==
             /\ main \in {"first", "connect", "accept", "relay", "returned"}
             /\ c2u \in TaskPC /\ u2c \in TaskPC
             /\ cli \in {"open", "gone"} /\ up \in {"none", "open", "closed"}
           FlagsOK == cancel \in BOOLEAN /\ closeSent \in BOOLEAN
<1>1. Init => ControlOK /\ FlagsOK
  BY DEF Init, TaskPC
<1>2. ASSUME ControlOK, [Next]_vars PROVE ControlOK'
  BY <1>2 DEF TaskPC, Next, MainNext, C2uNext, U2cNext, PeerNext, NoUpstream,
       FirstMessage, ConnectUpstream, Accept, RelayEnds, C2uReceive, C2uSend,
       C2uCloseUpstream, C2uClosed, U2cReceive, U2cSend, U2cClosed, Cancelled,
       ClientSends, ClientLeaves, UpstreamSends, UpstreamCloses, Finished, vars, relayVars
<1>3. ASSUME FlagsOK, [Next]_vars PROVE FlagsOK'
  BY <1>3, Zenon DEF Next, MainNext, C2uNext, U2cNext, PeerNext, NoUpstream,
       FirstMessage, ConnectUpstream, Accept, RelayEnds, C2uReceive, C2uSend,
       C2uCloseUpstream, C2uClosed, U2cReceive, U2cSend, U2cClosed, Cancelled,
       ClientSends, ClientLeaves, UpstreamSends, UpstreamCloses, Finished, vars,
       relayVars, TryCloseClient
<1>4. ControlOK /\ FlagsOK /\ CloseInv /\ OrderInv => TypeOK
  BY DEF CloseInv, OrderInv, TypeOK
<1> HIDE DEF ControlOK, FlagsOK
<1>5. QED
  BY <1>1, <1>2, <1>3, <1>4, CloseInvariant, OrderInvariant, PTL DEF Spec

-----------------------------------------------------------------------------
(***************************************************************************)
(* What LeavingEndsRelay rests on besides the scheduling: after a peer has *)
(* left the handler can always go on, and it can do so only so many times. *)
(***************************************************************************)

(* The steps a relay task has left, with the frames it can still take.     *)
TaskWork(pc, t) ==
  IF pc = "ended" THEN 0
  ELSE IF pc = "closing" THEN 1
  ELSE IF pc = "close_upstream" THEN 2
  ELSE 2 * (MaxFrames - takenBy[t]) + (IF pc = "receive" THEN 3 ELSE 4)

MainWork ==
  IF main = "returned" THEN 0
  ELSE IF main = "relay" THEN 1
  ELSE IF main = "accept" THEN 2
  ELSE IF main = "connect" THEN 3 ELSE 4

(* A task ends only with the scope cancelled, the tasks run in the relay,  *)
(* and no more frames are taken than peers send.                           *)
EndInv ==
  /\ c2u = "ended" \/ u2c = "ended" => cancel = TRUE
  /\ main = "relay" => c2u # "off" /\ u2c # "off"
  /\ sentBy["client"] <= MaxFrames /\ sentBy["upstream"] <= MaxFrames

(* That is an invariant of the two tasks and their task group.             *)
LEMMA EndInvariant == Spec => []EndInv
<1> USE WsAssumption DEF Tasks, Peers
<1>1. Init => EndInv
  BY DEF Init, EndInv
<1>2. ASSUME TypeOK, CloseInv, EndInv, [Next]_vars PROVE EndInv'
  <2> USE <1>2 DEF EndInv, CloseInv, TypeOK, relayVars
  <2>1. CASE MainNext
    BY <2>1 DEF MainNext, NoUpstream, FirstMessage, ConnectUpstream, Accept, RelayEnds
  <2>2. CASE C2uNext
    BY <2>2 DEF C2uNext, C2uReceive, C2uSend, C2uCloseUpstream, C2uClosed
  <2>3. CASE U2cNext
    BY <2>3 DEF U2cNext, U2cReceive, U2cSend, U2cClosed
  <2>4. CASE Cancelled
    BY <2>4 DEF Cancelled
  <2>5. CASE PeerNext
    BY <2>5, SMTT(30) DEF PeerNext, ClientSends, ClientLeaves, UpstreamSends, UpstreamCloses
  <2>6. CASE UNCHANGED vars
    BY <2>6 DEF vars
  <2>7. QED
    BY <2>1, <2>2, <2>3, <2>4, <2>5, <2>6 DEF Next, Finished
<1>3. QED
  BY <1>1, <1>2, TypeCorrect, CloseInvariant, PTL DEF Spec

(* The guards of the handler's steps: proxy_websocket before and after its *)
(* task group, a task with something to receive, to send or to close, and  *)
(* the cancelled scope.                                                    *)
CanStep ==
  \/ main \in {"first", "connect", "accept"}
  \/ c2u = "ended" /\ u2c = "ended"
  \/ {c2u, u2c} \cap {"send", "close_upstream", "closing"} # {}
  \/ c2u = "receive" /\ (takenBy["c2u"] < sentBy["client"] \/ cli = "gone")
  \/ u2c = "receive" /\ (takenBy["u2c"] < sentBy["upstream"] \/ up = "closed")
  \/ cancel = TRUE

(* A handler that has not returned can go on once a peer has left.         *)
NeverStuck == main # "returned" /\ (cli = "gone" \/ up = "closed") => CanStep

(***************************************************************************)
(* Once the browser has gone or the upstream has closed, the handler is    *)
(* never left with two tasks that wait for each other: a task that ends    *)
(* has cancelled the scope of the other one, whatever made it end.         *)
(***************************************************************************)
THEOREM RelayNeverStuck == Spec => []NeverStuck
<1>1. ASSUME TypeOK, CloseInv, EndInv PROVE NeverStuck
  BY <1>1 DEF TypeOK, TaskPC, CloseInv, EndInv, NeverStuck, CanStep
<1>2. QED
  BY <1>1, TypeCorrect, CloseInvariant, EndInvariant, PTL

(* A sum shrinks when one part does and no part grows.                     *)
LEMMA SumShrinks ==
  ASSUME NEW x \in Nat, NEW y \in Nat, NEW z \in Nat,
         NEW x1 \in Nat, NEW y1 \in Nat, NEW z1 \in Nat,
         x1 <= x, y1 <= y, z1 <= z, x1 < x \/ y1 < y \/ z1 < z,
         NEW s, s = x + y + z, NEW s1, s1 = x1 + y1 + z1
  PROVE  s1 < s /\ s1 <= s
OBVIOUS

(* The handler's steps: proxy_websocket, its two tasks, and cancellation.  *)
HandlerNext == MainNext \/ C2uNext \/ U2cNext \/ Cancelled

Work == MainWork + TaskWork(c2u, "c2u") + TaskWork(u2c, "u2c")

(* Every step of the handler leaves it less to do, the peers give it no    *)
(* more, and who has left does not come back.                              *)
RelayRunsDown ==
  /\ HandlerNext => Work' < Work
  /\ Work' <= Work
  /\ cli = "gone" => cli' = "gone"
  /\ up = "closed" => up' = "closed"

(***************************************************************************)
(* The handler takes at most 4 * MaxFrames + 12 steps for any behaviour of *)
(* its peers, and the departure of a peer is final.  With NeverStuck only  *)
(* the scheduling is left to assume for LeavingEndsRelay.                  *)
(***************************************************************************)
THEOREM RelayIsBounded == Spec => [](Work \in 0..(4 * MaxFrames + 12)) /\ [][RelayRunsDown]_vars
<1> USE WsAssumption DEF Tasks, Peers
<1> DEFINE a == TaskWork(c2u, "c2u")
           b == TaskWork(u2c, "u2c")
<1>1. ASSUME TypeOK, OrderInv, EndInv
      PROVE  /\ takenBy["c2u"] \in 0..MaxFrames /\ takenBy["u2c"] \in 0..MaxFrames
             /\ a \in 0..(2 * MaxFrames + 4) /\ b \in 0..(2 * MaxFrames + 4) /\ MainWork \in 0..4
  <2>1. takenBy["c2u"] \in 0..MaxFrames /\ takenBy["u2c"] \in 0..MaxFrames
    BY <1>1 DEF OrderInv, TaskInv, EndInv
  <2>2. QED BY <2>1 DEF TaskWork, MainWork
<1>2. ASSUME TypeOK, OrderInv, EndInv PROVE Work \in 0..(4 * MaxFrames + 12)
  <2>1. /\ a \in 0..(2 * MaxFrames + 4) /\ b \in 0..(2 * MaxFrames + 4) /\ MainWork \in 0..4
    BY <1>1, <1>2
  <2> HIDE DEF a, b
  <2>2. Work = MainWork + a + b
    BY DEF Work, a, b
  <2>3. QED BY <2>1, <2>2
<1>3. ASSUME TypeOK, CloseInv, OrderInv, EndInv, [Next]_vars PROVE [RelayRunsDown]_vars
  <2>1. /\ takenBy["c2u"] \in 0..MaxFrames /\ takenBy["u2c"] \in 0..MaxFrames
        /\ a \in Nat /\ b \in Nat /\ MainWork \in Nat
        /\ sentBy["client"] <= MaxFrames /\ sentBy["upstream"] <= MaxFrames
        /\ takenBy \in [Tasks -> Nat] /\ sentBy \in [Peers -> Nat]
    <3>1. /\ takenBy["c2u"] \in 0..MaxFrames /\ takenBy["u2c"] \in 0..MaxFrames
          /\ a \in 0..(2 * MaxFrames + 4) /\ b \in 0..(2 * MaxFrames + 4) /\ MainWork \in 0..4
      BY <1>1, <1>3
    <3>2. /\ sentBy["client"] <= MaxFrames /\ sentBy["upstream"] <= MaxFrames
          /\ takenBy \in [Tasks -> Nat] /\ sentBy \in [Peers -> Nat]
      BY <1>3 DEF EndInv, TypeOK
    <3> HIDE DEF a, b
    <3>3. QED BY <3>1, <3>2
  <2> USE DEF relayVars
  <2>2. CASE MainNext
    <3>1. /\ takenBy' = takenBy /\ MainWork' < MainWork /\ MainWork' \in Nat
          /\ \/ c2u' = c2u /\ u2c' = u2c
             \/ c2u = "off" /\ u2c = "off" /\ c2u' = "receive" /\ u2c' = "receive"
          /\ cli' = cli /\ (up = "closed" => up' = "closed")
      BY <1>3, <2>2 DEF MainNext, NoUpstream, FirstMessage, ConnectUpstream, Accept, RelayEnds,
                        MainWork, CloseInv
    <3>2. a' <= a /\ b' <= b /\ a' \in Nat /\ b' \in Nat
      BY <2>1, <3>1 DEF TaskWork
    <3> HIDE DEF a, b
    <3>3. Work = MainWork + a + b /\ Work' = MainWork' + a' + b'
      BY DEF Work, a, b
    <3>4. /\ MainWork \in Nat /\ MainWork' \in Nat /\ a \in Nat /\ a' \in Nat
          /\ b \in Nat /\ b' \in Nat
          /\ MainWork' <= MainWork /\ a' <= a /\ b' <= b
          /\ MainWork' < MainWork \/ a' < a \/ b' < b
      BY <2>1, <3>1, <3>2, <3>3
    <3>5. Work' < Work /\ Work' <= Work
      BY <3>3, <3>4, SumShrinks, ZenonT(40)
    <3>6. QED BY <3>1, <3>5 DEF RelayRunsDown
  <2>3. CASE C2uNext
    <3>1. /\ main' = main /\ u2c' = u2c /\ takenBy'["u2c"] = takenBy["u2c"]
          /\ cli' = cli /\ (up = "closed" => up' = "closed")
          /\ \/ /\ c2u = "receive" /\ c2u' = "send" /\ takenBy'["c2u"] = takenBy["c2u"] + 1
                /\ takenBy["c2u"] < sentBy["client"]
             \/ /\ takenBy' = takenBy
                /\ \/ c2u = "receive" /\ c2u' = "close_upstream"
                   \/ c2u = "send" /\ c2u' \in {"receive", "ended", "closing"}
                   \/ c2u \in {"close_upstream", "closing"} /\ c2u' = "ended"
      BY <2>1, <2>3 DEF C2uNext, C2uReceive, C2uSend, C2uCloseUpstream, C2uClosed
    <3>2. a' < a /\ a' \in Nat
      BY <2>1, <3>1 DEF TaskWork
    <3>3. b' = b /\ MainWork' = MainWork
      BY <3>1 DEF TaskWork, MainWork
    <3> HIDE DEF a, b
    <3>4. Work = MainWork + a + b /\ Work' = MainWork' + a' + b'
      BY DEF Work, a, b
    <3>5. /\ MainWork \in Nat /\ MainWork' \in Nat /\ a \in Nat /\ a' \in Nat
          /\ b \in Nat /\ b' \in Nat
          /\ MainWork' <= MainWork /\ a' <= a /\ b' <= b
          /\ MainWork' < MainWork \/ a' < a \/ b' < b
      BY <2>1, <3>1, <3>2, <3>3, <3>4
    <3>6. Work' < Work /\ Work' <= Work
      BY <3>4, <3>5, SumShrinks
    <3>7. QED BY <3>1, <3>6 DEF RelayRunsDown
  <2>4. CASE U2cNext
    <3>1. /\ main' = main /\ c2u' = c2u /\ takenBy'["c2u"] = takenBy["c2u"]
          /\ cli' = cli /\ up' = up
          /\ \/ /\ u2c = "receive" /\ u2c' = "send" /\ takenBy'["u2c"] = takenBy["u2c"] + 1
                /\ takenBy["u2c"] < sentBy["upstream"]
             \/ /\ takenBy' = takenBy
                /\ \/ u2c = "receive" /\ u2c' = "ended"
                   \/ u2c = "send" /\ u2c' \in {"receive", "closing"}
                   \/ u2c = "closing" /\ u2c' = "ended"
      BY <2>1, <2>4 DEF U2cNext, U2cReceive, U2cSend, U2cClosed
    <3>2. b' < b /\ b' \in Nat
      BY <2>1, <3>1 DEF TaskWork
    <3>3. a' = a /\ MainWork' = MainWork
      BY <3>1 DEF TaskWork, MainWork
    <3> HIDE DEF a, b
    <3>4. Work = MainWork + a + b /\ Work' = MainWork' + a' + b'
      BY DEF Work, a, b
    <3>5. /\ MainWork \in Nat /\ MainWork' \in Nat /\ a \in Nat /\ a' \in Nat
          /\ b \in Nat /\ b' \in Nat
          /\ MainWork' <= MainWork /\ a' <= a /\ b' <= b
          /\ MainWork' < MainWork \/ a' < a \/ b' < b
      BY <2>1, <3>1, <3>2, <3>3, <3>4
    <3>6. Work' < Work /\ Work' <= Work
      BY <3>4, <3>5, SumShrinks
    <3>7. QED BY <3>1, <3>6 DEF RelayRunsDown
  <2>5. CASE Cancelled
    <3>1. /\ main' = main /\ takenBy' = takenBy /\ cli' = cli /\ up' = up
          /\ \/ c2u # "ended" /\ c2u' = "ended" /\ u2c' = u2c
             \/ u2c # "ended" /\ u2c' = "ended" /\ c2u' = c2u
      BY <2>5 DEF Cancelled
    <3>2. /\ a' \in Nat /\ b' \in Nat /\ MainWork' = MainWork
          /\ \/ a' < a /\ b' = b
             \/ b' < b /\ a' = a
      BY <2>1, <3>1 DEF TaskWork, MainWork
    <3> HIDE DEF a, b
    <3>3. Work = MainWork + a + b /\ Work' = MainWork' + a' + b'
      BY DEF Work, a, b
    <3>4. /\ MainWork \in Nat /\ MainWork' \in Nat /\ a \in Nat /\ a' \in Nat
          /\ b \in Nat /\ b' \in Nat
          /\ MainWork' <= MainWork /\ a' <= a /\ b' <= b
          /\ MainWork' < MainWork \/ a' < a \/ b' < b
      BY <2>1, <3>1, <3>2, <3>3
    <3>5. Work' < Work /\ Work' <= Work
      BY <3>3, <3>4, SumShrinks
    <3>6. QED BY <3>1, <3>5 DEF RelayRunsDown
  <2>6. CASE PeerNext /\ ~HandlerNext
    <3>1. /\ main' = main /\ c2u' = c2u /\ u2c' = u2c /\ takenBy' = takenBy
          /\ (cli = "gone" => cli' = "gone") /\ (up = "closed" => up' = "closed")
      BY <2>6 DEF PeerNext, ClientSends, ClientLeaves, UpstreamSends, UpstreamCloses
    <3>2. Work' = Work /\ Work \in Nat
      BY <1>2, <1>3, <3>1 DEF Work, TaskWork, MainWork
    <3>3. QED BY <2>6, <3>1, <3>2 DEF RelayRunsDown
  <2>7. QED
    BY <1>3, <2>2, <2>3, <2>4, <2>5, <2>6 DEF Next, Finished, HandlerNext
<1>4. QED
  BY <1>2, <1>3, TypeCorrect, CloseInvariant, OrderInvariant, EndInvariant, PTL DEF Spec
=============================================================================
