------------------------------- MODULE GatewayWs -------------------------------
(***************************************************************************)
(* fluxlit.gateway.websocket_proxy.proxy_websocket: one browser WebSocket  *)
(* relayed to the sidecar by two tasks of an anyio task group,             *)
(* client_to_upstream and upstream_to_client, which share the flag         *)
(* relay_close_sent and the group's cancel scope.                          *)
(*                                                                         *)
(* Frames are numbered in the order their sender sends them.  External     *)
(* parts: the ASGI server (it refuses a message after websocket.close or   *)
(* to a client that is gone), the websockets client connection, whose      *)
(* keepalive ends a dead upstream, and the two peers.                      *)
(***************************************************************************)
EXTENDS Naturals, Sequences

CONSTANT MaxFrames   \* bound: frames each peer sends

ASSUME WsAssumption == MaxFrames \in Nat

VARIABLES
  main,       \* control point of proxy_websocket
  c2u, u2c,   \* control points of the two relay tasks
  held,       \* per task: the frame in its hands
  cancel,     \* the task group's scope is cancelled
  closeSent,  \* relay_close_sent
  closes,     \* websocket.close messages passed to send
  cli,        \* the browser: open or gone
  up,         \* the upstream connection: none, open, closed
  sentBy,     \* per peer: frames sent
  takenBy,    \* per task: frames received
  gotBy       \* per peer: frames delivered, in order

relayVars == <<c2u, u2c, held, cancel, closeSent, takenBy>>
vars == <<main, relayVars, closes, cli, up, sentBy, gotBy>>

Tasks == {"c2u", "u2c"}
Peers == {"client", "upstream"}
TaskPC == {"off", "receive", "send", "close_upstream", "closing", "ended"}

Init ==
  /\ main = "first" /\ c2u = "off" /\ u2c = "off"
  /\ held = [t \in Tasks |-> 0] /\ takenBy = [t \in Tasks |-> 0]
  /\ cancel = FALSE /\ closeSent = FALSE /\ closes = 0
  /\ cli = "open" /\ up = "none"
  /\ sentBy = [p \in Peers |-> 0] /\ gotBy = [p \in Peers |-> <<>>]

-----------------------------------------------------------------------------
(* proxy_websocket *)

\* The dispatch found no upstream: bad_streamlit_upstream_ws closes with 1011
\* on connect, or returns on disconnect.
NoUpstream ==
  /\ main = "first"
  /\ main' = "returned"
  /\ \/ closes' = closes + 1
     \/ cli = "gone" /\ UNCHANGED closes
  /\ UNCHANGED <<relayVars, cli, up, sentBy, gotBy>>

\* Anything but websocket.connect is answered with close 1002.
FirstMessage ==
  /\ main = "first"
  /\ \/ main' = "connect" /\ UNCHANGED closes
     \/ main' = "returned" /\ closes' = closes + 1
  /\ UNCHANGED <<relayVars, cli, up, sentBy, gotBy>>

\* A refused, timed out or failed handshake is answered with close 1011.
ConnectUpstream ==
  /\ main = "connect"
  /\ \/ main' = "accept" /\ up' = "open" /\ UNCHANGED closes
     \/ main' = "returned" /\ closes' = closes + 1 /\ UNCHANGED up
  /\ UNCHANGED <<relayVars, cli, sentBy, gotBy>>

\* websocket.accept; to a client that is gone it raises an OSError, the
\* connection is closed and the handler outside tries a close.
Accept ==
  /\ main = "accept"
  /\ \/ /\ main' = "relay" /\ c2u' = "receive" /\ u2c' = "receive"
        /\ UNCHANGED <<closes, up>>
     \/ /\ cli = "gone"
        /\ main' = "returned" /\ up' = "closed" /\ closes' = closes + 1
        /\ UNCHANGED <<c2u, u2c>>
  /\ UNCHANGED <<held, cancel, closeSent, takenBy, cli, sentBy, gotBy>>

\* The task group ends with its tasks; leaving the context manager closes
\* the upstream connection.
RelayEnds ==
  /\ main = "relay" /\ c2u = "ended" /\ u2c = "ended"
  /\ main' = "returned" /\ up' = "closed"
  /\ UNCHANGED <<relayVars, closes, cli, sentBy, gotBy>>

-----------------------------------------------------------------------------
(* The relay tasks *)

\* Mutant: the flag is set but not looked at.
TryCloseClientAlways ==
  /\ closeSent' = TRUE
  /\ closes' = closes + 1

\* _try_close_client_after_relay_error, up to its await of send.
TryCloseClient ==
  /\ closeSent' = TRUE
  /\ closes' = IF closeSent THEN closes ELSE closes + 1

\* receive() gives a frame, or the disconnect that follows the last one.
C2uReceive ==
  /\ c2u = "receive"
  /\ \/ /\ takenBy["c2u"] < sentBy["client"]
        /\ takenBy' = [takenBy EXCEPT !["c2u"] = @ + 1]
        /\ held' = [held EXCEPT !["c2u"] = takenBy["c2u"] + 1]
        /\ c2u' = "send"
     \/ /\ takenBy["c2u"] = sentBy["client"] /\ cli = "gone"
        /\ c2u' = "close_upstream"
        /\ UNCHANGED <<takenBy, held>>
  /\ UNCHANGED <<main, u2c, cancel, closeSent, closes, cli, up, sentBy, gotBy>>

\* Mutant: a frame that could not be sent is dropped and the relay goes on.
C2uSendDrops ==
  /\ c2u = "send"
  /\ c2u' = "receive"
  /\ \/ up = "open" /\ gotBy' = [gotBy EXCEPT !["upstream"] = Append(@, held["c2u"])]
     \/ UNCHANGED gotBy
  /\ UNCHANGED <<main, u2c, held, cancel, closeSent, takenBy, closes, cli, up, sentBy>>

\* upstream_ws.send delivers, finds the connection closed, or fails.
C2uSend ==
  /\ c2u = "send"
  /\ \/ /\ up = "open"
        /\ gotBy' = [gotBy EXCEPT !["upstream"] = Append(@, held["c2u"])]
        /\ c2u' = "receive"
        /\ UNCHANGED <<cancel, closeSent, closes>>
     \/ /\ up = "closed"
        /\ cancel' = TRUE /\ c2u' = "ended"
        /\ UNCHANGED <<closeSent, closes, gotBy>>
     \/ /\ TryCloseClient
        /\ c2u' = "closing"
        /\ UNCHANGED <<cancel, gotBy>>
  /\ UNCHANGED <<main, u2c, held, takenBy, cli, up, sentBy>>

\* Mutant: the other task is not cancelled.
C2uCloseUpstreamOnly ==
  /\ c2u = "close_upstream"
  /\ up' \in {up, "closed"}
  /\ c2u' = "ended"
  /\ UNCHANGED <<main, u2c, held, cancel, closeSent, takenBy, closes, cli, sentBy, gotBy>>

\* move_on_after(0.1): the closing handshake is done or given up.
C2uCloseUpstream ==
  /\ c2u = "close_upstream"
  /\ up' \in {up, "closed"}
  /\ cancel' = TRUE /\ c2u' = "ended"
  /\ UNCHANGED <<main, u2c, held, closeSent, takenBy, closes, cli, sentBy, gotBy>>

\* recv() gives buffered frames first, then reports the closed connection.
U2cReceive ==
  /\ u2c = "receive"
  /\ \/ /\ takenBy["u2c"] < sentBy["upstream"]
        /\ takenBy' = [takenBy EXCEPT !["u2c"] = @ + 1]
        /\ held' = [held EXCEPT !["u2c"] = takenBy["u2c"] + 1]
        /\ u2c' = "send"
        /\ UNCHANGED cancel
     \/ /\ takenBy["u2c"] = sentBy["upstream"] /\ up = "closed"
        /\ cancel' = TRUE /\ u2c' = "ended"
        /\ UNCHANGED <<takenBy, held>>
  /\ UNCHANGED <<main, c2u, closeSent, closes, cli, up, sentBy, gotBy>>

\* send() delivers while the client is there and no close was sent; it may
\* fail at any time.
U2cSend ==
  /\ u2c = "send"
  /\ \/ /\ cli = "open" /\ closes = 0
        /\ gotBy' = [gotBy EXCEPT !["client"] = Append(@, held["u2c"])]
        /\ u2c' = "receive"
        /\ UNCHANGED <<closeSent, closes>>
     \/ /\ TryCloseClient
        /\ u2c' = "closing"
        /\ UNCHANGED gotBy
  /\ UNCHANGED <<main, c2u, held, cancel, takenBy, cli, up, sentBy>>

\* The close is sent, or its failure logged; then the scope is cancelled.
C2uClosed ==
  /\ c2u = "closing"
  /\ cancel' = TRUE /\ c2u' = "ended"
  /\ UNCHANGED <<main, u2c, held, closeSent, takenBy, closes, cli, up, sentBy, gotBy>>

U2cClosed ==
  /\ u2c = "closing"
  /\ cancel' = TRUE /\ u2c' = "ended"
  /\ UNCHANGED <<main, c2u, held, closeSent, takenBy, closes, cli, up, sentBy, gotBy>>

\* A cancelled scope ends a task at the await it is in.
Cancelled ==
  /\ cancel
  /\ \/ c2u \notin {"off", "ended"} /\ c2u' = "ended" /\ UNCHANGED u2c
     \/ u2c \notin {"off", "ended"} /\ u2c' = "ended" /\ UNCHANGED c2u
  /\ UNCHANGED <<main, held, cancel, closeSent, takenBy, closes, cli, up, sentBy, gotBy>>

-----------------------------------------------------------------------------
(* External: the two peers *)

ClientSends ==
  /\ main = "relay" /\ cli = "open" /\ sentBy["client"] < MaxFrames
  /\ sentBy' = [sentBy EXCEPT !["client"] = @ + 1]
  /\ UNCHANGED <<main, relayVars, closes, cli, up, gotBy>>

ClientLeaves ==
  /\ cli = "open" /\ main # "returned"
  /\ cli' = "gone"
  /\ UNCHANGED <<main, relayVars, closes, up, sentBy, gotBy>>

UpstreamSends ==
  /\ up = "open" /\ sentBy["upstream"] < MaxFrames
  /\ sentBy' = [sentBy EXCEPT !["upstream"] = @ + 1]
  /\ UNCHANGED <<main, relayVars, closes, cli, up, gotBy>>

UpstreamCloses ==
  /\ up = "open"
  /\ up' = "closed"
  /\ UNCHANGED <<main, relayVars, closes, cli, sentBy, gotBy>>

Finished == main = "returned" /\ UNCHANGED vars

MainNext == NoUpstream \/ FirstMessage \/ ConnectUpstream \/ Accept \/ RelayEnds
C2uNext == C2uReceive \/ C2uSend \/ C2uCloseUpstream \/ C2uClosed
U2cNext == U2cReceive \/ U2cSend \/ U2cClosed
PeerNext == ClientSends \/ ClientLeaves \/ UpstreamSends \/ UpstreamCloses

Next == MainNext \/ C2uNext \/ U2cNext \/ Cancelled \/ PeerNext \/ Finished

(***************************************************************************)
(* The loop runs ready tasks and delivers cancellation; open_timeout, the  *)
(* keepalive of the upstream connection and the server's own send end      *)
(* every await.  The peers are not fair.                                   *)
(***************************************************************************)
Fairness ==
  /\ WF_vars(MainNext) /\ WF_vars(C2uNext) /\ WF_vars(U2cNext) /\ WF_vars(Cancelled)

Spec == Init /\ [][Next]_vars
FairSpec == Spec /\ Fairness

-----------------------------------------------------------------------------
(* Properties *)

TypeOK ==
  /\ main \in {"first", "connect", "accept", "relay", "returned"}
  /\ c2u \in TaskPC /\ u2c \in TaskPC
  /\ held \in [Tasks -> Nat] /\ takenBy \in [Tasks -> Nat]
  /\ cancel \in BOOLEAN /\ closeSent \in BOOLEAN /\ closes \in Nat
  /\ cli \in {"open", "gone"} /\ up \in {"none", "open", "closed"}
  /\ sentBy \in [Peers -> Nat]
  /\ gotBy \in [Peers -> Seq(Nat)]

(***************************************************************************)
(* Whatever ends the relay, each peer has received a prefix of what the    *)
(* other sent: no frame is lost in the middle, repeated or overtaken.      *)
(***************************************************************************)
IsPrefixOf(s, n) == Len(s) <= n /\ \A i \in DOMAIN s : s[i] = i

RelayInOrder ==
  /\ IsPrefixOf(gotBy["upstream"], sentBy["client"])
  /\ IsPrefixOf(gotBy["client"], sentBy["upstream"])

(***************************************************************************)
(* Both tasks may fail at the same time and the handler outside may have   *)
(* to answer too: the browser is sent websocket.close at most once.        *)
(***************************************************************************)
OneClose == closes <= 1

\* A browser that leaves, or an upstream that closes, ends the handler.
LeavingEndsRelay == (cli = "gone" \/ up = "closed") ~> main = "returned"

-----------------------------------------------------------------------------
(* The inductive invariant behind OneClose and RelayInOrder; the proofs    *)
(* are in GatewayWsProofs.                                                 *)

\* A close is only sent by one of three places, each of them the last.
CloseInv ==
  /\ main # "returned" => closes = (IF closeSent THEN 1 ELSE 0)
  /\ closes \in {0, 1}
  /\ main \in {"first", "connect", "accept"} => ~closeSent /\ c2u = "off" /\ u2c = "off"
  /\ main \in {"first", "connect"} => up = "none"
  /\ main = "returned" => up # "open" /\ c2u \in {"off", "ended"} /\ u2c \in {"off", "ended"}

(***************************************************************************)
(* What a task took is what it delivered, plus the frame in its hands; a   *)
(* task that is past its loop delivers no more.                            *)
(***************************************************************************)
InOrder(s) == \A i \in 1..Len(s) : s[i] = i

TaskInv(pc, t, from, to) ==
  /\ takenBy[t] <= sentBy[from]
  /\ InOrder(gotBy[to]) /\ Len(gotBy[to]) <= takenBy[t]
  /\ pc \in {"off", "receive"} => Len(gotBy[to]) = takenBy[t]
  /\ pc = "send" => held[t] = takenBy[t] /\ Len(gotBy[to]) + 1 = takenBy[t]

OrderInv ==
  /\ takenBy \in [Tasks -> Nat] /\ held \in [Tasks -> Nat]
  /\ sentBy \in [Peers -> Nat] /\ gotBy \in [Peers -> Seq(Nat)]
  /\ TaskInv(c2u, "c2u", "client", "upstream")
  /\ TaskInv(u2c, "u2c", "upstream", "client")

=============================================================================
