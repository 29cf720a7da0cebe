------------------------------ MODULE GatewayHttp ------------------------------
(***************************************************************************)
(* fluxlit.gateway for HTTP: the dispatch of make_gateway_app, the reverse *)
(* proxy proxy_http with its optional semaphore and body limit, and the    *)
(* httpx client build_gateway shares between requests.  One event loop     *)
(* runs all requests; a step lasts until the next await that can suspend.  *)
(*                                                                         *)
(* A request body is counted in chunks of one unit.  External parts: the   *)
(* ASGI server that delivers body messages and, on shutdown, waits for the *)
(* requests in flight and cancels those that exceed its grace period; the  *)
(* inner FastAPI application; the sidecar that answers the proxied call.   *)
(***************************************************************************)
EXTENDS Naturals, Sequences, FiniteSets

CONSTANTS
  Reqs,           \* the HTTP requests of one behaviour
  Mixes,          \* which request asks for what, in the behaviours considered
  MaxConcurrent,  \* gateway_max_concurrent_upstream_http, 0 for no limit
  Limits,         \* values of gateway_max_proxy_request_body_bytes, 0 for none
  MaxChunks       \* bound: chunks a client sends

Kinds == {"get", "post", "docs", "api", "local"}

ASSUME GatewayAssumption ==
  /\ IsFiniteSet(Reqs) /\ Mixes \subseteq [Reqs -> Kinds]
  /\ MaxConcurrent \in Nat /\ Limits \subseteq Nat /\ MaxChunks \in Nat

VARIABLES
  life,       \* the server: up, draining its requests, down
  maxBody,    \* the body limit this gateway was built with
  kind,       \* per request: what is asked for
  pc,         \* per request: control point
  answer,     \* per request: how it was answered
  got,        \* per request: body chunks received from the client
  body,       \* per request: is the client's body open, complete or cut off
  contacted,  \* per request: an upstream call was opened
  whole,      \* per request: the upstream call carried an end of body
  slots,      \* value of upstream_sem
  waiters,    \* requests waiting for upstream_sem, in order
  clients,    \* httpx clients that are open
  counted,    \* requests counter
  observed    \* observations of the latency histogram

conf == <<maxBody, kind>>
bodyVars == <<got, body, contacted, whole>>
semVars == <<slots, waiters>>
vars == <<life, conf, pc, answer, bodyVars, semVars, clients, counted, observed>>

PCs == {"new", "api", "waiting", "body", "call", "upstream", "done"}
Answers == {"none", "local", "api", "redirect", "no_upstream", "proxied",
            "bad_gateway", "too_large", "disconnected", "raised", "cancelled"}

\* The requests that hold a slot of upstream_sem, and those in flight.
Holding == {r \in Reqs : pc[r] \in {"body", "call", "upstream"}}
InFlight == {r \in Reqs : pc[r] \notin {"new", "done"}}

Init ==
  /\ life = "up"
  /\ maxBody \in Limits /\ kind \in Mixes
  /\ pc = [r \in Reqs |-> "new"] /\ answer = [r \in Reqs |-> "none"]
  /\ got = [r \in Reqs |-> 0] /\ body = [r \in Reqs |-> "open"]
  /\ contacted = [r \in Reqs |-> FALSE] /\ whole = [r \in Reqs |-> FALSE]
  /\ slots = MaxConcurrent /\ waiters = <<>>
  /\ clients = 0 /\ counted = 0 /\ observed = 0

-----------------------------------------------------------------------------
(* The semaphore *)

\* asyncio.Semaphore.acquire: at once, or in the queue.
EnterProxy(r) ==
  \/ /\ MaxConcurrent = 0 \/ (slots > 0 /\ waiters = <<>>)
     /\ pc' = [pc EXCEPT ![r] = "body"]
     /\ slots' = IF MaxConcurrent = 0 THEN slots ELSE slots - 1
     /\ UNCHANGED waiters
  \/ /\ MaxConcurrent > 0 /\ (slots = 0 \/ waiters # <<>>)
     /\ pc' = [pc EXCEPT ![r] = "waiting"]
     /\ waiters' = Append(waiters, r)
     /\ UNCHANGED slots

\* Mutant: the release wakes nobody.
LeaveProxyWakesNobody(r) ==
  /\ pc' = [pc EXCEPT ![r] = "done"]
  /\ slots' = IF MaxConcurrent = 0 THEN slots ELSE slots + 1
  /\ UNCHANGED waiters

\* Leaving "async with upstream_sem" hands the slot to the next in line.
LeaveProxy(r) ==
  \/ /\ waiters = <<>>
     /\ pc' = [pc EXCEPT ![r] = "done"]
     /\ slots' = IF MaxConcurrent = 0 THEN slots ELSE slots + 1
     /\ UNCHANGED waiters
  \/ /\ waiters # <<>>
     /\ pc' = [pc EXCEPT ![r] = "done", ![Head(waiters)] = "body"]
     /\ waiters' = Tail(waiters)
     /\ UNCHANGED slots

\* The finally block of the dispatch observes every request that it counts,
\* whether the handler returned, raised or was cancelled.
Observe(r, a) ==
  /\ answer' = [answer EXCEPT ![r] = a]
  /\ observed' = observed + 1

EndProxied(r, a) ==
  /\ LeaveProxy(r)
  /\ Observe(r, a)
  /\ UNCHANGED <<life, conf, contacted, whole, clients, counted>>

-----------------------------------------------------------------------------
(* Dispatch *)

\* The metrics and debug endpoints are answered here and not counted.
DispatchLocal(r) ==
  /\ life = "up" /\ pc[r] = "new" /\ kind[r] = "local"
  /\ pc' = [pc EXCEPT ![r] = "done"]
  /\ answer' = [answer EXCEPT ![r] = "local"]
  /\ UNCHANGED <<life, conf, bodyVars, semVars, clients, counted, observed>>

DispatchApi(r) ==
  /\ life = "up" /\ pc[r] = "new" /\ kind[r] = "api"
  /\ pc' = [pc EXCEPT ![r] = "api"]
  /\ counted' = counted + 1
  /\ UNCHANGED <<life, conf, answer, bodyVars, semVars, clients, observed>>

\* Mutant: the observation is not in a finally block.
ApiReturnsUnobserved(r) ==
  /\ pc[r] = "api"
  /\ pc' = [pc EXCEPT ![r] = "done"]
  /\ \/ Observe(r, "api")
     \/ answer' = [answer EXCEPT ![r] = "raised"] /\ UNCHANGED observed
  /\ UNCHANGED <<life, conf, bodyVars, semVars, clients, counted>>

\* External: the inner application answers or raises.
ApiReturns(r) ==
  /\ pc[r] = "api"
  /\ pc' = [pc EXCEPT ![r] = "done"]
  /\ \E a \in {"api", "raised"} : Observe(r, a)
  /\ UNCHANGED <<life, conf, bodyVars, semVars, clients, counted>>

\* resolve_upstream() gives nothing: 502; documentation paths are redirected.
DispatchAnswered(r) ==
  /\ life = "up" /\ pc[r] = "new" /\ kind[r] \notin {"local", "api"}
  /\ \E a \in {"no_upstream", "redirect"} :
       /\ a = "redirect" => kind[r] = "docs"
       /\ Observe(r, a)
  /\ pc' = [pc EXCEPT ![r] = "done"]
  /\ counted' = counted + 1
  /\ UNCHANGED <<life, conf, bodyVars, semVars, clients>>

DispatchProxy(r) ==
  /\ life = "up" /\ pc[r] = "new" /\ kind[r] \in {"get", "post"}
  /\ EnterProxy(r)
  /\ counted' = counted + 1
  /\ UNCHANGED <<life, conf, answer, bodyVars, clients, observed>>

-----------------------------------------------------------------------------
(* proxy_http_inner *)

\* Mutant: limited bodies are streamed as well.
BufferedGetOnly(r) == kind[r] = "get"

\* drain_incoming_request_body or collect_limited_request_body; without a
\* limit a POST body is streamed after its first message.
Buffered(r) == kind[r] = "get" \/ maxBody > 0

TooLarge(n) == maxBody > 0 /\ n > maxBody

\* One http.request message, empty or not, the last one or not; a message of
\* another type ends the body as an empty last one does.
ReceiveBody(r) ==
  /\ pc[r] = "body"
  /\ \E n \in got[r] .. got[r] + 1, last \in BOOLEAN :
       /\ n <= MaxChunks
       /\ got' = [got EXCEPT ![r] = n]
       /\ body' = [body EXCEPT ![r] = IF last THEN "complete" ELSE "open"]
       /\ \/ TooLarge(n) /\ EndProxied(r, "too_large")
          \/ /\ ~TooLarge(n)
             /\ pc' = [pc EXCEPT ![r] = IF last \/ ~Buffered(r) THEN "call" ELSE "body"]
             /\ UNCHANGED <<life, conf, answer, contacted, whole, semVars, clients,
                            counted, observed>>

\* Mutant: a disconnect ends the body instead of the request.
DisconnectedEndsBody(r) ==
  /\ pc[r] = "body"
  /\ body' = [body EXCEPT ![r] = "cut"]
  /\ pc' = [pc EXCEPT ![r] = "call"]
  /\ UNCHANGED <<life, conf, answer, got, contacted, whole, semVars, clients,
                 counted, observed>>

\* http.disconnect raises _GatewayClientDisconnected: answered with 499.
Disconnected(r) ==
  /\ pc[r] = "body"
  /\ body' = [body EXCEPT ![r] = "cut"]
  /\ UNCHANGED got
  /\ EndProxied(r, "disconnected")

\* _shared_httpx_client, build_request and the start of client.send.
CallUpstream(r) ==
  /\ pc[r] = "call"
  /\ clients' = IF clients = 0 THEN 1 ELSE clients
  /\ pc' = [pc EXCEPT ![r] = "upstream"]
  /\ contacted' = [contacted EXCEPT ![r] = TRUE]
  /\ whole' = [whole EXCEPT ![r] = Buffered(r) \/ body[r] = "complete"]
  /\ UNCHANGED <<life, conf, answer, got, body, semVars, counted, observed>>

\* request_body is pulled by the running call: a chunk or the end of it.
StreamBody(r) ==
  /\ pc[r] = "upstream" /\ body[r] = "open"
  /\ \E n \in got[r] .. got[r] + 1, last \in BOOLEAN :
       /\ n <= MaxChunks /\ (n = got[r] => last)
       /\ got' = [got EXCEPT ![r] = n]
       /\ body' = [body EXCEPT ![r] = IF last THEN "complete" ELSE "open"]
       /\ whole' = [whole EXCEPT ![r] = last]
  /\ UNCHANGED <<life, conf, pc, answer, contacted, semVars, clients, counted,
                 observed>>

\* A disconnect while streaming raises inside the call and aborts it.
StreamDisconnected(r) ==
  /\ pc[r] = "upstream" /\ body[r] = "open"
  /\ body' = [body EXCEPT ![r] = "cut"]
  /\ UNCHANGED got
  /\ EndProxied(r, "disconnected")

\* The call ends: a buffered response, a RequestError (timeouts included) or
\* another exception, which the server turns into a 500.
UpstreamEnds(r) ==
  /\ pc[r] = "upstream"
  /\ \E a \in {"proxied", "bad_gateway", "raised"} : EndProxied(r, a)
  /\ UNCHANGED <<got, body>>

-----------------------------------------------------------------------------
(* Shutdown *)

ServerDrains ==
  /\ life = "up"
  /\ life' = "draining"
  /\ UNCHANGED <<conf, pc, answer, bodyVars, semVars, clients, counted, observed>>

\* deque.remove: the queue without its i-th element.
Without(s, i) == [k \in 1 .. Len(s) - 1 |-> s[IF k < i THEN k ELSE k + 1]]

\* External: a request that exceeds the grace period is cancelled where it
\* awaits; a waiter leaves the queue, a holder gives its slot back.
ServerCancels(r) ==
  /\ life = "draining"
  /\ \/ /\ r \in Holding
        /\ EndProxied(r, "cancelled")
        /\ UNCHANGED <<got, body>>
     \/ /\ \/ pc[r] = "api" /\ UNCHANGED waiters
           \/ \E i \in DOMAIN waiters :
                waiters[i] = r /\ waiters' = Without(waiters, i)
        /\ pc' = [pc EXCEPT ![r] = "done"]
        /\ Observe(r, "cancelled")
        /\ UNCHANGED <<life, conf, bodyVars, slots, clients, counted>>

\* The lifespan scope: the inner application, then on_lifespan_shutdown,
\* which an inner failure skips.
LifespanEnds ==
  /\ life = "draining" /\ InFlight = {}
  /\ \/ life' = "down" /\ clients' = 0
     \/ life' = "failed" /\ UNCHANGED clients
  /\ UNCHANGED <<conf, pc, answer, bodyVars, semVars, counted, observed>>

Finished ==
  /\ life \in {"down", "failed"} /\ UNCHANGED vars

-----------------------------------------------------------------------------

ProxyNext(r) ==
  \/ ReceiveBody(r) \/ Disconnected(r) \/ CallUpstream(r)
  \/ StreamBody(r) \/ StreamDisconnected(r) \/ UpstreamEnds(r)

RequestNext(r) == ApiReturns(r) \/ ProxyNext(r)

DispatchNext(r) ==
  DispatchLocal(r) \/ DispatchApi(r) \/ DispatchAnswered(r) \/ DispatchProxy(r)

Next ==
  \/ \E r \in Reqs : DispatchNext(r) \/ RequestNext(r) \/ ServerCancels(r)
  \/ ServerDrains \/ LifespanEnds \/ Finished

(***************************************************************************)
(* A client that opened a body sends the rest or goes away, an upstream    *)
(* call ends by the client's timeouts, the inner application answers, and  *)
(* the loop runs every task that is ready.                                 *)
(***************************************************************************)
Fairness == \A r \in Reqs : WF_vars(RequestNext(r))

Spec == Init /\ [][Next]_vars
FairSpec == Spec /\ Fairness

-----------------------------------------------------------------------------
(* Properties *)

TypeOK ==
  /\ life \in {"up", "draining", "down", "failed"}
  /\ maxBody \in Limits /\ kind \in Mixes /\ pc \in [Reqs -> PCs]
  /\ answer \in [Reqs -> Answers]
  /\ got \in [Reqs -> 0..MaxChunks]
  /\ body \in [Reqs -> {"open", "complete", "cut"}]
  /\ contacted \in [Reqs -> BOOLEAN] /\ whole \in [Reqs -> BOOLEAN]
  /\ slots \in Nat /\ waiters \in Seq(Reqs)
  /\ clients \in Nat /\ counted \in Nat /\ observed \in Nat

(***************************************************************************)
(* collect_limited_request_body: "fail closed before opening a Streamlit   *)
(* upstream connection": with a limit, no call is opened for a body that   *)
(* is oversized or not complete.                                           *)
(***************************************************************************)
LimitFailsClosed ==
  maxBody > 0 =>
    \A r \in Reqs : contacted[r] => body[r] = "complete" /\ got[r] <= maxBody

(***************************************************************************)
(* "Do not forward POST bodies to Streamlit after mid-request client       *)
(* disconnect": what the client cut off never reaches the sidecar as a     *)
(* complete request, streamed or buffered.                                 *)
(***************************************************************************)
CutNeverWhole == \A r \in Reqs : whole[r] => body[r] = "complete"

(***************************************************************************)
(* Every path out of the proxy, errors and cancellation included, gives    *)
(* its slot back, and no request is left in the queue while one is free.   *)
(***************************************************************************)
SlotsConserved ==
  MaxConcurrent > 0 =>
    /\ slots + Cardinality(Holding) = MaxConcurrent
    /\ waiters # <<>> => slots = 0
    /\ {waiters[i] : i \in DOMAIN waiters} = {r \in Reqs : pc[r] = "waiting"}

(***************************************************************************)
(* The requests counter and the latency histogram differ by the requests   *)
(* in flight, also after errors and cancellation.                          *)
(***************************************************************************)
MetricsBalance == counted = observed + Cardinality(InFlight)

\* Every request in flight ends, also one that waits for a slot.
RequestEnds == \A r \in Reqs : r \in InFlight ~> pc[r] = "done"
=============================================================================
