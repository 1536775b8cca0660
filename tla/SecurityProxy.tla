--------------------------- MODULE SecurityProxy ---------------------------
(***************************************************************************)
(* The Gemini Security Proxy (src/src/gemini-cli/gemini-security-proxy.mts)*)
(* and the parent's dispatch reservation                                   *)
(* (src/src/vertex-verification-reservation.mts).                          *)
(*                                                                         *)
(* One Node event loop runs every handler to completion, so a handler is   *)
(* one action.  The interleavings are between handlers: a bind that        *)
(* completes after the session was aborted, the microtask that dispatches  *)
(* a request whose body ended before a shutdown, socket close events that  *)
(* arrive after the sockets were destroyed.                                *)
(*                                                                         *)
(* A request has a connection of its own; its route, scope and body are    *)
(* abstracted to whether the proxy accepts them.                           *)
(***************************************************************************)
EXTENDS Naturals, FiniteSets

CONSTANTS Requests,     \* the requests clients of the proxy may make
          Cap,          \* DEFENSIVE_SESSION_DISPATCH_CAP
          HasDeadline,  \* config.deadlineMs is a positive integer
          Reserving     \* config.reserveDispatch is given

ASSUME ProxyAssumption ==
    /\ IsFiniteSet(Requests)
    /\ Cap \in Nat
    /\ HasDeadline \in BOOLEAN
    /\ Reserving \in BOOLEAN

VARIABLES
    listener,           \* the server socket, see Listener
    startup,            \* how the promise of startGeminiSecurityProxy settled
    shutdownRequested,  \* the closure variable of that name
    shutdownPromise,    \* "none" until closeServer ran, then "pending" or "done"
    timer,              \* the deadline timer is armed
    onAbort,            \* the abort listener is installed
    aborted,            \* config.signal.aborted
    expired             \* Date.now() has reached deadlineAt

lifecycle == <<listener, startup, shutdownRequested, shutdownPromise,
               timer, onAbort, aborted, expired>>

VARIABLES
    phase,    \* how far the handlers of a request got, see Phase
    conn,     \* the client connection of a request, see Connection
    reply,    \* what the client was answered, see Reply
    doomed,   \* upstream requests destroyed whose close event is to come
    held,     \* the requests for which a reservation was recorded
    sent,     \* the requests that were sent upstream
    count     \* the reservation counter of the trusted parent

requestVars == <<phase, conn, reply, doomed, held, sent, count>>
vars == <<lifecycle, requestVars>>

Listener   == {"binding", "bound", "listening", "closing", "closed", "failed"}
Phase      == {"idle", "reading", "forwarding", "inflight", "relaying",
               "draining", "finished"}
Connection == {"none", "open", "destroyed", "closed"}
Reply      == {"none", "refused", "timeout", "gateway", "headers", "complete"}

\* activeRequests: added at the send, deleted by the upstream close event.
Upstream == {"inflight", "relaying", "draining"}
activeRequests == {r \in Requests : phase[r] \in Upstream}

\* res.writableEnded
Ended(r) == reply[r] \notin {"none", "headers"}

\* The state after the synchronous part of startGeminiSecurityProxy: timer and
\* abort listener are installed and listen() was called.
Init ==
    /\ listener = "binding"
    /\ startup = "pending"
    /\ shutdownRequested = FALSE
    /\ shutdownPromise = "none"
    /\ timer = HasDeadline
    /\ onAbort = TRUE
    /\ aborted = FALSE
    /\ expired = FALSE
    /\ phase = [r \in Requests |-> "idle"]
    /\ conn = [r \in Requests |-> "none"]
    /\ reply = [r \in Requests |-> "none"]
    /\ doomed = {}
    /\ held = {}
    /\ sent = {}
    /\ count = 0

-----------------------------------------------------------------------------
(* Shutdown                                                                *)

\* Mutation of DestroyTraffic: client connections are left open.
DestroyUpstreamsOnly ==
    /\ doomed' = doomed \cup activeRequests
    /\ UNCHANGED conn

\* request.destroy() for every active upstream request, and
\* server.closeAllConnections().
DestroyTraffic ==
    /\ doomed' = doomed \cup activeRequests
    /\ conn' = [r \in Requests |->
                  IF conn[r] = "open" THEN "destroyed" ELSE conn[r]]

\* closeServer with the listener in state l.  When nothing is bound yet the
\* promise resolves at once and the bind may still complete later.
CloseServer(l) ==
    /\ DestroyTraffic
    /\ IF l \in {"bound", "listening"}
         THEN listener' = "closing" /\ shutdownPromise' = "pending"
         ELSE listener' = l /\ shutdownPromise' = "done"

\* shutdown(): closeServer runs for the first call only.
Shutdown(l) ==
    /\ shutdownRequested' = TRUE
    /\ timer' = FALSE
    /\ onAbort' = FALSE
    /\ IF shutdownPromise = "none"
         THEN CloseServer(l)
         ELSE listener' = l /\ UNCHANGED <<shutdownPromise, doomed, conn>>

\* What the deadline timer and the abort listener do: failStartup while the
\* startup is pending, otherwise a plain shutdown.
Stop(l) ==
    /\ startup' = IF startup = "pending" THEN "rejected" ELSE startup
    /\ Shutdown(l)

SignalAborts ==
    /\ ~aborted
    /\ aborted' = TRUE
    /\ IF onAbort
         THEN Stop(listener)
         ELSE UNCHANGED <<listener, startup, shutdownRequested,
                          shutdownPromise, timer, onAbort, conn, doomed>>
    /\ UNCHANGED <<expired, phase, reply, held, sent, count>>

\* Time passes the deadline; the timer callback runs some time later.
ClockExpires ==
    /\ HasDeadline
    /\ ~expired
    /\ expired' = TRUE
    /\ UNCHANGED <<listener, startup, shutdownRequested, shutdownPromise,
                   timer, onAbort, aborted, requestVars>>

DeadlineTimer ==
    /\ timer
    /\ expired
    /\ Stop(listener)
    /\ UNCHANGED <<aborted, expired, phase, reply, held, sent, count>>

\* The owner of a resolved proxy calls the shutdown function it was given.
OwnerShutdown ==
    /\ startup = "resolved"
    /\ Shutdown(listener)
    /\ UNCHANGED <<startup, aborted, expired, phase, reply, held, sent, count>>

-----------------------------------------------------------------------------
(* The listening socket                                                    *)

BindSucceeds ==
    /\ listener = "binding"
    /\ listener' = "bound"
    /\ UNCHANGED <<startup, shutdownRequested, shutdownPromise, timer, onAbort,
                   aborted, expired, requestVars>>

\* The server's error event fails a startup that is still pending.
BindFails ==
    /\ listener = "binding"
    /\ IF startup = "pending"
         THEN Stop("failed")
         ELSE /\ listener' = "failed"
              /\ UNCHANGED <<startup, shutdownRequested, shutdownPromise, timer,
                             onAbort, conn, doomed>>
    /\ UNCHANGED <<aborted, expired, phase, reply, held, sent, count>>

\* Mutation of CloseLateServer: the late listener is kept.
KeepLateServer ==
    /\ listener' = "listening"
    /\ UNCHANGED <<startup, shutdownRequested, shutdownPromise, timer, onAbort,
                   conn, doomed>>

\* closeLateServer: the bind completed after a shutdown already returned.
CloseLateServer ==
    /\ listener' = "closing"
    /\ DestroyTraffic
    /\ UNCHANGED <<startup, shutdownRequested, shutdownPromise, timer, onAbort>>

ListeningCallback ==
    /\ listener = "bound"
    /\ \/ shutdownRequested /\ CloseLateServer
       \/ ~shutdownRequested /\ expired /\ Stop("listening")
       \/ /\ ~shutdownRequested
          /\ ~expired
          /\ listener' = "listening"
          /\ startup' = "resolved"
          /\ UNCHANGED <<shutdownRequested, shutdownPromise, timer, onAbort,
                         conn, doomed>>
    /\ UNCHANGED <<aborted, expired, phase, reply, held, sent, count>>

\* The callback of server.close runs when the last connection is gone.
ServerCloses ==
    /\ listener = "closing"
    /\ \A r \in Requests : conn[r] \in {"none", "closed"}
    /\ listener' = "closed"
    /\ shutdownPromise' = "done"
    /\ UNCHANGED <<startup, shutdownRequested, timer, onAbort, aborted, expired,
                   requestVars>>

-----------------------------------------------------------------------------
(* Requests                                                                *)

Answer(r, kind) == reply' = [reply EXCEPT ![r] = kind]
Goto(r, p) == phase' = [phase EXCEPT ![r] = p]

\* A connection is accepted.  Method, route, mode, scope, host and the declared
\* length are checked at once: the request is answered 403 or 413, or its body
\* is read.
Accept(r) ==
    /\ listener = "listening"
    /\ phase[r] = "idle"
    /\ conn' = [conn EXCEPT ![r] = "open"]
    /\ \/ Goto(r, "reading") /\ UNCHANGED reply
       \/ Goto(r, "finished") /\ Answer(r, "refused")
    /\ UNCHANGED <<lifecycle, doomed, held, sent, count>>

\* rejectBody: more bytes arrive than MAX_PROXY_REQUEST_BYTES.
BodyTooLarge(r) ==
    /\ phase[r] = "reading"
    /\ conn[r] = "open"
    /\ Goto(r, "finished")
    /\ Answer(r, "refused")
    /\ UNCHANGED <<lifecycle, conn, doomed, held, sent, count>>

\* The end event: past the deadline the request is answered 504, otherwise the
\* dispatch is queued behind transport.then.
BodyEnds(r) ==
    /\ phase[r] = "reading"
    /\ conn[r] # "closed"
    /\ IF expired
         THEN Goto(r, "finished") /\ Answer(r, "timeout")
         ELSE Goto(r, "forwarding") /\ UNCHANGED reply
    /\ UNCHANGED <<lifecycle, conn, doomed, held, sent, count>>

\* Mutations of Granted: one reservation too many; no cap at all.
GrantedOffByOne(recorded) == ~Reserving \/ (count <= Cap /\ recorded)
GrantedUncapped(recorded) == ~Reserving \/ recorded

\* createVertexVerificationReservation: reserveDispatch returns true and counts
\* when the cap is not reached and the recorder accepted.
Granted(recorded) == ~Reserving \/ (count < Cap /\ recorded)

\* Mutation of Record: the counter runs down instead of up.
RecordBackwards(r) ==
    IF Reserving
      THEN held' = held \cup {r} /\ count' = count - 1
      ELSE UNCHANGED <<held, count>>

Record(r) ==
    IF Reserving
      THEN held' = held \cup {r} /\ count' = count + 1
      ELSE UNCHANGED <<held, count>>

\* Mutation of MayStillSend: the shutdown is not checked again.
MayStillSendClockOnly(now) == ~now

\* The check after the reservation, with the clock it reads.
MayStillSend(now) == ~shutdownRequested /\ ~now

\* The transport callback.  A connection that is gone ends the request; then
\* the parent is asked to reserve; then the deadline and the shutdown are
\* checked again, because the reservation takes time; then the request is sent.
Dispatch(r) ==
    /\ phase[r] = "forwarding"
    /\ \/ /\ conn[r] = "closed"
          /\ Goto(r, "finished")
          /\ UNCHANGED <<reply, held, sent, count, expired>>
       \/ /\ conn[r] # "closed"
          /\ \E recorded \in BOOLEAN :
                /\ ~Granted(recorded)
                /\ Goto(r, "finished")
                /\ Answer(r, "refused")
          /\ UNCHANGED <<held, sent, count, expired>>
       \/ /\ conn[r] # "closed"
          /\ Granted(TRUE)
          /\ Record(r)
          /\ expired' \in {expired, HasDeadline}
          /\ IF MayStillSend(expired')
               THEN /\ Goto(r, "inflight")
                    /\ sent' = sent \cup {r}
                    /\ UNCHANGED reply
               ELSE /\ Goto(r, "finished")
                    /\ Answer(r, "timeout")
                    /\ UNCHANGED sent
    /\ UNCHANGED <<listener, startup, shutdownRequested, shutdownPromise, timer,
                   onAbort, aborted, conn, doomed>>

\* The upstream answers: a redirect is answered 502 and drained, any other
\* response is relayed.
UpstreamResponds(r) ==
    /\ phase[r] = "inflight"
    /\ r \notin doomed
    /\ \/ Goto(r, "draining") /\ Answer(r, "gateway")
       \/ Goto(r, "relaying") /\ Answer(r, "headers")
    /\ UNCHANGED <<lifecycle, conn, doomed, held, sent, count>>

\* The response ends: the pipe ends the reply, the upstream request closes.
UpstreamEnds(r) ==
    /\ phase[r] \in {"relaying", "draining"}
    /\ r \notin doomed
    /\ Goto(r, "finished")
    /\ IF Ended(r) THEN UNCHANGED reply ELSE Answer(r, "complete")
    /\ UNCHANGED <<lifecycle, conn, doomed, held, sent, count>>

\* A network error or the socket timeout destroys the upstream request.
UpstreamFails(r) ==
    /\ r \in activeRequests \ doomed
    /\ doomed' = doomed \cup {r}
    /\ UNCHANGED <<lifecycle, phase, conn, reply, held, sent, count>>

\* The error and close events of a destroyed upstream request: 502 while no
\* headers were sent, otherwise the connection is destroyed.
UpstreamClosed(r) ==
    /\ r \in doomed
    /\ doomed' = doomed \ {r}
    /\ Goto(r, "finished")
    /\ IF reply[r] = "none"
         THEN Answer(r, "gateway") /\ UNCHANGED conn
         ELSE /\ conn' = [conn EXCEPT ![r] = IF @ = "open" THEN "destroyed" ELSE @]
              /\ UNCHANGED reply
    /\ UNCHANGED <<lifecycle, held, sent, count>>

\* The close event of the client connection: a body that is still read is
\* dropped, an upstream request whose reply has not ended is destroyed.
ConnectionCloses(r) ==
    /\ conn' = [conn EXCEPT ![r] = "closed"]
    /\ IF phase[r] = "reading" THEN Goto(r, "finished") ELSE UNCHANGED phase
    /\ doomed' = IF r \in activeRequests /\ ~Ended(r) THEN doomed \cup {r} ELSE doomed
    /\ UNCHANGED <<lifecycle, reply, held, sent, count>>

\* The client goes away, or the connection ends after the reply.
ClientLeaves(r) == conn[r] = "open" /\ ConnectionCloses(r)

\* A socket the proxy destroyed reports its close.
SocketTornDown(r) == conn[r] = "destroyed" /\ ConnectionCloses(r)

-----------------------------------------------------------------------------
Handler(r) ==
    \/ Accept(r)
    \/ BodyTooLarge(r)
    \/ BodyEnds(r)
    \/ Dispatch(r)
    \/ UpstreamResponds(r)
    \/ UpstreamEnds(r)
    \/ UpstreamFails(r)
    \/ UpstreamClosed(r)
    \/ ClientLeaves(r)
    \/ SocketTornDown(r)

Next ==
    \/ SignalAborts
    \/ ClockExpires
    \/ DeadlineTimer
    \/ OwnerShutdown
    \/ BindSucceeds
    \/ BindFails
    \/ ListeningCallback
    \/ ServerCloses
    \/ \E r \in Requests : Handler(r)

Spec == Init /\ [][Next]_vars

\* The event loop runs what is due: the bind completes one way or the other,
\* callbacks, timers, microtasks and close events are delivered, time passes.
\* Nothing is assumed of the clients, of the upstream or of the owner.
Fairness ==
    /\ WF_vars(BindSucceeds \/ BindFails)
    /\ WF_vars(ListeningCallback)
    /\ WF_vars(ServerCloses)
    /\ WF_vars(ClockExpires)
    /\ WF_vars(DeadlineTimer)
    /\ \A r \in Requests :
          /\ WF_vars(Dispatch(r))
          /\ WF_vars(UpstreamClosed(r))
          /\ WF_vars(SocketTornDown(r))

FairSpec == Spec /\ Fairness

-----------------------------------------------------------------------------
(* Properties                                                              *)

TypeOK ==
    /\ listener \in Listener
    /\ startup \in {"pending", "resolved", "rejected"}
    /\ shutdownRequested \in BOOLEAN
    /\ shutdownPromise \in {"none", "pending", "done"}
    /\ timer \in BOOLEAN
    /\ onAbort \in BOOLEAN
    /\ aborted \in BOOLEAN
    /\ expired \in BOOLEAN
    /\ phase \in [Requests -> Phase]
    /\ conn \in [Requests -> Connection]
    /\ reply \in [Requests -> Reply]
    /\ doomed \in SUBSET Requests
    /\ held \in SUBSET Requests
    /\ sent \in SUBSET Requests
    /\ count \in Nat

\* Once a shutdown was requested no upstream request is left running: each one
\* that has not closed yet was destroyed.  It would fail if a dispatch queued
\* before the shutdown could still send after closeServer walked over
\* activeRequests, since nothing walks over them again.
NothingSurvivesShutdown == shutdownRequested => activeRequests \subseteq doomed

\* The budget: every send holds a reservation of its own, the parent's counter
\* counts them, and it stays within the cap whatever happened to the sends.
SendsWithinBudget ==
    Reserving => /\ sent \subseteq held
                 /\ count = Cardinality(held)
                 /\ count <= Cap

\* Nobody is served behind the back of an owner.  The listener accepts only when
\* its endpoint was handed out and no shutdown was requested, also when the bind
\* completes after an abort, a deadline or a failed startup had already returned;
\* a startup that was rejected, whose caller has no shutdown to call, shut itself
\* down; and a requested shutdown, which closes the connections once, leaves no
\* client connection that is still open then or later.
ServesOnlyWhileOpen ==
    /\ listener = "listening" => startup = "resolved" /\ ~shutdownRequested
    /\ startup = "rejected" => shutdownRequested
    /\ shutdownRequested => \A r \in Requests : conn[r] # "open"

\* The proxy keeps the promise of the dispatch gate: sends within the budget
\* of the reservation and none after the shutdown was requested.
Gate == INSTANCE DispatchGate WITH open <- ~shutdownRequested, used <- count
GateKept == Gate!GateSpec

\* What the proxy begins ends: a startup, however abort, deadline and bind
\* interleave; a request, whatever its client and the upstream do; and a
\* shutdown, with the listener closed and no upstream request left, also when
\* the bind completes only after the shutdown returned.
Drains ==
    /\ <>(startup # "pending")
    /\ shutdownRequested ~>
          [](listener \in {"closed", "failed"} /\ activeRequests = {})
    /\ \A r \in Requests : phase[r] # "idle" ~> phase[r] = "finished"

=============================================================================
