-------------------------- MODULE GeminiHostProofs --------------------------
(***************************************************************************)
(* TLAPS proofs about the two processes around a Gemini CLI that hold the  *)
(* credential.                                                             *)
(*                                                                         *)
(* SecurityProxy, for every set of requests and every cap: its types, its  *)
(* safety invariants, and that it implements DispatchGate when the parent  *)
(* gives a reservation function.                                           *)
(*                                                                         *)
(* GeminiLauncher, for every set of sessions and every longest limit: what *)
(* exit code 0 claims, what a launcher leaves behind, and what its limits  *)
(* bound.                                                                  *)
(***************************************************************************)
EXTENDS SecurityProxy, GeminiLauncher, FiniteSetTheorems, TLAPS

-----------------------------------------------------------------------------
\* The proxy.

\* How the closure variables of startGeminiSecurityProxy hang together.
LifecycleInv ==
    /\ shutdownRequested <=> shutdownPromise # "none"
    /\ listener \in {"closing", "closed"} => shutdownRequested
    /\ startup = "rejected" => shutdownRequested
    /\ listener \in {"binding", "bound"} /\ ~shutdownRequested => startup = "pending"

\* A reservation is taken by the dispatch, so an earlier request holds none.
HeldAreDispatched == \A r \in held : phase[r] \in Upstream \cup {"finished"}

IInv ==
    /\ TypeOK
    /\ LifecycleInv
    /\ HeldAreDispatched
    /\ NothingSurvivesShutdown
    /\ SendsWithinBudget
    /\ ServesOnlyWhileOpen

\* The actions, in the groups the proofs below treat alike.
LifecycleStep ==
    \/ SignalAborts \/ ClockExpires \/ DeadlineTimer \/ OwnerShutdown
    \/ BindSucceeds \/ BindFails \/ ListeningCallback \/ ServerCloses

-----------------------------------------------------------------------------
\* Types: Spec => []TypeOK follows from the inductive invariant IInv, whose
\* preservation is proved conjunct by conjunct.

LEMMA StopTypes ==
    ASSUME TypeOK, NEW l \in Listener, Shutdown(l)
    PROVE  /\ listener' \in Listener
           /\ shutdownRequested' \in BOOLEAN
           /\ shutdownPromise' \in {"none", "pending", "done"}
           /\ timer' \in BOOLEAN
           /\ onAbort' \in BOOLEAN
           /\ conn' \in [Requests -> Connection]
           /\ doomed' \in SUBSET Requests
  BY DEF TypeOK, Shutdown, CloseServer, DestroyTraffic, activeRequests,
         Listener, Connection

LEMMA TypeInit == Init => TypeOK
<1> SUFFICES ASSUME Init PROVE TypeOK
  OBVIOUS
<1>1. timer \in BOOLEAN
  BY ProxyAssumption DEF Init
<1>2. phase \in [Requests -> Phase] /\ conn \in [Requests -> Connection]
      /\ reply \in [Requests -> Reply]
  BY DEF Init, Phase, Connection, Reply
<1>3. QED
  BY <1>1, <1>2 DEF Init, TypeOK, Listener

LEMMA TypeLifecycle ==
    ASSUME TypeOK, LifecycleStep
    PROVE  TypeOK'
<1> USE DEF Listener
<1>1. CASE SignalAborts
  BY <1>1, StopTypes DEF SignalAborts, Stop, TypeOK
<1>2. CASE ClockExpires
  BY <1>2 DEF ClockExpires, TypeOK, requestVars
<1>3. CASE DeadlineTimer
  BY <1>3, StopTypes DEF DeadlineTimer, Stop, TypeOK
<1>4. CASE OwnerShutdown
  BY <1>4, StopTypes DEF OwnerShutdown, TypeOK
<1>5. CASE BindSucceeds
  BY <1>5 DEF BindSucceeds, TypeOK, requestVars
<1>6. CASE BindFails
  BY <1>6, StopTypes DEF BindFails, Stop, TypeOK
<1>7. CASE ListeningCallback
  BY <1>7, StopTypes DEF ListeningCallback, Stop, CloseLateServer,
     DestroyTraffic, TypeOK, activeRequests, Connection
<1>8. CASE ServerCloses
  BY <1>8 DEF ServerCloses, TypeOK, requestVars
<1>9. QED
  BY <1>1, <1>2, <1>3, <1>4, <1>5, <1>6, <1>7, <1>8 DEF LifecycleStep

LEMMA TypeHandler ==
    ASSUME TypeOK, NEW r \in Requests, Handler(r)
    PROVE  TypeOK'
<1> USE DEF Listener, Phase, Connection, Reply, TypeOK, lifecycle, Goto, Answer
<1>1. CASE Accept(r)
  BY <1>1 DEF Accept
<1>2. CASE BodyTooLarge(r)
  BY <1>2 DEF BodyTooLarge
<1>3. CASE BodyEnds(r)
  BY <1>3 DEF BodyEnds
<1>4. CASE Dispatch(r)
  <2>1. expired' \in BOOLEAN
    BY <1>4, ProxyAssumption DEF Dispatch
  <2>2. held' \in SUBSET Requests /\ count' \in Nat
    <3>1. UNCHANGED <<held, count>> \/ Record(r)
      BY <1>4 DEF Dispatch
    <3>2. ASSUME Record(r) PROVE held' \in SUBSET Requests /\ count' \in Nat
      BY <3>2 DEF Record
    <3>3. QED
      BY <3>1, <3>2
  <2>3. phase' \in [Requests -> Phase] /\ reply' \in [Requests -> Reply]
        /\ sent' \in SUBSET Requests
    BY <1>4 DEF Dispatch
  <2>4. QED
    BY <1>4, <2>1, <2>2, <2>3 DEF Dispatch
<1>5. CASE UpstreamResponds(r)
  BY <1>5 DEF UpstreamResponds
<1>6. CASE UpstreamEnds(r)
  BY <1>6 DEF UpstreamEnds
<1>7. CASE UpstreamFails(r)
  BY <1>7 DEF UpstreamFails
<1>8. CASE UpstreamClosed(r)
  BY <1>8 DEF UpstreamClosed
<1>9. CASE ClientLeaves(r) \/ SocketTornDown(r)
  BY <1>9 DEF ClientLeaves, SocketTornDown, ConnectionCloses
<1>10. QED
  BY <1>1, <1>2, <1>3, <1>4, <1>5, <1>6, <1>7, <1>8, <1>9 DEF Handler

LEMMA TypeNext == TypeOK /\ [Next]_vars => TypeOK'
<1> SUFFICES ASSUME TypeOK, [Next]_vars PROVE TypeOK'
  OBVIOUS
<1>1. CASE LifecycleStep
  BY <1>1, TypeLifecycle
<1>2. CASE \E r \in Requests : Handler(r)
  BY <1>2, TypeHandler
<1>3. CASE UNCHANGED vars
  BY <1>3 DEF TypeOK, vars, lifecycle, requestVars
<1>4. QED
  BY <1>1, <1>2, <1>3 DEF Next, LifecycleStep

\* Every state of the proxy has its types.
THEOREM Typing == Spec => []TypeOK
<1>1. QED
  BY TypeInit, TypeNext, PTL DEF Spec

-----------------------------------------------------------------------------
(* The inductive invariant.                                                *)
(* NothingSurvivesShutdown is not inductive alone: a second Shutdown call  *)
(* does not walk over activeRequests again, so it needs that the first one *)
(* did, which is LifecycleInv; and a dispatch after it must not send.      *)

LEMMA IInvInit == Init => IInv
<1> SUFFICES ASSUME Init PROVE IInv
  OBVIOUS
<1>1. TypeOK
  BY TypeInit
<1>2. SendsWithinBudget
  BY FS_EmptySet, ProxyAssumption DEF Init, SendsWithinBudget
<1>3. NothingSurvivesShutdown /\ ServesOnlyWhileOpen /\ LifecycleInv
      /\ HeldAreDispatched
  BY DEF Init, NothingSurvivesShutdown, ServesOnlyWhileOpen, LifecycleInv,
     HeldAreDispatched
<1>4. QED
  BY <1>1, <1>2, <1>3 DEF IInv

\* A shutdown leaves nothing alive and the listener not serving, whether it is
\* the first call or a later one.
LEMMA ShutdownEffect ==
    ASSUME IInv, NEW l \in Listener, Shutdown(l), UNCHANGED phase,
           shutdownPromise # "none" => l = listener
    PROVE  /\ NothingSurvivesShutdown'
           /\ ServesOnlyWhileOpen'
           /\ shutdownRequested'
           /\ shutdownPromise' # "none"
<1> USE DEF IInv, TypeOK, LifecycleInv, Shutdown
<1>1. shutdownRequested' /\ shutdownPromise' # "none"
  BY DEF CloseServer
<1>2. CASE shutdownPromise = "none"
  BY <1>1, <1>2 DEF CloseServer, DestroyTraffic, NothingSurvivesShutdown,
     ServesOnlyWhileOpen, activeRequests
<1>3. CASE shutdownPromise # "none"
  BY <1>1, <1>3 DEF NothingSurvivesShutdown, ServesOnlyWhileOpen, activeRequests
<1>4. QED
  BY <1>1, <1>2, <1>3

\* Reservations are untouched by the lifecycle.
LEMMA LifecycleKeepsReservations ==
    ASSUME LifecycleStep
    PROVE  UNCHANGED <<phase, held, sent, count>>
  BY DEF LifecycleStep, SignalAborts, ClockExpires, DeadlineTimer, OwnerShutdown,
     BindSucceeds, BindFails, ListeningCallback, ServerCloses, requestVars

LEMMA InvLifecycle ==
    ASSUME IInv, LifecycleStep
    PROVE  /\ LifecycleInv'
           /\ NothingSurvivesShutdown'
           /\ ServesOnlyWhileOpen'
<1> USE DEF IInv, TypeOK, Listener
<1>0. UNCHANGED phase
  BY LifecycleKeepsReservations
<1>1. CASE SignalAborts
  <2>1. CASE onAbort
    <3>1. Stop(listener)
      BY <1>1, <2>1 DEF SignalAborts
    <3>2. QED
      BY <1>0, <3>1, ShutdownEffect DEF Stop, LifecycleInv
  <2>2. CASE ~onAbort
    BY <1>0, <1>1, <2>2 DEF SignalAborts, LifecycleInv, NothingSurvivesShutdown,
       ServesOnlyWhileOpen, activeRequests
  <2>3. QED
    BY <2>1, <2>2
<1>2. CASE ClockExpires \/ BindSucceeds
  BY <1>2 DEF ClockExpires, BindSucceeds, requestVars, LifecycleInv,
     NothingSurvivesShutdown, ServesOnlyWhileOpen, activeRequests
<1>3. CASE DeadlineTimer
  BY <1>0, <1>3, ShutdownEffect DEF DeadlineTimer, Stop, LifecycleInv
<1>4. CASE OwnerShutdown
  BY <1>0, <1>4, ShutdownEffect DEF OwnerShutdown, LifecycleInv
<1>5. CASE BindFails
  <2>1. CASE startup = "pending"
    <3>1. Stop("failed") /\ listener = "binding"
      BY <1>5, <2>1 DEF BindFails
    <3>2. CASE shutdownPromise = "none"
      BY <1>0, <3>1, <3>2, ShutdownEffect DEF Stop, LifecycleInv
    <3>3. CASE shutdownPromise # "none"
      BY <1>0, <3>1, <3>3 DEF Stop, Shutdown, LifecycleInv,
         NothingSurvivesShutdown, ServesOnlyWhileOpen, activeRequests
    <3>4. QED
      BY <3>2, <3>3
  <2>2. CASE startup # "pending"
    BY <1>0, <1>5, <2>2 DEF BindFails, LifecycleInv, NothingSurvivesShutdown,
       ServesOnlyWhileOpen, activeRequests
  <2>3. QED
    BY <2>1, <2>2
<1>6. CASE ListeningCallback
  <2>1. CASE shutdownRequested
    <3>1. CloseLateServer
      BY <1>6, <2>1 DEF ListeningCallback
    <3>2. QED
      BY <1>0, <2>1, <3>1 DEF CloseLateServer, DestroyTraffic, LifecycleInv,
         NothingSurvivesShutdown, ServesOnlyWhileOpen, activeRequests
  <2>2. CASE ~shutdownRequested /\ Stop("listening")
    BY <1>0, <1>6, <2>2, ShutdownEffect DEF Stop, LifecycleInv
  <2>3. CASE ~shutdownRequested /\ ~Stop("listening")
    BY <1>0, <1>6, <2>3 DEF ListeningCallback, LifecycleInv,
       NothingSurvivesShutdown, ServesOnlyWhileOpen
  <2>4. QED
    BY <2>1, <2>2, <2>3
<1>7. CASE ServerCloses
  BY <1>0, <1>7 DEF ServerCloses, requestVars, LifecycleInv,
     NothingSurvivesShutdown, ServesOnlyWhileOpen, activeRequests
<1>8. QED
  BY <1>1, <1>2, <1>3, <1>4, <1>5, <1>6, <1>7 DEF LifecycleStep

\* A handler other than Dispatch leaves the reservations alone and never turns
\* a request into one that has an upstream request.
LEMMA QuietHandlers ==
    ASSUME TypeOK, NEW r \in Requests, Handler(r), ~Dispatch(r)
    PROVE  /\ UNCHANGED <<held, sent, count>>
           /\ \A q \in Requests \ {r} : phase'[q] = phase[q]
           /\ phase[r] \in Upstream \cup {"finished"}
                => phase'[r] \in Upstream \cup {"finished"}
           /\ activeRequests' \subseteq activeRequests
           /\ activeRequests' \ doomed' \subseteq activeRequests \ doomed
<1> USE DEF TypeOK, Goto, activeRequests, Upstream
<1>1. CASE Accept(r) \/ BodyTooLarge(r) \/ BodyEnds(r)
  BY <1>1 DEF Accept, BodyTooLarge, BodyEnds
<1>2. CASE UpstreamResponds(r) \/ UpstreamEnds(r)
  BY <1>2 DEF UpstreamResponds, UpstreamEnds
<1>3. CASE UpstreamFails(r) \/ UpstreamClosed(r)
  BY <1>3 DEF UpstreamFails, UpstreamClosed
<1>4. CASE ClientLeaves(r) \/ SocketTornDown(r)
  BY <1>4 DEF ClientLeaves, SocketTornDown, ConnectionCloses
<1>5. QED
  BY <1>1, <1>2, <1>3, <1>4 DEF Handler

\* What a dispatch does to the reservations and to the upstream requests.
LEMMA DispatchEffect ==
    ASSUME TypeOK, NEW r \in Requests, Dispatch(r)
    PROVE  /\ phase[r] = "forwarding"
           /\ phase' = [phase EXCEPT ![r] = phase'[r]]
           /\ phase'[r] \in {"inflight", "finished"}
           /\ phase'[r] = "inflight" => ~shutdownRequested /\ ~expired'
           /\ UNCHANGED doomed
           /\ sent' = IF phase'[r] = "inflight" THEN sent \cup {r} ELSE sent
           /\ phase'[r] = "inflight" => Granted(TRUE) /\ Record(r)
           /\ UNCHANGED <<held, count>> \/ (Granted(TRUE) /\ Record(r))
<1> USE DEF TypeOK, Goto, Dispatch
<1>1. phase[r] = "forwarding" /\ UNCHANGED doomed
  OBVIOUS
<1>2. CASE conn[r] = "closed"
  BY <1>1, <1>2
<1>3. CASE /\ conn[r] # "closed"
           /\ Goto(r, "finished")
           /\ UNCHANGED <<held, sent, count>>
  BY <1>1, <1>3
<1>4. CASE /\ conn[r] # "closed"
           /\ Granted(TRUE)
           /\ Record(r)
           /\ MayStillSend(expired')
           /\ Goto(r, "inflight")
           /\ sent' = sent \cup {r}
  BY <1>1, <1>4 DEF MayStillSend
<1>5. CASE /\ conn[r] # "closed"
           /\ Granted(TRUE)
           /\ Record(r)
           /\ Goto(r, "finished")
           /\ UNCHANGED sent
  BY <1>1, <1>5
<1>6. QED
  BY <1>2, <1>3, <1>4, <1>5

\* A recorded reservation is a new one, so the counter stays exact.
LEMMA RecordCounts ==
    ASSUME IInv, NEW r \in Requests, phase[r] = "forwarding", Reserving,
           Granted(TRUE), Record(r)
    PROVE  /\ r \notin held
           /\ held' = held \cup {r}
           /\ count < Cap
           /\ count' = count + 1
           /\ count' = Cardinality(held')
           /\ count' <= Cap
<1>1. r \notin held
  BY DEF IInv, HeldAreDispatched, Upstream
<1>2. IsFiniteSet(held)
  BY FS_Subset, ProxyAssumption DEF IInv, TypeOK
<1>3. held' = held \cup {r} /\ count' = count + 1 /\ count < Cap
  BY DEF Record, Granted
<1>4. Cardinality(held') = Cardinality(held) + 1
  BY <1>1, <1>2, <1>3, FS_AddElement
<1>5. count = Cardinality(held)
  BY DEF IInv, SendsWithinBudget
<1>6. QED
  BY <1>1, <1>3, <1>4, <1>5, ProxyAssumption DEF IInv, TypeOK

LEMMA InvHandler ==
    ASSUME IInv, NEW r \in Requests, Handler(r)
    PROVE  /\ LifecycleInv'
           /\ HeldAreDispatched'
           /\ NothingSurvivesShutdown'
           /\ SendsWithinBudget'
           /\ ServesOnlyWhileOpen'
<1>0. TypeOK /\ held \in SUBSET Requests
  BY DEF IInv, TypeOK
<1>1. UNCHANGED <<listener, startup, shutdownRequested, shutdownPromise>>
  BY DEF Handler, Accept, BodyTooLarge, BodyEnds, Dispatch, UpstreamResponds,
     UpstreamEnds, UpstreamFails, UpstreamClosed, ClientLeaves, SocketTornDown,
     ConnectionCloses, lifecycle
<1>2. LifecycleInv' /\ ServesOnlyWhileOpen'
  <2>1. shutdownRequested => \A q \in Requests : conn'[q] = "open" => conn[q] = "open"
    <3>1. CASE Accept(r)
      BY <3>1 DEF Accept, IInv, ServesOnlyWhileOpen
    <3>2. CASE ClientLeaves(r) \/ SocketTornDown(r)
      BY <1>0, <3>2 DEF ClientLeaves, SocketTornDown, ConnectionCloses, TypeOK
    <3>3. CASE UpstreamClosed(r)
      BY <1>0, <3>3 DEF UpstreamClosed, TypeOK
    <3>4. CASE UNCHANGED conn
      BY <3>4
    <3>5. QED
      BY <3>1, <3>2, <3>3, <3>4 DEF Handler, BodyTooLarge, BodyEnds, Dispatch,
         UpstreamResponds, UpstreamEnds, UpstreamFails
  <2>2. QED
    BY <1>1, <2>1 DEF IInv, LifecycleInv, ServesOnlyWhileOpen
<1>3. CASE ~Dispatch(r)
  BY <1>0, <1>1, <1>2, <1>3, QuietHandlers DEF IInv, HeldAreDispatched,
     NothingSurvivesShutdown, SendsWithinBudget
<1>4. CASE Dispatch(r)
  <2>1. HeldAreDispatched'
    <3>1. held' \subseteq held \cup {r}
      <4>1. ASSUME Record(r) PROVE held' \subseteq held \cup {r}
        BY <4>1 DEF Record
      <4>2. QED
        BY <1>0, <1>4, <4>1, DispatchEffect
    <3>2. /\ \A q \in Requests \ {r} : phase'[q] = phase[q]
          /\ phase'[r] \in {"inflight", "finished"}
      BY <1>0, <1>4, DispatchEffect DEF TypeOK
    <3>3. QED
      BY <1>0, <3>1, <3>2 DEF IInv, HeldAreDispatched, Upstream
  <2>2. NothingSurvivesShutdown'
    BY <1>0, <1>1, <1>4, DispatchEffect DEF IInv, TypeOK,
       NothingSurvivesShutdown, activeRequests, Upstream
  <2>3. SendsWithinBudget'
    <3>1. SUFFICES ASSUME Reserving
                   PROVE  sent' \subseteq held' /\ count' = Cardinality(held')
                          /\ count' <= Cap
      BY DEF SendsWithinBudget
    <3>2. CASE UNCHANGED <<held, count>> /\ phase'[r] # "inflight"
      BY <1>0, <1>4, <3>1, <3>2, DispatchEffect DEF IInv, SendsWithinBudget
    <3>3. CASE Granted(TRUE) /\ Record(r)
      BY <1>0, <1>4, <3>1, <3>3, DispatchEffect, RecordCounts
         DEF IInv, SendsWithinBudget
    <3>4. QED
      BY <1>0, <1>4, <3>2, <3>3, DispatchEffect
  <2>4. QED
    BY <1>2, <2>1, <2>2, <2>3
<1>5. QED
  BY <1>3, <1>4

LEMMA IInvNext == IInv /\ [Next]_vars => IInv'
<1> SUFFICES ASSUME IInv, [Next]_vars PROVE IInv'
  OBVIOUS
<1>1. TypeOK'
  BY TypeNext DEF IInv
<1>2. CASE LifecycleStep
  <2>1. HeldAreDispatched' /\ SendsWithinBudget'
    BY <1>2, LifecycleKeepsReservations DEF IInv, HeldAreDispatched,
       SendsWithinBudget
  <2>2. QED
    BY <1>1, <1>2, <2>1, InvLifecycle DEF IInv
<1>3. CASE \E r \in Requests : Handler(r)
  BY <1>1, <1>3, InvHandler DEF IInv
<1>4. CASE UNCHANGED vars
  BY <1>1, <1>4 DEF IInv, vars, lifecycle, requestVars, LifecycleInv,
     HeldAreDispatched, NothingSurvivesShutdown, SendsWithinBudget,
     ServesOnlyWhileOpen, activeRequests
<1>5. QED
  BY <1>2, <1>3, <1>4 DEF Next, LifecycleStep

THEOREM Invariance == Spec => []IInv
<1>1. QED
  BY IInvInit, IInvNext, PTL DEF Spec

\* After a requested shutdown every upstream request left was destroyed.
THEOREM ShutdownIsFinal == Spec => []NothingSurvivesShutdown
<1>1. IInv => NothingSurvivesShutdown
  BY DEF IInv
<1>2. QED
  BY <1>1, Invariance, PTL

\* The parent's budget holds for every cap and every number of requests.
THEOREM Budget == Spec => []SendsWithinBudget
<1>1. IInv => SendsWithinBudget
  BY DEF IInv
<1>2. QED
  BY <1>1, Invariance, PTL

\* The endpoint serves only between a resolved startup and a requested shutdown,
\* however late the bind completes, and no connection outlives the shutdown.
THEOREM ServiceIsOwned == Spec => []ServesOnlyWhileOpen
<1>1. IInv => ServesOnlyWhileOpen
  BY DEF IInv
<1>2. QED
  BY <1>1, Invariance, PTL

-----------------------------------------------------------------------------
\* Refinement: with a reservation function the proxy implements DispatchGate.

LEMMA GateInitial == Init => Gate!GateInit
  BY DEF Init, Gate!GateInit

LEMMA GateStep ==
    ASSUME Reserving
    PROVE  IInv /\ [Next]_vars => [Gate!GateNext]_(Gate!gateVars)
<1> SUFFICES ASSUME IInv, [Next]_vars
             PROVE  [Gate!GateNext]_(Gate!gateVars)
  OBVIOUS
<1> USE DEF Gate!GateNext, Gate!gateVars
<1>0. TypeOK /\ shutdownRequested \in BOOLEAN
  BY DEF IInv, TypeOK
<1>1. CASE LifecycleStep
  <2>1. UNCHANGED <<held, sent, count>>
    BY <1>1, LifecycleKeepsReservations
  <2>2. shutdownRequested' \in {shutdownRequested, TRUE}
    BY <1>1 DEF LifecycleStep, SignalAborts, ClockExpires, DeadlineTimer,
       OwnerShutdown, BindSucceeds, BindFails, ListeningCallback, ServerCloses,
       CloseLateServer, Stop, Shutdown
  <2>3. QED
    BY <1>0, <2>1, <2>2 DEF Gate!Close
<1>2. ASSUME NEW r \in Requests, Handler(r)
      PROVE  [Gate!GateNext]_(Gate!gateVars)
  <2>1. UNCHANGED shutdownRequested
    BY <1>2 DEF Handler, Accept, BodyTooLarge, BodyEnds, Dispatch,
       UpstreamResponds, UpstreamEnds, UpstreamFails, UpstreamClosed,
       ClientLeaves, SocketTornDown, ConnectionCloses, lifecycle
  <2>2. CASE ~Dispatch(r)
    BY <1>0, <1>2, <2>1, <2>2, QuietHandlers
  <2>3. CASE Dispatch(r) /\ phase'[r] = "inflight"
    <3>1. /\ phase[r] = "forwarding"
          /\ Granted(TRUE) /\ Record(r)
          /\ sent' = sent \cup {r}
          /\ ~shutdownRequested
      BY <1>0, <2>3, DispatchEffect
    <3>2. Gate!Grant(r)
      BY <3>1, RecordCounts DEF Gate!Grant
    <3>3. QED
      BY <2>1, <3>1, <3>2 DEF Gate!ReserveAndSend
  <2>4. CASE Dispatch(r) /\ phase'[r] # "inflight"
    <3>1. UNCHANGED sent
      BY <1>0, <2>4, DispatchEffect
    <3>2. CASE UNCHANGED <<held, count>>
      BY <2>1, <3>1, <3>2
    <3>3. CASE Granted(TRUE) /\ Record(r)
      <4>1. phase[r] = "forwarding"
        BY <1>0, <2>4, DispatchEffect
      <4>2. Gate!Grant(r)
        BY <3>3, <4>1, RecordCounts DEF Gate!Grant
      <4>3. QED
        BY <2>1, <3>1, <4>2 DEF Gate!Reserve
    <3>4. QED
      BY <1>0, <2>4, <3>2, <3>3, DispatchEffect
  <2>5. QED
    BY <2>2, <2>3, <2>4
<1>3. CASE UNCHANGED vars
  BY <1>3 DEF vars, lifecycle, requestVars
<1>4. QED
  BY <1>1, <1>2, <1>3 DEF Next, LifecycleStep

\* The proxy implements the dispatch gate: every send takes a reservation of
\* its own while the budget lasts, and none leaves after the shutdown.
THEOREM GateRefined ==
    ASSUME Reserving
    PROVE  Spec => GateKept
<1>1. IInv /\ [Next]_vars => [Gate!GateNext]_(Gate!gateVars)
  BY GateStep
<1>2. QED
  BY <1>1, GateInitial, Invariance, PTL DEF Spec, GateKept, Gate!GateSpec

-----------------------------------------------------------------------------
\* The launcher.


Types ==
    /\ session \in Sessions
    /\ stage \in {"new", "starting", "running", "waiting", "draining", "settled"}
    /\ timers \in SUBSET {"deadline", "grace"}
    /\ stopped \in {"none", "124", "130", "143"}
    /\ group \in SUBSET {"leader", "rest"}
    /\ childExit \in {"none", "0", "2", "signal", "error"}

\* What each stage of the launcher holds.
Stages ==
    /\ stage \in {"new", "starting"} =>
          /\ timers = {} /\ handlers = {} /\ group = {}
          /\ stopped = "none" /\ childExit = "none" /\ runner = "none"
    /\ stage = "new" => proxy = "none"
    /\ stage = "waiting" => timers \subseteq {"grace"} /\ ~Running /\ stopped # "none"
    /\ stage = "draining" =>
          /\ timers = {} /\ handlers = {} /\ ~Running /\ proxy = "stopped"
          /\ stopped # "none" => group = {}
    /\ stage = "settled" =>
          /\ timers = {} /\ handlers = {} /\ proxy \in {"none", "stopped"}
          /\ result # "killed" => ~Running /\ (stopped # "none" => group = {})
    /\ stage # "settled" => result = "none"

\* A stop that was asked for shuts the proxy down, and its grace period ends
\* whatever is left of the group.
Stopping ==
    /\ stopped # "none" => proxy = "stopped" /\ ("grace" \in timers \/ group = {} \/ stage = "settled")
    /\ "grace" \in timers => stopped # "none"

\* How far the runner came, what it left, and how it ended.
Progress ==
    /\ Running => childExit = "none"
    /\ runner \in {"persisted", "exported"} => file = "decision"
    /\ runner = "exported" => exported = session.github
    /\ childExit = "0" => runner = "exported"
    /\ result = "0" => stopped = "none" /\ childExit = "0"

LauncherInv == Types /\ Stages /\ Stopping /\ Progress

-----------------------------------------------------------------------------
LEMMA LauncherInitInv == InitLauncher => LauncherInv
  BY DEF InitLauncher, LauncherInv, Types, Stages, Stopping, Progress, Running

LEMMA StartingInv == ASSUME LauncherInv, Starting PROVE LauncherInv'
<1> USE DEF LauncherInv, runnerVars, output
<1>1. CASE Refuse
  BY <1>1 DEF Refuse, Types, Stages, Stopping, Progress, Running
<1>2. CASE StartProxy
  BY <1>2 DEF StartProxy, Types, Stages, Stopping, Progress, Running
<1>3. CASE ProxyFails
  BY <1>3 DEF ProxyFails, Types, Stages, Stopping, Progress, Running
<1>4. CASE Launch
  BY <1>4 DEF Launch, Types, Stages, Stopping, Progress, Running
<1>5. QED
  BY <1>1, <1>2, <1>3, <1>4 DEF Starting

\* Steps of the runner, of its descendants and of another program.
LEMMA RunnerInv == ASSUME LauncherInv, Runner \/ Intrude PROVE LauncherInv'
<1>1. CASE Review \/ ValidateDecision
  BY <1>1 DEF Review, ValidateDecision, RunnerStep, output, LauncherInv, Types, Stages, Stopping,
     Progress, Running
<1>2. CASE Persist
  BY <1>2 DEF Persist, RunnerStep, LauncherInv, Types, Stages, Stopping, Progress, Running
<1>3. CASE Export
  BY <1>3 DEF Export, RunnerStep, LauncherInv, Types, Stages, Stopping, Progress, Running
<1>4. CASE RunnerEnds
  <2>1. PICK code \in {"0", "2", "signal"} : ChildEnds(code) /\ (code = "0" => runner = "exported")
    BY <1>4 DEF RunnerEnds
  <2>2. /\ Running /\ group' = group \ {"leader"} /\ childExit' = code
        /\ UNCHANGED <<session, stage, timers, handlers, stopped, proxy, runner, file, exported, result>>
    BY <2>1 DEF ChildEnds, output
  <2>3. Types' /\ Stages' /\ Stopping'
    BY <2>2 DEF LauncherInv, Types, Stages, Stopping, Running
  <2>4. Progress'
    BY <2>1, <2>2 DEF LauncherInv, Progress, Running
  <2>5. QED
    BY <2>3, <2>4 DEF LauncherInv
<1>5. CASE Descend \/ RestEnds
  <2>0. group \in SUBSET {"leader", "rest"}
    BY DEF LauncherInv, Types
  <2>1. /\ UNCHANGED <<session, stage, timers, handlers, stopped, proxy, runner, childExit,
                       file, exported, result>>
        /\ group' \in SUBSET {"leader", "rest"} /\ (Running' <=> Running)
        /\ group = {} => group' = {}
    <3>1. CASE Descend
      BY <2>0, <3>1 DEF Descend, output, Running
    <3>2. CASE RestEnds
      BY <2>0, <3>2 DEF RestEnds, output, Running
    <3>3. QED
      BY <1>5, <3>1, <3>2
  <2>2. Types' /\ Stages' /\ Stopping' /\ Progress'
    BY <1>5, <2>1 DEF Descend, RestEnds, LauncherInv, Types, Stages, Stopping, Progress
  <2>3. QED
    BY <2>2 DEF LauncherInv
<1>6. CASE Intrude
  BY <1>6 DEF Intrude, runnerVars, LauncherInv, Types, Stages, Stopping, Progress, Running
<1>7. QED
  BY <1>1, <1>2, <1>3, <1>4, <1>5, <1>6 DEF Runner

\* A stop: the first one decides, and starts the grace period.
LEMMA StopInv ==
    ASSUME LauncherInv, NEW code \in {"124", "130", "143"}, StopRunner(code), NEW rest \in SUBSET timers,
           timers' = Grace(rest), "grace" \in timers => "grace" \in rest, handlers' \subseteq handlers,
           stage \in {"running", "waiting"},
           UNCHANGED <<session, stage, runner, output, result>>
    PROVE  LauncherInv'
<1>1. UNCHANGED <<file, exported>>
  BY DEF output
<1>2. CASE stopped # "none"
  <2>1. UNCHANGED <<stopped, proxy, group, childExit>> /\ timers' = rest
    BY <1>2 DEF StopRunner, Grace
  <2>2. QED
    BY <1>1, <2>1 DEF LauncherInv, Types, Stages, Stopping, Progress, Running
<1>3. CASE stopped = "none"
  <2>1. stopped' = code /\ proxy' = "stopped" /\ timers' = rest \cup {"grace"}
    BY <1>3 DEF StopRunner, Grace
  <2>2. PICK survivors \in SUBSET group :
           /\ group' = survivors
           /\ childExit' = IF "leader" \in group \ survivors THEN "signal" ELSE childExit
    BY <1>3 DEF StopRunner, Terminate
  <2>3. stage = "running"
    BY <1>3 DEF LauncherInv, Stages
  <2>4. Types' /\ Stages' /\ Stopping'
    BY <2>1, <2>2, <2>3 DEF LauncherInv, Types, Stages, Stopping
  <2>5. Progress'
    BY <1>1, <2>2, <2>3 DEF LauncherInv, Stages, Progress, Running
  <2>6. QED
    BY <2>4, <2>5 DEF LauncherInv
<1>4. QED
  BY <1>2, <1>3

LEMMA StopsInv == ASSUME LauncherInv, Signals \/ Deadline PROVE LauncherInv'
<1>1. stage \in {"running", "waiting"}
  BY DEF Signals, Interrupt, Deadline, LauncherInv, Types, Stages
<1>2. CASE Deadline
  BY <1>1, <1>2, StopInv DEF Deadline
<1>3. ASSUME NEW signal, NEW code \in {"130", "143"}, Interrupt(signal, code) PROVE LauncherInv'
  BY <1>1, <1>3, StopInv DEF Interrupt
<1>4. QED
  BY <1>2, <1>3 DEF Signals

LEMMA EndingInv == ASSUME LauncherInv, Ending PROVE LauncherInv'
<1>1. CASE EndGrace
  <2>1. stage \in {"running", "waiting"}
    BY <1>1 DEF EndGrace, LauncherInv, Types, Stages
  <2>2. /\ timers' = timers \ {"grace"} /\ group' = {}
        /\ childExit' = IF Running THEN "signal" ELSE childExit
        /\ UNCHANGED <<session, stage, handlers, stopped, proxy, runner, file, exported, result>>
    BY <1>1 DEF EndGrace, Escalate, output, Running
  <2>3. QED
    BY <2>1, <2>2 DEF LauncherInv, Types, Stages, Stopping, Progress, Running
<1>2. CASE Finish
  BY <1>2 DEF Finish, runnerVars, output, LauncherInv, Types, Stages, Stopping, Progress, Running
<1>3. CASE StopCompletes
  BY <1>3 DEF StopCompletes, runnerVars, output, LauncherInv, Types, Stages, Stopping, Progress, Running
<1>4. CASE Resolve
  <2>1. /\ stage = "draining" /\ stage' = "settled" /\ result' = ExitCode
        /\ UNCHANGED <<session, timers, handlers, stopped, proxy, group, runner, childExit, file, exported>>
    BY <1>4 DEF Resolve, runnerVars, output
  <2>2. ExitCode = "0" => stopped = "none" /\ childExit = "0"
    BY DEF ExitCode, LauncherInv, Types
  <2>3. QED
    BY <2>1, <2>2 DEF LauncherInv, Types, Stages, Stopping, Progress, Running
<1>5. QED
  BY <1>1, <1>2, <1>3, <1>4 DEF Ending

LEMMA DieInv == ASSUME LauncherInv, NEW signal, Die(signal) PROVE LauncherInv'
  BY DEF Die, runnerVars, output, LauncherInv, Types, Stages, Stopping, Progress, Running

LEMMA LauncherStepInv == ASSUME LauncherInv, [LauncherNext]_launcherVars PROVE LauncherInv'
<1>1. CASE UNCHANGED launcherVars
  BY <1>1 DEF launcherVars, runnerVars, output, LauncherInv, Types, Stages, Stopping, Progress, Running
<1>2. QED
  BY <1>1, StartingInv, RunnerInv, StopsInv, EndingInv, DieInv DEF LauncherNext

LEMMA LauncherInvariance == LauncherSpec => []LauncherInv
  BY LauncherInitInv, LauncherStepInv, PTL DEF LauncherSpec

-----------------------------------------------------------------------------
\* Exit code 0 of the launcher means that the runner wrote and exported its
\* decision and that nothing had stopped the session.
THEOREM ZeroIsPublished == LauncherSpec => []ZeroMeansPublished
<1>1. LauncherInv => ZeroMeansPublished
  BY DEF LauncherInv, Progress, ZeroMeansPublished
<1>2. QED
  BY <1>1, LauncherInvariance, PTL

\* A launcher that ends by itself leaves no proxy, timer, handler or runner,
\* and after a stop nothing of the runner's group.
THEOREM NothingRemains == LauncherSpec => []NothingSupervisedRemains
<1>1. LauncherInv => NothingSupervisedRemains
  BY DEF LauncherInv, Stages, Stopping, Running, NothingSupervisedRemains
<1>2. QED
  BY <1>1, LauncherInvariance, PTL

-----------------------------------------------------------------------------
\* Of at most two limits, one is the least and within both.
LEMMA LeastOfTwo ==
    ASSUME NEW S \in Optional(Nat), NEW T \in Optional(Nat), NEW x \in S \cup T
    PROVE  \E y \in Least(S \cup T) : y <= x
<1>1. S \in SUBSET Nat /\ T \in SUBSET Nat
      /\ (\A a, b \in S : a = b) /\ (\A a, b \in T : a = b)
  BY DEF Optional
<1>2. CASE \A y \in S \cup T : x <= y
  <2>1. x \in Least(S \cup T) /\ x <= x
    BY <1>1, <1>2 DEF Least
  <2>2. QED
    BY <2>1
<1>3. CASE \E y \in S \cup T : ~(x <= y)
  <2>1. PICK y \in S \cup T : ~(x <= y)
    BY <1>3
  <2>2. y <= x /\ y \in Nat /\ x \in Nat
    BY <1>1, <2>1
  <2>3. \A z \in S \cup T : y <= z
    BY <1>1, <2>1, <2>2
  <2>4. y \in Least(S \cup T)
    BY <2>3 DEF Least
  <2>5. QED
    BY <2>2, <2>4
<1>4. QED
  BY <1>2, <1>3

\* A session has one limit.
LEMMA OneLimit ==
    ASSUME NEW s \in Session, NEW x \in SessionLimit(s), NEW y \in SessionLimit(s)
    PROVE  x = y
<1>1. /\ s.cliLimit \in Optional(Nat \cup {NaN})
      /\ s.recorded \in Optional(Nat \cup {NaN})
      /\ s.callerLimit \in Optional(Nat \cup {NaN})
  BY DEF Session, Limit
<1>2. x \in Sought(s) /\ y \in Sought(s)
  BY DEF SessionLimit
<1>3. CASE s.callerLimit # {}
  BY <1>1, <1>2, <1>3 DEF Sought, Optional
<1>4. CASE s.callerLimit = {} /\ Selected(s) = {}
  BY <1>2, <1>4 DEF Sought
<1>5. CASE s.callerLimit = {} /\ Selected(s) # {}
  <2>1. x \in Selected(s) /\ y \in Selected(s)
    BY <1>2, <1>5 DEF Sought
  <2>2. CASE NaN \in s.cliLimit
    BY <2>1, <2>2 DEF Selected
  <2>3. CASE NaN \notin s.cliLimit
    <3>1. s.cliLimit \cup s.recorded \subseteq Int
      BY <1>1 DEF Optional, NaN
    <3>2. x \in Int /\ y \in Int /\ x <= y /\ y <= x
      BY <2>1, <2>3, <3>1 DEF Selected, Least
    <3>3. QED
      BY <3>2
  <2>4. QED
    BY <2>2, <2>3
<1>6. QED
  BY <1>3, <1>4, <1>5

\* A session that started had passed the launcher's checks; what it is given
\* does not change.
Checked ==
    proxy # "none" \/ stage \notin {"new", "settled"} =>
        RecordedOk(session) /\ SessionLimit(session) # {}

LEMMA SessionKept == ASSUME [LauncherNext]_launcherVars PROVE session' = session
  BY DEF LauncherNext, launcherVars, Starting, Refuse, StartProxy, ProxyFails, Launch,
     Runner, Review, ValidateDecision, Persist, Export, RunnerStep, RunnerEnds, ChildEnds,
     Descend, RestEnds, Intrude, Signals, Interrupt, Deadline, Die, Ending, EndGrace,
     Finish, StopCompletes, Resolve

LEMMA CheckedNext ==
    ASSUME LauncherInv, Checked, [LauncherNext]_launcherVars
    PROVE  Checked'
<1>1. session' = session
  BY SessionKept
<1>2. SessionLimit(session') = SessionLimit(session) /\ (RecordedOk(session') <=> RecordedOk(session))
  BY <1>1
<1>3. CASE StartProxy
  BY <1>1, <1>2, <1>3 DEF StartProxy, Launchable, Checked
<1>4. CASE Signals \/ Deadline
  <2>1. stage \notin {"new", "settled"}
    BY <1>4 DEF Signals, Interrupt, Deadline, LauncherInv, Stages
  <2>2. QED
    BY <1>2, <2>1 DEF Checked
<1>5. CASE ~StartProxy /\ ~Signals /\ ~Deadline
  <2>1. /\ proxy' # "none" => proxy # "none" \/ stage \notin {"new", "settled"}
        /\ stage' \notin {"new", "settled"} => stage \notin {"new", "settled"}
    BY <1>5 DEF LauncherNext, launcherVars, Starting, Refuse, ProxyFails, Launch,
       Runner, Review, ValidateDecision, Persist, Export, RunnerStep, RunnerEnds, ChildEnds,
       Descend, RestEnds, Intrude, Die, Ending, EndGrace, Finish, StopCompletes, Resolve
  <2>2. QED
    BY <1>2, <2>1 DEF Checked
<1>6. QED
  BY <1>3, <1>4, <1>5

\* Every session that starts has one limit, within those of its command line
\* and its recorded request; where the command line's is no number, it is the
\* limit its caller set.
THEOREM LimitsHold == LauncherSpec => []DeadlineNotExtended
<1>1. LauncherInv /\ Checked => DeadlineNotExtended
  <2>1. SUFFICES ASSUME LauncherInv, Checked, proxy # "none"
                 PROVE  \E l \in SessionLimit(session) :
                            /\ SessionLimit(session) = {l} /\ l \in 1 .. MaxTimeout
                            /\ IF NaN \in session.cliLimit THEN session.callerLimit = {l}
                               ELSE \A x \in session.cliLimit \cup session.recorded : l <= x
    BY DEF DeadlineNotExtended
  <2>2. session \in Session
    BY <2>1, LauncherAssumption DEF LauncherInv, Types
  <2>3. PICK l \in SessionLimit(session) : TRUE
    BY <2>1 DEF Checked
  <2>4. SessionLimit(session) = {l}
    BY <2>2, <2>3, OneLimit
  <2>5. /\ l \in Sought(session) /\ l \in 1 .. MaxTimeout /\ l \in Nat /\ l # NaN
        /\ \A y \in Selected(session) \ {NaN} : l <= y
    BY <2>3, LauncherAssumption DEF SessionLimit, NaN
  <2>6. /\ session.cliLimit \in Optional(Nat \cup {NaN})
        /\ session.recorded \in Optional(Nat \cup {NaN})
        /\ session.callerLimit \in Optional(Nat \cup {NaN})
    BY <2>2 DEF Session, Limit
  <2>7. CASE NaN \in session.cliLimit
    <3>1. Selected(session) = {NaN}
      BY <2>7 DEF Selected
    <3>2. l \in session.callerLimit
      BY <2>5, <3>1 DEF Sought
    <3>3. QED
      BY <2>4, <2>5, <2>6, <2>7, <3>2 DEF Optional
  <2>8. CASE NaN \notin session.cliLimit
    <3>1. SUFFICES ASSUME NEW x \in session.cliLimit \cup session.recorded
                   PROVE  l <= x
      BY <2>3, <2>4, <2>5, <2>8
    <3>2. Selected(session) = Least(session.cliLimit \cup session.recorded)
      BY <2>8 DEF Selected
    <3>3. session.cliLimit \in Optional(Nat)
      BY <2>6, <2>8 DEF Optional
    <3>4. session.recorded \in Optional(Nat)
      <4>1. session.recorded \subseteq 1 .. MaxTimeout
        BY <2>1 DEF Checked, RecordedOk
      <4>2. QED
        BY <2>6, <4>1, LauncherAssumption DEF Optional
    <3>5. PICK y \in Selected(session) : y <= x
      BY <3>2, <3>3, <3>4, LeastOfTwo
    <3>6. y \in Nat /\ x \in Nat
      BY <3>2, <3>3, <3>4, <3>5 DEF Least, Optional
    <3>7. QED
      BY <2>5, <3>5, <3>6 DEF NaN
  <2>9. QED
    BY <2>7, <2>8
<1>2. LauncherInv /\ Checked /\ [LauncherNext]_launcherVars => Checked'
  BY CheckedNext
<1>3. InitLauncher => Checked
  BY DEF InitLauncher, Checked
<1>4. QED
  BY <1>1, <1>2, <1>3, LauncherInvariance, PTL DEF LauncherSpec
=============================================================================
