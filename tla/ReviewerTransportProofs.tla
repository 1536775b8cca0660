----------------------- MODULE ReviewerTransportProofs -----------------------
(***************************************************************************)
(* TLAPS proofs about ReviewerTransport, for every set of calls: its       *)
(* types, that a call that ended leaves nothing armed, that a request ends *)
(* with its call, where credentials and budgets go, and that the call      *)
(* implements the safety of BoundedCall.                                   *)
(***************************************************************************)
EXTENDS ReviewerTransport, TLAPS

\* What is armed, under way and aborted in each phase of a call.
RaceInv ==
    /\ phase = "new" => armed = {} /\ upstream = "none"
    /\ phase = "custom" => armed = OuterHandles /\ upstream = "none"
    /\ phase \in Waits => armed = OuterHandles \cup SignalHandles \cup RaceHandles
    /\ phase = "fetching" => upstream = "sent"
    /\ phase \in {"reading", "readingError"} => upstream = "body"
    /\ phase # "settled" => aborted = {} /\ result = NoResult

IInv ==
    /\ TypeOK
    /\ RaceInv
    /\ SettledQuiet
    /\ RequestEndsWithCall
    /\ CredentialScope
    /\ RecordedBudgetApplied

-----------------------------------------------------------------------------
\* What the selection returns.

LEMMA DispatchTypes ==
    ASSUME NEW sources \in Sources, NEW scope \in Scopes,
           NEW d \in PrepareGeminiDispatch(sources, scope)
    PROVE  /\ d.to \in {"proxy", "studio", "vertex"}
           /\ d.path \in {"studio", "vertex"}
           /\ d.credential \in {"none", "apiKey", "bearer"}
<1>1. CASE scope.proxyUrl # "absent"
  <2>1. PICK p \in ProxyPath(scope) : d = [to |-> "proxy", path |-> p, credential |-> "none"]
    BY <1>1 DEF PrepareGeminiDispatch
  <2>2. scope.proxyMode \in SUBSET Modes
    BY DEF Scopes, Optional
  <2>3. CASE scope.proxyMode = {}
    BY <2>1, <2>3 DEF ProxyPath
  <2>4. CASE scope.proxyMode = {"other"}
    BY <2>1, <2>4 DEF ProxyPath
  <2>5. CASE scope.proxyMode # {} /\ scope.proxyMode # {"other"}
    <3>1. p \in scope.proxyMode
      BY <2>5 DEF ProxyPath
    <3>2. scope.proxyMode \in Optional(Modes)
      BY DEF Scopes
    <3>3. p # "other"
      BY <3>1, <3>2, <2>5 DEF Optional
    <3>4. p \in {"studio", "vertex"}
      BY <3>1, <3>3, <2>2 DEF Modes
    <3>5. QED
      BY <2>1, <3>4
  <2>6. QED
    BY <2>3, <2>4, <2>5
<1>2. CASE scope.proxyUrl = "absent"
  <2> PICK c \in ResolveAuthCredentials(sources) : \E base \in SelectDirect(c, scope) :
            d = [to |-> base, path |-> base, credential |-> c]
    BY <1>2 DEF PrepareGeminiDispatch
  <2>1. PICK base \in SelectDirect(c, scope) : d = [to |-> base, path |-> base, credential |-> c]
    OBVIOUS
  <2>2. c \in {"apiKey", "bearer"}
    BY DEF ResolveAuthCredentials
  <2>3. base \in {"studio", "vertex"}
    BY DEF SelectDirect, ResolveProviderBaseUrl
  <2>4. QED
    BY <2>1, <2>2, <2>3
<1>3. QED
  BY <1>1, <1>2

\* A credential is dispatched to the endpoint its own rules select, without a
\* proxy, and only when the caller names no other endpoint.
LEMMA DispatchScope ==
    ASSUME NEW sources \in Sources, NEW scope \in Scopes,
           NEW d \in PrepareGeminiDispatch(sources, scope)
    PROVE  /\ d.credential = "apiKey" => d.to = "studio"
           /\ d.credential = "bearer" =>
                 d.to = IF scope.project = "valid" THEN "vertex" ELSE "studio"
           /\ d.credential # "none" =>
                 scope.proxyUrl = "absent" /\ scope.baseUrl \in {"absent", d.to}
           /\ d.to = "proxy" => d.credential = "none"
<1>1. CASE scope.proxyUrl # "absent"
  <2>1. PICK p \in ProxyPath(scope) : d = [to |-> "proxy", path |-> p, credential |-> "none"]
    BY <1>1 DEF PrepareGeminiDispatch
  <2>2. d.credential = "none"
    BY <2>1
  <2>3. QED
    BY <2>2
<1>2. CASE scope.proxyUrl = "absent"
  <2> PICK c \in ResolveAuthCredentials(sources) : \E base \in SelectDirect(c, scope) :
            d = [to |-> base, path |-> base, credential |-> c]
    BY <1>2 DEF PrepareGeminiDispatch
  <2>1. PICK base \in SelectDirect(c, scope) : d = [to |-> base, path |-> base, credential |-> c]
    OBVIOUS
  <2>2. d.to = base /\ d.credential = c
    BY <2>1
  <2>3. scope.baseUrl \in {"absent", base} /\ base \in ResolveProviderBaseUrl(c, scope)
    BY DEF SelectDirect
  <2>4. c = "apiKey" => base = "studio"
    BY <2>3 DEF ResolveProviderBaseUrl
  <2>5. ASSUME c = "bearer"
        PROVE  base = IF scope.project = "valid" THEN "vertex" ELSE "studio"
    <3>1. CASE scope.project \in {"valid", "badName"}
      BY <2>3, <2>5, <3>1 DEF ResolveProviderBaseUrl
    <3>2. CASE scope.project \notin {"valid", "badName"}
      BY <2>3, <2>5, <3>2 DEF ResolveProviderBaseUrl
    <3>3. QED
      BY <3>1, <3>2
  <2>6. base # "proxy"
    BY <2>3 DEF ResolveProviderBaseUrl
  <2>7. QED
    BY <1>2, <2>2, <2>3, <2>4, <2>5, <2>6
<1>3. QED
  BY <1>1, <1>2

LEMMA BudgetTypes ==
    ASSUME NEW reviewer \in Settings, NEW options \in Overrides,
           NEW b \in ResolveReviewerThinkingBudget(reviewer, options)
    PROVE  b.budget \in Int
<1> DEFINE R == RecordedRoute(reviewer, options)
           E == EffortRoute(reviewer, options)
           O == OptionRoute(reviewer, options)
<1>1. R \subseteq Int /\ O \subseteq Int
  BY DEF RecordedRoute, OptionRoute, Settings, Overrides, Optional, Budgets
<1>2. E \subseteq Int
  <2>1. \A e : EffortBudget(e) \subseteq Int
    BY DEF EffortBudget
  <2>2. QED
    BY <2>1 DEF EffortRoute
<1>3. \/ \E x \in R : b = [budget |-> x, explicit |-> TRUE]
      \/ \E x \in E \cup O : b = [budget |-> x, explicit |-> FALSE]
  BY DEF ResolveReviewerThinkingBudget
<1>4. QED
  BY <1>1, <1>2, <1>3

\* With the provider recorded, the recorded budget is the only one there is.
LEMMA BudgetIsRecorded ==
    ASSUME NEW reviewer \in Settings, NEW options \in Overrides,
           reviewer.provider = "gemini",
           NEW b \in ResolveReviewerThinkingBudget(reviewer, options)
    PROVE  /\ reviewer.budget = {b.budget}
           /\ ValidBudget(reviewer.model, b.budget)
           /\ options.effort = {} /\ reviewer.effort = {}
<1>1. EffortRoute(reviewer, options) = {} /\ OptionRoute(reviewer, options) = {}
  BY DEF EffortRoute, OptionRoute
<1>2. PICK x \in RecordedRoute(reviewer, options) : b = [budget |-> x, explicit |-> TRUE]
  BY <1>1 DEF ResolveReviewerThinkingBudget
<1>3. b.budget = x
  BY <1>2
<1>4. /\ x \in reviewer.budget /\ ValidBudget(reviewer.model, x)
      /\ options.effort = {} /\ reviewer.effort = {}
  BY DEF RecordedRoute
<1>5. \A y \in reviewer.budget : y = x
  BY <1>4 DEF Settings, Optional
<1>6. QED
  BY <1>3, <1>4, <1>5

-----------------------------------------------------------------------------
\* The invariant, action by action.

\* The parts of the invariant that only speak of the call and its dispatch.
DispatchInv == CredentialScope /\ RecordedBudgetApplied

LEMMA HandlesTyped ==
    /\ OuterHandles \subseteq Handles /\ RaceHandles \subseteq Handles
    /\ SignalHandles \subseteq Handles
    /\ EndOuter(Handles) = {}
  BY DEF OuterHandles, RaceHandles, SignalHandles, Handles, EndOuter, CleanupSignals, EndRace

LEMMA Ended ==
    ASSUME armed \subseteq Handles
    PROVE  EndOuter(armed) = {}
  BY DEF Handles, EndOuter, CleanupSignals, EndRace

LEMMA LaterTypes ==
    ASSUME NEW p \in Later(passed)
    PROVE  p \in Clocks /\ passed \subseteq p
  BY DEF Later

LEMMA InitInv == Init => IInv
<1> SUFFICES ASSUME Init PROVE IInv
  OBVIOUS
<1> USE DEF Init
<1>1. TypeOK
  <2>1. call \in Call /\ passed \in Clocks
    BY CallsAssumption DEF Clocks
  <2>2. dispatch \in [to: {"none", "proxy", "studio", "vertex"}, path: {"none", "studio", "vertex"},
                      credential: {"none", "apiKey", "bearer"}, budget: Int]
    BY DEF NoDispatch
  <2>3. result \in [kind: {"none", "decision", "timedOut", "failed"}, passed: Clocks]
    BY DEF NoResult, Clocks
  <2>4. QED
    BY <2>1, <2>2, <2>3 DEF TypeOK
<1>2. RaceInv
  BY DEF RaceInv, Waits
<1>3. SettledQuiet /\ RequestEndsWithCall
  BY DEF SettledQuiet, RequestEndsWithCall
<1>4. dispatch.to = "none" /\ dispatch.credential = "none"
  BY DEF NoDispatch
<1>5. CredentialScope /\ RecordedBudgetApplied
  BY <1>4 DEF CredentialScope, RecordedBudgetApplied
<1>6. QED
  BY <1>1, <1>2, <1>3, <1>5 DEF IInv

\* What a step that ends the call does, and what it must not leave behind.
LEMMA SettleInv ==
    ASSUME IInv, phase # "settled",
           NEW kind \in {"decision", "timedOut", "failed"}, NEW p \in Later(passed), Settle(kind, p),
           UNCHANGED call,
           aborted' \in SUBSET {"caller", "timeout", "request"},
           upstream' \in {"none", "sent", "body", "ended", "cancelled"},
           upstream' \in {"sent", "body"} => "inner" \in p
    PROVE  /\ phase' = "settled" /\ armed' = {} /\ passed' \in Clocks
           /\ result' \in [kind: {"none", "decision", "timedOut", "failed"}, passed: Clocks]
           /\ RaceInv' /\ SettledQuiet' /\ RequestEndsWithCall'
<1>1. p \in Clocks
  BY LaterTypes
<1>2. armed' = {}
  BY Ended DEF Settle, IInv, TypeOK
<1>3. result' = [kind |-> kind, passed |-> p] /\ passed' = p /\ phase' = "settled"
  BY DEF Settle
<1>4. result' \in [kind: {"none", "decision", "timedOut", "failed"}, passed: Clocks]
  BY <1>1, <1>3
<1>5. result'.passed = p
  BY <1>3
<1>6. RaceInv'
  BY <1>3 DEF RaceInv, Waits
<1>7. SettledQuiet' /\ RequestEndsWithCall'
  BY <1>2, <1>5 DEF SettledQuiet, RequestEndsWithCall
<1>8. QED
  BY <1>1, <1>2, <1>3, <1>4, <1>6, <1>7

\* Steps that leave the dispatch alone keep what is said about it.
LEMMA DispatchKept ==
    ASSUME DispatchInv, UNCHANGED <<call, dispatch>>
    PROVE  DispatchInv'
  BY DEF DispatchInv, CredentialScope, RecordedBudgetApplied

LEMMA TypeFromParts ==
    ASSUME TypeOK, UNCHANGED <<call, dispatch>>,
           phase' \in {"new", "custom", "settled"} \cup Waits, passed' \in Clocks,
           armed' \in SUBSET Handles, aborted' \in SUBSET {"caller", "timeout", "request"},
           upstream' \in {"none", "sent", "body", "ended", "cancelled"},
           result' \in [kind: {"none", "decision", "timedOut", "failed"}, passed: Clocks]
    PROVE  TypeOK'
  BY DEF TypeOK

\* A step that ends the call and leaves the dispatch alone.
LEMMA SettledStep ==
    ASSUME IInv, phase # "settled",
           NEW kind \in {"decision", "timedOut", "failed"}, NEW p \in Later(passed), Settle(kind, p),
           UNCHANGED <<call, dispatch>>,
           aborted' \in SUBSET {"caller", "timeout", "request"},
           upstream' \in {"none", "sent", "body", "ended", "cancelled"},
           upstream' \in {"sent", "body"} => "inner" \in p
    PROVE  IInv'
<1>1. /\ phase' = "settled" /\ armed' = {} /\ passed' \in Clocks
      /\ result' \in [kind: {"none", "decision", "timedOut", "failed"}, passed: Clocks]
      /\ RaceInv' /\ SettledQuiet' /\ RequestEndsWithCall'
  BY SettleInv
<1>2. TypeOK'
  BY <1>1, TypeFromParts DEF IInv
<1>3. DispatchInv'
  BY DispatchKept DEF IInv, DispatchInv
<1>4. QED
  BY <1>1, <1>2, <1>3 DEF IInv, DispatchInv

LEMMA DecisionStep ==
    ASSUME IInv, phase # "settled", NEW p \in Later(passed), SettleWithDecision(p),
           UNCHANGED <<call, dispatch>>,
           upstream' \in {"none", "ended", "cancelled"}
    PROVE  IInv'
<1>1. aborted' \in SUBSET {"caller", "timeout", "request"}
  BY DEF SettleWithDecision, IInv, TypeOK
<1>2. PICK kind \in {"decision", "timedOut", "failed"} : Settle(kind, p)
  BY DEF SettleWithDecision
<1>3. QED
  BY <1>1, <1>2, SettledStep

LEMMA FailureStep ==
    ASSUME IInv, phase # "settled", NEW p \in Later(passed),
           NEW kind \in {"timedOut", "failed"}, SettleWithFailure(kind, p),
           UNCHANGED <<call, dispatch>>,
           upstream' \in {"none", "ended", "cancelled"}
    PROVE  IInv'
<1>1. aborted' \in SUBSET {"caller", "timeout", "request"}
  BY DEF SettleWithFailure, IInv, TypeOK
<1>2. Settle(kind, p)
  BY DEF SettleWithFailure
<1>3. QED
  BY <1>1, <1>2, SettledStep

\* A race that is entered holds its handles, or has already timed out.
LEMMA EnterRaceStep ==
    ASSUME IInv, phase # "settled", NEW where \in Waits, NEW handles \in SUBSET Handles,
           handles \cup RaceHandles = OuterHandles \cup SignalHandles \cup RaceHandles,
           NEW p \in Later(passed), EnterRace(where, handles, p),
           UNCHANGED <<call, aborted>>,
           upstream' = IF where = "fetching" THEN "sent" ELSE "body"
    PROVE  /\ phase' \in {"settled"} \cup Waits /\ passed' \in Clocks
           /\ armed' \in SUBSET Handles
           /\ result' \in [kind: {"none", "decision", "timedOut", "failed"}, passed: Clocks]
           /\ RaceInv' /\ SettledQuiet' /\ RequestEndsWithCall'
<1>1. upstream' \in {"sent", "body"} /\ aborted' \in SUBSET {"caller", "timeout", "request"}
  BY DEF IInv, TypeOK
<1>2. CASE "inner" \in p
  <2>1. Settle("timedOut", p)
    BY <1>2 DEF EnterRace
  <2>2. QED
    BY <1>1, <1>2, <2>1, SettleInv
<1>3. CASE "inner" \notin p
  <2>1. /\ phase' = where /\ passed' = p /\ armed' = handles \cup RaceHandles
        /\ result' = result
    BY <1>3 DEF EnterRace
  <2>2. armed' = OuterHandles' \cup SignalHandles' \cup RaceHandles'
    BY <2>1 DEF OuterHandles, SignalHandles, RaceHandles
  <2>3. phase' # "settled" /\ phase' # "new" /\ phase' # "custom" /\ phase' \in Waits
    BY <2>1 DEF Waits
  <2>4. phase' = "fetching" => upstream' = "sent"
    BY <2>1
  <2>5. phase' \in {"reading", "readingError"} => upstream' = "body"
    BY <2>1
  <2>6. aborted' = {} /\ result' = NoResult
    BY <2>1 DEF IInv, RaceInv
  <2>7. RaceInv'
    BY <2>2, <2>3, <2>4, <2>5, <2>6 DEF RaceInv, NoResult
  <2>8. SettledQuiet' /\ RequestEndsWithCall'
    BY <2>3 DEF SettledQuiet, RequestEndsWithCall
  <2>9. armed' \in SUBSET Handles
    BY <2>1, HandlesTyped
  <2>10. passed' \in Clocks /\ phase' \in {"settled"} \cup Waits
    BY <2>1, <2>3, LaterTypes
  <2>11. result' \in [kind: {"none", "decision", "timedOut", "failed"}, passed: Clocks]
    BY <2>1 DEF IInv, TypeOK
  <2>12. QED
    BY <2>7, <2>8, <2>9, <2>10, <2>11
<1>4. QED
  BY <1>2, <1>3

LEMMA StartInv == ASSUME IInv, Start PROVE IInv'
<1>1. CASE RefuseCall
  <2>1. passed \in Later(passed)
    BY DEF IInv, TypeOK, Later
  <2>2. phase # "settled" /\ upstream' = "none" /\ aborted' \in SUBSET {"caller", "timeout", "request"}
    BY <1>1 DEF RefuseCall, IInv, TypeOK, RaceInv
  <2>3. Settle("failed", passed) /\ UNCHANGED <<call, dispatch>>
    BY <1>1 DEF RefuseCall
  <2>4. QED
    BY <2>1, <2>2, <2>3, SettledStep
<1>2. CASE RunCodex
  <2>1. PICK p \in Later(passed) : SettleWithDecision(p) \/ SettleWithFailure("failed", p)
    BY <1>2 DEF RunCodex
  <2>2. phase # "settled" /\ upstream' = "none" /\ UNCHANGED <<call, dispatch>>
    BY <1>2 DEF RunCodex, IInv, RaceInv
  <2>3. QED
    BY <2>1, <2>2, DecisionStep, FailureStep
<1>3. CASE StartCustom
  <2>1. /\ phase' = "custom" /\ armed' = OuterHandles /\ phase = "new"
        /\ UNCHANGED <<call, passed, aborted, upstream, dispatch, result>>
    BY <1>3 DEF StartCustom
  <2>2. TypeOK'
    BY <2>1, HandlesTyped, TypeFromParts DEF IInv, TypeOK
  <2>3. RaceInv' /\ SettledQuiet' /\ RequestEndsWithCall'
    BY <2>1 DEF IInv, RaceInv, SettledQuiet, RequestEndsWithCall, OuterHandles, Waits, NoResult
  <2>4. DispatchInv'
    BY <2>1, DispatchKept DEF IInv, DispatchInv
  <2>5. QED
    BY <2>2, <2>3, <2>4 DEF IInv, DispatchInv
<1>4. CASE RefuseSettings
  <2>1. PICK p \in Later(passed) : Settle("failed", p)
    BY <1>4 DEF RefuseSettings
  <2>2. /\ phase # "settled" /\ upstream' = "none" /\ UNCHANGED <<call, dispatch>>
        /\ aborted' \in SUBSET {"caller", "timeout", "request"}
    BY <1>4 DEF RefuseSettings, IInv, TypeOK, RaceInv
  <2>3. QED
    BY <2>1, <2>2, SettledStep
<1>5. CASE SendRequest
  <2>1. PICK d \in Destination, b \in Budget, p \in Later(passed) :
           /\ dispatch' = [to |-> d.to, path |-> d.path, credential |-> d.credential, budget |-> b.budget]
           /\ EnterRace("fetching", OuterHandles \cup SignalHandles, p)
    BY <1>5 DEF SendRequest
  <2>2. phase # "settled" /\ upstream' = "sent" /\ UNCHANGED <<call, aborted>>
    BY <1>5 DEF SendRequest
  <2>3. /\ call.sources \in Sources /\ call.scope \in Scopes
        /\ call.reviewer \in Settings /\ call.options \in Overrides
    BY DEF IInv, TypeOK, Call
  <2>4. d \in PrepareGeminiDispatch(call.sources, call.scope)
        /\ b \in ResolveReviewerThinkingBudget(call.reviewer, call.options)
    BY DEF Destination, Budget
  <2>5. /\ phase' \in {"settled"} \cup Waits /\ passed' \in Clocks
        /\ armed' \in SUBSET Handles
        /\ result' \in [kind: {"none", "decision", "timedOut", "failed"}, passed: Clocks]
        /\ RaceInv' /\ SettledQuiet' /\ RequestEndsWithCall'
    <3>1. "fetching" \in Waits /\ OuterHandles \cup SignalHandles \in SUBSET Handles
      BY HandlesTyped DEF Waits
    <3>2. QED
      BY <2>1, <2>2, <3>1, EnterRaceStep
  <2>6. /\ dispatch'.to = d.to /\ dispatch'.path = d.path
        /\ dispatch'.credential = d.credential /\ dispatch'.budget = b.budget
    BY <2>1
  <2>7. dispatch' \in [to: {"none", "proxy", "studio", "vertex"}, path: {"none", "studio", "vertex"},
                       credential: {"none", "apiKey", "bearer"}, budget: Int]
    BY <2>1, <2>3, <2>4, DispatchTypes, BudgetTypes
  <2>8. TypeOK'
    BY <2>2, <2>5, <2>7 DEF TypeOK, IInv
  <2>9. CredentialScope'
    <3>1. /\ d.credential = "apiKey" => d.to = "studio"
          /\ d.credential = "bearer" =>
                d.to = IF call.scope.project = "valid" THEN "vertex" ELSE "studio"
          /\ d.credential # "none" =>
                call.scope.proxyUrl = "absent" /\ call.scope.baseUrl \in {"absent", d.to}
          /\ d.to = "proxy" => d.credential = "none"
      BY <2>3, <2>4, DispatchScope
    <3>2. QED
      BY <2>2, <2>6, <3>1 DEF CredentialScope
  <2>10. RecordedBudgetApplied'
    <3>1. ASSUME call.reviewer.provider = "gemini"
          PROVE  /\ call.reviewer.budget = {b.budget} /\ ValidBudget(call.reviewer.model, b.budget)
                 /\ call.options.effort = {} /\ call.reviewer.effort = {}
      BY <2>3, <2>4, <3>1, BudgetIsRecorded
    <3>2. QED
      BY <2>2, <2>6, <3>1 DEF RecordedBudgetApplied
  <2>11. QED
    BY <2>5, <2>8, <2>9, <2>10 DEF IInv
<1>6. CASE ExpireUnsent
  <2>1. PICK p \in Later(passed) : Settle("timedOut", p)
    BY <1>6 DEF ExpireUnsent
  <2>2. /\ phase # "settled" /\ upstream' = "none" /\ UNCHANGED <<call, dispatch>>
        /\ aborted' \in SUBSET {"caller", "timeout", "request"}
    BY <1>6 DEF ExpireUnsent, IInv, TypeOK, RaceInv
  <2>3. QED
    BY <2>1, <2>2, SettledStep
<1>7. QED
  BY <1>1, <1>2, <1>3, <1>4, <1>5, <1>6 DEF Start

\* An answer that comes after the call has ended changes the request alone.
LEMMA LateAnswer ==
    ASSUME IInv, phase \notin Waits, phase # "new", phase # "custom",
           UNCHANGED <<call, phase, passed, armed, aborted, dispatch, result>>,
           upstream' \in {"none", "ended", "cancelled"} \/ (upstream = "sent" /\ upstream' = "body")
    PROVE  IInv'
<1>1. TypeOK'
  BY TypeFromParts DEF IInv, TypeOK
<1>2. phase' = "settled"
  BY DEF IInv, TypeOK
<1>3. RaceInv' /\ SettledQuiet' /\ RequestEndsWithCall'
  BY <1>2 DEF IInv, RaceInv, SettledQuiet, RequestEndsWithCall, Waits
<1>4. DispatchInv'
  BY DispatchKept DEF IInv, DispatchInv
<1>5. QED
  BY <1>1, <1>3, <1>4 DEF IInv, DispatchInv

LEMMA ProviderInv == ASSUME IInv, Provider PROVE IInv'
<1>1. \A p : FailureKind(p) \in {"timedOut", "failed"}
  BY DEF FailureKind
<1>2. CASE Respond
  <2>1. /\ upstream = "sent" /\ upstream' = "body" /\ UNCHANGED <<call, aborted, dispatch>>
        /\ phase # "new" /\ phase # "custom"
    BY <1>2 DEF Respond, IInv, RaceInv
  <2>2. CASE phase = "fetching"
    <3>1. PICK where \in {"reading", "readingError"}, p \in Later(passed) :
              EnterRace(where, EndRace(armed), p)
      BY <1>2, <2>2 DEF Respond
    <3>2. /\ where \in Waits /\ EndRace(armed) \in SUBSET Handles
          /\ EndRace(armed) \cup RaceHandles = OuterHandles \cup SignalHandles \cup RaceHandles
      BY <2>2 DEF IInv, TypeOK, RaceInv, Waits, EndRace, RaceHandles
    <3>3. phase # "settled" /\ upstream' = IF where = "fetching" THEN "sent" ELSE "body"
      BY <2>1, <2>2
    <3>4. /\ phase' \in {"settled"} \cup Waits /\ passed' \in Clocks
          /\ armed' \in SUBSET Handles
          /\ result' \in [kind: {"none", "decision", "timedOut", "failed"}, passed: Clocks]
          /\ RaceInv' /\ SettledQuiet' /\ RequestEndsWithCall'
      BY <2>1, <3>1, <3>2, <3>3, EnterRaceStep
    <3>5. TypeOK'
      BY <2>1, <3>4, TypeFromParts DEF IInv, TypeOK
    <3>6. DispatchInv'
      BY <2>1, DispatchKept DEF IInv, DispatchInv
    <3>7. QED
      BY <3>4, <3>5, <3>6 DEF IInv, DispatchInv
  <2>3. CASE phase # "fetching"
    <3>1. UNCHANGED <<phase, passed, armed, result>>
      BY <1>2, <2>3 DEF Respond
    <3>2. phase \notin Waits
      BY <2>1, <2>3 DEF Waits, IInv, RaceInv
    <3>3. QED
      BY <2>1, <3>1, <3>2, LateAnswer
  <2>4. QED
    BY <2>2, <2>3
<1>3. CASE BreakUpstream
  <2>1. /\ upstream' = "ended" /\ UNCHANGED <<call, aborted, dispatch>>
        /\ phase # "new" /\ phase # "custom"
        /\ aborted' \in SUBSET {"caller", "timeout", "request"}
    BY <1>3 DEF BreakUpstream, IInv, TypeOK, RaceInv
  <2>2. CASE phase \in Waits
    <3>1. PICK p \in Later(passed) : Settle(FailureKind(p), p) \/ Settle("timedOut", p)
      BY <1>3, <2>2 DEF BreakUpstream
    <3>2. phase # "settled"
      BY <2>2 DEF Waits
    <3>3. QED
      BY <1>1, <2>1, <3>1, <3>2, SettledStep
  <2>3. CASE phase \notin Waits
    <3>1. UNCHANGED <<phase, passed, armed, result>>
      BY <1>3, <2>3 DEF BreakUpstream
    <3>2. QED
      BY <2>1, <2>3, <3>1, LateAnswer
  <2>4. QED
    BY <2>2, <2>3
<1>4. CASE FinishBody
  <2>1. /\ upstream' = "ended" /\ UNCHANGED <<call, dispatch>>
        /\ phase # "new" /\ phase # "custom" /\ phase # "fetching"
    BY <1>4 DEF FinishBody, IInv, RaceInv
  <2>2. CASE phase = "reading"
    <3>1. PICK p \in Later(passed) : SettleWithDecision(p) \/ SettleWithFailure(FailureKind(p), p)
      BY <1>4, <2>2 DEF FinishBody
    <3>2. QED
      BY <1>1, <2>1, <2>2, <3>1, DecisionStep, FailureStep
  <2>3. CASE phase = "readingError"
    <3>1. PICK p \in Later(passed), kind \in {"failed", FailureKind(passed)} : SettleWithFailure(kind, p)
      BY <1>4, <2>3 DEF FinishBody
    <3>2. QED
      BY <1>1, <2>1, <2>3, <3>1, FailureStep
  <2>4. CASE phase \notin {"reading", "readingError"}
    <3>1. UNCHANGED <<phase, passed, armed, aborted, result>> /\ phase \notin Waits
      BY <1>4, <2>1, <2>4 DEF FinishBody, Waits
    <3>2. QED
      BY <2>1, <3>1, LateAnswer
  <2>5. QED
    BY <2>2, <2>3, <2>4
<1>5. CASE AnswerCustom
  <2>1. PICK p \in Later(passed) : SettleWithDecision(p) \/ SettleWithFailure("failed", p)
    BY <1>5 DEF AnswerCustom
  <2>2. phase # "settled" /\ upstream' = "none" /\ UNCHANGED <<call, dispatch>>
    BY <1>5 DEF AnswerCustom, IInv, RaceInv
  <2>3. QED
    BY <2>1, <2>2, DecisionStep, FailureStep
<1>6. QED
  BY <1>2, <1>3, <1>4, <1>5 DEF Provider

\* A timer that is armed ends the call and what it had sent.
LEMMA FireInv == ASSUME IInv, Fire PROVE IInv'
<1>1. phase # "settled" /\ phase # "new"
  BY DEF Fire, FireOuter, FireInner, FireRace, IInv, RaceInv, SettledQuiet
<1>2. phase = "custom" => upstream = "none" /\ armed = OuterHandles
  BY DEF IInv, RaceInv
<1>3. phase # "custom" => armed = OuterHandles \cup SignalHandles \cup RaceHandles
  BY <1>1 DEF IInv, TypeOK, RaceInv
<1>4. ASSUME NEW c \in {"caller", "timeout"}, Abort(c)
      PROVE  /\ aborted' \in SUBSET {"caller", "timeout", "request"}
             /\ upstream' \in {"none", "sent", "body", "ended", "cancelled"}
             /\ "request" \in AbortClosure(c) => upstream' \notin {"sent", "body"}
  BY <1>4 DEF Abort, AbortClosure, IInv, TypeOK
<1>5. CASE FireOuter
  <2>1. PICK p \in Later(passed) : Settle("timedOut", p)
    BY <1>5 DEF FireOuter
  <2>2. Abort("caller") /\ UNCHANGED <<call, dispatch>>
    BY <1>5 DEF FireOuter
  <2>3. upstream' \notin {"sent", "body"}
    <3>1. CASE phase = "custom"
      BY <1>2, <2>2, <3>1 DEF Abort
    <3>2. CASE phase # "custom"
      <4>1. "onExternalAbort" \in armed
        BY <1>3, <1>5, <3>2 DEF FireOuter, OuterHandles, SignalHandles, RaceHandles
      <4>2. QED
        BY <1>4, <2>2, <4>1 DEF AbortClosure
    <3>3. QED
      BY <3>1, <3>2
  <2>4. QED
    BY <1>1, <1>4, <2>1, <2>2, <2>3, SettledStep
<1>6. CASE FireInner \/ FireRace
  <2>1. phase # "custom"
    BY <1>2, <1>6 DEF FireInner, FireRace, OuterHandles
  <2>2. {"onTimeoutAbort", "onAbort"} \subseteq armed
    BY <1>3, <2>1 DEF SignalHandles, RaceHandles
  <2>3. PICK p \in Later(passed) : Settle("timedOut", p)
    BY <1>6, <2>2 DEF FireInner, FireRace
  <2>4. Abort("timeout") /\ UNCHANGED <<call, dispatch>>
    BY <1>6 DEF FireInner, FireRace
  <2>5. upstream' \notin {"sent", "body"}
    BY <1>4, <2>2, <2>4 DEF AbortClosure
  <2>6. QED
    BY <1>1, <1>4, <2>3, <2>4, <2>5, SettledStep
<1>7. QED
  BY <1>5, <1>6 DEF Fire

LEMMA TimeInv == ASSUME IInv, PassTime PROVE IInv'
<1>1. /\ passed' \in Clocks
      /\ UNCHANGED <<call, phase, armed, aborted, upstream, dispatch, result>>
  BY DEF PassTime, Later
<1>2. TypeOK'
  BY <1>1, TypeFromParts DEF IInv, TypeOK
<1>3. RaceInv' /\ SettledQuiet' /\ RequestEndsWithCall'
  BY <1>1 DEF IInv, RaceInv, SettledQuiet, RequestEndsWithCall, OuterHandles, SignalHandles,
     RaceHandles, Waits, NoResult
<1>4. DispatchInv'
  BY <1>1, DispatchKept DEF IInv, DispatchInv
<1>5. QED
  BY <1>2, <1>3, <1>4 DEF IInv, DispatchInv

LEMMA StutterInv == ASSUME IInv, UNCHANGED vars PROVE IInv'
<1>1. UNCHANGED <<call, phase, passed, armed, aborted, upstream, dispatch, result>>
  BY DEF vars
<1>2. TypeOK'
  BY <1>1, TypeFromParts DEF IInv, TypeOK
<1>3. RaceInv' /\ SettledQuiet' /\ RequestEndsWithCall'
  BY <1>1 DEF IInv, RaceInv, SettledQuiet, RequestEndsWithCall, OuterHandles, SignalHandles,
     RaceHandles, Waits, NoResult
<1>4. DispatchInv'
  BY <1>1, DispatchKept DEF IInv, DispatchInv
<1>5. QED
  BY <1>2, <1>3, <1>4 DEF IInv, DispatchInv

LEMMA StepInv == ASSUME IInv, [Next]_vars PROVE IInv'
  BY StartInv, ProviderInv, FireInv, TimeInv, StutterInv DEF Next

LEMMA Invariance == Spec => []IInv
  BY InitInv, StepInv, PTL DEF Spec
-----------------------------------------------------------------------------
\* The safety properties.

\* The variables keep their types: the call, its phase, the handles and the
\* controllers, whatever the provider, the adapter and the clock do.
THEOREM TypeCorrect == Spec => []TypeOK
  BY Invariance, PTL DEF IInv

\* A call of executeLocalReviewer or executeGeminiReviewer that has ended has
\* no timer and no abort listener left, on any of the ways it can end.
THEOREM Quiet == Spec => []SettledQuiet
  BY Invariance, PTL DEF IInv

\* A provider request that is still under way after its call has ended was
\* left there by a race that had already reached the deadline.
THEOREM RequestEnds == Spec => []RequestEndsWithCall
  BY Invariance, PTL DEF IInv

\* A credential is sent to the official endpoint of its kind only, and never
\* to a proxy, for every combination of sources and scope.
THEOREM CredentialsScoped == Spec => []CredentialScope
  BY Invariance, PTL DEF IInv

\* The recorded thinking budget is the one that is sent.
THEOREM BudgetApplied == Spec => []RecordedBudgetApplied
  BY Invariance, PTL DEF IInv

-----------------------------------------------------------------------------
\* Refinement: a call implements the safety of BoundedCall.

\* What a step may do to what the caller sees: time and aborts are not taken
\* back, an end is final, and a decision is adopted only in time.
Onward ==
    /\ passed \subseteq passed' /\ aborted \subseteq aborted'
    /\ phase = "settled" => phase' = "settled" /\ result' = result
    /\ (phase # "settled" /\ phase' = "settled" /\ result'.kind = "decision") =>
          CallerDeadline \notin passed' /\ aborted' = aborted

LEMMA EndsOnward ==
    ASSUME phase # "settled", NEW kind \in {"timedOut", "failed"}, NEW p \in Later(passed),
           Settle(kind, p), aborted \subseteq aborted'
    PROVE  Onward
<1>1. passed' = p /\ result'.kind = kind
  BY DEF Settle
<1>2. passed \subseteq passed'
  BY <1>1, LaterTypes
<1>3. QED
  BY <1>1, <1>2 DEF Onward

LEMMA DecisionOnward ==
    ASSUME phase # "settled", NEW p \in Later(passed), SettleWithDecision(p)
    PROVE  Onward
<1>1. aborted \subseteq aborted'
  BY DEF SettleWithDecision
<1>2. CASE LateFor(p)
  BY <1>1, <1>2, EndsOnward DEF SettleWithDecision
<1>3. CASE ~LateFor(p)
  <2>1. Settle("decision", p) /\ aborted' = aborted
    BY <1>3 DEF SettleWithDecision
  <2>2. passed' = p /\ passed \subseteq passed'
    BY <2>1, LaterTypes DEF Settle
  <2>3. CallerDeadline \notin p
    BY <1>3 DEF LateFor, CallerDeadline
  <2>4. QED
    BY <2>1, <2>2, <2>3 DEF Onward
<1>4. QED
  BY <1>2, <1>3

LEMMA WaitOnward ==
    ASSUME phase' # "settled", phase # "settled", passed \subseteq passed',
           aborted \subseteq aborted'
    PROVE  Onward
  BY DEF Onward

LEMMA RaceOnward ==
    ASSUME phase # "settled", NEW where \in Waits, NEW handles, NEW p \in Later(passed),
           EnterRace(where, handles, p), UNCHANGED aborted
    PROVE  Onward
<1>1. CASE "inner" \in p
  BY <1>1, EndsOnward DEF EnterRace
<1>2. CASE "inner" \notin p
  <2>1. phase' = where /\ passed' = p
    BY <1>2 DEF EnterRace
  <2>2. QED
    BY <2>1, LaterTypes, WaitOnward DEF Waits
<1>3. QED
  BY <1>1, <1>2

LEMMA StillOnward ==
    ASSUME UNCHANGED <<phase, aborted, result>>, passed \subseteq passed'
    PROVE  Onward
  BY DEF Onward

LEMMA StartOnward == ASSUME IInv, Start PROVE Onward
<1>0. phase = "new"
  BY DEF Start, RefuseCall, RunCodex, StartCustom, RefuseSettings, SendRequest, ExpireUnsent
<1>1. CASE RefuseCall
  <2>1. passed \in Later(passed)
    BY DEF Later, IInv, TypeOK
  <2>2. QED
    BY <1>0, <1>1, <2>1, EndsOnward DEF RefuseCall
<1>2. CASE RunCodex
  <2>1. PICK p \in Later(passed) : SettleWithDecision(p) \/ SettleWithFailure("failed", p)
    BY <1>2 DEF RunCodex
  <2>2. CASE SettleWithDecision(p)
    BY <1>0, <2>2, DecisionOnward
  <2>3. CASE SettleWithFailure("failed", p)
    BY <1>0, <2>3, EndsOnward DEF SettleWithFailure
  <2>4. QED
    BY <2>1, <2>2, <2>3
<1>3. CASE StartCustom
  BY <1>0, <1>3, WaitOnward DEF StartCustom
<1>4. CASE RefuseSettings
  <2>1. PICK p \in Later(passed) : Settle("failed", p)
    BY <1>4 DEF RefuseSettings
  <2>2. QED
    BY <1>0, <1>4, <2>1, EndsOnward DEF RefuseSettings
<1>5. CASE SendRequest
  <2>1. PICK p \in Later(passed) : EnterRace("fetching", OuterHandles \cup SignalHandles, p)
    BY <1>5 DEF SendRequest
  <2>2. "fetching" \in Waits /\ UNCHANGED aborted
    BY <1>5 DEF Waits, SendRequest
  <2>3. QED
    BY <1>0, <2>1, <2>2, RaceOnward
<1>6. CASE ExpireUnsent
  <2>1. PICK p \in Later(passed) : Settle("timedOut", p)
    BY <1>6 DEF ExpireUnsent
  <2>2. QED
    BY <1>0, <1>6, <2>1, EndsOnward DEF ExpireUnsent
<1>7. QED
  BY <1>1, <1>2, <1>3, <1>4, <1>5, <1>6 DEF Start

LEMMA ProviderOnward == ASSUME IInv, Provider PROVE Onward
<1>0. FailureKind(passed) \in {"timedOut", "failed"}
      /\ \A p \in Later(passed) : FailureKind(p) \in {"timedOut", "failed"}
  BY DEF FailureKind
<1>1. CASE Respond
  <2>1. UNCHANGED aborted
    BY <1>1 DEF Respond
  <2>2. CASE phase = "fetching"
    <3>1. PICK where \in {"reading", "readingError"} :
             \E p \in Later(passed) : EnterRace(where, EndRace(armed), p)
      BY <1>1, <2>2 DEF Respond
    <3>2. PICK p \in Later(passed) : EnterRace(where, EndRace(armed), p)
      BY <3>1
    <3>3. where \in Waits
      BY DEF Waits
    <3>4. QED
      BY <2>1, <2>2, <3>2, <3>3, RaceOnward
  <2>3. CASE phase # "fetching"
    BY <1>1, <2>1, <2>3, StillOnward DEF Respond
  <2>4. QED
    BY <2>2, <2>3
<1>2. CASE BreakUpstream
  <2>1. UNCHANGED aborted
    BY <1>2 DEF BreakUpstream
  <2>2. CASE phase \in Waits
    <3>1. PICK p \in Later(passed) :
             Settle(FailureKind(p), p) \/ (phase = "fetching" /\ Settle("timedOut", p))
      BY <1>2, <2>2 DEF BreakUpstream
    <3>2. phase # "settled"
      BY <2>2 DEF Waits
    <3>3. PICK kind \in {"timedOut", "failed"} : Settle(kind, p)
      BY <1>0, <3>1
    <3>4. QED
      BY <2>1, <3>2, <3>3, EndsOnward
  <2>3. CASE phase \notin Waits
    BY <1>2, <2>1, <2>3, StillOnward DEF BreakUpstream
  <2>4. QED
    BY <2>2, <2>3
<1>3. CASE FinishBody
  <2>1. CASE phase = "reading"
    <3>1. PICK p \in Later(passed) :
             SettleWithDecision(p) \/ SettleWithFailure(FailureKind(p), p)
      BY <1>3, <2>1 DEF FinishBody
    <3>2. CASE SettleWithDecision(p)
      BY <2>1, <3>2, DecisionOnward
    <3>3. CASE SettleWithFailure(FailureKind(p), p)
      BY <1>0, <2>1, <3>3, EndsOnward DEF SettleWithFailure
    <3>4. QED
      BY <3>1, <3>2, <3>3
  <2>2. CASE phase = "readingError"
    <3>1. PICK p \in Later(passed) : \E kind \in {"failed", FailureKind(passed)} :
             SettleWithFailure(kind, p)
      BY <1>3, <2>2 DEF FinishBody
    <3>2. PICK kind \in {"timedOut", "failed"} : SettleWithFailure(kind, p)
      BY <1>0, <3>1
    <3>3. QED
      BY <2>2, <3>2, EndsOnward DEF SettleWithFailure
  <2>3. CASE phase \notin {"reading", "readingError"}
    BY <1>3, <2>3, StillOnward DEF FinishBody
  <2>4. QED
    BY <2>1, <2>2, <2>3
<1>4. CASE AnswerCustom
  <2>1. PICK p \in Later(passed) : SettleWithDecision(p) \/ SettleWithFailure("failed", p)
    BY <1>4 DEF AnswerCustom
  <2>2. phase # "settled"
    BY <1>4 DEF AnswerCustom
  <2>3. CASE SettleWithDecision(p)
    BY <2>2, <2>3, DecisionOnward
  <2>4. CASE SettleWithFailure("failed", p)
    BY <2>2, <2>4, EndsOnward DEF SettleWithFailure
  <2>5. QED
    BY <2>1, <2>3, <2>4
<1>5. QED
  BY <1>1, <1>2, <1>3, <1>4 DEF Provider

LEMMA FireOnward == ASSUME IInv, Fire PROVE Onward
<1>1. phase # "settled"
  BY DEF Fire, FireOuter, FireInner, FireRace, IInv, SettledQuiet
<1>2. aborted \subseteq aborted'
  BY DEF Fire, FireOuter, FireInner, FireRace, Abort, AbortClosure
<1>3. CASE \E p \in Later(passed) : Settle("timedOut", p)
  BY <1>1, <1>2, <1>3, EndsOnward
<1>4. CASE UNCHANGED <<phase, passed>>
  BY <1>1, <1>2, <1>4, WaitOnward
<1>5. QED
  BY <1>3, <1>4 DEF Fire, FireOuter, FireInner, FireRace

LEMMA StepOnward == ASSUME IInv, Next PROVE Onward
<1>1. CASE PassTime
  BY <1>1, StillOnward DEF PassTime, Later
<1>2. QED
  BY <1>1, StartOnward, ProviderOnward, FireOnward DEF Next

\* The view of the caller: open, and how the call ended.
LEMMA BoundedInitial == Init => Bounded!BoundedInit
  BY DEF Init, Bounded!BoundedInit

LEMMA BoundedStep ==
    ASSUME IInv, [Next]_vars
    PROVE  [Bounded!BoundedNext]_(Bounded!boundedVars)
<1> USE DEF Bounded!BoundedNext, Bounded!boundedVars
<1>1. CASE UNCHANGED vars
  BY <1>1 DEF vars, CallerDeadline
<1>2. CASE Next
  <2> DEFINE isOpen == CallerDeadline \notin passed /\ aborted = {}
             seen == IF phase # "settled" THEN "waiting"
                     ELSE IF result.kind = "decision" THEN "value" ELSE "refused"
  <2>1. Onward
    BY <1>2, StepOnward
  <2>2. call' = call
    BY <1>2 DEF Next, Start, Provider, Fire, RefuseCall, RunCodex, StartCustom, RefuseSettings,
       SendRequest, ExpireUnsent, Respond, BreakUpstream, FinishBody, AnswerCustom,
       FireOuter, FireInner, FireRace, PassTime
  <2>3. CallerDeadline' = CallerDeadline
    BY <2>2 DEF CallerDeadline
  <2>4. isOpen \in BOOLEAN /\ isOpen' \in BOOLEAN
    OBVIOUS
  <2>5. isOpen' => isOpen
    BY <2>1, <2>3 DEF Onward
  <2>6. CASE seen' = seen
    <3>1. CASE isOpen' = isOpen
      BY <2>6, <3>1
    <3>2. CASE isOpen' # isOpen
      <4>1. isOpen' = FALSE
        BY <2>4, <2>5, <3>2
      <4>2. Bounded!Close
        BY <2>6, <4>1 DEF Bounded!Close
      <4>3. QED
        BY <4>2
    <3>3. QED
      BY <3>1, <3>2
  <2>7. CASE seen' # seen
    <3>1. phase # "settled" /\ phase' = "settled"
      BY <2>1, <2>7 DEF Onward
    <3>2. CASE result'.kind = "decision"
      <4>1. CallerDeadline \notin passed' /\ aborted' = aborted
        BY <2>1, <3>1, <3>2 DEF Onward
      <4>2. aborted = {}
        BY <3>1 DEF IInv, RaceInv
      <4>3. isOpen'
        BY <2>3, <4>1, <4>2
      <4>4. Bounded!Adopt
        BY <2>5, <3>1, <3>2, <4>3 DEF Bounded!Adopt
      <4>5. QED
        BY <4>4
    <3>3. CASE result'.kind # "decision"
      <4>1. isOpen' \in {isOpen, FALSE}
        BY <2>4, <2>5
      <4>2. Bounded!Refuse
        BY <3>1, <3>3, <4>1 DEF Bounded!Refuse
      <4>3. QED
        BY <4>2
    <3>4. QED
      BY <3>2, <3>3
  <2>8. QED
    BY <2>6, <2>7
<1>3. QED
  BY <1>1, <1>2

\* However late the provider or an adapter answers, the caller gets a
\* decision only before its deadline and without a cancellation, and once.
THEOREM CallRefined == Spec => AdoptsInTime
  BY BoundedInitial, BoundedStep, Invariance, PTL DEF Spec, AdoptsInTime, Bounded!BoundedSafety
=============================================================================
