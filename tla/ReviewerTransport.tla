------------------------- MODULE ReviewerTransport -------------------------
(***************************************************************************)
(* One reviewer call of src/src/reviewer-transports/: executeLocalReviewer *)
(* races an adapter against the recorded deadline and cancels it, and      *)
(* executeGeminiReviewer, the adapter modelled in full, races each step of *)
(* the provider request against its own deadline and that cancellation.    *)
(* The CI runner calls the Gemini adapter directly, without an outer race. *)
(* A step is one callback of the event loop with the microtasks it drains: *)
(* abort listeners and promise reactions run inside it. A handler reads    *)
(* the clock several times, and the deadline may pass between two reads.   *)
(* A timer may fire a little before its deadline, as the code allows for.  *)
(***************************************************************************)
EXTENDS GeminiSelection

CONSTANTS Calls    \* the calls to examine

Call == [route: {"local", "direct"}, adapter: {"gemini", "codex", "custom"},
         formatOk: BOOLEAN, timeoutOk: BOOLEAN, modelOk: BOOLEAN,
         reviewer: Settings, options: Overrides, sources: Sources, scope: Scopes]

\* Only the Gemini adapter is called without the outer race.
ASSUME CallsAssumption ==
    /\ Calls \subseteq Call
    /\ \A c \in Calls : c.route = "direct" => c.adapter = "gemini"

VARIABLES call,      \* the request and the options of the caller
          phase,     \* where the call waits
          passed,    \* the deadlines Date.now() has reached: "outer", "inner"
          armed,     \* the timers and abort listeners in place
          aborted,   \* the aborted controllers: "caller", "timeout", "request"
          upstream,  \* the provider request
          dispatch,  \* where the request was sent, with which budget
          result     \* how the call ended, and the deadlines reached then

vars == <<call, phase, passed, armed, aborted, upstream, dispatch, result>>

Handles == {"outer", "inner", "race", "onExternalAbort", "onTimeoutAbort", "onAbort"}
Timers == {"outer", "inner", "race"}
Deadlines == {"outer", "inner"}
Waits == {"fetching", "readingError", "reading"}

NoResult == [kind |-> "none", passed |-> {}]
NoDispatch == [to |-> "none", path |-> "none", credential |-> "none", budget |-> 0]

\* The adapter starts after the outer deadline was fixed: its own is later.
Clocks == {p \in SUBSET Deadlines : "inner" \in p => "outer" \in p}
Later(p) == {q \in Clocks : p \subseteq q}

Init ==
    /\ call \in Calls
    /\ phase = "new"
    /\ passed = {}
    /\ armed = {} /\ aborted = {}
    /\ upstream = "none"
    /\ dispatch = NoDispatch
    /\ result = NoResult

-----------------------------------------------------------------------------
\* Ending the call.

\* What the finally of a race, of the adapter and of the outer call undo.
EndRace(a) == a \ {"race", "onAbort"}
\* Mutant: the listener on the caller's signal is left in place.
CleanupWithoutExternal(a) == EndRace(a) \ {"inner", "onTimeoutAbort"}

CleanupSignals(a) == EndRace(a) \ {"inner", "onExternalAbort", "onTimeoutAbort"}
EndOuter(a) == CleanupSignals(a) \ {"outer"}

Settle(kind, p) ==
    /\ phase' = "settled"
    /\ result' = [kind |-> kind, passed |-> p]
    /\ passed' = p
    /\ armed' = EndOuter(armed)

\* Mutant: the outer call does not read the clock again.
LateForAdapterOnly(p) == "inner" \in p

\* The adapter reads the clock again after it has decoded a decision, and
\* the outer call after it has received one.
LateFor(p) == IF call.route = "local" THEN "outer" \in p ELSE "inner" \in p

\* A decision the outer call finds late also aborts the adapter's signal.
SettleWithDecision(p) ==
    /\ Settle(IF LateFor(p) THEN "timedOut" ELSE "decision", p)
    /\ aborted' = IF call.route = "local" /\ LateFor(p) THEN aborted \cup {"caller"} ELSE aborted

SettleWithFailure(kind, p) ==
    /\ Settle(kind, p)
    /\ UNCHANGED aborted

\* An error is a time-out when the deadline was reached or the request aborted.
FailureKind(p) == IF "inner" \in p \/ "request" \in aborted THEN "timedOut" ELSE "failed"

-----------------------------------------------------------------------------
\* Starting the call.

\* executeLocalReviewer checks the provider, the result format and the
\* recorded deadline before it arms a timer.
RefuseCall ==
    /\ phase = "new"
    /\ call.route = "local"
    /\ ~(call.formatOk /\ call.timeoutOk)
    /\ Settle("failed", passed)
    /\ UNCHANGED <<call, aborted, upstream, dispatch>>

Accepted == call.route = "local" => call.formatOk /\ call.timeoutOk

OuterHandles == IF call.route = "local" THEN {"outer"} ELSE {}

\* The Codex adapter blocks in spawnSync: the timers cannot fire, and the
\* clock is read when it returns.
RunCodex ==
    /\ phase = "new" /\ Accepted
    /\ call.adapter = "codex"
    /\ \E p \in Later(passed) : SettleWithDecision(p) \/ SettleWithFailure("failed", p)
    /\ UNCHANGED <<call, upstream, dispatch>>

\* An adapter of the caller starts and answers when it likes.
StartCustom ==
    /\ phase = "new" /\ Accepted
    /\ call.adapter = "custom"
    /\ phase' = "custom"
    /\ armed' = OuterHandles
    /\ UNCHANGED <<call, passed, aborted, upstream, dispatch, result>>

Budget == ResolveReviewerThinkingBudget(call.reviewer, call.options)
Destination == PrepareGeminiDispatch(call.sources, call.scope)

\* A wrong model, budget or time limit, or no usable credential and endpoint.
RefuseSettings ==
    /\ phase = "new" /\ Accepted
    /\ call.adapter = "gemini"
    /\ ~call.modelOk \/ ~call.timeoutOk \/ Budget = {} \/ Destination = {}
    /\ \E p \in Later(passed) : Settle("failed", p)
    /\ UNCHANGED <<call, aborted, upstream, dispatch>>

RaceHandles == {"race", "onAbort"}
SignalHandles ==
    {"inner", "onTimeoutAbort"} \cup (IF call.route = "local" THEN {"onExternalAbort"} ELSE {})

\* The race rejects at once when the deadline was reached: nothing is then
\* armed for it, and no controller is aborted.
EnterRace(where, handles, p) ==
    IF "inner" \in p THEN Settle("timedOut", p)
    ELSE /\ phase' = where
         /\ passed' = p
         /\ armed' = handles \cup RaceHandles
         /\ UNCHANGED result

\* Resolving a credential may block for seconds; the deadline is checked
\* after it, the request sent, and the deadline read again by the race.
SendRequest ==
    /\ phase = "new" /\ Accepted
    /\ call.adapter = "gemini"
    /\ call.modelOk /\ call.timeoutOk
    /\ \E d \in Destination, b \in Budget, p \in Later(passed) :
          /\ "inner" \notin passed
          /\ dispatch' = [to |-> d.to, path |-> d.path, credential |-> d.credential,
                          budget |-> b.budget]
          /\ EnterRace("fetching", OuterHandles \cup SignalHandles, p)
    /\ upstream' = "sent"
    /\ UNCHANGED <<call, aborted>>

\* The deadline is reached before the request is sent.
ExpireUnsent ==
    /\ phase = "new" /\ Accepted
    /\ call.adapter = "gemini"
    /\ call.modelOk /\ call.timeoutOk
    /\ Budget # {}
    /\ \E p \in Later(passed) : "inner" \in p /\ Settle("timedOut", p)
    /\ UNCHANGED <<call, aborted, upstream, dispatch>>

-----------------------------------------------------------------------------
\* The provider answers.

\* Headers arrive: the race over the request ends, one over the body starts.
Respond ==
    /\ upstream = "sent"
    /\ upstream' = "body"
    /\ IF phase = "fetching"
       THEN \E where \in {"reading", "readingError"}, p \in Later(passed) :
               EnterRace(where, EndRace(armed), p)
       ELSE UNCHANGED <<phase, passed, armed, result>>
    /\ UNCHANGED <<call, aborted, dispatch>>

\* The connection fails while the request or the body is under way; an
\* error named TimeoutError counts as a time-out before the headers.
BreakUpstream ==
    /\ upstream \in {"sent", "body"}
    /\ upstream' = "ended"
    /\ IF phase \in Waits
       THEN \E p \in Later(passed) :
               \/ Settle(FailureKind(p), p)
               \/ phase = "fetching" /\ Settle("timedOut", p)
       ELSE UNCHANGED <<phase, passed, armed, result>>
    /\ UNCHANGED <<call, aborted, dispatch>>

\* A whole body: a decision, or text that is none; the body of an error
\* response only words the failure.
FinishBody ==
    /\ upstream = "body"
    /\ upstream' = "ended"
    /\ \/ /\ phase = "reading"
          /\ \E p \in Later(passed) :
                SettleWithDecision(p) \/ SettleWithFailure(FailureKind(p), p)
       \/ /\ phase = "readingError"
          /\ \E p \in Later(passed), kind \in {"failed", FailureKind(passed)} :
                SettleWithFailure(kind, p)
       \/ /\ phase \notin {"reading", "readingError"}
          /\ UNCHANGED <<phase, passed, armed, aborted, result>>
    /\ UNCHANGED <<call, dispatch>>

\* An adapter of the caller answers; what it answers late is ignored.
AnswerCustom ==
    /\ phase = "custom"
    /\ \E p \in Later(passed) : SettleWithDecision(p) \/ SettleWithFailure("failed", p)
    /\ UNCHANGED <<call, upstream, dispatch>>

-----------------------------------------------------------------------------
\* Time.

\* Mutant: the adapter does not listen to the caller's signal.
AbortClosureDeaf(controller) ==
    aborted \cup {controller}
      \cup (IF controller = "timeout" /\ "onTimeoutAbort" \in armed THEN {"request"} ELSE {})

\* Aborting a controller runs its listeners, which abort the next one, and
\* the signal of the request ends what is still under way.
AbortClosure(controller) ==
    aborted \cup {controller}
      \cup (IF \/ controller = "caller" /\ "onExternalAbort" \in armed
               \/ controller = "timeout" /\ "onTimeoutAbort" \in armed
            THEN {"request"} ELSE {})

Abort(controller) ==
    /\ aborted' = AbortClosure(controller)
    /\ upstream' = IF "request" \in AbortClosure(controller) /\ upstream \in {"sent", "body"}
                   THEN "cancelled" ELSE upstream

\* The outer timer rejects the outer race itself: it needs no listener.
FireOuter ==
    /\ "outer" \in armed
    /\ Abort("caller")
    /\ \E p \in Later(passed) : Settle("timedOut", p)
    /\ UNCHANGED <<call, dispatch>>

\* The timer of the adapter ends the call through the abort listeners.
FireInner ==
    /\ "inner" \in armed
    /\ Abort("timeout")
    /\ IF {"onTimeoutAbort", "onAbort"} \subseteq armed
       THEN \E p \in Later(passed) : Settle("timedOut", p)
       ELSE armed' = armed \ {"inner"} /\ UNCHANGED <<phase, passed, result>>
    /\ UNCHANGED <<call, dispatch>>

\* The timer of the race aborts first and then rejects the race.
FireRace ==
    /\ "race" \in armed
    /\ Abort("timeout")
    /\ \E p \in Later(passed) : Settle("timedOut", p)
    /\ UNCHANGED <<call, dispatch>>

PassTime ==
    /\ passed' \in Later(passed) \ {passed}
    /\ UNCHANGED <<call, phase, armed, aborted, upstream, dispatch, result>>

-----------------------------------------------------------------------------
Start == RefuseCall \/ RunCodex \/ StartCustom \/ RefuseSettings \/ SendRequest \/ ExpireUnsent
Provider == Respond \/ BreakUpstream \/ FinishBody \/ AnswerCustom
Fire == FireOuter \/ FireInner \/ FireRace

Next == Start \/ Provider \/ Fire \/ PassTime

Spec == Init /\ [][Next]_vars

\* The event loop runs what was started and every timer that stays armed;
\* nothing is assumed of the provider or of an adapter of the caller.
FairSpec == Spec /\ WF_vars(Start) /\ WF_vars(Fire)

-----------------------------------------------------------------------------
\* Correctness.

\* Type correctness.
TypeOK ==
    /\ call \in Call
    /\ phase \in {"new", "custom", "settled"} \cup Waits
    /\ passed \in Clocks
    /\ armed \in SUBSET Handles
    /\ aborted \in SUBSET {"caller", "timeout", "request"}
    /\ upstream \in {"none", "sent", "body", "ended", "cancelled"}
    /\ dispatch \in [to: {"none", "proxy", "studio", "vertex"},
                     path: {"none", "studio", "vertex"},
                     credential: {"none", "apiKey", "bearer"}, budget: Int]
    /\ result \in [kind: {"none", "decision", "timedOut", "failed"}, passed: Clocks]

\* However the call ended - an answer, an error, either timer, a refusal
\* half way through the set-up - no timer and no abort listener of it stays
\* behind in the process that goes on to the next review.
SettledQuiet == phase = "settled" => armed = {}

\* A provider request that outlives its call was never cancelled only if
\* the adapter's own deadline had been reached when the call ended: before
\* that, every end is an end of the request or aborts it.
RequestEndsWithCall ==
    (phase = "settled" /\ upstream \in {"sent", "body"}) => "inner" \in result.passed

\* A credential goes to the official endpoint of its kind and nowhere else:
\* a key to Studio, a bearer token to the Vertex scope of a valid project
\* or, without a project, to Studio; a caller's base URL cannot redirect
\* it, and a request that goes to a proxy carries none.
CredentialScope ==
    /\ dispatch.credential = "apiKey" => dispatch.to = "studio"
    /\ dispatch.credential = "bearer" =>
          dispatch.to = IF call.scope.project = "valid" THEN "vertex" ELSE "studio"
    /\ dispatch.credential # "none" =>
          call.scope.proxyUrl = "absent" /\ call.scope.baseUrl \in {"absent", dispatch.to}
    /\ dispatch.to = "proxy" => dispatch.credential = "none"

\* A recorded budget is the budget of the request, within the profile of
\* its model, and no option replaces it; an effort and a budget never meet.
RecordedBudgetApplied ==
    (dispatch.to # "none" /\ call.reviewer.provider = "gemini") =>
        /\ call.reviewer.budget = {dispatch.budget}
        /\ ValidBudget(call.reviewer.model, dispatch.budget)
        /\ call.options.effort = {} /\ call.reviewer.effort = {}

\* The deadline the caller of this call is promised.
CallerDeadline == IF call.route = "local" THEN "outer" ELSE "inner"

\* How the call looks to its caller.
Bounded == INSTANCE BoundedCall WITH
    open <- CallerDeadline \notin passed /\ aborted = {},
    outcome <- IF phase # "settled" THEN "waiting"
               ELSE IF result.kind = "decision" THEN "value" ELSE "refused"

\* A bounded call adopts a decision only while its deadline has not passed
\* and nothing aborted it, and it ends once, however late the provider or
\* an adapter answers.
AdoptsInTime == Bounded!BoundedSafety

\* The same, and it ends also with a provider that never answers.
AlwaysEnds == Bounded!BoundedSpec
=============================================================================
