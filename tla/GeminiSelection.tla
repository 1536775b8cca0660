-------------------------- MODULE GeminiSelection --------------------------
(***************************************************************************)
(* What src/src/reviewer-transports/gemini-transport.mts decides before it *)
(* sends anything: the thinking budget, the credential, and the endpoint   *)
(* the credential may travel to. A setting that is absent is the empty     *)
(* set, one that is present the set of its value; a refusal is the empty   *)
(* set of results. Text that is only checked (a URL, a project name, a     *)
(* secret) is a member of a small set named for what the checks tell       *)
(* apart.                                                                  *)
(***************************************************************************)
EXTENDS Integers

Presence == {"absent", "blank", "set"}

Budgets == Int
Efforts == {"", "none", "minimal", "low", "medium", "high", "xhigh", "max", "ultra", "other"}
Optional(S) == {o \in SUBSET S : \A x, y \in o : x = y}

\* Where a caller's base URL points.
BaseUrls == {"absent", "studio", "vertex", "vertexOther", "decorated", "foreign", "http", "malformed"}

\* What a proxy URL looks like.
ProxyUrls == {"absent", "loopback", "remote", "decorated", "malformed"}
Modes == {"studio", "vertex", "other"}

Settings ==
    [provider: {"none", "gemini", "other"},
     model: {"gemini-2.5-flash", "gemini-2.5-pro", "unlisted"},
     budget: Optional(Budgets), effort: Optional(Efforts)]

Overrides == [budget: Optional(Budgets), effort: Optional(Efforts)]

Sources ==
    [apiKey: Presence, accessToken: Presence, cloudsdkToken: Presence,
     oauthToken: Presence, envApiKey: Presence, gcloud: BOOLEAN]

Scopes ==
    [baseUrl: BaseUrls, proxyUrl: ProxyUrls, proxyMode: Optional(Modes),
     project: {"absent", "blank", "valid", "badName"}, regionOk: BOOLEAN]

-----------------------------------------------------------------------------
\* The thinking budget.

ModelLimits ==
    [flash |-> [min |-> 0, max |-> 24576], pro |-> [min |-> 128, max |-> 32768]]

LimitsOf(model) ==
    {ModelLimits.flash : m \in {model} \cap {"gemini-2.5-flash"}}
      \cup {ModelLimits.pro : m \in {model} \cap {"gemini-2.5-pro"}}

\* A model without a profile accepts no budget.
ValidBudget(model, budget) ==
    \E limits \in LimitsOf(model) : budget \in limits.min .. limits.max

EffortBudget(effort) ==
    CASE effort = "none"                             -> {0}
      [] effort \in {"minimal", "low"}               -> {1024}
      [] effort = "medium"                           -> {4096}
      [] effort \in {"high", "xhigh", "max", "ultra"} -> {16384}
      [] OTHER                                       -> {}

\* A budget and an effort in one request, or one as an option, are refused.
Mixed(reviewer, options) ==
    /\ reviewer.budget \cup options.budget # {}
    /\ reviewer.effort \cup options.effort # {}

\* Mutant: a recorded budget is not compared with the profile.
RecordedUnchecked(reviewer, options) ==
    {b \in reviewer.budget :
        /\ reviewer.provider = "gemini"
        /\ reviewer.effort \cup options.effort = {}
        /\ options.budget \subseteq reviewer.budget}

RecordedRoute(reviewer, options) ==
    {b \in reviewer.budget :
        /\ reviewer.provider = "gemini"
        /\ reviewer.effort \cup options.effort = {}
        /\ options.budget \subseteq reviewer.budget
        /\ ValidBudget(reviewer.model, b)}

\* The effort's budget is not compared with the profile of the model.
EffortRoute(reviewer, options) ==
    UNION {EffortBudget(e) : e \in
        {e \in reviewer.effort \ {""} :
            /\ reviewer.provider = "none"
            /\ options.effort \subseteq {e, ""}}}

\* Without provider and effort the option alone counts: a recorded budget
\* is not compared with it.
OptionRoute(reviewer, options) ==
    {b \in options.budget :
        /\ reviewer.provider = "none"
        /\ reviewer.effort \subseteq {""}
        /\ ValidBudget(reviewer.model, b)}

ResolveReviewerThinkingBudget(reviewer, options) ==
    IF Mixed(reviewer, options) THEN {}
    ELSE {[budget |-> b, explicit |-> TRUE] : b \in RecordedRoute(reviewer, options)}
           \cup {[budget |-> b, explicit |-> FALSE] :
                   b \in EffortRoute(reviewer, options) \cup OptionRoute(reviewer, options)}

-----------------------------------------------------------------------------
\* The credential: the first usable source, in this order.

\* The second name is read only when the first is absent: a blank first
\* name hides it.
EnvToken(sources) ==
    IF sources.cloudsdkToken = "absent" THEN sources.oauthToken ELSE sources.cloudsdkToken

ResolveAuthCredentials(sources) ==
    IF sources.apiKey = "set" THEN {"apiKey"}
    ELSE IF sources.accessToken = "set" \/ EnvToken(sources) = "set" THEN {"bearer"}
    ELSE IF sources.envApiKey = "set" THEN {"apiKey"}
    ELSE IF sources.gcloud THEN {"bearer"}
    ELSE {}

-----------------------------------------------------------------------------
\* The endpoint.

\* A bearer token goes to Vertex when a project is known, a key to Studio.
ResolveProviderBaseUrl(credential, scope) ==
    IF credential = "bearer" /\ scope.project \in {"valid", "badName"}
    THEN {base \in {"vertex"} : scope.project = "valid" /\ scope.regionOk}
    ELSE {"studio"}

\* Mutant: any official endpoint the caller names is dispatched to.
SelectCallerBase(credential, scope) ==
    {base \in {"studio", "vertex"} : scope.baseUrl = base}
      \cup {base \in ResolveProviderBaseUrl(credential, scope) : scope.baseUrl = "absent"}

\* A caller's base URL may only repeat the endpoint the provider's own
\* rules select; what is dispatched is that endpoint, not the caller's.
SelectDirect(credential, scope) ==
    {base \in ResolveProviderBaseUrl(credential, scope) :
        scope.baseUrl \in {"absent", base}}

AcceptedProxy(scope) == scope.proxyUrl = "loopback"

\* Without a mode a project selects Vertex; an unknown project is "default".
ProxyPath(scope) ==
    CASE scope.proxyMode = {}         -> {IF scope.project = "absent" THEN "studio" ELSE "vertex"}
      [] scope.proxyMode = {"other"}  -> {}
      [] OTHER                        -> scope.proxyMode

\* A request through the proxy carries no credential, and reads none.
PrepareGeminiDispatch(sources, scope) ==
    IF scope.proxyUrl # "absent"
    THEN {[to |-> "proxy", path |-> p, credential |-> "none"] :
             p \in {p \in ProxyPath(scope) : AcceptedProxy(scope)}}
    ELSE {[to |-> d[2], path |-> d[2], credential |-> d[1]] :
             d \in UNION {{<<c, base>> : base \in SelectDirect(c, scope)} :
                            c \in ResolveAuthCredentials(sources)}}
=============================================================================
