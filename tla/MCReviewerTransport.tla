------------------------ MODULE MCReviewerTransport ------------------------
(***************************************************************************)
(* Calls for TLC. RaceCalls has one call of each kind, for the races of    *)
(* timers, aborts and answers. The others vary what a call records,        *)
(* its options, its credentials and its endpoint.                          *)
(***************************************************************************)
EXTENDS ReviewerTransport

Key == [apiKey |-> "set", accessToken |-> "absent", cloudsdkToken |-> "absent",
        oauthToken |-> "absent", envApiKey |-> "absent", gcloud |-> FALSE]
NoScope == [baseUrl |-> "absent", proxyUrl |-> "absent", proxyMode |-> {},
            project |-> "absent", regionOk |-> TRUE]
Recorded == [provider |-> "gemini", model |-> "gemini-2.5-pro",
             budget |-> {1024}, effort |-> {}]
NoOverride == [budget |-> {}, effort |-> {}]

PlainCall ==
    [route |-> "local", adapter |-> "gemini", formatOk |-> TRUE, timeoutOk |-> TRUE,
     modelOk |-> TRUE, reviewer |-> Recorded, options |-> NoOverride,
     sources |-> Key, scope |-> NoScope]

RaceCalls ==
    {PlainCall, [PlainCall EXCEPT !.route = "direct"],
     [PlainCall EXCEPT !.adapter = "codex"], [PlainCall EXCEPT !.adapter = "custom"],
     [PlainCall EXCEPT !.formatOk = FALSE], [PlainCall EXCEPT !.modelOk = FALSE],
     [PlainCall EXCEPT !.route = "direct", !.timeoutOk = FALSE]}

\* Budgets at and next to the bounds of the profiles.
BudgetCalls ==
    {[PlainCall EXCEPT !.reviewer = r, !.options = o] :
        r \in [provider: {"none", "gemini", "other"}, model: {"gemini-2.5-pro", "unlisted"},
               budget: Optional({-1, 127, 128, 32768, 32769}), effort: Optional({"", "none", "high"})],
        o \in [budget: Optional({128, 32769}), effort: Optional({"none", "high"})]}

CredentialCalls ==
    {[PlainCall EXCEPT !.sources = s, !.scope = [NoScope EXCEPT !.project = p]] :
        s \in [apiKey: {"absent", "blank", "set"}, accessToken: {"blank", "set"},
               cloudsdkToken: Presence, oauthToken: {"absent", "set"},
               envApiKey: {"absent", "set"}, gcloud: BOOLEAN],
        p \in {"absent", "valid"}}

ScopeCalls ==
    {[PlainCall EXCEPT !.sources = s, !.scope = c] :
        s \in {Key, [Key EXCEPT !.apiKey = "absent", !.gcloud = TRUE]},
        c \in [baseUrl: BaseUrls, proxyUrl: ProxyUrls, proxyMode: Optional(Modes),
               project: {"absent", "blank", "valid", "badName"}, regionOk: BOOLEAN]}

AllCalls == UNION {RaceCalls, BudgetCalls, CredentialCalls, ScopeCalls}
=============================================================================
