-------------------------- MODULE MCGeminiLauncher --------------------------
(***************************************************************************)
(* Sessions for TLC. SupervisedSessions are for the order of events;       *)
(* LimitSessions and ScopeSessions vary what is checked before the start.  *)
(***************************************************************************)
EXTENDS GeminiLauncher

Key == [apiKey |-> "set", accessToken |-> "absent", cloudsdkToken |-> "absent",
        oauthToken |-> "absent", envApiKey |-> "absent", gcloud |-> FALSE]

Plain ==
    [endpointArg |-> FALSE, cliLimit |-> {}, recorded |-> {}, callerLimit |-> {}, envLimit |-> 2,
     sources |-> Key, model |-> TRUE, project |-> TRUE, region |-> TRUE,
     modeOverride |-> {}, leak |-> FALSE,
     provider |-> "gemini", budget |-> {}, effort |-> {}, preflight |-> TRUE, github |-> TRUE]

SupervisedSessions ==
    {Plain, [Plain EXCEPT !.github = FALSE], [Plain EXCEPT !.preflight = FALSE],
     [Plain EXCEPT !.leak = TRUE], [Plain EXCEPT !.budget = {64}],
     [Plain EXCEPT !.provider = "none", !.effort = {"high"}]}

\* Below, at and above what is allowed, and no number.
Times == {NaN} \cup 0 .. 4

LimitSessions ==
    {[Plain EXCEPT !.cliLimit = c, !.recorded = r, !.callerLimit = o, !.envLimit = e] :
        c \in Optional(Times), r \in Optional(Times), o \in Optional(Times), e \in {NaN, 0, 3}}

ScopeSessions ==
    {[Plain EXCEPT !.sources = s, !.modeOverride = m, !.project = p] :
        s \in {Key, [Key EXCEPT !.apiKey = "absent", !.oauthToken = "set"],
               [Key EXCEPT !.apiKey = "absent", !.gcloud = TRUE]},
        m \in Optional({"studio", "vertex", "none"}), p \in BOOLEAN}

AllSessions == SupervisedSessions \cup LimitSessions \cup ScopeSessions
=============================================================================
