---------------------------- MODULE MCLocalReview ----------------------------
(***************************************************************************)
(* Small instances of LocalReview.                                         *)
(***************************************************************************)
EXTENDS LocalReview

MCIds == {"contract", "history"}

V1 ==
    [readable |-> TRUE, version |-> 1, timeout |-> 1000,
     authority |-> {"contract", "history"}, required |-> {"contract"}, external |-> FALSE,
     passArrays |-> FALSE, rules |-> FALSE, provider |-> "absent",
     effort |-> "supported", budget |-> "absent", promptBytes |-> 0, maxPromptBytes |-> 0]

V2 == [V1 EXCEPT !.version = 2, !.passArrays = TRUE, !.rules = TRUE,
                 !.promptBytes = 3, !.maxPromptBytes = 4]

Gemini(config) == [config EXCEPT !.provider = "gemini", !.effort = "absent", !.budget = "valid"]

Plain ==
    [decision |-> "PASS", reported |-> <<"contract", "contract">>, scope |-> FALSE,
     obeys |-> TRUE, shaped |-> TRUE, bytes |-> 1]
Full == [Plain EXCEPT !.reported = <<"history", "contract">>, !.scope = TRUE]
Block == [Full EXCEPT !.decision = "BLOCK", !.bytes = 2]

\* Each revision asks for more, for less, or for another provider than the one
\* before it.
MCCommitted == <<Gemini(V1), Gemini(V2), V2, [V1 EXCEPT !.rules = TRUE]>>

MCGiven == {Plain, Full, Block, [Full EXCEPT !.obeys = FALSE]}

\* Two hooks of one session, two native reviews with one request path, and
\* each other way in alone: only HEAD is shared with those.
MCApi == [first |-> "async", second |-> "async", prepared |-> "native", again |-> "native",
          sync |-> "sync", manual |-> "manual", bound |-> "bound"]
MCProcesses == DOMAIN MCApi
MCPlace == [p \in MCProcesses |->
    IF p \in {"first", "second"} THEN "session"
    ELSE IF p \in {"prepared", "again"} THEN "request" ELSE p]
MCTogether == {{"first", "second"}, {"prepared", "again"}, {"sync"}, {"manual"}, {"bound"}}
==============================================================================
