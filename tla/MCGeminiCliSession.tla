------------------------ MODULE MCGeminiCliSession ------------------------
(***************************************************************************)
(* Sessions for TLC. RaceInputs has one session that may run and one that  *)
(* may not, for the order of events; the others vary what is checked       *)
(* before the CLI is started.                                              *)
(***************************************************************************)
EXTENDS GeminiCliSession

Runnable ==
    [fixedKeys |-> TRUE, bearer |-> TRUE, scopeOk |-> TRUE, timeoutOk |-> TRUE,
     packetOk |-> TRUE, longLine |-> FALSE, limitsOk |-> TRUE, prompt |-> "fits",
     model |-> "gemini-3.8-flash", level |-> "MEDIUM", budget |-> "absent",
     foldsCase |-> FALSE, tree |-> {}]

RaceInputs == {Runnable, [Runnable EXCEPT !.bearer = FALSE]}

ThinkingInputs ==
    {[Runnable EXCEPT !.model = m, !.level = l, !.budget = b] :
        m \in {"gemini-3.8-flash", "otherModel", "invalid"},
        l \in {"absent", "MEDIUM", "other"}, b \in {"absent", "valid", "invalid"}}

TreeInputs ==
    {[Runnable EXCEPT !.tree = {e, f}, !.foldsCase = b] : e \in Entry, f \in Entry, b \in BOOLEAN}

CheckInputs ==
    {[Runnable EXCEPT !.packetOk = FALSE], [Runnable EXCEPT !.longLine = TRUE],
     [Runnable EXCEPT !.limitsOk = FALSE], [Runnable EXCEPT !.prompt = "envelopeTooLong"]}

AllInputs == RaceInputs \cup ThinkingInputs \cup TreeInputs \cup CheckInputs
=============================================================================
