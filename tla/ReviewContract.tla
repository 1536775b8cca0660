--------------------------- MODULE ReviewContract ---------------------------
(***************************************************************************)
(* What src/src/review-contract/review-contract.mts accepts: the committed *)
(* configuration, the reviewer settings, the request prepared from them,   *)
(* and the answer that is validated against them. A commit is a number,    *)
(* and Committed gives what the configuration files of that commit hold;   *)
(* the text of prompts and schemas is only ever carried.                   *)
(***************************************************************************)
EXTENDS Integers, FiniteSets, Sequences, SequencesExt

CONSTANTS
    LastRevision,   \* commits are 1 .. LastRevision, in the order HEAD takes them
    Ids,            \* the documents an answer may name
    Committed       \* what is committed at each revision

Revisions == 1 .. LastRevision

Contents ==
    [readable: BOOLEAN, version: Int, timeout: Int,
     authority: SUBSET Ids, required: SUBSET Ids, external: BOOLEAN,
     passArrays: BOOLEAN, rules: BOOLEAN,
     provider: {"absent", "codex", "gemini", "other"},
     effort: {"absent", "supported", "other"}, budget: {"absent", "valid", "invalid"},
     promptBytes: Nat, maxPromptBytes: Nat]

\* reported is what the answer lists; scope says whether each array a PASS
\* must fill holds only nonempty strings, obeys whether the committed
\* validation rules hold of it, shaped whether it fits the decision schema.
Answers ==
    [decision: {"PASS", "BLOCK", "OWNER_DECISION"}, reported: Seq(Ids),
     scope: BOOLEAN, obeys: BOOLEAN, shaped: BOOLEAN, bytes: Nat]

Requests == [revision: Revisions, version: {1, 2}, authority: SUBSET Ids, intact: BOOLEAN]

ASSUME ContractAssumption ==
    /\ LastRevision \in Nat \ {0}
    /\ IsFiniteSet(Ids)
    /\ Committed \in [Revisions -> Contents]

-----------------------------------------------------------------------------
ConfigLoads(config) ==
    /\ config.readable
    /\ config.version \in {1, 2}
    /\ config.timeout \in 1000 .. 3600000

Provider(config) == IF config.provider = "absent" THEN "codex" ELSE config.provider

\* Codex takes a reasoning effort and no budget, Gemini a budget its model
\* allows and no effort.
SettingsLoad(config) ==
    CASE Provider(config) = "codex"  -> config.effort = "supported" /\ config.budget = "absent"
      [] Provider(config) = "gemini" -> config.effort = "absent" /\ config.budget = "valid"
      [] OTHER                       -> FALSE

\* A prior decision is part of a version 2 prompt and counts against its limit.
FitsPrompt(config, priorBytes) ==
    config.version = 2 => config.promptBytes + priorBytes <= config.maxPromptBytes

\* The synchronous API prepares version 1 only; no local route reads an
\* authority of another repository.
Prepares(api, config, priorBytes) ==
    /\ ConfigLoads(config)
    /\ api = "sync" => config.version = 1
    /\ SettingsLoad(config)
    /\ config.version = 2 => config.authority # {} /\ ~config.external
    /\ FitsPrompt(config, priorBytes)

\* Everything is read at the revision the request records.
RequestAt(revision) ==
    [revision |-> revision, version |-> Committed[revision].version,
     authority |-> Committed[revision].authority, intact |-> TRUE]

-----------------------------------------------------------------------------
PassScope(config, answer) ==
    answer.decision = "PASS" /\ config.passArrays => answer.scope

ReportsV1(config, answer) ==
    /\ config.required \subseteq ToSet(answer.reported)
    /\ ToSet(answer.reported) \subseteq config.authority

\* Version 2: the complete set, each member once.
ReportsV2(request, answer) ==
    /\ Len(answer.reported) = Cardinality(request.authority)
    /\ ToSet(answer.reported) \subseteq request.authority
    /\ IsInjective(answer.reported)

\* validateDecision and its version 2 counterpart.
DecisionAccepted(request, config, answer) ==
    /\ IF request.version = 2 THEN ReportsV2(request, answer) ELSE ReportsV1(config, answer)
    /\ PassScope(config, answer)

\* The digest of the request, the configuration of its revision, the schema,
\* the decision, and the committed validation rules, in this order.
ResponseAccepted(request, answer) ==
    LET config == Committed[request.revision]
    IN  /\ request.intact
        /\ ConfigLoads(config)
        /\ config.version = request.version
        /\ answer.shaped
        /\ DecisionAccepted(request, config, answer)
        /\ config.rules => answer.obeys

\* A revision-bound run takes only the request HEAD still prepares.
PreflightAccepted(request, head, provider) ==
    /\ request.intact
    /\ Provider(Committed[request.revision]) = provider
    /\ Prepares("async", Committed[head], 0)
    /\ RequestAt(head) = request
=============================================================================
