-------------------------- MODULE MCReportPublisher --------------------------
(***************************************************************************)
(* Report jobs for TLC and, on their own, the two things a job computes    *)
(* before it publishes: the lines of a patch, and the text of the report.  *)
(* A behaviour is about one of the three.                                  *)
(***************************************************************************)
EXTENDS ReportPublisher

CONSTANTS
    r1, r2,         \* two report jobs
    Scripts, Drafts, FindingTexts   \* see ReportText

ASSUME ScriptsAssumption ==
    \A s \in Scripts : s \in Seq({"add", "del", "same"}) /\ Len(s) < 99
ASSUME TextsAssumption ==
    /\ FindingTexts \subseteq [core : Nat, full : Nat, body : Nat]
    /\ Drafts \subseteq [fixed : Nat, required : Nat, optional : Nat,
                         footer : Nat, compactFooter : Nat, findings : {<<>>}]

MCReports == {r1, r2}
\* The second push brings the first head back.
MCHeads == <<"A", "B", "A">>
MCLocated == [h \in {"A", "B"} |-> IF h = "A" THEN {"f"} ELSE {"f", "g"}]
OneGroup == [r \in Reports |-> "report"]

Job(provider, decision, head) ==
    [provider |-> provider, decision |-> decision, head |-> head, findings |-> <<"f", "g", "f">>,
     context |-> TRUE, token |-> TRUE, eligible |-> FALSE, authorityRoute |-> FALSE, boundSet |-> FALSE, legacyRoute |-> FALSE,
     projection |-> "none", display |-> "none", procedure |-> "none",
     provenance |-> "none", legacy |-> "none"]

\* A decision and its repetition on either head, one of them projected.
RaceJobs ==
    {Job("plain", "BLOCK", h) : h \in {"A", "B"}}
    \cup {[Job("gemini", "BLOCK", "A") EXCEPT !.projection = "A", !.provenance = "A"],
          Job("plain", "OWNER_DECISION", "A")}

Named == {"none", "invalid", "A", "B"}

\* Every combination of the inputs of a report of head A.
InputJobs ==
    {[Job(p, d, "A") EXCEPT !.findings = <<>>, !.context = c, !.eligible = e,
        !.authorityRoute = a, !.legacyRoute = l, !.boundSet = b, !.procedure = x, !.provenance = y, !.legacy = z] :
        p \in {"plain"}, d \in {"PASS", "OWNER_DECISION"}, c \in BOOLEAN, e \in BOOLEAN,
        a \in BOOLEAN, l \in BOOLEAN, b \in BOOLEAN, x \in Named, y \in Named, z \in Named}
    \cup {[Job(p, "BLOCK", "A") EXCEPT !.findings = <<>>, !.projection = x, !.display = y,
             !.provenance = z] :
            p \in {"gemini", "codex"}, x \in Named, y \in Named, z \in Named}
    \cup {[Job("gemini", "BLOCK", "A") EXCEPT !.projection = "A", !.provenance = "A", !.token = FALSE]}

\* Two jobs with inputs that are complete, or one with any inputs.
MCJobs ==
    UNION {[Reports -> RaceJobs],
           {[r \in Reports |-> IF r = r1 THEN j ELSE Job("plain", "PASS", "neverPushed")] :
                j \in InputJobs}}

-----------------------------------------------------------------------------
VARIABLES matter, patch, truth, draft

text == <<patch, truth, draft>>

Part(fixed, required, optional) ==
    [fixed |-> fixed, required |-> required, optional |-> optional,
     footer |-> 60, compactFooter |-> 45, findings |-> <<>>]

\* Every edit script of at most four rows.
MCScripts == UNION {[1 .. n -> {"add", "del", "same"}] : n \in 1 .. 4}

\* From an almost empty report to one whose gates and evidence nearly fill it.
MCDrafts == {Part(f, r, o) : f \in {500, 30000}, r \in {0, 20000, 29000}, o \in {0, 40000}}

\* A finding without explanation, a usual one, and one of maximal length.
MCFindings ==
    {[core |-> 60, full |-> 70, body |-> 0], [core |-> 150, full |-> 580, body |-> 400],
     [core |-> 900, full |-> 2930, body |-> 2000]}

Text == INSTANCE ReportText

ReportRunInit ==
    /\ matter \in {"jobs", "patch", "length"}
    /\ Init
    /\ matter # "jobs" => job = [r \in Reports |-> Job("plain", "BLOCK", "A")]
    /\ Text!Init
    /\ matter # "patch" => truth = <<"add">>
    /\ matter # "length" => draft = Part(500, 0, 0)

ReportRunNext ==
    \/ matter = "jobs" /\ Next /\ UNCHANGED <<matter, text>>
    \/ matter = "patch" /\ (Text!CutPatch \/ Text!AppendHunk) /\ UNCHANGED <<matter, vars>>
    \/ matter = "length" /\ Text!AddFinding /\ UNCHANGED <<matter, vars>>

ReportRunSpec == ReportRunInit /\ [][ReportRunNext]_<<vars, matter, text>>

\* Of a patch that was cut anywhere, either no line is offered for an inline
\* finding or exactly the changed lines of the whole file are
\* (ci-report.mts:97-138).
OnlyChangedLinesOffered == matter = "patch" => Text!OffersOnlyChanges

\* A report GitHub accepts, whatever the findings, the gates and the evidence
\* are: at most 65536 characters, with everything that must be kept
\* (ci-report.mts:599-648).
WithinGitHubLimit == matter = "length" => Text!FitsGitHub
=============================================================================
