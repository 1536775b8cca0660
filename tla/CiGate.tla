------------------------------- MODULE CiGate -------------------------------
(***************************************************************************)
(* One run of the reusable workflow architecture-gate.yml for one pull     *)
(* request: the policy the protected base selects, the jobs with their     *)
(* `needs` and `if`, what each hands over as outputs, and the verdict of   *)
(* accept, the required check.                                             *)
(*                                                                         *)
(* A job publishes its outputs when it ends, those of the steps it         *)
(* completed also when it fails or is cancelled.  The runner blanks an     *)
(* output that may hold a secret.  A push to the pull request leaves the   *)
(* reviewed merge behind and, through the concurrency group, cancels the   *)
(* run; jobs under always() run nevertheless.  The measurement job, never  *)
(* acceptance evidence, is in MeasurementLedger.                           *)
(***************************************************************************)
EXTENDS Naturals

CONSTANTS Repositories,  \* the repositories whose workflows call this one
          Self,          \* flair-agency/architecture-gatekeeper
          Answers        \* what a reviewer may return

Decisions == {"PASS", "BLOCK", "OWNER_DECISION"}

\* kind: the field decision; nested: some gate decides BLOCK; named:
\* ownerDecisionId is the decision the addition tag claims to supply.
Texts == [kind : Decisions \cup {"INVALID", ""}, nested : BOOLEAN, named : BOOLEAN]

Nothing == [kind |-> "", nested |-> FALSE, named |-> FALSE]

ASSUME GateAssumption ==
    /\ Self \in Repositories
    /\ Answers \subseteq {t \in Texts : t.kind # ""}

VARIABLES
    branch,        \* the base branch's entry in the protected CI policy
    caller,        \* the repository of the pull request
    candidate,     \* what the pull request changes
    live,          \* main and the pull request still are as reviewed
    cancelled,     \* the run was asked to stop
    job,           \* the result of each job
    policy,        \* outputs of policy
    said,          \* what the ordinary reviewer returned inside its job
    text, kind, display, changed,  \* outputs of the ordinary review job
    prepared,      \* the G0 procedure was verified in owner-addition
    addition,      \* output eligibility of owner-addition
    amendment,     \* output eligibility of owner-amendment
    conclusion,    \* output of report
    verification   \* outcome of the step verify-amendment of accept

subject == <<branch, caller, candidate>>
review == <<said, text, kind, display, changed>>
procedures == <<prepared, addition, amendment>>
vars == <<subject, live, cancelled, job, policy, review, procedures,
          conclusion, verification>>

-----------------------------------------------------------------------------
(* The policy of the protected base.                                       *)

\* Version "bootstrap" stands for a base revision without a policy file.
Branches == [version : {"bootstrap", "1", "2", "4", "5", "6"},
             mode : {"local-only", "enforced", "procedural"},
             provider : {"", "codex", "gemini"},
             manifest : BOOLEAN,
             ownerAddition : {"none", "single", "multi"},
             ownerAmendment : BOOLEAN]

Bare(b) == ~b.manifest /\ b.ownerAddition = "none" /\ ~b.ownerAmendment

\* validateBranch, for the versions 1 to 5
ValidRoute(b, version) ==
    \/ b.mode = "local-only" /\ Bare(b)
    \/ /\ b.mode = IF version = "5" THEN "procedural" ELSE "enforced"
       /\ version = "1" => Bare(b)
       /\ version = "2" => b.ownerAddition # "multi"
       /\ version \in {"4", "5"} => b.ownerAddition = "multi"
       /\ b.ownerAddition # "none" => b.manifest
       /\ b.ownerAmendment => version = "2" /\ b.manifest

\* validateV6Branch: the route an explicit provider selects.
ValidV6(b) ==
    LET route == IF b.mode = "procedural" THEN "5"
                 ELSE IF b.ownerAddition = "multi" THEN "4" ELSE "2"
    IN  \/ b.mode = "local-only" /\ b.provider = "" /\ Bare(b)
        \/ /\ b.mode # "local-only" /\ b.provider = "codex" /\ b.manifest
           /\ ValidRoute(b, route)
        \/ /\ b.mode = "enforced" /\ b.provider = "gemini" /\ b.manifest
           /\ b.ownerAddition = "none" /\ ~b.ownerAmendment

ValidBranch(b) ==
    CASE b.version = "bootstrap" -> b.mode = "enforced" /\ b.provider = "" /\ Bare(b)
      [] b.version = "6" -> ValidV6(b)
      [] OTHER -> b.provider = "" /\ ValidRoute(b, b.version)

\* resolveCiPolicy and the outputs of the policy job. The version is named
\* for v1, for v6 and for the multi-document additions only.
Resolve(b) ==
    [mode |-> b.mode,
     version |-> IF \/ b.version = "6"
                    \/ b.version = "1" /\ b.mode = "enforced"
                    \/ b.version \in {"4", "5"} /\ b.ownerAddition = "multi"
                 THEN b.version ELSE "",
     provider |-> IF b.provider = "gemini" THEN "gemini" ELSE "codex",
     manifest |-> b.manifest,
     g0 |-> b.ownerAddition # "none",
     protectedPr |-> b.ownerAmendment]

Unresolved == [mode |-> "", version |-> "", provider |-> "codex",
               manifest |-> FALSE, g0 |-> FALSE, protectedPr |-> FALSE]

-----------------------------------------------------------------------------
(* The job graph.                                                          *)

Jobs == {"policy", "review", "gemini-review", "owner-addition",
         "owner-amendment", "report", "accept"}

Ended == {"success", "failure", "cancelled", "skipped"}

Needs == [j \in Jobs |->
    CASE j = "policy" -> {}
      [] j \in {"review", "gemini-review"} -> {"policy"}
      [] j = "owner-addition" -> {"policy", "review"}
      [] j = "owner-amendment" -> {"policy", "review", "owner-addition"}
      [] j = "report" -> {"policy", "review", "gemini-review", "owner-addition"}
      [] j = "accept" -> Jobs \ {"accept"}]

\* Mutation of Always: the required check under success() only.
AlwaysReportOnly == {"report"}

Always == {"report", "accept"}

\* The amendment is due when no addition explains the changed Authority.
AmendmentDue == policy.protectedPr /\ changed = "true" /\ addition # "ELIGIBLE"

\* The `if` of each job; without always() it includes success().
Wanted(j) ==
    CASE j = "policy" -> ~cancelled
      [] j = "review" -> /\ ~cancelled /\ job["policy"] = "success"
                         /\ policy.mode \in {"enforced", "procedural"}
                         /\ policy.provider # "gemini"
      [] j = "gemini-review" -> /\ ~cancelled /\ job["policy"] = "success"
                                /\ policy.mode = "enforced"
                                /\ policy.provider = "gemini"
      [] j = "owner-addition" -> /\ ~cancelled
                                 /\ job["policy"] = "success" /\ job["review"] = "success"
                                 /\ policy.mode \in {"enforced", "procedural"}
                                 /\ policy.g0 /\ kind = "OWNER_DECISION"
      [] j = "owner-amendment" -> /\ ~cancelled /\ caller = Self
                                  /\ AmendmentDue /\ job["review"] = "success"
      [] j = "report" -> TRUE
      [] j = "accept" -> TRUE

Init ==
    /\ branch \in Branches
    /\ caller \in Repositories
    /\ candidate \in {"code", "authority", "mixed"}
    /\ live = TRUE /\ cancelled = FALSE
    /\ job = [j \in Jobs |-> "waiting"]
    /\ policy = Unresolved
    /\ said = Nothing /\ text = Nothing
    /\ kind = "" /\ display = "" /\ changed = ""
    /\ prepared = FALSE /\ addition = "" /\ amendment = ""
    /\ conclusion = "" /\ verification = ""

\* GitHub evaluates the `if` once all needed jobs have ended.
Begin(j) ==
    /\ job[j] = "waiting"
    /\ \A n \in Needs[j] : job[n] \in Ended
    /\ job' = [job EXCEPT ![j] = IF Wanted(j) THEN "running" ELSE "skipped"]
    /\ UNCHANGED <<subject, live, cancelled, policy, review, procedures,
                   conclusion, verification>>

\* A running job ends: a step fails, the host or the time limit stops it,
\* or the run is cancelled and the job is not under always().
End(j, result) ==
    /\ job[j] = "running"
    /\ result = "cancelled" => cancelled /\ j \notin Always
    /\ job' = [job EXCEPT ![j] = result]

Results == {"success", "failure", "cancelled"}

\* Resolution is the last step that matters to the outputs; the steps after
\* it confine the amendment selection to self and may still fail the job.
PolicyEnds == \E result \in Results, resolved \in BOOLEAN :
    /\ End("policy", result)
    /\ resolved => ValidBranch(branch)
    /\ result = "success" => resolved /\ (branch.ownerAmendment => caller = Self)
    /\ policy' = IF resolved THEN Resolve(branch) ELSE Unresolved
    /\ UNCHANGED <<subject, live, cancelled, review, procedures,
                   conclusion, verification>>

-----------------------------------------------------------------------------
(* The ordinary review.                                                    *)

\* The steps of review that hand something over, in their order.
Compared == 1
Answered == 2
Identified == 3
Published == 4

SelfEnforced == caller = Self /\ policy.mode = "enforced"

\* Authority changes are looked up for self and for procedural branches.
Comparing == SelfEnforced \/ policy.mode = "procedural"
Comparison == IF candidate = "code" THEN "false" ELSE "true"

\* ci-decision-kind runs where a procedure may follow.
Identifying == policy.mode = "procedural" \/ policy.g0 \/ policy.protectedPr

\* The workflow's condition for a masked display of a decision of kind k,
\* repeated as CODEX_REVIEW_SELECTED by report.
Shown(k) == /\ SelfEnforced
            /\ \/ k = "PASS"
               \/ policy.version = "2" /\ ~policy.g0 /\ k \in {"BLOCK", "OWNER_DECISION"}

ReviewEnds == \E result \in Results, reached \in 0 .. Published,
                 answer \in Answers, hidden \in BOOLEAN :
    /\ End("review", result)
    /\ result = "success" => reached = Published
    /\ reached >= Compared /\ SelfEnforced => policy.manifest
    /\ reached >= Identified /\ Identifying => answer.kind \in Decisions
    /\ changed' = IF reached >= Compared /\ Comparing THEN Comparison ELSE ""
    /\ said' = IF reached >= Answered THEN answer ELSE said
    /\ kind' = IF reached >= Identified /\ Identifying THEN answer.kind ELSE ""
    /\ display' = IF reached >= Published /\ Shown(kind') THEN kind' ELSE ""
    /\ text' = IF reached >= Answered /\ display' = "" /\ ~hidden THEN answer ELSE Nothing
    /\ UNCHANGED <<subject, live, cancelled, policy, procedures, conclusion, verification>>

\* The Gemini session publishes only its masked display and its conclusion.
GeminiEnds == \E result \in Results, reached \in 0 .. 2, answer \in Answers :
    /\ End("gemini-review", result)
    /\ result = "success" => reached = 2
    /\ reached >= 1 => answer.kind \in Decisions
    /\ said' = IF reached >= 1 THEN answer ELSE said
    /\ display' = IF reached >= 1 THEN answer.kind ELSE ""
    /\ changed' = IF reached = 2 /\ SelfEnforced THEN Comparison ELSE ""
    /\ UNCHANGED <<subject, live, cancelled, policy, text, kind, procedures,
                   conclusion, verification>>

-----------------------------------------------------------------------------
(* The Owner procedures.                                                   *)

\* validateOrdinaryOwnerDecision
NamesMissingDecision(t) == t.kind = "OWNER_DECISION" /\ ~t.nested /\ t.named

\* The heads fetched are still the reviewed ones, B changes its Authority
\* file alone, and the handed over decision asks for exactly that addition.
AdditionPrepares ==
    /\ job["owner-addition"] = "running" /\ ~prepared
    /\ live
    /\ candidate = "authority"
    /\ NamesMissingDecision(text)
    /\ prepared' = TRUE
    /\ UNCHANGED <<subject, live, cancelled, job, policy, review, addition, amendment,
                   conclusion, verification>>

\* The eligibility reviewer answers once prepared; the evidence upload may
\* still fail the job.
AdditionEnds == \E result \in Results, eligible \in BOOLEAN :
    /\ End("owner-addition", result)
    /\ eligible => prepared
    /\ result = "success" => eligible
    /\ addition' = IF eligible THEN "ELIGIBLE" ELSE ""
    /\ UNCHANGED <<subject, live, cancelled, policy, review, prepared, amendment,
                   conclusion, verification>>

\* An amendment modifies nothing but members of the old Authority Set.
AmendmentEnds == \E result \in Results, answer \in {"", "ELIGIBLE", "INELIGIBLE"} :
    /\ End("owner-amendment", result)
    /\ answer # "" => candidate = "authority"
    /\ result = "success" => answer # ""
    /\ amendment' = answer
    /\ UNCHANGED <<subject, live, cancelled, policy, review, prepared, addition,
                   conclusion, verification>>

-----------------------------------------------------------------------------
(* The report.                                                             *)

AdditionCompleted(t) == /\ NamesMissingDecision(t)
                        /\ policy.g0
                        /\ job["owner-addition"] = "success"
                        /\ addition = "ELIGIBLE"

\* classifyReview
Classify(t) ==
    IF job["policy"] # "success" THEN "ERROR"
    ELSE IF policy.mode = "local-only" THEN "WAIVED"
    ELSE IF job["review"] # "success" \/ t.kind \notin Decisions THEN "ERROR"
    ELSE IF ~AdditionCompleted(t) THEN t.kind
    ELSE IF policy.mode = "procedural" THEN "OWNER_ADDITION_G0_PENDING"
    ELSE "OWNER_ADDITION_G0"

\* Mutation of DisplaySelected: only a raw PASS asks for the display.
DisplayOfRawPass == SelfEnforced /\ Classify(text) = "PASS"

\* loadCodexReviewReport: where the masked display replaces the raw text,
\* and what it then insists on.
DisplaySelected ==
    Shown(kind) \/ display # "" \/ (SelfEnforced /\ Classify(text) = "PASS")

DisplayBound == /\ SelfEnforced
                /\ job["policy"] = "success" /\ job["review"] = "success"
                /\ kind \in Decisions
                /\ kind # "PASS" => policy.version = "2" /\ ~policy.g0
                /\ display = kind

\* Mutation of Reportable: a projection without its successful job.
ProjectionSuffices ==
    IF policy.provider = "gemini" THEN display \in Decisions
                                  ELSE DisplaySelected => DisplayBound

Reportable == IF policy.provider = "gemini"
              THEN /\ job["policy"] = "success" /\ job["gemini-review"] = "success"
                   /\ display \in Decisions
              ELSE DisplaySelected => DisplayBound

Conclusion == IF policy.provider = "gemini" THEN display
              ELSE Classify(IF DisplaySelected THEN said ELSE text)

ReportEnds == \E result \in Results, written \in BOOLEAN :
    /\ End("report", result)
    /\ written => Reportable
    /\ result = "success" => written
    /\ conclusion' = IF written THEN Conclusion ELSE ""
    /\ UNCHANGED <<subject, live, cancelled, policy, review, procedures, verification>>

\* The group of the report keeps one job pending: the report of a newer run
\* of the pull request displaces this one.
ReportDisplaced ==
    /\ cancelled
    /\ job["report"] = "waiting"
    /\ \A n \in Needs["report"] : job[n] \in Ended
    /\ job' = [job EXCEPT !["report"] = "cancelled"]
    /\ UNCHANGED <<subject, live, cancelled, policy, review, procedures,
                   conclusion, verification>>

-----------------------------------------------------------------------------
(* The required check.                                                     *)

Admitted == /\ job["policy"] = "success"
            /\ policy.mode \in {"local-only", "enforced", "procedural"}
            /\ job["report"] = "success"

\* self-amendment-pr verify re-reads main and the pull request.
VerifyAmendment == \E outcome \in {"success", "failure"} :
    /\ job["accept"] = "running" /\ verification = ""
    /\ Admitted /\ AmendmentDue
    /\ outcome = "success" => amendment = "ELIGIBLE" /\ live
    /\ verification' = outcome
    /\ UNCHANGED <<subject, live, cancelled, job, policy, review, procedures, conclusion>>

ReviewJob == IF policy.provider = "gemini" THEN "gemini-review" ELSE "review"

AdditionEligible == /\ policy.g0
                    /\ job["owner-addition"] = "success"
                    /\ addition = "ELIGIBLE"

\* Mutation of EnforcedAcceptance: any reported PASS is enough.
PassSuffices ==
    /\ job[ReviewJob] = "success"
    /\ \/ conclusion = "OWNER_ADDITION_G0" /\ AdditionEligible
       \/ policy.protectedPr /\ verification = "success"
       \/ conclusion = "PASS"

\* assertEnforcedAcceptance
EnforcedAcceptance ==
    LET compare == caller = Self \/ policy.protectedPr
    IN  /\ job[ReviewJob] = "success"
        /\ conclusion \in Decisions \cup {"OWNER_ADDITION_G0"}
        /\ compare => changed \in {"true", "false"}
        /\ \/ conclusion = "OWNER_ADDITION_G0" /\ AdditionEligible
           \/ /\ changed = "true" /\ compare
              /\ policy.protectedPr /\ job["owner-amendment"] = "success"
              /\ verification = "success"
           \/ /\ ~(changed = "true" /\ compare)
              /\ verification # "success"
              /\ conclusion = "PASS"

\* Mutation of ProceduralAcceptance: PASS whatever the comparison says.
PassWhateverChanged ==
    /\ job["review"] = "success"
    /\ \/ conclusion = "PASS"
       \/ conclusion = "OWNER_ADDITION_G0_PENDING" /\ AdditionEligible

\* assertProceduralV5Acceptance
ProceduralAcceptance ==
    /\ policy.version \in {"5", "6"}
    /\ job["review"] = "success"
    /\ \/ changed = "false" /\ conclusion = "PASS"
       \/ changed = "true" /\ conclusion = "OWNER_ADDITION_G0_PENDING" /\ AdditionEligible

Acceptable ==
    /\ Admitted
    /\ AmendmentDue => verification = "success"
    /\ policy.mode = "enforced" => EnforcedAcceptance
    /\ policy.mode = "procedural" => ProceduralAcceptance

AcceptEnds == \E result \in Results :
    /\ End("accept", result)
    /\ result = "success" => Acceptable
    /\ UNCHANGED <<subject, live, cancelled, policy, review, procedures,
                   conclusion, verification>>

-----------------------------------------------------------------------------
(* The pull request and the host.                                          *)

Push == /\ live
        /\ live' = FALSE
        /\ UNCHANGED <<subject, cancelled, job, policy, review, procedures,
                       conclusion, verification>>

Cancel == /\ ~cancelled
          /\ job["accept"] \notin Ended
          /\ cancelled' = TRUE
          /\ UNCHANGED <<subject, live, job, policy, review, procedures,
                         conclusion, verification>>

Ending == \/ PolicyEnds \/ ReviewEnds \/ GeminiEnds
          \/ AdditionEnds \/ AmendmentEnds \/ ReportEnds \/ AcceptEnds

Next == \/ \E j \in Jobs : Begin(j)
        \/ Ending \/ AdditionPrepares \/ VerifyAmendment
        \/ ReportDisplaced \/ Push \/ Cancel

Spec == Init /\ [][Next]_vars

\* GitHub evaluates a job whose needs have ended and ends a running one, at
\* the latest by its time limit.
Fairness == /\ \A j \in Jobs : WF_vars(Begin(j))
            /\ WF_vars(Ending)

FairSpec == Spec /\ Fairness

-----------------------------------------------------------------------------
(* Properties.                                                             *)

Optional(S) == S \cup {""}

\* Type invariant: each job, each output and each step outcome of the run
\* stays within the values the workflow gives it.
TypeOK ==
    /\ branch \in Branches
    /\ caller \in Repositories
    /\ candidate \in {"code", "authority", "mixed"}
    /\ live \in BOOLEAN /\ cancelled \in BOOLEAN /\ prepared \in BOOLEAN
    /\ job \in [Jobs -> Ended \cup {"waiting", "running"}]
    /\ policy \in {Unresolved, Resolve(branch)}
    /\ said \in Texts /\ text \in Texts
    /\ kind \in Optional(Decisions) /\ display \in Optional(Decisions)
    /\ changed \in {"", "true", "false"}
    /\ addition \in {"", "ELIGIBLE"}
    /\ amendment \in {"", "ELIGIBLE", "INELIGIBLE"}
    /\ conclusion \in Optional(Decisions) \cup
         {"ERROR", "WAIVED", "OWNER_ADDITION_G0", "OWNER_ADDITION_G0_PENDING"}
    /\ verification \in {"", "success", "failure"}

\* PASS cannot accept this candidate: it changes Authority that the self
\* workflow or a procedural branch guards.
Guarded == candidate # "code" /\ (caller = Self \/ branch.mode = "procedural")

\* Grounds to accept: a waiver, a reviewer's PASS that leaves the guarded
\* Authority alone, or one qualified Owner procedure for a candidate that
\* changes Authority and nothing else.
Grounds ==
    \/ branch.mode = "local-only"
    \/ said.kind = "PASS" /\ ~Guarded
    \/ /\ candidate = "authority"
       /\ branch.ownerAddition # "none" /\ addition = "ELIGIBLE"
       /\ NamesMissingDecision(said)
    \/ /\ candidate = "authority"
       /\ branch.ownerAmendment /\ caller = Self
       /\ amendment = "ELIGIBLE" /\ verification = "success"

\* An accepted run has grounds (architecture-gate.yml accept,
\* ci-enforced-acceptance, ci-procedural-acceptance).
Justified == job["accept"] = "success" => Grounds

\* The report never shows a decision the reviewer did not return, whichever
\* of the raw text, the masked display or the Gemini projection carried it,
\* nor one of a review that did not succeed (classifyReview,
\* loadCodexReviewReport, readOrdinaryGeminiProjection).
ReportKeepsDecision ==
    /\ conclusion \in Decisions =>
           said.kind = conclusion /\ job[ReviewJob] = "success"
    /\ conclusion \in {"OWNER_ADDITION_G0", "OWNER_ADDITION_G0_PENDING"} =>
           NamesMissingDecision(said) /\ addition = "ELIGIBLE"

\* A PASS of the self reviewer, once identified, is reported even where the
\* runner blanks its text (codex-pass-producer, loadCodexReviewReport).
PassSurvivesSuppression ==
    /\ job["review"] = "success" /\ job["report"] = "success"
    /\ SelfEnforced /\ Identifying /\ said.kind = "PASS"
    => conclusion = "PASS"

\* So says docs/investigations/2026-10-28-review-output-handoff.md of the
\* rejecting outcomes of an ordinary self review under policy v2.
RejectionsSurviveSuppression ==
    /\ job["review"] = "success" /\ job["report"] = "success"
    /\ SelfEnforced /\ Identifying
    /\ branch.version = "2" /\ branch.ownerAddition = "none"
    /\ said.kind \in {"BLOCK", "OWNER_DECISION"}
    => conclusion = said.kind

\* The required check concludes for every run, cancelled or not; it is never
\* skipped, which GitHub would count as passing (accept under always()).
Concludes == <>(job["accept"] \in {"success", "failure"})

Decision == IF said.kind = "" THEN "none" ELSE said.kind
Procedure == IF addition = "ELIGIBLE" THEN "addition"
             ELSE IF verification = "success" THEN "amendment" ELSE "none"
Verdict == CASE job["accept"] = "success" -> "accepted"
             [] job["accept"] \in {"waiting", "running"} -> "pending"
             [] OTHER -> "refused"

Routes == INSTANCE AcceptanceRoutes WITH
    waived <- branch.mode = "local-only", guarded <- Guarded,
    decision <- Decision, procedure <- Procedure, verdict <- Verdict

\* The run implements the routes to acceptance: one verdict, and neither the
\* reviewer's decision nor the qualified procedure is replaced.
OneVerdict == Routes!Spec
=============================================================================
