--------------------------- MODULE ReportPublisher ---------------------------
(***************************************************************************)
(* The report jobs of a pull request (src/src/ci-review/ci-report.mts and  *)
(* ci-report-entrypoint.mts): what a job accepts as its inputs, the inline *)
(* review it posts, the marked comment it creates or updates and the       *)
(* outputs it leaves for accept, while the pull request moves, GitHub      *)
(* fails or answers too late, jobs are repeated and runners die.           *)
(***************************************************************************)
EXTENDS Integers, FiniteSets, Sequences, SequencesExt

CONSTANTS
    Reports,    \* report jobs, repeated runs included
    Jobs,       \* what the report jobs may find as their inputs
    Heads,      \* the heads of the pull request, in the order of the pushes
    Group,      \* the concurrency group of each report job
    Located     \* for each head, the findings that lie on a line its diff changes

ASSUME GroupAssumption == DOMAIN Group = Reports /\ \A j \in Jobs : DOMAIN j = Reports
ASSUME HeadsAssumption == Heads \in Seq(Range(Heads)) /\ Heads # <<>> /\ DOMAIN Located = Range(Heads)
ASSUME FindingsAssumption ==
    \A j \in Jobs : \A r \in Reports : j[r].findings \in Seq(Range(j[r].findings))

VARIABLES
    pushed,     \* how many heads have been pushed
    job,        \* the inputs of each report job
    stage,      \* where each job is
    valid,      \* positions of the findings that may be, or are said to be, inline
    pending,    \* positions of the findings about to be posted
    target,     \* place of the marked comment found, 0 if there is none
    posted,     \* the inline comments of the pull request
    marked,     \* the job each marked comment shows
    outputs     \* the jobs that wrote their outputs

local == <<valid, pending, target>>
remote == <<posted, marked>>
vars == <<pushed, job, stage, local, remote, outputs>>

LiveHead == Heads[pushed]
Ended == {"done", "failed"}
Active(r) == stage[r] \notin Ended \cup {"new"}
GoTo(r, s) == stage' = [stage EXCEPT ![r] = s]
Projected(j) == j.provider = "gemini"

-----------------------------------------------------------------------------
\* What a job accepts. An input that names commits is the head it names.

\* readOrdinaryGeminiProjection: the protected file of this very run.
ProjectionAccepted(j) ==
    Projected(j) => j.projection = j.head

\* loadCodexReviewReport: the masked display of this very run.
DisplayAccepted(j) ==
    j.provider = "codex" => j.display = j.head

ProcedureDue(j) == ~Projected(j) /\ j.decision = "OWNER_DECISION" /\ j.eligible

\* parseOwnerAdditionProcedure and the comparison with the pull request.
ProcedureAccepted(j) ==
    ProcedureDue(j) => j.procedure = j.head

\* parseAuthorityProvenance; the procedure names the same Authority Set.
ProvenanceAccepted(j) ==
    /\ j.provenance # "invalid"
    /\ j.provenance = "none" => ~Projected(j) /\ ~j.authorityRoute
    /\ ProcedureDue(j) /\ j.boundSet => j.provenance = j.procedure

\* parseLegacyAuthorityProvenance and the comparison with the pull request.
LegacyAccepted(j) ==
    /\ j.legacy # "invalid"
    /\ j.legacy = "none" => ~j.legacyRoute
    /\ j.legacy # "none" => j.legacy = j.head

InputAccepted(j) ==
    /\ ProjectionAccepted(j) /\ DisplayAccepted(j)
    /\ ProcedureAccepted(j) /\ ProvenanceAccepted(j) /\ LegacyAccepted(j)

InlineDue(j) == j.context /\ j.token /\ j.findings # <<>>

\* The positions validateInlineFindings calls valid against a diff.
ValidFindings(j, diff) ==
    {i \in DOMAIN j.findings :
        /\ j.findings[i] \in diff
        /\ \A k \in 1 .. i - 1 : j.findings[k] # j.findings[i]}

\* The identity of an inline comment, kept in its marker.
Key(j, i) == [decision |-> j.decision, head |-> j.head, finding |-> j.findings[i]]

InlineKeys == {posted[i].key : i \in DOMAIN posted}

-----------------------------------------------------------------------------
Init ==
    /\ pushed = 1
    /\ job \in Jobs
    /\ stage = [r \in Reports |-> "new"]
    /\ valid = [r \in Reports |-> {}]
    /\ pending = [r \in Reports |-> {}]
    /\ target = [r \in Reports |-> 0]
    /\ posted = <<>> /\ marked = <<>>
    /\ outputs = {}

Push ==
    /\ pushed < Len(Heads)
    /\ pushed' = pushed + 1
    /\ UNCHANGED <<job, stage, local, remote, outputs>>

\* Mutant: the jobs of a group run side by side.
StartBeside(r) ==
    /\ stage[r] = "new"
    /\ \E i \in 1 .. pushed : Heads[i] = job[r].head
    /\ GoTo(r, "input")
    /\ UNCHANGED <<pushed, job, local, remote, outputs>>

\* The report job of a run for a head that was pushed. A group runs one at a
\* time and does not cancel what runs.
Start(r) ==
    /\ stage[r] = "new"
    /\ \E i \in 1 .. pushed : Heads[i] = job[r].head
    /\ ~\E other \in Reports : Group[other] = Group[r] /\ Active(other)
    /\ GoTo(r, "input")
    /\ UNCHANGED <<pushed, job, local, remote, outputs>>

\* Mutant: the inputs are parsed and not compared with the pull request.
ReadParsedInput(r) ==
    /\ stage[r] = "input"
    /\ LET j == job[r]
       IN  GoTo(r, IF ~(ProjectionAccepted(j) /\ DisplayAccepted(j) /\ ProvenanceAccepted(j)
                         /\ j.legacy # "invalid" /\ (j.legacyRoute => j.legacy # "none"))
                   THEN "failed" ELSE IF InlineDue(j) THEN "pull" ELSE "render")
    /\ UNCHANGED <<pushed, job, local, remote, outputs>>

\* The inputs are settled before anything is published. Without an API
\* context, a token or findings there is no inline review.
ReadInput(r) ==
    /\ stage[r] = "input"
    /\ LET j == job[r]
       IN  GoTo(r, IF ~InputAccepted(j) THEN "failed"
                   ELSE IF InlineDue(j) THEN "pull" ELSE "render")
    /\ UNCHANGED <<pushed, job, local, remote, outputs>>

\* A call of postInlineReview that fails leaves no finding called delivered.
InlineFails(r) ==
    /\ stage[r] \in {"pull", "files", "comments", "again", "post"}
    /\ valid' = [valid EXCEPT ![r] = {}]
    /\ GoTo(r, "render")
    /\ UNCHANGED <<pushed, job, pending, target, remote, outputs>>

ReadPull(r) ==
    /\ stage[r] = "pull"
    /\ GoTo(r, IF LiveHead = job[r].head THEN "files" ELSE "render")
    /\ UNCHANGED <<pushed, job, local, remote, outputs>>

\* The files are those of the head of this moment.
ListFiles(r) ==
    /\ stage[r] = "files"
    /\ valid' = [valid EXCEPT ![r] = ValidFindings(job[r], Located[LiveHead])]
    /\ GoTo(r, IF valid'[r] = {} THEN "render" ELSE "comments")
    /\ UNCHANGED <<pushed, job, pending, target, remote, outputs>>

\* The findings of this head that have no comment yet.
ListComments(r) ==
    /\ stage[r] = "comments"
    /\ pending' = [pending EXCEPT ![r] = {i \in valid[r] : Key(job[r], i) \notin InlineKeys}]
    /\ GoTo(r, IF pending'[r] = {} THEN "render" ELSE "again")
    /\ UNCHANGED <<pushed, job, valid, target, remote, outputs>>

\* Mutant: the head is not read again.
TrustPull(r) ==
    /\ stage[r] = "again"
    /\ GoTo(r, "post")
    /\ UNCHANGED <<pushed, job, local, remote, outputs>>

\* Mutant: the findings stay valid when the head has moved.
KeepValid(r) ==
    /\ stage[r] = "again"
    /\ GoTo(r, IF LiveHead = job[r].head THEN "post" ELSE "render")
    /\ UNCHANGED <<pushed, job, local, remote, outputs>>

ReadPullAgain(r) ==
    /\ stage[r] = "again"
    /\ IF LiveHead = job[r].head
       THEN GoTo(r, "post") /\ UNCHANGED valid
       ELSE GoTo(r, "render") /\ valid' = [valid EXCEPT ![r] = {}]
    /\ UNCHANGED <<pushed, job, pending, target, remote, outputs>>

\* One review with every pending finding, in their order. Its answer may be
\* lost; the links that are read after it change nothing.
PostReview(r) ==
    /\ stage[r] = "post"
    /\ \E order \in [1 .. Cardinality(pending[r]) -> pending[r]] :
         /\ \A n, k \in DOMAIN order : n < k => order[n] < order[k]
         /\ posted' = posted \o [n \in 1 .. Cardinality(pending[r]) |->
                                   [key |-> Key(job[r], order[n]), at |-> LiveHead]]
    /\ \E answered \in BOOLEAN :
         valid' = [valid EXCEPT ![r] = IF answered THEN @ ELSE {}]
    /\ GoTo(r, "render")
    /\ UNCHANGED <<pushed, job, pending, target, marked, outputs>>

\* The report is rendered and written to the summary; either may fail.
Render(r) ==
    /\ stage[r] = "render"
    /\ \E next \in {"list", "failed"} : GoTo(r, next)
    /\ UNCHANGED <<pushed, job, local, remote, outputs>>

\* A comment that cannot be published is a warning, and an error for a
\* projected report.
CommentFails(r) ==
    /\ stage[r] \in {"list", "upsert"}
    /\ job[r].context => job[r].token
    /\ GoTo(r, IF Projected(job[r]) THEN "failed" ELSE "output")
    /\ UNCHANGED <<pushed, job, local, remote, outputs>>

\* Without a token the comment is skipped, and that is no failure.
SkipComment(r) ==
    /\ stage[r] = "list" /\ job[r].context /\ ~job[r].token
    /\ GoTo(r, "output")
    /\ UNCHANGED <<pushed, job, local, remote, outputs>>

FindComment(r) ==
    /\ stage[r] = "list" /\ job[r].context /\ job[r].token
    /\ target' = [target EXCEPT ![r] = IF marked = <<>> THEN 0 ELSE 1]
    /\ GoTo(r, "upsert")
    /\ UNCHANGED <<pushed, job, valid, pending, remote, outputs>>

\* The comment found is updated, or one is created; the answer may be lost.
Upsert(r) ==
    /\ stage[r] = "upsert"
    /\ marked' = IF target[r] = 0 THEN Append(marked, r) ELSE [marked EXCEPT ![target[r]] = r]
    /\ \E answered \in BOOLEAN :
         GoTo(r, IF ~answered /\ Projected(job[r]) THEN "failed" ELSE "output")
    /\ UNCHANGED <<pushed, job, local, posted, outputs>>

WriteOutputs(r) ==
    /\ stage[r] = "output"
    /\ outputs' = outputs \cup {r}
    /\ GoTo(r, "done")
    /\ UNCHANGED <<pushed, job, local, remote>>

\* The runner is lost or the job is cancelled.
Die(r) ==
    /\ Active(r)
    /\ GoTo(r, "failed")
    /\ UNCHANGED <<pushed, job, local, remote, outputs>>

Work(r) ==
    \/ ReadInput(r) \/ InlineFails(r) \/ ReadPull(r) \/ ListFiles(r) \/ ListComments(r)
    \/ ReadPullAgain(r) \/ PostReview(r) \/ Render(r) \/ CommentFails(r) \/ SkipComment(r)
    \/ FindComment(r) \/ Upsert(r) \/ WriteOutputs(r)

Next == Push \/ \E r \in Reports : Start(r) \/ Work(r) \/ Die(r)

Spec == Init /\ [][Next]_vars

-----------------------------------------------------------------------------
\* However often reports are repeated, lost or late, the pull request has one
\* comment with the marker, and no finding of a decision on a head is posted
\* twice (ci-report.mts:244-252, 666).
PostedOnce ==
    /\ Len(marked) <= 1
    /\ \A i, k \in DOMAIN posted : posted[i].key = posted[k].key => i = k

\* A line of head's own diff or, when a push took the pull request away from
\* head and a later one brought it back, of a head in between.
LineOf(head, finding) ==
    \/ finding \in Located[head]
    \/ \E a, b, c \in 1 .. pushed :
         /\ a < b /\ b < c
         /\ Heads[a] = head /\ Heads[c] = head
         /\ finding \in Located[Heads[b]]

\* A finding is posted on a line its own head changes, although the files were
\* listed at another moment than the head was read, with one exception, which
\* is the code's: the head is compared by value, so when it returns between the
\* two readings the line may be one of a head in between (ci-report.mts:236,
\* 253). While no head has returned there is no exception.
LinesOfReviewedDiff ==
    \A i \in DOMAIN posted : LineOf(posted[i].key.head, posted[i].key.finding)

\* A finding the report calls posted or already present is on the pull
\* request (ci-report.mts:255, 286).
ReportedMeansPosted ==
    \A r \in Reports : stage[r] \in {"render", "list", "upsert", "output", "done"} =>
        \A i \in valid[r] : Key(job[r], i) \in InlineKeys

\* What a job publishes rests on inputs of its own head, all of them, on every
\* route (ci-report-entrypoint.mts:183-215).
PublishedRestsOnItsHead ==
    \A r \in Reports :
        (\E i \in DOMAIN marked : marked[i] = r) \/ r \in outputs =>
            LET j == job[r]
            IN  /\ j.legacy \in {"none", j.head} /\ (j.legacyRoute => j.legacy = j.head)
                /\ Projected(j) => j.projection = j.head
                /\ j.provider = "codex" => j.display = j.head
                /\ ProcedureDue(j) => j.procedure = j.head

==============================================================================
