------------------------------ MODULE GeminiCi ------------------------------
(***************************************************************************)
(* The ordinary Gemini route: the protected job that finds the merge of    *)
(* the event, installs the pinned runtime, prepares its inputs, exchanges  *)
(* the identity of the job for a Vertex credential, executes the prepared  *)
(* review once and emits its publication (ordinary-gemini-ci-workflow.mts, *)
(* -launcher.mts, -adapter.mts, gemini-ci-runtime.mts,                     *)
(* github-vertex-wif.mts), and the report job that fetches the publication *)
(* of this attempt of the run (ordinary-gemini-ci-publication.mts,         *)
(* -report-fetch.mts). The session of the CLI is GeminiCliSession.         *)
(***************************************************************************)
EXTENDS PullRequest, Sequences

CONSTANT MaxAttempts    \* bound on the attempts of the run

ASSUME AttemptsAssumption == MaxAttempts \in Nat \ {0}

VARIABLES
    attempt,    \* the attempt of the run that is under way
    job,        \* the process of its Gemini step
    runtime,    \* what is in the private runtime directory of its runner
    jobs,       \* per attempt, the Gemini job as GitHub shows it
    shown       \* per attempt, the report's fetch and the file it wrote

gemini == <<attempt, job, runtime, jobs, shown>>

Attempts == 1 .. MaxAttempts

\* The capabilities of the job, in the order in which it comes to hold them.
SourceSecrets == {"source", "authorization"}
VertexSecrets == {"oidcRequest", "assertion", "stsToken", "accessToken"}

\* What an inspection of the runtime compares and hashes, the lock, the
\* package.json and the entry point of the CLI, and all the other files that
\* were installed. Files that were altered can still pass inspection, which
\* wants the pinned lock and the package's name and version.
Runtime(hashed, rest) == [hashed |-> hashed, rest |-> rest]

NoRuntime == Runtime("absent", "absent")
Inspectable == {"pinned", "altered"}

NewJob == [at |-> "register", registered |-> {}, sent |-> {}, candidate |-> {}, reviewed |-> {},
           inspected |-> {}, handle |-> "none", input |-> {}, started |-> {}, answer |-> "none",
           conclusion |-> {}]

NoJob == [result |-> "none", listed |-> 0, outputs |-> {}, log |-> <<>>]

InitGemini ==
    /\ attempt = 1
    /\ job = NewJob
    /\ runtime = NoRuntime
    /\ jobs = [a \in Attempts |-> NoJob]
    /\ shown = [a \in Attempts |-> [fetch |-> "due", file |-> {}]]

-----------------------------------------------------------------------------
\* The job checks its context and registers the source token with the runner,
\* which masks what was registered ...
RegisterSource ==
    /\ job.at = "register"
    /\ job' = [job EXCEPT !.registered = @ \cup {"source"}, !.at = "authorize"]
    /\ UNCHANGED <<attempt, runtime, jobs, shown>>

\* ... and the header that is made of it for git.
RegisterAuthorization ==
    /\ job.at = "authorize"
    /\ job' = [job EXCEPT !.registered = @ \cup {"authorization"}, !.at = "fetch"]
    /\ UNCHANGED <<attempt, runtime, jobs, shown>>

\* The merge the event names, if its parents are those of the event.
FetchEventMerge ==
    /\ job.at = "fetch"
    /\ job' = IF MergesEvent(event.merge)
              THEN [job EXCEPT !.sent = @ \cup {"authorization"},
                               !.reviewed = {event.merge}, !.at = "install"]
              ELSE [job EXCEPT !.sent = @ \cup {"authorization"}, !.at = "lookup"]
    /\ UNCHANGED <<attempt, runtime, jobs, shown>>

\* Else the merge ref is asked, once, for what it names now ...
LookUpMergeRef ==
    /\ job.at = "lookup"
    /\ job' = [job EXCEPT !.sent = @ \cup {"authorization"},
                         !.candidate = {mergeRef}, !.at = "refetch"]
    /\ UNCHANGED <<attempt, runtime, jobs, shown>>

\* ... and that commit must have the parents of the event.
FetchCandidate ==
    /\ job.at = "refetch"
    /\ \A m \in job.candidate : MergesEvent(m)
    /\ job' = [job EXCEPT !.sent = @ \cup {"authorization"},
                         !.reviewed = job.candidate, !.at = "install"]
    /\ UNCHANGED <<attempt, runtime, jobs, shown>>

\* The locked CLI goes into a directory of its own, which must not exist.
Install ==
    /\ job.at = "install"
    /\ runtime = NoRuntime
    /\ runtime' = Runtime("pinned", "pinned")
    /\ job' = [job EXCEPT !.at = "inspect"]
    /\ UNCHANGED <<attempt, jobs, shown>>

HostValid == \A m \in job.reviewed : MergesEvent(m)

\* The adapter checks the parents again and inspects the runtime ...
Inspect ==
    /\ job.at = "inspect"
    /\ HostValid
    /\ runtime.hashed \in Inspectable
    /\ job' = [job EXCEPT !.inspected = {runtime.hashed}, !.at = "prepare"]
    /\ UNCHANGED <<attempt, runtime, jobs, shown>>

\* ... and assembles the inputs: what protects the review is read from the
\* base, what is reviewed is the difference of base and merge.
ProtectedInput == {[base |-> event.base, reviewed |-> m] : m \in job.reviewed}

PrepareInput ==
    /\ job.at = "prepare"
    /\ job' = [job EXCEPT !.sent = @ \cup {"source"}, !.handle = "ready",
                         !.input = ProtectedInput, !.at = "exchange"]
    /\ UNCHANGED <<attempt, runtime, jobs, shown>>

RegisterRequest ==
    /\ job.at = "exchange"
    /\ job' = [job EXCEPT !.registered = @ \cup {"oidcRequest"}, !.at = "oidcRequest"]
    /\ UNCHANGED <<attempt, runtime, jobs, shown>>

\* Three exchanges within 60 seconds: a secret is sent and the one that comes
\* back for it is registered, to be sent next.
After == [oidcRequest |-> "assertion", assertion |-> "stsToken", stsToken |-> "accessToken"]

\* Mutant: a secret is registered when it is sent, not when it comes in.
RegisterSent ==
    /\ job.at \in DOMAIN After
    /\ job' = [job EXCEPT !.sent = @ \cup {job.at}, !.registered = @ \cup {job.at},
                         !.at = After[job.at]]
    /\ UNCHANGED <<attempt, runtime, jobs, shown>>

Exchange ==
    /\ job.at \in DOMAIN After
    /\ job' = [job EXCEPT !.sent = @ \cup {job.at}, !.registered = @ \cup {After[job.at]},
                         !.at = After[job.at]]
    /\ UNCHANGED <<attempt, runtime, jobs, shown>>

\* The secret was sent, and the answer is late, too long or not what it must be;
\* what came back is dropped.
ExchangeFails ==
    /\ job.at \in DOMAIN After
    /\ job' = [job EXCEPT !.sent = @ \cup {job.at}, !.at = "failed"]
    /\ UNCHANGED <<attempt, runtime, jobs, shown>>

\* Mutant: a runtime that passes inspection is taken for the prepared one.
StillInspectable == runtime.hashed \in Inspectable

SameRuntime == runtime.hashed \in Inspectable \cap job.inspected

\* The call of the profile: the prepared input, and the runtime as found now.
Call == {[base |-> i.base, reviewed |-> i.reviewed, runtime |-> runtime] : i \in job.input}

\* The handle is consumed before the runtime is inspected again.
Execute ==
    /\ job.at = "accessToken" /\ job.handle = "ready"
    /\ job' = IF SameRuntime
              THEN [job EXCEPT !.sent = @ \cup {"accessToken"}, !.handle = "consumed",
                               !.started = Call, !.at = "review"]
              ELSE [job EXCEPT !.handle = "consumed", !.at = "failed"]
    /\ UNCHANGED <<attempt, runtime, jobs, shown>>

\* The session of the CLI ends with an answer, or the job fails.
Converse ==
    /\ job.at = "review"
    /\ \E t \in {"missing", "oversized", "text"} : job' = [job EXCEPT !.answer = t, !.at = "decide"]
    /\ UNCHANGED <<attempt, runtime, jobs, shown>>

Completed(t) == t = "text"

\* A completed answer is a decision if it meets schema, rules and Authority.
Decide ==
    /\ job.at = "decide" /\ Completed(job.answer)
    /\ \E c \in {"PASS", "BLOCK"} : job' = [job EXCEPT !.conclusion = {c}, !.at = "publish"]
    /\ UNCHANGED <<attempt, runtime, jobs, shown>>

\* The outputs of the job are written, with the nonce of its publication ...
Publication == {[attempt |-> attempt, nonce |-> attempt, reviewed |-> s.reviewed, conclusion |-> c] :
                    s \in job.started, c \in job.conclusion}

WriteOutputs ==
    /\ job.at = "publish"
    /\ jobs' = [jobs EXCEPT ![attempt].outputs =
                   {[nonce |-> p.nonce, reviewed |-> p.reviewed, conclusion |-> p.conclusion] : p \in Publication}]
    /\ job' = [job EXCEPT !.at = "emit"]
    /\ UNCHANGED <<attempt, runtime, shown>>

\* ... before the publication is written to the log, between stopped commands.
Emit ==
    /\ job.at = "emit"
    /\ \E p \in Publication : jobs' = [jobs EXCEPT ![attempt].log = Append(@, p)]
    /\ job' = [job EXCEPT !.at = "emitted"]
    /\ UNCHANGED <<attempt, runtime, shown>>

\* Any check that does not hold, any call that fails or is late, the time limit
\* of the job or its cancellation; an installation that fails is removed.
JobFails ==
    /\ job.at \notin {"failed", "ended"}
    /\ job' = [job EXCEPT !.at = "failed"]
    /\ runtime' = IF job.at = "install" THEN NoRuntime ELSE runtime
    /\ UNCHANGED <<attempt, jobs, shown>>

\* GitHub concludes the job, whose later steps may still fail.
Conclude ==
    /\ job.at \in {"emitted", "failed"} /\ jobs[attempt].result = "none"
    /\ \E r \in {"success", "failure"} :
          /\ r = "success" => job.at = "emitted"
          /\ jobs' = [jobs EXCEPT ![attempt].result = r, ![attempt].listed = attempt]
    /\ job' = [job EXCEPT !.at = "ended"]
    /\ UNCHANGED <<attempt, runtime, shown>>

-----------------------------------------------------------------------------
\* Mutant: the attempt of the publication is not compared.
BoundToOutputs(p, o, a) ==
    p.nonce = o.nonce /\ p.reviewed = o.reviewed /\ p.conclusion = o.conclusion

\* The publication of this attempt that the protected outputs speak of.
Bound(p, o, a) ==
    /\ p.attempt = a
    /\ p.nonce = o.nonce /\ p.reviewed = o.reviewed /\ p.conclusion = o.conclusion

\* The completed and successful job of this attempt, and its only publication.
Retrievable(a) ==
    /\ jobs[a].listed = a /\ jobs[a].result \in {"success", "carried"}
    /\ Len(jobs[a].log) = 1
    /\ jobs[a].outputs # {}
    /\ \A o \in jobs[a].outputs : Bound(jobs[a].log[1], o, a)

FetchDue == shown[attempt].fetch = "due" /\ jobs[attempt].result # "none"

\* The report fetches it into a new file ...
Fetch ==
    /\ FetchDue
    /\ Retrievable(attempt)
    /\ shown' = [shown EXCEPT ![attempt] = [fetch |-> "done", file |-> {jobs[attempt].log[1]}]]
    /\ UNCHANGED <<attempt, job, runtime, jobs>>

\* ... or goes without: the publication does not count, a request fails, an
\* answer is too long, 30 seconds pass.
FetchFails ==
    /\ FetchDue
    /\ shown' = [shown EXCEPT ![attempt].fetch = "unavailable"]
    /\ UNCHANGED <<attempt, job, runtime, jobs>>

-----------------------------------------------------------------------------
\* Something else on the runner changes the runtime.
RuntimeChanges ==
    /\ runtime # NoRuntime /\ job.at # "ended"
    /\ runtime' \in [hashed : {"pinned", "altered", "broken"}, rest : {"pinned", "altered"}] \ {runtime}
    /\ UNCHANGED <<attempt, job, jobs, shown>>

\* The run is run again with the same event: all of its jobs, or the failed
\* ones, which carries over a successful job with its outputs and its log; its
\* number of the attempt is then the new one or the one it ran in.
RunAgain ==
    /\ shown[attempt].fetch # "due" /\ attempt < MaxAttempts
    /\ attempt' = attempt + 1
    /\ runtime' = NoRuntime
    /\ \/ job' = NewJob /\ jobs' = jobs
       \/ /\ jobs[attempt].result \in {"success", "carried"}
          /\ job' = [NewJob EXCEPT !.at = "ended"]
          /\ \E l \in {jobs[attempt].listed, attempt + 1} :
                jobs' = [jobs EXCEPT ![attempt + 1] =
                            [jobs[attempt] EXCEPT !.result = "carried", !.listed = l]]
    /\ UNCHANGED shown

Gemini ==
    \/ RegisterSource \/ RegisterAuthorization
    \/ FetchEventMerge \/ LookUpMergeRef \/ FetchCandidate
    \/ Install \/ Inspect \/ PrepareInput
    \/ RegisterRequest \/ Exchange \/ ExchangeFails \/ Execute \/ Converse \/ Decide
    \/ WriteOutputs \/ Emit \/ JobFails \/ Conclude
    \/ Fetch \/ FetchFails \/ RuntimeChanges \/ RunAgain

-----------------------------------------------------------------------------
\* Whatever moved meanwhile, a session that was started reviews a merge of the
\* event's base and head, with the lock, package.json and entry point that the
\* preparation inspected; the files no inspection hashes may be others by then
\* (gemini-ci-runtime.mts:46). Every secret was registered, in whatever step it
\* came in, before another step sent it, and none for Vertex was sent before
\* the inputs were complete (ordinary-gemini-ci-workflow.mts:90-118, 163,
\* github-vertex-wif.mts:127-184, ordinary-gemini-ci-adapter.mts:123-139,
\* ordinary-gemini-ci-launcher.mts:66-69).
ReviewedAsPrepared ==
    /\ \A s \in job.started :
          s.base = event.base /\ MergesEvent(s.reviewed) /\ s.runtime.hashed \in job.inspected
    /\ job.sent \subseteq job.registered
    /\ job.handle = "none" => job.sent \subseteq SourceSecrets

\* A report that displays a publication displays the one its own attempt of
\* the run emitted, in a job that succeeded and whose outputs say the same;
\* a job carried over from an earlier attempt is never displayed as this one's
\* (ordinary-gemini-ci-publication.mts:97-120, 245-272).
DisplayIsThisAttempts ==
    \A a \in Attempts : \A p \in shown[a].file :
        /\ p.attempt = a
        /\ jobs[a].result = "success" /\ jobs[a].log = <<p>>
        /\ MergesEvent(p.reviewed)
        /\ \A o \in jobs[a].outputs : o.reviewed = p.reviewed /\ o.conclusion = p.conclusion
=============================================================================
