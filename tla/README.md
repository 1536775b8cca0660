# Architecture Gatekeeper in TLA+

Architecture Gatekeeper reviews a pull request against the Authority (the
architecture documents) of its protected base branch.  A workflow resolves the
policy of the base, a reviewer returns a structured decision, Owner procedures
may complete or replace that decision, a report is published, and a required
check accepts or refuses.  Around it are the local tools: a proxy that confines
the Gemini CLI, transports to the reviewers, and a private log of measurements.

This directory models that system in TLA+, checks it with TLC on small instances
and proves its main safety properties with TLAPS for every value of the
constants.  Paths below are those of the repository: `src/...` is its source
directory, `.github/...` its workflows.  `PROJECT.json` maps every definition to the lines
it models and lists runs, mutants, hazards, findings and theorems.

1. [Inventory](#inventory)
2. [Modules](#modules)
3. [Runs](#runs)
4. [Fairness](#fairness)
5. [Proofs](#proofs)
6. [Findings](#findings)
7. [What is not modelled](#what-is-not-modelled)
8. [Plan](#plan)

## Inventory

Each part with the state it keeps, its operations, what makes it hard and what
makes it correct.  The last column names the module.

### Local reviewer processes

| Part | State and operations | Hard behaviour | Correct when | Module |
| --- | --- | --- | --- | --- |
| Gemini Security Proxy, `src/gemini-cli/gemini-security-proxy.mts` | listener, startup promise, shutdown flag and promise, deadline timer, abort listener, per request its connection, body, upstream request; bind, abort, deadline, shutdown, request handlers | callbacks in any order: a bind that completes after a shutdown, a dispatch queued before a shutdown, closes that arrive late | no upstream request outlives a shutdown, the reservation bounds the sends, startup settles once, shutdown drains | `SecurityProxy`, `DispatchGate` |
| Dispatch reservation, `src/vertex-verification-reservation.mts` | a counter against a cap; `reserveDispatch` | reserve, then deadline and shutdown are checked again | a send has a reservation, none is returned | same |
| Bounded process, `src/gemini-cli/gemini-cli-process.mts` | child and its group, output, spawn timer, abort listener, private HOME and workspace; start, kill, collect | exit, close, timer, abort, overflow and stdin race; a descendant keeps a pipe open | one result, none after a kill, no process left | `GeminiCliSession` |
| CLI session and response, `src/gemini-cli/gemini-cli-session.mts`, `gemini-cli-response.mts` | version probe, then the review | a partial or late output; settings of the candidate in reach of the CLI | only a clean exit yields a text; the CLI opens no control file | `GeminiCliSession` |
| Proxy session, `src/gemini-cli/gemini-cli-proxy-session.mts` | proxy, CLI processes, one shared deadline and cancellation | the proxy ends first, the deadline passes between startup and process | the proxy is shut down on every path, a text is adopted before the deadline only | `GeminiCliSession`, `BoundedCall` |
| Launcher, `src/gemini-cli/launcher-entrypoint.mts` | child group, signals, deadline, grace period, proxy | a signal during startup, a second stop, a runner that ends while it is stopped | one exit code; 0 only for a published decision; nothing supervised left | `GeminiLauncher`, `GeminiSelection` |
| CI runner, `src/gemini-cli/ci-runner-entrypoint.mts` | the output file, the export to GitHub | another writer of the output path; a kill between file and export | as the launcher | `GeminiLauncher` |
| Gemini transport, `src/reviewer-transports/gemini-transport.mts` | request, timers, abort listeners, body | an answer against the deadline and the abort; a late answer | no decision accepted late, every handle released, the credential goes where it belongs | `ReviewerTransport`, `GeminiSelection`, `BoundedCall` |
| Local reviewer execution, `src/reviewer-transports/local-reviewer-execution.mts`, `codex-transport.mts` | outer timer and abort around an adapter | two deadlines and the caller's abort | as the transport | `ReviewerTransport` |
| Local gate, native review, manual review, `src/local-review/*.mts` | request and context files, stages of a hook, the attempt | hooks of one session overlap and die; HEAD moves; a request file is edited | a decision is checked against the request it was asked about; a context file is whole | `LocalReview`, `ReviewContract`; calls on the ledger in `MeasurementLedger` |
| Review contract, `src/review-contract/review-contract.mts` | none: configuration, settings, request, response | v1 and v2 demand different reports | an accepted response meets its configuration | `ReviewContract` |

### Measurements

| Part | State and operations | Hard behaviour | Correct when | Module |
| --- | --- | --- | --- | --- |
| Measurement ledger, `src/measurement.mts` | a directory of exclusive files `<attempt>.<phase>.json`; `beginMeasurement`, `request`, `finish`, `resumeMeasurement`, `resumeNativeMeasurement` | processes without a lock, a scan that is no reservation, crashes that leave torn files, getters that call back into `finish` | records are never rewritten, the phases of an attempt agree, the directory limit holds | `MeasurementLedger`, `AttemptHistory` |
| Consistency of a dataset, `src/measurement-consistency.mts` | none | | its demands follow from what writers do | `AttemptHistory` |
| Collection in CI, `src/measurement-ci.mts`, `measurement-ci-jobs.mts` | the attempt id handed from step to step | a step lost | as the ledger | calls in `MeasurementLedger` |
| Analysis, `src/measurement-analysis.mts`, `measurement-cli.mts` | none, a pure reading | | comparable attempts only | - |

### The gate in CI

| Part | State and operations | Hard behaviour | Correct when | Module |
| --- | --- | --- | --- | --- |
| Policy resolution, `src/authority-validation/resolve-ci-policy.mts` | none; from the policy file of the base to the outputs of the job | six versions with different fields | what it hands over selects the same route in every later job | `CiGate` |
| Gate workflow, `.github/workflows/architecture-gate.yml` | seven jobs, their results and outputs | a job fails after some outputs, the run is cancelled while `always()` jobs go on, the runner blanks an output, a push makes the run stale | accept succeeds only on grounds, and always concludes | `CiGate`, `AcceptanceRoutes` |
| Acceptance, `src/ci-review/ci-enforced-acceptance.mts`, `ci-procedural-acceptance.mts`, `ci-decision-kind.mts` | none | many partial combinations of results and outputs | accept implies grounds | `CiGate` |
| Authority comparison, `src/ci-review/ci-self-authority-change.mts`, `ci-procedural-authority-change.mts` | none | skipped where it is not selected | a change of guarded Authority is never accepted by PASS alone | `CiGate` |
| Report, `src/ci-review/ci-report.mts`, `ci-report-entrypoint.mts` | the marked comment, the inline review, the outputs | repeated jobs, calls that take effect and fail, a head that moves between two calls, patches GitHub cuts, reports that are too long | the reported decision is the reviewer's; one comment; no finding twice; only changed lines | `ReportPublisher`, `ReportText`; classification in `CiGate` |
| Masked display, `src/ci-review/codex-pass-*.mts`, `src/github/codex-pass-log.mts` | a frame in the job log | selected by two conditions that must agree | a suppressed decision is still reported | `CiGate` |
| Self amendment, `src/ci-review/self-amendment-pr.mts`, `scripts/self-amendment-pr.mjs`, `src/github/self-pr-context.mts` | five reads of main, the pull request and its merge | all move between the reads | what accept verified stood on the live pull request at one moment | `SelfAmendment`, `PullRequest`; its place in a run in `CiGate` |
| Owner addition in CI, `src/owner-addition/owner-addition-ci-operations.mts` and others | tag, record, eligibility | prepared, then the head moves | only the decision the reviewer missed is supplied | `CiGate` |
| Adoption of an addition, `src/owner-addition/finalize-owner-addition.mts`, `owner-addition-adoption.mts`, `src/github/github-owner-addition-*.mts` | some fifteen API calls over merge, run, artifact, tag and branch | branch and tag move between two calls; events of one second | the adopted state is the one that was judged; a verdict stands | `AdditionFinalizer`, `AdoptionEvaluation`, `AdoptionLifecycle` |
| Ordinary Gemini CI, `src/ordinary-gemini-ci-*.mts`, `src/prepared-*.mts`, `src/gemini-ci-runtime.mts` | merge revision, runtime, preparation handle, publication frame | the merge revision is refreshed, the handle used once, a job of an earlier attempt is carried over | what is displayed is the publication of this attempt, of a merge of the event | `GeminiCi`, `PullRequest`; conclusion in `CiGate` |
| Vertex federation, `src/github-vertex-wif.mts` | three exchanges in order, four secrets | any of them fails | a secret is masked before it is used | `GeminiCi` |
| Authority Set, decision validation, review inputs, observation, files | none | pure functions over documents and Git objects | | - |
| Consumer and provider workflows | as the gate, with fewer procedures | as the gate | as the gate | - |
| Release scripts, `scripts/*.mjs` | none at run time | | | - |

### How they interact

The policy job hands the selected route to all others as outputs; `review` or
`gemini-review` hand a text, a kind, a display and a comparison to the
procedures, to `report` and to `accept`.  The launcher owns the credential and the
proxy and supervises the runner; a Gemini session starts a proxy of its own,
gives its endpoint to the CLI process, and owns its shutdown; the trusted parent
owns the reservation counter the proxy calls for each dispatch.  Local hooks
prepare a request from the committed configuration, hand it to a transport or to
the host, validate the answer against it and record the attempt.  The ledger is
written by native commands and by the steps of the CI jobs and is never evidence
for acceptance.  After a merge the finalizer reads what the run produced and
writes the adoption record.  GitHub is the environment: it evaluates jobs, cancels
runs and lets `main`, tags, artifacts and the pull request move.

## Modules

| Module | What it is | Instance |
| --- | --- | --- |
| `DispatchGate` | abstract: what the proxy promises the owner of the credential | |
| `SecurityProxy` | the proxy and the reservation, handler by handler | `MCSecurityProxy` |
| `BoundedCall` | abstract: what a bounded call promises its caller | |
| `GeminiSelection` | operators: budget, credential and endpoint of a Gemini request | |
| `ReviewerTransport` | one reviewer call with its timers and aborts; implements `BoundedCall` | `MCReviewerTransport` |
| `GeminiCliSession` | proxy, probe and review of one CLI session; implements `BoundedCall` | `MCGeminiCliSession` |
| `GeminiLauncher` | the launcher and the runner it supervises | `MCGeminiLauncher` |
| `ReviewContract` | operators: configuration, request and response of a local review | |
| `LocalReview` | hooks, manual and native reviews around one repository | `MCLocalReview` |
| `AttemptHistory` | abstract: what a reader may see of the attempts | |
| `MeasurementLedger` | the directory and its writers, one file operation per action | `MCMeasurementLedger` |
| `AcceptanceRoutes` | abstract: what one run of the gate promises | |
| `CiGate` | one run of the workflow: policy, jobs, outputs, verdict | `MCCiGate` |
| `ReportText` | operators: changed lines of a patch, length of a report | in `MCReportPublisher` |
| `ReportPublisher` | the report jobs of one pull request | `MCReportPublisher` |
| `PullRequest` | external: main, the pull request, its test merge and their record | |
| `SelfAmendment` | the amendment of Authority with its five reads | `MCMergeSubject` |
| `GeminiCi` | the ordinary Gemini job and the fetch of its publication | `MCMergeSubject` |
| `AdoptionEvaluation` | operators: what the facts about an addition amount to | |
| `AdoptionLifecycle` | these facts as they come in | in `MCAdditionFinalizer` |
| `AdditionFinalizer` | producer run, merge and finalizer, call by call | `MCAdditionFinalizer` |

`MeasurementLedgerProofs`, `CiGateProofs`, `ReviewerTransportProofs`,
`GeminiCliSessionProofs` and `LocalReviewProofs` hold the proofs about the module
each is named for, `GeminiHostProofs` those about `SecurityProxy` and
`GeminiLauncher`, `MergeSubjectProofs` about `SelfAmendment` and `GeminiCi`, and
`PublicationProofs` about `ReportPublisher`, `ReportText`, `AdditionFinalizer` and
`AdoptionEvaluation`.  A configuration is named for the module it instantiates;
`MeasurementLedgerLimit.cfg` and `CiGateHandoff.cfg` belong to the two findings.

### SecurityProxy

One Node event loop runs every handler to completion, so one handler is one
action; what interleaves are the handlers.

| TLA+ | Code |
| --- | --- |
| `listener`, `BindSucceeds`, `BindFails`, `ListeningCallback`, `ServerCloses` | the server socket, its `error` event, the callback of `listen`, the callback of `server.close` |
| `startup`, `Stop` | the promise of `startGeminiSecurityProxy`, `failStartup` |
| `shutdownRequested`, `shutdownPromise`, `Shutdown`, `CloseServer`, `CloseLateServer` | `shutdown`, `closeServer`, `closeLateServer` |
| `timer`, `expired`, `DeadlineTimer`, `ClockExpires` | the timer; `Date.now() >= deadlineAt`, which is true some time before the timer's callback runs |
| `Accept`, `BodyTooLarge`, `BodyEnds`, `Dispatch` | the request handler, `rejectBody`, the `end` event, the callback of `transport.then` |
| `Granted`, `Record` | `createVertexVerificationReservation` |
| `UpstreamResponds`, `UpstreamEnds`, `UpstreamFails`, `UpstreamClosed`, `ConnectionCloses` | the events of the upstream request and of the client connection |

`Dispatch` takes the reservation and then checks the deadline and the shutdown
again, as the code does: the clock may advance in between.  A connection carries
one request.  Path, headers, scope and JSON of a request decide only whether it
is refused, and are a nondeterministic refusal.

### MeasurementLedger

`file[a][phase]` is the content of `<a>.<phase>.json`: absent, torn (created but
not completely written) or what readers compare.  A process is synchronous
between file operations, so an action is a scan (`Room`), an exclusive creation
(`Create`, flag `wx`), a write (`Write`) or a failure (`PutFails`); `End` is the
return, exit or crash of a process at any point, and leaves what it wrote.

- `Request` ends where the caller's value is evaluated, since its getters may
  call `finish`; `Prepare` is the rest.  `Finish` sets `finished` before its put.
- `resumeMeasurement` continues an attempt whose id an earlier step of the same
  CI job published.  The steps of a job are sequential, so no other process
  holds that attempt, and only the process that began it calls `request`.
- `LoadNative` and `SelectNative` are the load of `resumeNativeMeasurement` and
  its later look at the terminal files; they may overlap anything, also the
  process that prepared the attempt.
- Attempts are numbered in the order of `startedAt`; they are drawn in any order,
  as clocks of processes allow.
- A value that is refused (another repository, an unreadable field) is
  `PrepareGivesUp`; a record that is too large is `PutFails`.

### CiGate

One run for one pull request.  `job` holds the result of each job, `Needs` and
`Wanted` its `needs` and `if`, and there is one variable for each output a later
job reads.  A job ends in `PolicyEnds`, `ReviewEnds`, `GeminiEnds`,
`AdditionEnds`, `AmendmentEnds`, `ReportEnds` or `AcceptEnds`.  In each the job
may succeed, fail or be cancelled after any of the steps that hand something
over: outputs of completed steps survive a failure.

- `Branches` and `ValidBranch` are the policy entries and `validateBranch`;
  `Resolve` is what `resolveCiPolicy` emits, also what it omits.  That another
  branch's entry in the same file is malformed is a failure of the policy job.
- `changed` stands for `self_authority_changed` and
  `selected_authority_changed`, of which the mode selects one; `display` for the
  masked Codex display and the Gemini projection, of which the provider does.
- `hidden` is the runner blanking an output that contains a secret; the masked
  display exists for that case.
- `caller = Self` is `self-architecture-gate.yml`: pull requests against main,
  with protected instructions.  For consumers these inputs only add ways for
  policy or review to fail.
- `live` becomes false with a push to the pull request or to main.  A push
  cancels the run through the concurrency group; that is `Cancel`, which may also
  come alone.  Jobs under `always()` go on, and the pending report may be displaced by
  that of a newer run (`ReportDisplaced`).  A forced cancellation, which GitHub
  applies to `always()` jobs too, is not modelled.
- The reads of `self-amendment-pr verify` are one step, `VerifyAmendment`;
  `SelfAmendment` takes them apart.

`AcceptanceRoutes` is also what a later model of the other workflows would have to
implement.

### ReviewerTransport

A step is one callback of the event loop with the microtasks it drains.

| TLA+ | Code |
| --- | --- |
| `RefuseCall`, `RunCodex`, `StartCustom` | the checks of `executeLocalReviewer` and the adapter it selects |
| `Budget`, `Destination`, `RefuseSettings` | `resolveReviewerThinkingBudget`, `resolveAuthCredentials`, the choice of base URL (`GeminiSelection`) |
| `SendRequest`, `Respond`, `FinishBody`, `BreakUpstream`, `AnswerCustom` | the steps of `executeGeminiReviewer`, each in `raceWithDeadline` |
| `armed`, `FireOuter`, `FireInner`, `FireRace` | the three timers; the abort listeners that run inside them |
| `passed`, `PassTime`, `Later` | `Date.now()` against both deadlines: a handler reads it several times, the time may pass in between |

The Codex call is synchronous: it is one step that may return late.  A timer may
fire a little before its deadline, as the code allows for.

### GeminiCliSession

`stage` is where `runGeminiCliProxySession` waits; `Begin`, `ProxyServes`,
`ProxyRefuses`, `CloseVersion`, `CloseReview` and `EndShutdown` are its
continuations.  `Spawn` is `spawnBounded`: `group` are the living processes of the child's
group (`leader` is the child, `holder` a descendant that keeps a pipe, `quiet` one
that does not), `spoiled` the flags of overflow, stdin, time and cancellation, and
`KillGroup` a SIGKILL to the group, which ends what is in it at that moment and not what
forks later.  `tree` are the entries of the workspace: `WorkspaceControls` is the
scan before the CLI starts, `Opens` what the file system would open for a name,
`ExactControls` the names the code compares.  The proxy is an abstraction of
`SecurityProxy`: it starts or fails, may stop by itself (`ProxyStops`), and its
shutdown is awaited.

### GeminiLauncher

`Launchable` is what is checked before anything starts; `Review`,
`ValidateDecision`, `Persist`, `Export` and `RunnerEnds` are the runner, `Intrude`
another writer of the output path.  `Interrupt` and `Deadline` are the stops: the
first decides the exit code, shuts the proxy down and signals the group (`StopRunner`),
later ones change nothing.  `EndGrace` kills what is left of the group; `Finish`,
`StopCompletes` and `Resolve` are the end of the session.  `Die` is a signal the
launcher has no handler for: before the runner is started, or a second one of the
same kind, since handlers are installed with `once`.

### ReviewContract and LocalReview

A commit is a number, and `Committed` what the configuration files of that commit
hold.  Each process of `Processes` uses one interface: `sync` and `async` hooks,
`manual`, `native` (prepare, the host, validate) or `bound`, the runner that takes
a prepared request.

| TLA+ | Code |
| --- | --- |
| `ReadInput`, `RecordRevision`, `PrepareRequest` | `hookInput`, then the review contract: HEAD is read once and recorded, the request made from the configuration committed there |
| `PersistRequest`, `PersistRequestAnyway`, `PrintPrompt` | `native-review.mts prepare` |
| `Preflight`, `Execute`, `Validate` | preflight of a prepared request, the reviewer, `validateResponse` |
| `OpenTemporary`, `CompleteTemporary`, `RenameContext` | `store`: a context file is written beside its place and renamed |
| `PublishAnswer`, `FinishAttempt` | `writePublicOutput`, the `finish` of the attempt |
| `Commit`, `EditRequest`, `Crash` | HEAD moves, someone edits a request file, the process dies |

### ReportText and ReportPublisher

One action per API call of the job: `ReadPull`, `ListFiles`, `ListComments`,
`ReadPullAgain`, `PostReview`, `FindComment`, `Upsert`, `WriteOutputs`.  A call may
fail before or after it took effect; `Die` is the end of the runner, `Push` a new
head.  Jobs of one concurrency group take turns (`Group`).  `ChangedLines` reads a
patch row by row as `changedLines` does; `PostReview` posts what is pending in the
order of the findings; `truth` is the edit script it came from.
`RenderReport` is the order in which sections are shortened, with the lengths of
its fixed texts counted in the source.

### PullRequest, SelfAmendment and GeminiCi

`PullRequest` is GitHub: main moves forward (`Advance`), the author edits (`Edit`),
the test merge is made anew (`Remerge`), and the record with base and merge
follows in its own time (`Refresh`).  `SelfAmendment` has the preparation and
completion of the eligibility review and then one action per read (`Get`) and the
comparison (`Compare`); `then` remembers, for the property only, how things stood
when the merge was read.  `GeminiCi` is the job from the merge of the event
(`FetchEventMerge`, `LookUpMergeRef`, `FetchCandidate`) over runtime, input and
exchanges to `Execute`, `Decide`, `WriteOutputs` and `Emit`, then the `Fetch` of
the report; `RunAgain` is another attempt of the run, with the job repeated or
carried over.

The runtime is what the inspections compare and hash (the lock, `package.json` and the
entry point) and the rest, which `RuntimeChanges` may alter without either inspection
seeing it.  A secret is registered with the runner's masks in one step and sent in a
later one: `RegisterSource`, `RegisterAuthorization`, `RegisterRequest`, and `Exchange`, which
sends the secret at hand and registers the one that comes back.

### AdditionFinalizer

`commits` are the commits with their parents and changes; `PushMain`, `ResetMain`,
`MoveTag`, `Merge`, `Tick`, `StartAttempt` and `RunAttempt` are the world.  The
finalizer makes one call per action, `ReadMerge` to `Build` (`phase`), in the order of
`finalizeOwnerAddition`; any of them may fail (`CallFails`) or find nothing
(`EvidenceLost`).  Its verdict is `Adoption` of `AdoptionEvaluation`.
`Compare` accepts an ancestor unless GitHub lists too many commits (`TooFar`).
`AdoptionLifecycle` lets the facts come in in any order, verified or not, a readback
before its merge included.

## Runs

| Run | Properties | Shows |
| --- | --- | --- |
| `proxy` | `NothingSurvivesShutdown`, `ServesOnlyWhileOpen`, `GateKept`, `Drains` | in every order of bind, abort, deadline, shutdown and handlers nothing runs on after a shutdown, a bind that completes late serves nobody, the proxy implements `DispatchGate`, a shutdown drains and the deadline ends every request |
| `ledger` | `TypeOK`, `OvershootBounded`, `RoomKeptInTurns`, `HistoryKept` | overlapping writers in a directory about to be full: no record is rewritten, readers see an `AttemptHistory`, the limit is passed by less than the number of writers, and by nobody who was alone |
| `ledger_limit` | `WithinLimit` is violated | see [Findings](#findings) |
| `gate` | `Justified`, `ReportKeepsDecision`, `PassSurvivesSuppression`, `OneVerdict`, `Concludes` | for every policy, caller and answer: accept succeeds only on grounds, the report shows the reviewer's decision, the run implements `AcceptanceRoutes`, and the required check concludes |
| `gate_handoff` | `RejectionsSurviveSuppression` is violated | see [Findings](#findings) |
| `transport` | `SettledQuiet`, `RequestEndsWithCall`, `CredentialScope`, `RecordedBudgetApplied`, `AlwaysEnds` | a call leaves no timer or listener, its request ends with it, its credential goes to the endpoint of that credential, the recorded budget is the one sent, and each call is a `BoundedCall` that ends |
| `cli` | `NothingLeftBehind`, `OnlyCleanText`, `NoControlsInReach`, `AlwaysEnds` | a session that ended left no process, file, timer or proxy; its text is that of a clean exit; the CLI finds no control file of the candidate; each session is a `BoundedCall` that ends |
| `launcher` | `ZeroMeansPublished`, `NothingSupervisedRemains`, `DeadlineNotExtended` | exit code 0 claims a written and exported decision, an end leaves nothing supervised, a session stays within the limits of the command line and the record, but where the former is no number |
| `local_review` | `NativeJudgesWhatWasAsked`, `PublishedMeetsItsRevision`, `ContextIsWhole` | whatever HEAD, another hook or an editor does, an answer is judged by the request it was asked about and published only if it meets it; a context file is whole |
| `report` | `PostedOnce`, `LinesOfReviewedDiff`, `ReportedMeansPosted`, `PublishedRestsOnItsHead`, `OnlyChangedLinesOffered`, `WithinGitHubLimit` | one comment, no finding twice, findings on changed lines of the reviewed head only, or of a head in between where that head returned; what is reported as posted is posted; inputs are of that head; no report exceeds GitHub's limit |
| `finalizer` | `RecordBindsTheMerge`, `RefusedForCause`, `VerdictStands` | a record stands for the judged head, base and Authority on one revision of the branch; nothing but a real cause refuses; a verdict is turned around only by the fact whose absence or missing verification it was given for |
| `merge_subject` | `VerifiedOnLiveMerge`, `ReviewedAsPrepared`, `DisplayIsThisAttempts` | five reads that are no snapshot verify one moment; the Gemini route reviews a merge of its event as prepared, sends no secret that was not masked before, and displays the publication of its own attempt |

Bounds, and why they are enough:

- `proxy`: requests interact only through the counter and the shutdown.  Three
  requests and `Cap = 2` give one that is granted, one that takes the last
  reservation and one that is refused, each in every phase at the time of a
  shutdown.  The proofs cover any number.
- `ledger`: `MaxFiles = 6` with one foreign entry leaves room for one attempt and a
  part of another, so the limit is met at each of its tests; two processes are
  enough for every pair of file operations to interleave.  It is 4096 in the code.
  Processes and requests are interchangeable (symmetry).
- `gate`: nothing is bounded but the answers: `AllAnswers` has one answer of every
  kind and the variants of `OWNER_DECISION` the procedures tell apart.  Every valid
  policy entry is taken, and one for all that the resolver refuses (`Considered`).
- `transport`, `cli`, `launcher`: one call, session or launch has finitely many
  states.  Its inputs are chosen twice: a few for every order of events, and every
  combination of what one check looks at, numbers next to their bounds, and for the
  launcher's limits `NaN`.  Two entries of a workspace are enough since each is checked by itself.
- `local_review`: four configurations, each asking for more, for less or for another
  provider than the one before; only processes that share a session or a request
  path run together (`MCTogether`), the others meet nobody but HEAD.
- `report`: two jobs, the heads A, B and A again, three findings of which two are equal; patches of at
  most four rows of edits; up to the limit of twenty findings of three sizes.
- `finalizer`: `MaxCommits = 4`, `MaxAttempts = 1`, `MaxTime = 2`: base, head, merge
  and one more commit on either side, in one second or the next.  `MaxListed = 0` stands
  for the 250 commits a comparison may list: one commit after the merge is already too
  many, if GitHub lists it, and is not, if the page that was asked for ends before.
- `merge_subject`: two heads, two purposes, `LastMain = 2`, `MaxEdits = 2` (away and
  back), `MaxAttempts = 2`.  `Matters` leaves out steps of GitHub after which the procedure
  reads nothing more, `LooksAtRuntime` changes of the runtime but just before it is looked at;
  purposes are interchangeable.  The proofs do without these reductions.

`CHECK_DEADLOCK FALSE` is set everywhere because each of these systems stops: a
proxy that is closed, a call that has returned, a run that has concluded.

For every property of a passing run `PROJECT.json` has a mutant, for `ReviewedAsPrepared` two: a plausible bug of
a mapped definition under which that property fails.

## Fairness

- `SecurityProxy`: the event loop delivers what is due (binding, callbacks,
  timers, microtasks, close events of destroyed sockets) and time passes.
  Nothing is assumed of clients, of the upstream or of the owner.
- `ReviewerTransport`: the call is started and armed timers fire.  Nothing is
  assumed of the provider: `AlwaysEnds` rests on the timers alone.
- `GeminiCliSession`: the proxy's startup settles and its shutdown drains (`Drains`
  shows both for the proxy itself), armed timers fire, events of an ended child are
  delivered.  Nothing is assumed of the children.
- `CiGate`: GitHub evaluates a job once its needs have ended, and ends a running
  job at the latest at its `timeout-minutes`.  Weak fairness on `Begin(j)` and on
  `Ending`.  Pushes, cancellations and the steps within a job are not fair.
- The other modules state no liveness: their processes may be killed at any step,
  and what must hold is what they leave behind.

## Proofs

All theorems hold for every value of the constants that satisfies the named
assumptions of the module (`ProxyAssumption`, `LedgerAssumption`, `GateAssumption`,
`CallsAssumption`, `InputsAssumption`, `LauncherAssumption`,
`LocalReviewAssumption`, `ContractAssumption`, `PullRequestAssumption`,
`CommitsAssumption`, `AttemptsAssumption`, `BoundsAssumption`, `GroupAssumption`,
`HeadsAssumption`, `FindingsAssumption`, `ScriptsAssumption`, `TextsAssumption`); TLC evaluates them in the runs.  They say of
what kind a constant is and how far it reaches.  Where a theorem needs more it has a
hypothesis of its own: `TurnsPostOnce` below.  No property is
inductive by itself; each module has an invariant that is (`IInv` unless another name
is given), and one lemma per action or group of actions.

### GeminiHostProofs: the proxy

`Typing`, `ShutdownIsFinal`, `Budget`, `ServiceIsOwned`, `GateRefined`.  `IInv` adds to the
properties `LifecycleInv` (how shutdown flag, shutdown promise, listener and startup
hang together) and `HeldAreDispatched` (a reservation is held only by a request
that has passed its dispatch, so a request never takes two).  The first handles
the late bind: a listener that closes, or a startup that was rejected, comes with
a shutdown, so a late bind finds the flag and is closed before it serves.  The
second makes the count equal to the number of holders.  `Dispatch` is the only
step that could break `NothingSurvivesShutdown`; the second test of
`shutdownRequested` is where the proof uses the code.  `GateRefined` maps
`open <- ~shutdownRequested`, `used <- count`: `Dispatch` is `Reserve`,
`ReserveAndSend` or a stutter, every shutdown is `Close`, and all else stutters.

### MeasurementLedgerProofs

`Typing`, `Consistency`, `NeverRewritten`, `Overshoot`, `TurnsKeepRoom`,
`HistoryRefined`.  The heart of `IInv` is `Sole`: a recorder without a retained request
is the only one of its attempt.  It holds because an attempt id is drawn once, CI resumption
requires that nobody holds the attempt, and native resumption requires a
preparation.  From it, a terminal that repeats no request cannot meet a
preparation.  `Exclusive` says that a file that is being written has one writer,
from the exclusive creation, and gives `NeverRewritten`.  `Overshoot` needs a
counting invariant of its own: the entries, the foreign ones and the writers that
have scanned but not created yet are together at most `MaxFiles - 1` and the number of
processes, since a scan leaves room for one.  `TurnsKeepRoom` is the other side, about the
specification with the history `alone` (never more than one process at work): `TurnsInv`
follows the room that a scan saw through each file operation of the process (`RoomOf`),
and that no other process has anything under way (`Rested`).  `HistoryRefined` maps the directory to its readable records.

### CiGateProofs

`TypeCorrect`, `AcceptanceJustified`, `DecisionKept`, `PassKept`, `RoutesRefined`.
`IInv` relates each output to the job that hands it over:

- `Ordered`: a job begins after the jobs it needs have ended, so what it read
  does not change any more; accept is never skipped.
- `Settled`: a successful policy job handed over what a valid entry selects.
- `Selected`: why a job that began was wanted.
- `HandedOver`: text, kind, display and comparison are blank or what the reviewer
  returned and the comparison found.
- `Qualified`: what an Owner procedure that went so far rests on.
- `Reported`: what the report shows.

`Justified` is then a case distinction over `Acceptable` when accept ends, and
stays true because all its inputs are settled by then.  The fail-closed case is
worth a look: a self review under a policy with neither addition nor amendment
does not identify the kind of its decision, the report then refuses a PASS, and
such a run is never accepted.  `RoutesRefined` maps `said`, the qualified procedure
and the result of accept.

### ReviewerTransportProofs

`TypeCorrect`, `Quiet`, `RequestEnds`, `CredentialsScoped`, `BudgetApplied`,
`CallRefined`.  `RaceInv` says what is armed and under way in each phase; from it
each way to settle clears exactly what is left, the one where the outer timer
fires first included.  The lemmas on `GeminiSelection` (`DispatchScope`,
`BudgetIsRecorded`) say what the selection returns for every combination of
sources and settings, also those no run enumerates.  `CallRefined` is the safety of
`BoundedCall`: `Onward` says that a decision is adopted only in a step after which the
caller's deadline still has not passed.

### GeminiCliSessionProofs

`NothingRemains`, `CleanText`, `ControlsOutOfReach`, `SessionRefined`.  `Stages` says
what exists at each stage of a session, `Noted` that a group was killed only with a
note of the reason, which is why a kill that crosses the exit of the child is
not taken for a clean end, and `Checked` that a living child runs in a workspace
that passed the scan.

### GeminiHostProofs: the launcher

`ZeroIsPublished`, `NothingRemains`, `LimitsHold`.  `Stages` and `Stopping` hold what
each stage supervises (after a stop there is a grace timer or an empty group),
`Progress` how far the runner came and how it ended.  `LimitsHold` is a lemma about
the least of the limits that are set.  Its exception is the code's, see
[Findings](#findings): a command-line limit that is no number is the least of the two,
and nothing exceeds it.

### LocalReviewProofs

`PublishedSound`, `ContextSound`, `NativeSound`, for any number of processes of any
interface in any place, any commits and answers.  `IInv` is stated process by process:
`InStage` (what a process has at hand at each stage; from `Accepted` on, that its
answer met its request), `FileKept` (its request file is its own request, or an
edited one, which validation refuses) and `Answered`; and that contexts are whole.  A
step of one process leaves those of the others alone (`OtherKept`) except through
the shared files.  `CompleteReport` is the one fact about data: a report without
duplicates that has as many entries as the Authority of a v2 configuration, all of
them from it, names all of them.

### MergeSubjectProofs

`VerificationSound`, for any number of heads, purposes, revisions and edits, about
the amendment beside a `PullRequest` that moves without the reduction of the run.
The five reads are no snapshot; two facts make them one.  `MainForward`: main only
moves forward and is read before and after the merge, so if both reads agree it stood there
in between.  `EditsCounted`: a pull request that was another when the merge was read
and is the same at both of its own reads has been edited twice, which is the
exception the property names.

`PreparationBinds` and `DisplayBinds`, about `GeminiCi` beside the same pull request and
for any number of attempts.  `GeminiInv` follows the merge revision from the event to the
session: the candidate that was fetched, the runtime that was inspected and the inputs
that were bound stay what they were, although GitHub makes the test merge anew
meanwhile; it says at which stages which secrets are registered, so that each one that is sent is
(registration and sending are steps of their own); and it ties each publication to the attempt that emitted it, so a job
that was carried over has none of the current attempt to display.

### PublicationProofs: the report

`ReportsInvariance` with `PublishedRests` and `ReportedArePosted`, `TurnsPostOnce`,
`LinesAreOfTheHead`, for any number of jobs, pushes and findings; `ReportsFit` and
`ChangedLinesOffered` for what a job computes before it publishes.

- `ReportsInv` says of each job that it went past its inputs only with inputs it
  accepts (`Settled`), that its positions are positions of its findings and that those
  it calls valid are posted or about to be (`Selected`), and that whoever published had
  accepted its inputs (`Published`).  Posts are never taken back, so a job
  that fails, dies or starts again cannot falsify what another one reported.
  `OrderReachesAll` is the step of `PostReview`: an increasing sequence of as many
  positions as are pending lists every one of them.
- `TurnsPostOnce` has the hypothesis `OneGroupOnly`: the report jobs of the pull request
  are of one concurrency group.  The workflows name the group by workflow
  and pull request (`.github/workflows/architecture-gate.yml:951`,
  `architecture-gate-consumer.yml:717`, `architecture-gate-providers.yml:782`).  The
  invariant is `TurnsTaken`: one job is active at a time, so what it has listed is still
  what there is when it posts.  Without the hypothesis the property is false: the mutant
  `StartBeside` shows two comments.
- `LinesAreOfTheHead` has no hypothesis about the pushes.  `LinesInv` says that
  the files were listed at a push that brought the job's head or at a later one; if the
  head is the job's again at the second look, the later one lies between two pushes of the
  job's head, which is `LineOf`.  Where no head returns, the two are one.
- `ReportsFit` rests on `TextsAssumption`: lengths are natural numbers.  `OneShare` says
  that what a finding adds to the report is no longer left, but for 20 characters of
  heading and ellipsis, and `SharesAddUp` that this adds up over the findings.  The code
  sets these 20 aside, unless the room is already gone; with at most `MaxFindings`
  findings that makes 400 characters more than it announces, so `ReportFits` comes to
  60400, which `FitsGitHub` needs to be at most 65536.
- `ChangedLinesOffered` rests on `ScriptsAssumption`: a script is a sequence of rows, of
  fewer than 99, so that the second hunk of `AppendHunk` lies behind the first.  Old and
  new file are the two sides of the same rows (`SideRead`); what was read of a side after
  n rows is its current line, what is left of its hunk and its changed lines, and every
  earlier hunk was complete (`RowIsRead`, `AllIsRead`).  A patch that is accepted ends
  with a complete hunk, so all of its hunks are complete (`AllComplete`).  The hunks of a
  file do not overlap (`Apart`, which a cut keeps), so each changed row has a line of its
  own (`LinesAreOwn`), and the totals of the API count rows, which is how they notice
  that the patch was cut between two hunks.
- Both are about recursive functions over positions.  `Induction` is the rule for sets
  that follows from `LeastNatural` (below); `JoinedExists`, `SharesExist` and
  `ReadingExists` prove with it that there is a function that satisfies the recursion,
  and then every function that does has the property.

### PublicationProofs: the adoption

`AdoptionInvariance` with `RecordsBind` and `RefusalsHaveCause`, for any number of
commits, attempts and seconds.  `AdoptionInv` has the facts about the world (`Graph`,
`MergeOfHead`, `AttemptsInOrder`), `Known` (what each read of the finalizer has
established, from the phase after it on), `Recorded` and the cause of a refusal.  The
argument: every step of the world only grows it (`WorldGrows`: commits are appended and
never changed, the merge is set once, an attempt that was accepted stays so, a tip that was
seen stays in the history), and all that is known is stable under growth (`KnownStays`,
`RecordedStays`, `CauseStays`).  Branch and tag may move between any two calls; what was
read of them is about commits.

One part of it is an induction over data.  `Ancestors` is a recursive function over the
graph, and that its value at an old commit does not change when commits are added is
proved without an induction rule: `LeastNatural`, that a set of naturals has a least
element, follows from the well-foundedness of inclusion on finite sets.  `Chain` is the
function that `Ancestors` chooses; the least generation at which it left the old commits
would follow one at which it had not (`ChainStays`), so it is the same function in the
graph with more commits (`ChainLocal`, `AncestorsStable`).

`VerdictsStand` is about `AdoptionLifecycle`, where facts come in in any order: in
`FactsInv` each fact is of its kind, `OneFactComes` says that a step changes one of them that
was absent or not verified, `TurnedWrittenOut` for each place in the order of judgement what
the step must have changed for the verdict to turn, and `OneFactTurns` that it is the first
fact at fault.  `PlainAdoption` is `Adoption` with the search for that fact written out.

### Only model-checked

- Liveness (`Drains`, `Concludes`, both `AlwaysEnds`): beyond the installed provers.
  The safety parts of both `AlwaysEnds` are `CallRefined` and `SessionRefined`.
- No module uses a `RECURSIVE` operator.

## Findings

Two runs show a disagreement of a document and the code:

1. `ledger_limit`: `directory()` scans and `put()` creates in two steps
   (`src/measurement.mts:127`), so recorders that finish at once pass the limit of
   4096 entries, after which the directory cannot be loaded at all
   (`src/measurement.mts:353`).  `docs/measurement.md:176` says that logging warns and
   stops at the limit.  `OvershootBounded` says how far it can go.
2. `gate_handoff`: `resolveCiPolicy` never emits `policyVersion` for version 2, but
   the workflow shows a BLOCK or an OWNER_DECISION of the self reviewer only when
   it is `2` (`.github/workflows/architecture-gate.yml:639`).  When the runner
   blanks the text, the report turns such a decision into ERROR, against
   `docs/investigations/2026-10-28-review-output-handoff.md:16`.  The verdict is
   not affected: both are refused.

Smaller differences between a comment, a test or a document and the code, met while
modelling.  The models do what the code does:

- `gemini-transport.mts:637-640`: a race that is entered when the deadline has been
  reached rejects without aborting anything, so the request just sent may outlive
  its call, while `:531` announces cancellation across fetch and body.
  `RequestEndsWithCall` states this exception and that there is no other.
- `gemini-transport.mts:212-218`: a recorded effort without provider becomes a budget that
  is returned unchecked (0 for `none`), while `:166` announces resolution and
  validation.
- `gemini-cli-proxy-session.mts:155`: the deadline is checked before the shutdown of the
  proxy is awaited, so a text may be returned after it (compare `:144`).  It was
  adopted in time, which is what `AlwaysEnds` states.
- `launcher-entrypoint.mts:275`: a second signal of the same kind within the grace period
  finds no handler and ends the launcher before the escalation that `:267` wants to
  keep; the group may survive.  `NothingSupervisedRemains` is stated of launchers
  that end by themselves.
- `ci-report.mts:305-316`: a report that is shortened finding by finding may exceed 60000
  characters by up to 20 per finding (`test/ci-report.test.mjs:242` expects at most
  60000).  `WithinGitHubLimit` states GitHub's own limit of 65536, which holds;
  the bound 60400 is proved.
- `ci-report.mts:253` and `:258`: a push between the last look at the head and the post is
  not noticed, against `docs/integration-reference.md:820`.  The review names the commit
  it is about, so `LinesOfReviewedDiff` holds.
- `ci-report.mts:253`: the head is compared before and after the files are listed, by its
  value.  A branch that is forced to another commit and back in between passes both
  comparisons, and its findings are located by the files of the other commit.
  `LinesOfReviewedDiff` states this exception, and the run reaches it.
- `launcher-entrypoint.mts:138` and `:149`: a `--timeout` that is no number makes the selected
  limit NaN, also against a recorded one, and no limit of the caller exceeds NaN: the
  session then starts with the caller's limit, although the error of `:149` announces one
  that does not extend the selected.  Without a limit of the caller the launcher refuses.
  `DeadlineNotExtended` states this exception.
- `owner-addition-adoption.mts:68-71` says that a missing merge or readback leaves the
  result pending.  The evaluation takes evidence that is absent or not verified for
  incomplete, but host metadata and a readback that are not verified, and facts of
  eligibility that are absent once there is a merge or a readback, for invalid (`:149`, `:227`,
  `:239`), as it does a readback without a merge (`:242`).  Such a verdict is turned around
  when the fact comes in, and `VerdictStands` says that only then.
- `local-gate.mts:25-26`: two hooks of a session that read the same prior context do not see
  each other, and the later store replaces the earlier one.  `ContextIsWhole` says only that
  what is stored is whole.

## What is not modelled

- Pure functions over documents: decision validation, Authority Set, snapshots
  of Git objects, rendering, observation, statistics of measurements, path checks and
  bounded reads.  They keep no state; a model would restate them.
- The consumer and provider workflows: variants of the gate workflow without the
  self procedures, or with Gemini.  Their graph is a restriction of the one in
  `CiGate`, whose `Consumer` caller stands for them.
- Release and maintenance scripts: build tooling outside the gate.
- Contents that no property tells apart: paths, models, prompts, log texts.
- Network and Git failures are failures of the job or request they occur in.
- The readback of the squash of an amendment (`self-amendment-pr.mts:120-131`), which keeps no
  state; the masks of the runner altering a display.
- What no inspection of the Gemini runtime sees: a change of the files it does not hash, of
  any file between installation and first inspection, or between the second one and the start
  of the CLI.  `gemini-ci-runtime.mts:44-48` relies on the locked installer and the private
  directory there.  `GeminiCi` lets the first two happen, and `ReviewedAsPrepared` claims
  nothing of them.
- A forced push to main beside `SelfAmendment`: the five reads are sound because `PullRequest`
  only moves main forward, which the code does not check.  `AdditionFinalizer` assumes nothing of
  the kind (`ResetMain`).
- A forced cancellation, a re-run of single jobs of a finished run (but for the
  attempts of `GeminiCi`), changes of the workflow files themselves.

## Plan

Done: the proxy, the ledger and the gate run with their abstractions; the bounded
calls (transport, CLI session) and the launcher; local review; the report; the
self amendment and the Gemini route beside a moving pull request; the adoption of an
addition; proofs of every safety property of the runs.

What is left, in this order:

1. A lemma on policy resolution: a resolved route is accepted by exactly one
   acceptance function, and its procedures are those the report expects.
2. The consumer and provider workflows as graphs of their own against
   `AcceptanceRoutes`; the limits of the Authority Set as operators.
