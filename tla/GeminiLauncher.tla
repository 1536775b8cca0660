--------------------------- MODULE GeminiLauncher ---------------------------
(***************************************************************************)
(* src/src/gemini-cli/launcher-entrypoint.mts supervises one credential-   *)
(* isolated run of src/src/gemini-cli/ci-runner-entrypoint.mts: it holds   *)
(* the credential and the Security Proxy, the runner holds the output.     *)
(* The runner reviews, checks the decision, writes it to a new file and    *)
(* exports it; the launcher's signals, its deadline and the end of the     *)
(* runner meet in any order. The provider and the runner's own deadline    *)
(* are ReviewerTransport's.                                                *)
(***************************************************************************)
EXTENDS GeminiSelection

CONSTANTS Sessions,     \* the sessions to examine
          MaxTimeout    \* the longest session (one hour)

\* A time limit is read with Number(): what is no number becomes NaN, which has
\* a value of its own here. 0 stands for the numbers below 1.
NaN == -1
Limit == Optional(Nat \cup {NaN})

\* What the launcher is given: the time limits of its command line, of the
\* recorded request, of its caller and of the environment; the credential
\* sources; the scope; an override of the proxy's mode; and whether an
\* argument or variable for the runner carries a secret. And the runner's
\* reviewer settings, whether its request passes preflight, and whether
\* GITHUB_OUTPUT is set.
Session ==
    [endpointArg: BOOLEAN, cliLimit: Limit, recorded: Limit, callerLimit: Limit,
     envLimit: Nat \cup {NaN},
     sources: Sources, model: BOOLEAN, project: BOOLEAN, region: BOOLEAN,
     modeOverride: Optional({"studio", "vertex", "none"}), leak: BOOLEAN,
     provider: {"none", "gemini", "other"}, budget: Optional(Nat), effort: Optional(Efforts),
     preflight: BOOLEAN, github: BOOLEAN]

ASSUME LauncherAssumption == Sessions \subseteq Session /\ MaxTimeout \in Nat

VARIABLES session,    \* what launcher and runner are given
          stage,      \* where the launcher is
          timers,     \* the deadline timer and the timer of the grace period
          handlers,   \* the signals the launcher has a handler for
          stopped,    \* the exit code of the first stop, or 0
          proxy,      \* the Security Proxy
          group,      \* the living processes of the runner's group
          runner,     \* what the runner has done
          childExit,  \* how the runner ended
          file,       \* the output path
          exported,   \* the decision is in GITHUB_OUTPUT
          result      \* the exit code of the launcher; "killed" without one

runnerVars == <<group, runner, childExit>>
output == <<file, exported>>
launcherVars == <<session, stage, timers, handlers, stopped, proxy, runnerVars, output, result>>

Codes == {"0", "1", "2", "124", "130", "143", "error"}

InitLauncher ==
    /\ session \in Sessions
    /\ stage = "new"
    /\ timers = {} /\ handlers = {} /\ stopped = "none"
    /\ proxy = "none"
    /\ group = {} /\ runner = "none" /\ childExit = "none"
    /\ file \in {"absent", "foreign"} /\ exported = FALSE
    /\ result = "none"

-----------------------------------------------------------------------------
\* What the launcher checks before it allocates anything.

Least(S) == {x \in S : \A y \in S : x <= y}

\* The selected limit is the smaller of the command line's and the record's.
\* Math.min has no smaller of NaN and a number: it is NaN.
Selected(s) == IF NaN \in s.cliLimit THEN {NaN} ELSE Least(s.cliLimit \cup s.recorded)

Sought(s) ==
    IF s.callerLimit # {} THEN s.callerLimit
    ELSE IF Selected(s) # {} THEN Selected(s) ELSE {s.envLimit}

\* Mutant: the caller's limit is only checked for its range.
SessionLimitUnbound(s) == {l \in Sought(s) : l \in 1 .. MaxTimeout}

\* The session's limit; none is accepted that extends the selected one. No
\* limit is greater than NaN, so a selected NaN refuses no caller's limit.
SessionLimit(s) ==
    {l \in Sought(s) : l \in 1 .. MaxTimeout /\ \A x \in Selected(s) \ {NaN} : l <= x}

RecordedOk(s) == s.recorded \subseteq 1 .. MaxTimeout

\* The launcher never asks gcloud for a credential.
Credential(s) == ResolveAuthCredentials([s.sources EXCEPT !.gcloud = FALSE])

Mode(s, c) ==
    IF s.modeOverride # {} THEN s.modeOverride
    ELSE {IF c = "bearer" THEN "vertex" ELSE "studio"}

ScopeComplete(s, c) ==
    /\ s.model
    /\ Mode(s, c) = {IF c = "bearer" THEN "vertex" ELSE "studio"}
    /\ c = "bearer" => s.project /\ s.region

Launchable(s) ==
    /\ ~s.endpointArg /\ RecordedOk(s)
    /\ SessionLimit(s) # {}
    /\ \E c \in Credential(s) : ScopeComplete(s, c)
    /\ ~s.leak

-----------------------------------------------------------------------------
\* Starting.

\* Something is refused, or the deadline passes while it is checked.
Refuse ==
    /\ stage = "new"
    /\ stage' = "settled" /\ result' = "error"
    /\ UNCHANGED <<session, timers, handlers, stopped, proxy, runnerVars, output>>

StartProxy ==
    /\ stage = "new" /\ Launchable(session)
    /\ stage' = "starting" /\ proxy' = "starting"
    /\ UNCHANGED <<session, timers, handlers, stopped, runnerVars, output, result>>

ProxyFails ==
    /\ stage = "starting"
    /\ stage' = "settled" /\ result' = "error"
    /\ proxy' = "none"
    /\ UNCHANGED <<session, timers, handlers, stopped, runnerVars, output>>

\* The runner is spawned and the handlers installed in one callback.
Launch ==
    /\ stage = "starting"
    /\ stage' = "running" /\ proxy' = "serving"
    /\ timers' = {"deadline"}
    /\ handlers' = {"SIGINT", "SIGTERM"}
    /\ runner' = "started"
    /\ \/ group' = {"leader"} /\ childExit' = "none"
       \/ group' = {} /\ childExit' = "error"
    /\ UNCHANGED <<session, stopped, output, result>>

-----------------------------------------------------------------------------
\* The runner.

Running == "leader" \in group

\* Explicit Gemini settings take a budget, by default 1024, and no effort;
\* without them the runner records an effort, by default "low".
ResolveReviewRequest(s) ==
    LET explicit == s.provider = "gemini" \/ s.budget # {}
        efforts == s.effort \ {""}
        budget == IF s.budget = {} THEN {1024} ELSE s.budget
    IN {r \in {[provider |-> IF explicit THEN "gemini" ELSE "none",
                model |-> "gemini-2.5-pro",
                budget |-> IF explicit THEN budget ELSE {},
                effort |-> IF explicit THEN {} ELSE IF efforts = {} THEN {"low"} ELSE efforts]} :
           s.provider # "other" /\ (explicit => efforts = {})}

NoOptions == [budget |-> {}, effort |-> {}]

\* The runner may call the reviewer: its request is complete, its output
\* path is new, and the settings are ones the transport accepts.
Reviewable(s) ==
    /\ file = "absent"
    /\ s.preflight
    /\ \E r \in ResolveReviewRequest(s) : ResolveReviewerThinkingBudget(r, NoOptions) # {}

RunnerStep(from, to) ==
    /\ Running /\ runner = from
    /\ runner' = to
    /\ UNCHANGED <<session, stage, timers, handlers, stopped, proxy, group, childExit, result>>

Review ==
    /\ Reviewable(session)
    /\ RunnerStep("started", "reviewing") /\ UNCHANGED output

\* The reviewer answers and the decision is valid for schema and request.
ValidateDecision == RunnerStep("reviewing", "valid") /\ UNCHANGED output

\* The output is created, never opened: what appeared meanwhile stays.
Persist ==
    /\ RunnerStep("valid", "persisted")
    /\ file = "absent" /\ file' = "decision" /\ UNCHANGED exported

Export ==
    /\ RunnerStep("persisted", "exported")
    /\ exported' = session.github /\ UNCHANGED file

ChildEnds(code) ==
    /\ Running
    /\ group' = group \ {"leader"}
    /\ childExit' = code
    /\ UNCHANGED <<session, stage, timers, handlers, stopped, proxy, runner, output, result>>

\* Exit 0 follows the export; every failure before it exits 2, and other
\* ends are possible at any time.
RunnerEnds ==
    \/ runner = "exported" /\ ChildEnds("0")
    \/ ChildEnds("2")
    \/ ChildEnds("signal")

\* A process the runner starts in its group, and its end.
Descend ==
    /\ Running /\ group' = group \cup {"rest"} /\ "rest" \notin group
    /\ UNCHANGED <<session, stage, timers, handlers, stopped, proxy, runner, childExit, output, result>>

RestEnds ==
    /\ "rest" \in group /\ group' = group \ {"rest"}
    /\ UNCHANGED <<session, stage, timers, handlers, stopped, proxy, runner, childExit, output, result>>

\* Another program puts a file at the output path.
Intrude ==
    /\ file = "absent" /\ file' = "foreign"
    /\ runner \in {"started", "reviewing", "valid"}
    /\ UNCHANGED <<session, stage, timers, handlers, stopped, proxy, runnerVars, exported, result>>

-----------------------------------------------------------------------------
\* Stopping.

\* SIGINT and SIGTERM may be ignored by the group; SIGKILL is not.
Terminate ==
    \E survivors \in SUBSET group :
        /\ group' = survivors
        /\ childExit' = IF "leader" \in group \ survivors THEN "signal" ELSE childExit

\* The first stop decides; the proxy is shut down and the group told at once.
StopRunner(code) ==
    IF stopped # "none" THEN UNCHANGED <<stopped, proxy, group, childExit>>
    ELSE /\ stopped' = code
         /\ proxy' = "stopped"
         /\ Terminate

Grace(old) == IF stopped = "none" THEN old \cup {"grace"} ELSE old

\* The handler of a signal is installed for one delivery.
Interrupt(signal, code) ==
    /\ signal \in handlers
    /\ handlers' = handlers \ {signal}
    /\ StopRunner(code)
    /\ timers' = Grace(timers)
    /\ UNCHANGED <<session, stage, runner, output, result>>

Deadline ==
    /\ "deadline" \in timers
    /\ StopRunner("124")
    /\ timers' = Grace(timers \ {"deadline"})
    /\ UNCHANGED <<session, stage, handlers, runner, output, result>>

\* Mutant: only the runner itself is killed.
EscalateLeader ==
    /\ group' = group \ {"leader"}
    /\ childExit' = IF "leader" \in group THEN "signal" ELSE childExit

\* The grace period ends for whatever is left of the group.
Escalate ==
    /\ group' = {}
    /\ childExit' = IF "leader" \in group THEN "signal" ELSE childExit

EndGrace ==
    /\ "grace" \in timers
    /\ timers' = timers \ {"grace"}
    /\ Escalate
    /\ UNCHANGED <<session, stage, handlers, stopped, proxy, runner, output, result>>

\* A signal without handler ends the launcher, its proxy and its timers.
Die(signal) ==
    /\ stage \in {"starting", "running", "waiting", "draining"}
    /\ signal \notin handlers
    /\ stage' = "settled" /\ result' = "killed"
    /\ timers' = {} /\ handlers' = {} /\ proxy' = "stopped"
    /\ UNCHANGED <<session, stopped, runnerVars, output>>

-----------------------------------------------------------------------------
\* The end.

\* The close or error event of the runner: the deadline is disarmed, and a
\* stop that is under way is waited for.
Finish ==
    /\ stage = "running" /\ ~Running /\ childExit # "none"
    /\ timers' = timers \ {"deadline"}
    /\ IF "grace" \in timers THEN stage' = "waiting" /\ UNCHANGED <<handlers, proxy>>
       ELSE stage' = "draining" /\ handlers' = {} /\ proxy' = "stopped"
    /\ UNCHANGED <<session, stopped, runnerVars, output, result>>

StopCompletes ==
    /\ stage = "waiting" /\ "grace" \notin timers
    /\ stage' = "draining" /\ handlers' = {}
    /\ UNCHANGED <<session, timers, stopped, proxy, runnerVars, output, result>>

\* Mutant: the runner's code goes before the stop's.
ExitCodeOfRunner ==
    IF childExit = "error" THEN "error"
    ELSE IF childExit # "signal" THEN childExit
    ELSE IF stopped # "none" THEN stopped ELSE "1"

ExitCode ==
    IF childExit = "error" THEN "error"
    ELSE IF stopped # "none" THEN stopped
    ELSE IF childExit = "signal" THEN "1" ELSE childExit

\* The shutdown of the proxy has drained.
Resolve ==
    /\ stage = "draining"
    /\ stage' = "settled"
    /\ result' = ExitCode
    /\ UNCHANGED <<session, timers, handlers, stopped, proxy, runnerVars, output>>

Starting == Refuse \/ StartProxy \/ ProxyFails \/ Launch
Runner == Review \/ ValidateDecision \/ Persist \/ Export \/ RunnerEnds \/ Descend \/ RestEnds
Signals == Interrupt("SIGINT", "130") \/ Interrupt("SIGTERM", "143")
Ending == EndGrace \/ Finish \/ StopCompletes \/ Resolve

LauncherNext ==
    \/ Starting \/ Runner \/ Intrude
    \/ Signals \/ Deadline \/ Ending
    \/ Die("SIGINT") \/ Die("SIGTERM")

LauncherSpec == InitLauncher /\ [][LauncherNext]_launcherVars

-----------------------------------------------------------------------------
\* Correctness.

\* Exit code 0 is the claim of a finished review: the validated decision is
\* in a file this run created and exported where a workflow reads it, and
\* no signal and no deadline stopped the session, however late they came.
ZeroMeansPublished ==
    result = "0" =>
        /\ runner = "exported" /\ file = "decision"
        /\ exported = session.github
        /\ stopped = "none"

\* A launcher that ends by itself leaves no proxy, timer or handler, and no
\* runner; after a stop nothing of the runner's group is left either.
NothingSupervisedRemains ==
    result \notin {"none", "killed"} =>
        /\ proxy \in {"none", "stopped"}
        /\ timers = {} /\ handlers = {}
        /\ "leader" \notin group
        /\ stopped # "none" => group = {}

\* A session that starts has a limit of its own, of at most MaxTimeout, that is
\* within those of its command line and its recorded request. One exception is
\* the code's: a limit of the command line that is no number also takes the
\* recorded one away, and the session has the limit its caller sets. Without a
\* caller's limit such a session does not start.
DeadlineNotExtended ==
    proxy # "none" =>
        \E l \in SessionLimit(session) :
            /\ SessionLimit(session) = {l} /\ l \in 1 .. MaxTimeout
            /\ IF NaN \in session.cliLimit THEN session.callerLimit = {l}
               ELSE \A x \in session.cliLimit \cup session.recorded : l <= x
=============================================================================
