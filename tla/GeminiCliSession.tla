-------------------------- MODULE GeminiCliSession --------------------------
(***************************************************************************)
(* One Gemini CLI review under src/src/gemini-cli/: runGeminiCliProxySession*)
(* starts the Security Proxy and, through runGeminiCliSession and          *)
(* runGeminiCliProcess, a version probe and then the review, each in a     *)
(* process group of its own; both share one deadline and one cancellation. *)
(* A step is one callback of the event loop with the microtasks it drains, *)
(* or something the children do. The proxy is the one SecurityProxy        *)
(* models: here it starts or fails, stops by itself when the session's     *)
(* signal aborts or its deadline passes, and its shutdown is awaited.      *)
(* SIGKILL to a group ends every process that is in it at that moment.     *)
(***************************************************************************)
EXTENDS Naturals

CONSTANTS Inputs    \* the sessions to examine

Places == {"ancestor", "root", "nested"}
Names == {".gemini", ".env", "GEMINI.md", "gemini.MD", "plain"}
Entry == [place: Places, name: Names, link: BOOLEAN]

\* What a caller passes: the process options, and the evidence as it will
\* lie in the workspace with the directories above it.
Input ==
    [fixedKeys: BOOLEAN, bearer: BOOLEAN, scopeOk: BOOLEAN, timeoutOk: BOOLEAN,
     packetOk: BOOLEAN, longLine: BOOLEAN, limitsOk: BOOLEAN,
     prompt: {"fits", "envelopeTooLong", "tooLong"},
     model: {"gemini-3.8-flash", "otherModel", "invalid"},
     level: {"absent", "MEDIUM", "other"}, budget: {"absent", "valid", "invalid"},
     foldsCase: BOOLEAN, tree: SUBSET Entry]

ASSUME InputsAssumption == Inputs \subseteq Input

VARIABLES input,     \* what the caller passed
          stage,     \* where the session is
          late,      \* Date.now() has reached the session's deadline
          aborted,   \* the aborted signals: "deadline" and "user"
          armed,     \* the session's timer, the child's timer and abort listener
          group,     \* the living processes of the child's group
          exit,      \* how the child itself ended
          spoiled,   \* what the supervisor recorded against the child
          killed,    \* a process of the group was killed before its end was seen
          home,      \* the private HOME exists
          workspace, \* the materialized workspace exists
          proxy,     \* the Security Proxy
          answer,    \* what the session will return once the proxy is shut down
          result     \* what it returned

child == <<group, exit, spoiled, killed>>
vars == <<input, stage, late, aborted, armed, child, home, workspace, proxy, answer, result>>

Processes == {"leader", "holder", "quiet"}

Init ==
    /\ input \in Inputs
    /\ stage = "new" /\ late = FALSE
    /\ aborted = {} /\ armed = {}
    /\ group = {} /\ exit = "none" /\ spoiled = {} /\ killed = FALSE
    /\ home = FALSE /\ workspace = FALSE
    /\ proxy = "none"
    /\ answer = "none" /\ result = "none"

-----------------------------------------------------------------------------
\* What is checked before anything is started.

ProxySessionInput(i) == i.fixedKeys /\ i.bearer /\ i.scopeOk /\ i.timeoutOk

\* One model takes a thinking level and no budget, every other the reverse.
Thinking(i) ==
    IF i.model = "gemini-3.8-flash"
    THEN i.budget = "absent" /\ i.level = "MEDIUM"
    ELSE i.budget = "valid" /\ i.level = "absent"

\* The prompt is counted again after it was encoded for transport.
ProcessOptions(i) ==
    /\ i.prompt = "fits"
    /\ i.model # "invalid"
    /\ Thinking(i)
    /\ i.limitsOk

\* Opening a control path by its name finds every spelling of it on a file
\* system that folds case.
Opens(i, e) ==
    e.name \in {".gemini", ".env", "GEMINI.md"} \/ (i.foldsCase /\ e.name = "gemini.MD")

\* Mutant: the names in the workspace are compared as they are spelled.
ExactControls(i) ==
    \A e \in i.tree : e.name \notin {".gemini", ".env", "GEMINI.md"} /\ (e.place = "ancestor" \/ ~e.link)

\* Above the workspace a control is looked up by its name; in it, names are
\* read and folded, and symbolic links refused whatever their name.
WorkspaceControls(i) ==
    \A e \in i.tree :
        IF e.place = "ancestor" THEN ~Opens(i, e) ELSE e.name = "plain" /\ ~e.link

-----------------------------------------------------------------------------
\* Ending the session.

\* The time the clock reads in a handler: it may reach the deadline in it.
Clock(l) == l \in {late, TRUE} /\ late' = l

\* Mutant: only the timer says that the deadline is over.
DeadlineFired(l) == "deadline" \in aborted

Deadline(l) == l \/ "deadline" \in aborted

SpawnHandles == {"spawn", "listener"}
SettleChild(a) == a \ SpawnHandles

\* The finally of the proxy session: its timer goes, and the proxy that was
\* started is shut down and awaited before the caller sees anything.
Leave(a) ==
    /\ answer' = a
    /\ armed' = SettleChild(armed) \ {"session"}
    /\ IF proxy = "none"
       THEN stage' = "settled" /\ result' = a
       ELSE stage' = "closing" /\ UNCHANGED result

\* The finally of the process and of the session.
CleanUp == home' = FALSE /\ workspace' = FALSE

\* The answer counts only while neither deadline nor caller ended the session.
LeaveWithText(l) == Leave(IF Deadline(l) \/ "user" \in aborted THEN "error" ELSE "text")

-----------------------------------------------------------------------------
\* Starting.

\* The deadline cannot be over before the proxy is started, unless the
\* clock reaches it between the two reads.
Begin ==
    /\ stage = "new"
    /\ \E l \in BOOLEAN :
          /\ Clock(l)
          /\ IF ~ProxySessionInput(input) \/ "user" \in aborted \/ l
             THEN Leave("error") /\ UNCHANGED proxy
             ELSE /\ stage' = "starting"
                  /\ armed' = {"session"}
                  /\ proxy' = "starting"
                  /\ UNCHANGED <<answer, result>>
    /\ UNCHANGED <<input, aborted, child, home, workspace>>

\* The proxy's startup rejects; there is then nothing to shut down.
ProxyRefuses ==
    /\ stage = "starting"
    /\ proxy' = "none"
    /\ stage' = "settled"
    /\ answer' = "error" /\ result' = "error"
    /\ armed' = armed \ {"session"}
    /\ \E l \in BOOLEAN : Clock(l)
    /\ UNCHANGED <<input, aborted, child, home, workspace>>

\* A child starts alone in a group of its own, or cannot be started.
Spawn(next) ==
    /\ stage' = next
    /\ armed' = SettleChild(armed) \cup SpawnHandles
    /\ \/ group' = {"leader"} /\ exit' = "none"
       \/ group' = {} /\ exit' = "unstartable"
    /\ spoiled' = {} /\ killed' = FALSE
    /\ UNCHANGED <<answer, result>>

Startable(i) ==
    i.packetOk /\ ~i.longLine /\ ProcessOptions(i) /\ WorkspaceControls(i)

\* The proxy serves. Unless the session is over, the workspace is written
\* and checked, the private HOME made and the version probe started; what
\* fails on the way removes what was made.
ProxyServes ==
    /\ stage = "starting"
    /\ proxy' = "serving"
    /\ \E l \in BOOLEAN :
          /\ Clock(l)
          /\ IF Deadline(l) \/ "user" \in aborted \/ ~Startable(input)
             THEN /\ stage' = "closing"
                  /\ answer' = "error"
                  /\ armed' = armed \ {"session"}
                  /\ UNCHANGED <<child, home, workspace, result>>
             ELSE /\ Spawn("version")
                  /\ home' = TRUE /\ workspace' = TRUE
    /\ UNCHANGED <<input, aborted>>

-----------------------------------------------------------------------------
\* What the children do.

Alive == stage \in {"version", "review"}

\* A process of the group starts another, which holds the output pipes or not.
Fork ==
    /\ Alive /\ group # {}
    /\ \E p \in {"holder", "quiet"} \ group : group' = group \cup {p}
    /\ UNCHANGED <<input, stage, late, aborted, armed, exit, spoiled, killed,
                   home, workspace, proxy, answer, result>>

ProcessEnds ==
    /\ Alive
    /\ \E p \in group :
          /\ group' = group \ {p}
          /\ IF p = "leader" THEN exit' \in {"ok", "bad"} ELSE UNCHANGED exit
    /\ UNCHANGED <<input, stage, late, aborted, armed, spoiled, killed,
                   home, workspace, proxy, answer, result>>

-----------------------------------------------------------------------------
\* The supervisor.

\* SIGKILL to the group of the child.
KillGroup ==
    /\ group' = {}
    /\ killed' = (killed \/ group # {})
    /\ exit' = IF "leader" \in group THEN "signal" ELSE exit

Spoil(flag) ==
    /\ spoiled' = spoiled \cup {flag}
    /\ KillGroup

\* More output than the limit, from a process that holds the pipe.
Overflow ==
    /\ Alive /\ group \cap {"leader", "holder"} # {}
    /\ Spoil("overflow")
    /\ UNCHANGED <<input, stage, late, aborted, armed, home, workspace, proxy, answer, result>>

\* The child closes its stdin before it read the whole prompt.
StdinFails ==
    /\ stage = "review" /\ "stdin" \notin spoiled
    /\ spoiled' = spoiled \cup {"stdin"}
    /\ UNCHANGED <<input, stage, late, aborted, armed, group, exit, killed,
                   home, workspace, proxy, answer, result>>

\* The child's own timer.
FireSpawnTimer ==
    /\ "spawn" \in armed
    /\ armed' = armed \ {"spawn"}
    /\ Spoil("timedOut")
    /\ UNCHANGED <<input, stage, late, aborted, home, workspace, proxy, answer, result>>

\* The session's signal aborts: the listener of the child kills its group.
AbortChild ==
    IF "listener" \in armed THEN Spoil("cancelled") ELSE UNCHANGED child

FireSessionTimer ==
    /\ "session" \in armed
    /\ aborted' = aborted \cup {"deadline"}
    /\ armed' = armed \ {"session", "listener"}
    /\ AbortChild
    /\ UNCHANGED <<input, stage, late, home, workspace, proxy, answer, result>>

\* The caller cancels, at any moment.
UserAborts ==
    /\ "user" \notin aborted /\ stage # "settled"
    /\ aborted' = aborted \cup {"user"}
    /\ armed' = armed \ {"listener"}
    /\ AbortChild
    /\ UNCHANGED <<input, stage, late, home, workspace, proxy, answer, result>>

\* The proxy obeys the session's signal and its own copy of the deadline.
ProxyStops ==
    /\ proxy = "serving"
    /\ aborted # {} \/ late
    /\ proxy' = "stopped"
    /\ UNCHANGED <<input, stage, late, aborted, armed, child, home, workspace, answer, result>>

PassTime ==
    /\ ~late /\ stage # "settled"
    /\ late' = TRUE
    /\ UNCHANGED <<input, stage, aborted, armed, child, home, workspace, proxy, answer, result>>

\* The child's error event.
StartFails ==
    /\ Alive /\ exit = "unstartable"
    /\ KillGroup
    /\ CleanUp
    /\ Leave("error")
    /\ \E l \in BOOLEAN : Clock(l)
    /\ UNCHANGED <<input, aborted, spoiled, proxy>>

\* Mutant: the rest of the group is left alone.
ReapNothing == UNCHANGED child

\* What a group leaves when its pipes are closed: what remains of it is
\* killed, which no longer counts against the child.
Reap == group' = {} /\ UNCHANGED <<exit, spoiled, killed>>

\* Mutant: the exit code alone decides.
CleanExit == exit = "ok"

Clean == exit = "ok" /\ spoiled = {}

Closed == exit \in {"ok", "bad", "signal"} /\ "holder" \notin group

\* The close event of the probe: the pinned version starts the review, if
\* the session may still spawn.
CloseVersion ==
    /\ stage = "version" /\ Closed
    /\ \E l \in BOOLEAN :
          /\ Clock(l)
          /\ \/ /\ Clean
                /\ aborted = {} /\ ~l
                /\ Spawn("review")
                /\ UNCHANGED <<home, workspace>>
             \/ /\ Reap
                /\ CleanUp
                /\ Leave("error")
    /\ UNCHANGED <<input, aborted, proxy>>

\* The close event of the review: a clean exit may carry a valid envelope.
CloseReview ==
    /\ stage = "review" /\ Closed
    /\ Reap
    /\ CleanUp
    /\ \E l \in BOOLEAN :
          /\ Clock(l)
          /\ \/ Clean /\ LeaveWithText(l)
             \/ Leave("error")
    /\ UNCHANGED <<input, aborted, proxy>>

\* The shutdown of the proxy has drained: the caller sees the answer.
EndShutdown ==
    /\ stage = "closing"
    /\ proxy' = "stopped"
    /\ stage' = "settled"
    /\ result' = answer
    /\ UNCHANGED <<input, late, aborted, armed, child, home, workspace, answer>>

-----------------------------------------------------------------------------
Startup == Begin \/ ProxyRefuses \/ ProxyServes
Children == Fork \/ ProcessEnds
Timers == FireSpawnTimer \/ FireSessionTimer
Events == StartFails \/ CloseVersion \/ CloseReview

Next ==
    \/ Startup \/ Children \/ Overflow \/ StdinFails
    \/ Timers \/ UserAborts \/ ProxyStops \/ PassTime
    \/ Events \/ EndShutdown

Spec == Init /\ [][Next]_vars

\* The proxy's startup settles and its shutdown drains (SecurityProxy shows
\* both), armed timers fire, and the events of an ended child are delivered.
\* Nothing is assumed of the children.
FairSpec ==
    Spec /\ WF_vars(Startup) /\ WF_vars(Timers) /\ WF_vars(Events) /\ WF_vars(EndShutdown)

-----------------------------------------------------------------------------
\* Correctness.

\* When the caller learns the end of a session, nothing of it is left: no
\* process of either group, no timer or abort listener, neither the private
\* HOME nor the workspace with the evidence, and no proxy that holds the
\* credential, whichever step failed or whoever ended it.
NothingLeftBehind ==
    result # "none" =>
        /\ group = {} /\ armed = {}
        /\ ~home /\ ~workspace
        /\ proxy \in {"none", "stopped"}

\* A text is adopted only from a review that ended by itself: a kill for
\* time, cancellation or output that crosses the exit of the child is
\* never taken for a clean end.
OnlyCleanText ==
    answer = "text" => ~killed /\ exit = "ok" /\ spoiled = {}

\* The CLI runs only in a workspace in which opening a name leads it to no
\* settings or instructions of the candidate, at no depth, in no spelling the
\* file system takes for the name, and through no link.
NoControlsInReach ==
    Alive => \A e \in input.tree :
        ~Opens(input, e) /\ (e.place # "ancestor" => ~e.link)

\* How the session looks to its caller when its answer is decided.
Bounded == INSTANCE BoundedCall WITH
    open <- ~late /\ aborted = {},
    outcome <- CASE answer = "none" -> "waiting"
                 [] answer = "text" -> "value"
                 [] OTHER           -> "refused"

\* A text is adopted only before the deadline and before any cancellation,
\* what was decided is not changed by what happens during shutdown, and every
\* session is decided, a hung probe or review included.
AlwaysEnds == Bounded!BoundedSpec
=============================================================================
