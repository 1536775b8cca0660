----------------------- MODULE GeminiCliSessionProofs -----------------------
(***************************************************************************)
(* TLAPS proofs about GeminiCliSession, for every set of sessions: nothing *)
(* is left behind, a text is that of a clean end, no control lies in reach *)
(* of the CLI, and a session implements the safety of BoundedCall.         *)
(***************************************************************************)
EXTENDS GeminiCliSession, TLAPS

\* The values of the variables; of the input nothing is needed.
Types ==
    /\ stage \in {"new", "starting", "version", "review", "closing", "settled"}
    /\ late \in BOOLEAN
    /\ aborted \in SUBSET {"deadline", "user"}
    /\ armed \in SUBSET {"session", "spawn", "listener"}
    /\ group \in SUBSET Processes
    /\ spoiled \in SUBSET {"overflow", "stdin", "timedOut", "cancelled"}
    /\ killed \in BOOLEAN /\ home \in BOOLEAN /\ workspace \in BOOLEAN
    /\ proxy \in {"none", "starting", "serving", "stopped"}
    /\ answer \in {"none", "error", "text"} /\ result \in {"none", "error", "text"}

Idle == group = {} /\ ~home /\ ~workspace

\* What exists at each stage of a session.
Stages ==
    /\ stage = "new" => Idle /\ armed = {} /\ proxy = "none" /\ answer = "none"
    /\ stage = "starting" =>
          Idle /\ armed \subseteq {"session"} /\ proxy = "starting" /\ answer = "none"
    /\ Alive => proxy \in {"serving", "stopped"} /\ answer = "none"
    /\ stage = "closing" =>
          Idle /\ armed = {} /\ proxy \in {"serving", "stopped"} /\ answer # "none"
    /\ stage = "settled" => Idle /\ armed = {} /\ proxy \in {"none", "stopped"} /\ result = answer
    /\ stage # "settled" => result = "none"

\* A group that was killed left a note why, until the child is replaced.
Noted == killed => spoiled # {}

Checked == Alive => WorkspaceControls(input)

IInv == Types /\ Stages /\ (Alive => Noted) /\ Checked /\ OnlyCleanText

-----------------------------------------------------------------------------
LEMMA InitInv == Init => IInv
  BY DEF Init, IInv, Types, Stages, Idle, Alive, Noted, Checked, OnlyCleanText

\* The end of the review or of the start-up: what is left to the shutdown.
LEMMA LeaveInv ==
    ASSUME Types, Stages, stage \in {"new", "version", "review"}, NEW a \in {"error", "text"}, Leave(a),
           UNCHANGED <<input, proxy>>,
           late' \in BOOLEAN, aborted' = aborted,
           group' = {}, home' = FALSE, workspace' = FALSE,
           spoiled' = spoiled, killed' \in BOOLEAN,
           a = "text" => ~killed' /\ exit' = "ok" /\ spoiled' = {}
    PROVE  IInv'
<1>1. answer' = a /\ armed' = {} /\ stage' \in {"closing", "settled"}
  BY DEF Leave, SettleChild, SpawnHandles, Types
<1>2. result' \in {"none", "error", "text"}
  BY DEF Leave, Types
<1>3. Types'
  BY <1>1, <1>2 DEF Types
<1>4. Stages'
  <2>1. CASE proxy = "none"
    BY <1>1, <2>1 DEF Leave, Stages, Idle, Alive
  <2>2. CASE proxy # "none"
    BY <1>1, <2>2 DEF Leave, Stages, Idle, Alive
  <2>3. QED
    BY <2>1, <2>2
<1>5. OnlyCleanText' /\ ~Alive'
  BY <1>1 DEF OnlyCleanText, Alive
<1>6. QED
  BY <1>3, <1>4, <1>5 DEF IInv, Checked

\* A child of a group of its own, or none.
LEMMA SpawnInv ==
    ASSUME Types, Stages, NEW next \in {"version", "review"}, Spawn(next),
           stage \in {"starting", "version"}, proxy' \in {"serving", "stopped"},
           UNCHANGED <<input, aborted>>, late' \in BOOLEAN, home' \in BOOLEAN, workspace' \in BOOLEAN,
           WorkspaceControls(input)
    PROVE  IInv'
<1>1. /\ stage' = next /\ armed' \subseteq {"session", "spawn", "listener"}
      /\ group' \in SUBSET Processes /\ spoiled' = {} /\ killed' = FALSE
      /\ answer' = "none" /\ result' = "none"
  BY DEF Spawn, SettleChild, SpawnHandles, Types, Stages, Alive, Processes
<1>2. Types'
  BY <1>1 DEF Types
<1>3. Stages'
  BY <1>1 DEF Stages, Alive
<1>4. Checked'
  <2>1. input' = input
    OBVIOUS
  <2>2. QED
    BY <2>1 DEF Checked, WorkspaceControls, Opens
<1>5. Noted' /\ OnlyCleanText'
  BY <1>1 DEF Noted, OnlyCleanText
<1>6. QED
  BY <1>2, <1>3, <1>4, <1>5 DEF IInv

\* Whatever is recorded against a living child; it stays where it is.
LEMMA SpoilInv ==
    ASSUME IInv, Alive, NEW flag \in {"overflow", "timedOut", "cancelled"}, Spoil(flag),
           UNCHANGED <<input, stage, home, workspace, proxy, answer, result>>,
           late' \in BOOLEAN, aborted' \in SUBSET {"deadline", "user"},
           armed' \in SUBSET {"session", "spawn", "listener"}
    PROVE  IInv'
<1>1. /\ group' = {} /\ killed' \in BOOLEAN /\ spoiled' = spoiled \cup {flag}
  BY DEF Spoil, KillGroup, IInv, Types
<1>2. Types'
  BY <1>1 DEF IInv, Types
<1>3. Stages'
  BY DEF IInv, Stages, Alive
<1>4. Noted'
  BY <1>1 DEF Noted
<1>5. Checked'
  BY DEF IInv, Checked, Alive, WorkspaceControls, Opens
<1>6. OnlyCleanText'
  BY DEF IInv, Stages, OnlyCleanText
<1>7. QED
  BY <1>2, <1>3, <1>4, <1>5, <1>6 DEF IInv

\* Steps that leave the child, the stage and the answer alone.
LEMMA RestInv ==
    ASSUME IInv, UNCHANGED <<input, stage, child, home, workspace, answer, result>>,
           late' \in BOOLEAN, aborted' \in SUBSET {"deadline", "user"},
           armed' \subseteq armed,
           proxy' = proxy \/ (proxy = "serving" /\ proxy' = "stopped")
    PROVE  IInv'
<1>1. UNCHANGED <<group, exit, spoiled, killed>>
  BY DEF child
<1>2. Types'
  BY <1>1 DEF IInv, Types
<1>3. Stages'
  BY <1>1 DEF IInv, Stages, Alive, Idle
<1>4. Checked' /\ (Alive' => Noted') /\ OnlyCleanText'
  BY <1>1 DEF IInv, Checked, Noted, Alive, WorkspaceControls, Opens, OnlyCleanText
<1>5. QED
  BY <1>2, <1>3, <1>4 DEF IInv

-----------------------------------------------------------------------------
LEMMA StartupInv == ASSUME IInv, Startup PROVE IInv'
<1>1. CASE Begin
  <2>1. PICK l \in BOOLEAN :
           /\ Clock(l)
           /\ IF ~ProxySessionInput(input) \/ "user" \in aborted \/ l
              THEN Leave("error") /\ UNCHANGED proxy
              ELSE /\ stage' = "starting"
                   /\ armed' = {"session"}
                   /\ proxy' = "starting"
                   /\ UNCHANGED <<answer, result>>
    BY <1>1 DEF Begin
  <2>2. /\ stage = "new" /\ UNCHANGED <<input, aborted, home, workspace>>
        /\ UNCHANGED <<group, exit, spoiled, killed>>
        /\ late' \in BOOLEAN
    BY <1>1, <2>1 DEF Begin, Clock, child
  <2>3. Types /\ Stages /\ Idle
    BY <2>2 DEF IInv, Stages
  <2>4. CASE ~ProxySessionInput(input) \/ "user" \in aborted \/ l
    <3>1. Leave("error") /\ proxy' = proxy
      BY <2>1, <2>4
    <3>2. group' = {} /\ home' = FALSE /\ workspace' = FALSE
      BY <2>2, <2>3 DEF Idle, Types
    <3>3. killed' \in BOOLEAN
      BY <2>2, <2>3 DEF Types
    <3>4. QED
      BY <2>2, <2>3, <3>1, <3>2, <3>3, LeaveInv
  <2>5. CASE ~(~ProxySessionInput(input) \/ "user" \in aborted \/ l)
    <3>1. stage' = "starting" /\ armed' = {"session"} /\ proxy' = "starting"
          /\ UNCHANGED <<answer, result>>
      BY <2>1, <2>5
    <3>2. Types' /\ Stages'
      BY <2>2, <2>3, <3>1 DEF Types, Stages, Idle, Alive
    <3>3. QED
      BY <2>2, <2>3, <3>1, <3>2 DEF IInv, Checked, Alive, OnlyCleanText, Stages
  <2>6. QED
    BY <2>4, <2>5
<1>2. CASE ProxyRefuses
  <2>1. /\ stage = "starting" /\ stage' = "settled" /\ proxy' = "none" /\ armed' = armed \ {"session"}
        /\ answer' = "error" /\ result' = "error" /\ late' \in BOOLEAN
        /\ UNCHANGED <<group, exit, spoiled, killed, home, workspace, aborted>>
    BY <1>2 DEF ProxyRefuses, Clock, child
  <2>2. Types' /\ Stages'
    BY <2>1 DEF IInv, Types, Stages, Idle, Alive
  <2>3. QED
    BY <2>1, <2>2 DEF IInv, Checked, Alive, OnlyCleanText
<1>3. CASE ProxyServes
  <2>1. PICK l \in BOOLEAN :
           /\ Clock(l)
           /\ IF Deadline(l) \/ "user" \in aborted \/ ~Startable(input)
              THEN /\ stage' = "closing"
                   /\ answer' = "error"
                   /\ armed' = armed \ {"session"}
                   /\ UNCHANGED <<child, home, workspace, result>>
              ELSE /\ Spawn("version")
                   /\ home' = TRUE /\ workspace' = TRUE
    BY <1>3 DEF ProxyServes
  <2>2. stage = "starting" /\ proxy' = "serving" /\ UNCHANGED <<input, aborted>> /\ late' \in BOOLEAN
    BY <1>3, <2>1 DEF ProxyServes, Clock
  <2>3. CASE Deadline(l) \/ "user" \in aborted \/ ~Startable(input)
    <3>1. /\ stage' = "closing" /\ answer' = "error" /\ armed' = armed \ {"session"}
          /\ UNCHANGED <<group, exit, spoiled, killed, home, workspace, result>>
      BY <2>1, <2>3 DEF child
    <3>2. Types' /\ Stages'
      BY <2>2, <3>1 DEF IInv, Types, Stages, Idle, Alive
    <3>3. QED
      BY <3>1, <3>2 DEF IInv, Checked, Alive, OnlyCleanText
  <2>4. CASE ~(Deadline(l) \/ "user" \in aborted \/ ~Startable(input))
    <3>1. Spawn("version") /\ home' = TRUE /\ workspace' = TRUE
      BY <2>1, <2>4
    <3>2. WorkspaceControls(input)
      BY <2>4 DEF Startable
    <3>3. Types /\ Stages
      BY DEF IInv
    <3>4. QED
      BY <2>2, <3>1, <3>2, <3>3, SpawnInv
  <2>5. QED
    BY <2>3, <2>4
<1>4. QED
  BY <1>1, <1>2, <1>3 DEF Startup

\* The children and the supervisor's notes.
LEMMA ChildrenInv == ASSUME IInv, Children \/ StdinFails PROVE IInv'
<1>1. /\ Alive /\ UNCHANGED <<input, stage, late, aborted, armed, home, workspace, proxy, answer, result>>
      /\ UNCHANGED killed /\ spoiled \subseteq spoiled'
  BY DEF Children, Fork, ProcessEnds, StdinFails, Alive
<1>2. group' \in SUBSET Processes
  BY DEF Children, Fork, ProcessEnds, StdinFails, Processes, IInv, Types
<1>3. spoiled' \in SUBSET {"overflow", "stdin", "timedOut", "cancelled"}
  BY DEF Children, Fork, ProcessEnds, StdinFails, IInv, Types
<1>4. Types'
  BY <1>1, <1>2, <1>3 DEF IInv, Types
<1>5. Stages'
  BY <1>1 DEF IInv, Stages, Alive
<1>6. Noted'
  BY <1>1 DEF IInv, Noted
<1>7. Checked' /\ OnlyCleanText'
  BY <1>1 DEF IInv, Checked, Alive, WorkspaceControls, Opens, Stages, OnlyCleanText
<1>8. QED
  BY <1>4, <1>5, <1>6, <1>7 DEF IInv

LEMMA SupervisorInv ==
    ASSUME IInv, Overflow \/ FireSpawnTimer \/ FireSessionTimer \/ UserAborts PROVE IInv'
<1>0. armed \in SUBSET {"session", "spawn", "listener"} /\ late \in BOOLEAN
      /\ aborted \in SUBSET {"deadline", "user"}
  BY DEF IInv, Types
<1>1. CASE Overflow
  BY <1>0, <1>1, SpoilInv DEF Overflow
<1>2. CASE FireSpawnTimer
  <2>1. Alive
    BY <1>2 DEF FireSpawnTimer, IInv, Stages, Types, Alive
  <2>2. QED
    BY <1>0, <1>2, <2>1, SpoilInv DEF FireSpawnTimer
<1>3. ASSUME AbortChild, NEW flag, aborted' = aborted \cup {flag}, flag \in {"deadline", "user"},
             armed' \subseteq armed \ {"listener"},
             UNCHANGED <<input, stage, late, home, workspace, proxy, answer, result>>
      PROVE  IInv'
  <2>1. CASE "listener" \in armed
    <3>1. Alive
      BY <2>1 DEF IInv, Stages, Types, Alive
    <3>2. Spoil("cancelled")
      BY <1>3, <2>1 DEF AbortChild
    <3>3. QED
      BY <1>0, <1>3, <3>1, <3>2, SpoilInv
  <2>2. CASE "listener" \notin armed
    <3>1. UNCHANGED child
      BY <1>3, <2>2 DEF AbortChild
    <3>2. aborted' \in SUBSET {"deadline", "user"} /\ armed' \subseteq armed /\ late' \in BOOLEAN
      BY <1>0, <1>3
    <3>3. QED
      BY <1>3, <3>1, <3>2, RestInv
  <2>3. QED
    BY <2>1, <2>2
<1>4. CASE FireSessionTimer
  BY <1>3, <1>4 DEF FireSessionTimer
<1>5. CASE UserAborts
  BY <1>3, <1>5 DEF UserAborts
<1>6. QED
  BY <1>1, <1>2, <1>4, <1>5

LEMMA EventsInv == ASSUME IInv, Events PROVE IInv'
<1>0. Types /\ Stages /\ (Alive => Noted) /\ Checked
  BY DEF IInv
<1>1. CASE StartFails
  <2>1. Alive /\ group' = {} /\ home' = FALSE /\ workspace' = FALSE /\ killed' \in BOOLEAN
    BY <1>0, <1>1 DEF StartFails, KillGroup, CleanUp, Types
  <2>2. Leave("error") /\ late' \in BOOLEAN /\ UNCHANGED <<input, aborted, spoiled, proxy>>
    BY <1>1 DEF StartFails, Clock
  <2>3. QED
    BY <1>0, <2>1, <2>2, LeaveInv DEF Alive
<1>2. CASE CloseVersion
  <2>1. stage = "version" /\ UNCHANGED <<input, aborted, proxy>>
    BY <1>2 DEF CloseVersion
  <2>2. PICK l \in BOOLEAN :
           /\ Clock(l)
           /\ \/ Spawn("review") /\ UNCHANGED <<home, workspace>>
              \/ Reap /\ CleanUp /\ Leave("error")
    BY <1>2 DEF CloseVersion
  <2>3. late' \in BOOLEAN
    BY <2>2 DEF Clock
  <2>4. CASE Spawn("review") /\ UNCHANGED <<home, workspace>>
    <3>1. WorkspaceControls(input)
      BY <1>0, <2>1 DEF Checked, Alive
    <3>2. proxy' \in {"serving", "stopped"} /\ home' \in BOOLEAN /\ workspace' \in BOOLEAN
      BY <1>0, <2>1, <2>4 DEF Stages, Types, Alive
    <3>3. QED
      BY <1>0, <2>1, <2>3, <2>4, <3>1, <3>2, SpawnInv
  <2>5. CASE Reap /\ CleanUp /\ Leave("error")
    <3>1. group' = {} /\ home' = FALSE /\ workspace' = FALSE /\ killed' \in BOOLEAN /\ spoiled' = spoiled
      BY <1>0, <2>5 DEF Reap, CleanUp, Types
    <3>2. QED
      BY <1>0, <2>1, <2>3, <2>5, <3>1, LeaveInv
  <2>6. QED
    BY <2>2, <2>4, <2>5
<1>3. CASE CloseReview
  <2>1. stage = "review" /\ UNCHANGED <<input, aborted, proxy>>
    BY <1>3 DEF CloseReview
  <2>2. group' = {} /\ home' = FALSE /\ workspace' = FALSE /\ UNCHANGED <<exit, spoiled, killed>>
    BY <1>3 DEF CloseReview, Reap, CleanUp
  <2>3. killed' \in BOOLEAN
    BY <1>0, <2>2 DEF Types
  <2>4. PICK l \in BOOLEAN : Clock(l) /\ ((Clean /\ LeaveWithText(l)) \/ Leave("error"))
    BY <1>3 DEF CloseReview
  <2>5. late' \in BOOLEAN
    BY <2>4 DEF Clock
  <2>6. CASE Leave("error")
    BY <1>0, <2>1, <2>2, <2>3, <2>5, <2>6, LeaveInv
  <2>7. CASE Clean /\ LeaveWithText(l)
    <3>1. PICK a \in {"error", "text"} : Leave(a)
      BY <2>7 DEF LeaveWithText
    <3>2. ~killed' /\ exit' = "ok" /\ spoiled' = {}
      BY <1>0, <2>1, <2>2, <2>7 DEF Clean, Noted, Alive
    <3>3. QED
      BY <1>0, <2>1, <2>2, <2>3, <2>5, <3>1, <3>2, LeaveInv
  <2>8. QED
    BY <2>4, <2>6, <2>7
<1>4. QED
  BY <1>1, <1>2, <1>3 DEF Events

LEMMA ShutdownInv == ASSUME IInv, EndShutdown PROVE IInv'
<1>1. /\ stage = "closing" /\ stage' = "settled" /\ proxy' = "stopped" /\ result' = answer
      /\ UNCHANGED <<input, late, aborted, armed, home, workspace, answer>>
      /\ UNCHANGED <<group, exit, spoiled, killed>>
  BY DEF EndShutdown, child
<1>2. Types' /\ Stages'
  BY <1>1 DEF IInv, Types, Stages, Idle, Alive
<1>3. QED
  BY <1>1, <1>2 DEF IInv, Checked, Alive, OnlyCleanText

LEMMA StepInv == ASSUME IInv, [Next]_vars PROVE IInv'
<1>0. late \in BOOLEAN /\ aborted \in SUBSET {"deadline", "user"}
  BY DEF IInv, Types
<1>1. CASE ProxyStops
  BY <1>0, <1>1, RestInv DEF ProxyStops
<1>2. CASE PassTime
  BY <1>0, <1>2, RestInv DEF PassTime
<1>3. CASE UNCHANGED vars
  BY <1>0, <1>3, RestInv DEF vars
<1>4. QED
  BY <1>1, <1>2, <1>3, StartupInv, ChildrenInv, SupervisorInv, EventsInv, ShutdownInv
     DEF Next, Timers

LEMMA Invariance == Spec => []IInv
  BY InitInv, StepInv, PTL DEF Spec
-----------------------------------------------------------------------------
\* The safety properties.

\* However a session of runGeminiCliProxySession ends, its caller learns it
\* when no process, timer, listener, private HOME, workspace or serving proxy
\* of it is left.
THEOREM NothingRemains == Spec => []NothingLeftBehind
<1>1. IInv => NothingLeftBehind
  BY DEF IInv, Types, Stages, Idle, NothingLeftBehind
<1>2. QED
  BY <1>1, Invariance, PTL

\* A text is adopted only from a review that ended by itself, with exit code 0
\* and with nothing recorded against it.
THEOREM CleanText == Spec => []OnlyCleanText
  BY Invariance, PTL DEF IInv

\* While a probe or a review runs, no name of a control of the candidate leads
\* to anything in the workspace or, by its own spelling, above it.
THEOREM ControlsOutOfReach == Spec => []NoControlsInReach
<1>1. IInv => NoControlsInReach
  <2>1. SUFFICES ASSUME Checked, Alive, NEW e \in input.tree
                 PROVE  ~Opens(input, e) /\ (e.place # "ancestor" => ~e.link)
    BY DEF IInv, NoControlsInReach
  <2>2. IF e.place = "ancestor" THEN ~Opens(input, e) ELSE e.name = "plain" /\ ~e.link
    BY <2>1 DEF Checked, WorkspaceControls
  <2>3. QED
    BY <2>2 DEF Opens
<1>2. QED
  BY <1>1, Invariance, PTL

-----------------------------------------------------------------------------
\* Refinement: a session implements the safety of BoundedCall.

\* What a step may do to what the caller will see: the deadline and a
\* cancellation are not taken back, an answer is final, and a text is adopted
\* only while the session is open.
Onward ==
    /\ late => late'
    /\ aborted \subseteq aborted'
    /\ answer # "none" => answer' = answer
    /\ (answer = "none" /\ answer' = "text") => ~late' /\ aborted' = {}

LEMMA StepOnward == ASSUME IInv, Next PROVE Onward
<1>1. late => late'
  <2>1. ASSUME late, NEW l \in BOOLEAN, Clock(l) PROVE late'
    BY <2>1 DEF Clock
  <2>2. CASE Startup \/ Events
    BY <2>1, <2>2 DEF Startup, Begin, ProxyRefuses, ProxyServes, Events, StartFails,
       CloseVersion, CloseReview
  <2>3. CASE ~(Startup \/ Events)
    <3>1. late' = late \/ late' = TRUE
      BY <2>3 DEF Next, Children, Fork, ProcessEnds, Overflow, StdinFails, Timers,
         FireSpawnTimer, FireSessionTimer, UserAborts, ProxyStops, PassTime, EndShutdown
    <3>2. QED
      BY <3>1
  <2>4. QED
    BY <2>2, <2>3
<1>2. aborted \subseteq aborted'
  BY DEF Next, Startup, Begin, ProxyRefuses, ProxyServes, Children, Fork, ProcessEnds, Overflow,
     StdinFails, Timers, FireSpawnTimer, FireSessionTimer, UserAborts, ProxyStops, PassTime,
     Events, StartFails, CloseVersion, CloseReview, EndShutdown
<1>3. CASE UNCHANGED answer
  BY <1>1, <1>2, <1>3 DEF Onward
<1>4. ASSUME answer' # answer PROVE Onward
  <2>1. Startup \/ Events
    BY <1>4 DEF Next, Children, Fork, ProcessEnds, Overflow, StdinFails, Timers, FireSpawnTimer,
       FireSessionTimer, UserAborts, ProxyStops, PassTime, EndShutdown
  <2>2. answer = "none"
    BY <2>1 DEF Startup, Begin, ProxyRefuses, ProxyServes, Events, StartFails, CloseVersion,
       CloseReview, IInv, Stages, Types, Alive
  <2>3. ASSUME answer' = "text" PROVE ~late' /\ aborted' = {}
    <3>1. CloseReview
      BY <1>4, <2>1, <2>3 DEF Startup, Begin, ProxyRefuses, ProxyServes, Events, StartFails,
         CloseVersion, Leave, Spawn
    <3>2. PICK l \in BOOLEAN : Clock(l) /\ ((Clean /\ LeaveWithText(l)) \/ Leave("error"))
      BY <3>1 DEF CloseReview
    <3>3. LeaveWithText(l)
      BY <2>3, <3>2 DEF Leave
    <3>4. ~Deadline(l) /\ "user" \notin aborted
      BY <2>3, <3>3 DEF LeaveWithText, Leave
    <3>5. late' = l /\ aborted' = aborted
      BY <3>1, <3>2 DEF Clock, CloseReview
    <3>6. QED
      BY <3>4, <3>5 DEF Deadline, IInv, Types
  <2>4. QED
    BY <1>1, <1>2, <2>2, <2>3 DEF Onward
<1>5. QED
  BY <1>3, <1>4

\* The view of the caller: open, and how the session was decided.
LEMMA BoundedInitial == Init => Bounded!BoundedInit
  BY DEF Init, Bounded!BoundedInit

LEMMA BoundedStep ==
    ASSUME IInv, [Next]_vars
    PROVE  [Bounded!BoundedNext]_(Bounded!boundedVars)
<1> USE DEF Bounded!BoundedNext, Bounded!boundedVars
<1>1. CASE UNCHANGED vars
  BY <1>1 DEF vars
<1>2. CASE Next
  <2> DEFINE isOpen == ~late /\ aborted = {}
             told == CASE answer = "none" -> "waiting"
                       [] answer = "text" -> "value"
                       [] OTHER           -> "refused"
  <2>1. Onward
    BY <1>2, StepOnward
  <2>2. isOpen \in BOOLEAN /\ isOpen' \in BOOLEAN
    OBVIOUS
  <2>3. isOpen' => isOpen
    BY <2>1 DEF Onward
  <2>4. CASE UNCHANGED answer
    <3>1. told' = told
      BY <2>4
    <3>2. CASE isOpen' = isOpen
      BY <3>1, <3>2
    <3>3. CASE isOpen' # isOpen
      <4>1. isOpen' = FALSE
        BY <2>2, <2>3, <3>3
      <4>2. Bounded!Close
        BY <3>1, <4>1 DEF Bounded!Close
      <4>3. QED
        BY <4>2
    <3>4. QED
      BY <3>2, <3>3
  <2>5. CASE answer' # answer
    <3>1. answer = "none"
      BY <2>1, <2>5 DEF Onward
    <3>2. told = "waiting"
      BY <3>1
    <3>3. CASE answer' = "text"
      <4>1. isOpen'
        BY <2>1, <3>1, <3>3 DEF Onward
      <4>2. told' = "value"
        BY <3>3
      <4>3. Bounded!Adopt
        BY <2>3, <3>2, <4>1, <4>2 DEF Bounded!Adopt
      <4>4. QED
        BY <4>3
    <3>4. CASE answer' # "text"
      <4>1. told' = "refused"
        BY <2>5, <3>1, <3>4
      <4>2. isOpen' \in {isOpen, FALSE}
        BY <2>2, <2>3
      <4>3. Bounded!Refuse
        BY <3>2, <4>1, <4>2 DEF Bounded!Refuse
      <4>4. QED
        BY <4>3
    <3>5. QED
      BY <3>3, <3>4
  <2>6. QED
    BY <2>4, <2>5
<1>3. QED
  BY <1>1, <1>2

\* A text is adopted once, before the deadline and before any cancellation,
\* and the shutdown of the proxy does not change what was decided.
THEOREM SessionRefined == Spec => Bounded!BoundedSafety
  BY BoundedInitial, BoundedStep, Invariance, PTL DEF Spec, Bounded!BoundedSafety
=============================================================================
