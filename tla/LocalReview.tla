---------------------------- MODULE LocalReview ----------------------------
(***************************************************************************)
(* Local review (src/src/local-review): the UserPromptSubmit hook in its   *)
(* synchronous and asynchronous form, the manual command, the native       *)
(* prepare and validate pair, and the revision bound runner that takes a   *)
(* prepared request. Each is a process of its own; they meet in the        *)
(* repository, whose HEAD moves while they run, in the context file of a   *)
(* session, and in the request file of a native review.                    *)
(***************************************************************************)
EXTENDS ReviewContract

CONSTANTS
    Processes,
    Api,            \* [Processes -> Apis]
    Place,          \* the context file a hook's session maps to, or the
                    \* request file of a native review
    Given,          \* the answers a reviewer may give
    Together        \* the sets of processes that may be started at one time

Apis == {"sync", "async", "manual", "native", "bound"}
Places == {Place[p] : p \in Processes}
Hooks == {p \in Processes : Api[p] \in {"sync", "async"}}
Natives == {p \in Processes : Api[p] = "native"}
Optional(S) == {o \in SUBSET S : \A x, y \in o : x = y}

ASSUME LocalReviewAssumption ==
    /\ Api \in [Processes -> Apis]
    /\ DOMAIN Place = Processes
    /\ Given \subseteq Answers
    /\ Together \subseteq SUBSET Processes

Contexts == [revision: Revisions, decision: Given, whole: BOOLEAN]

Stages ==
    {"idle", "input", "record", "inputs", "persist", "prompt", "preflight", "execute", "validate",
     "temporary", "complete", "rename", "publish", "finish", "done", "failed", "crashed"}

VARIABLES
    head,       \* the commit HEAD names
    context,    \* what each context file holds
    temporary,  \* what the temporary file of each process holds
    file,       \* the request file of a native review
    process,    \* stage, prior context, request, request judged and answer
    published,  \* the answers written to standard output
    terminal    \* how the measurement of each process ended

vars == <<head, context, temporary, file, process, published, terminal>>

Init ==
    /\ head = 1
    /\ context = [f \in Places |-> {}]
    /\ temporary = [p \in Processes |-> {}]
    /\ file = [f \in Places |-> {}]
    /\ \E started \in Together :
         process = [p \in Processes |->
           [at |-> IF p \in started THEN "input" ELSE "idle",
            prior |-> {}, request |-> {}, judged |-> {}, answer |-> {}]]
    /\ published = [p \in Processes |-> {}]
    /\ terminal = [p \in Processes |-> "none"]

-----------------------------------------------------------------------------
At(p, stage) == process[p].at = stage
Ended(p) == process[p].at \in {"done", "failed", "crashed"}
RequestOf(p) == CHOOSE r \in process[p].request : TRUE
JudgedBy(p) == CHOOSE r \in process[p].judged : TRUE
AnswerOf(p) == CHOOSE a \in process[p].answer : TRUE

GoTo(p, stage) == process' = [process EXCEPT ![p].at = stage]

\* Only the first terminal of an attempt is recorded; the runner of a
\* prepared request measures nothing.
Finish(p, state) ==
    terminal' = [terminal EXCEPT ![p] =
      IF @ = "none" /\ Api[p] # "bound" THEN state ELSE @]

Fail(p) == GoTo(p, "failed") /\ Finish(p, "error")

\* hookInput accepts or refuses the event; a hook then reads the context of
\* its session, where a file that cannot be parsed counts as none.
ReadInput(p) ==
    /\ At(p, "input")
    /\ \/ process' = [process EXCEPT
            ![p].at = "record",
            ![p].prior = {c.decision : c \in {x \in context[Place[p]] : p \in Hooks /\ x.whole}}]
          /\ terminal' = terminal
       \/ Fail(p)
    /\ UNCHANGED <<head, context, temporary, file, published>>

\* git rev-parse HEAD: the revision every later read names.
RecordRevision(p) ==
    /\ At(p, "record")
    /\ \/ process' = [process EXCEPT ![p].at = "inputs", ![p].request = {RequestAt(head)}]
          /\ Committed[head].version \in {1, 2}
          /\ terminal' = terminal
       \/ Fail(p)
    /\ UNCHANGED <<head, context, temporary, file, published>>

PriorBytes(p) ==
    IF process[p].prior = {} THEN 0 ELSE (CHOOSE a \in process[p].prior : TRUE).bytes

AfterInputs(p) ==
    CASE Api[p] = "native" -> "persist" [] Api[p] = "bound" -> "preflight" [] OTHER -> "execute"

\* The committed inputs, each from the recorded revision. A native review
\* refuses settings of another provider.
PrepareRequest(p) ==
    LET config == Committed[RequestOf(p).revision]
    IN  /\ At(p, "inputs")
        /\ IF /\ Prepares(Api[p], config, PriorBytes(p))
              /\ Api[p] = "native" => config.provider \in {"absent", "codex"}
           THEN GoTo(p, AfterInputs(p)) /\ terminal' = terminal
           ELSE Fail(p)
        /\ UNCHANGED <<head, context, temporary, file, published>>

-----------------------------------------------------------------------------
\* Native review: the request is created exclusively, its prompt printed for
\* the host, and the host's answer validated against the file.
\* Mutant: the request file is overwritten.
PersistRequestAnyway(p) ==
    /\ At(p, "persist")
    /\ file' = [file EXCEPT ![Place[p]] = process[p].request]
    /\ GoTo(p, "prompt")
    /\ UNCHANGED <<head, context, temporary, published, terminal>>

PersistRequest(p) ==
    /\ At(p, "persist")
    /\ IF file[Place[p]] = {}
       THEN /\ file' = [file EXCEPT ![Place[p]] = process[p].request]
            /\ GoTo(p, "prompt")
            /\ terminal' = terminal
       ELSE Fail(p) /\ file' = file
    /\ UNCHANGED <<head, context, temporary, published>>

PrintPrompt(p) ==
    /\ At(p, "prompt")
    /\ (GoTo(p, "execute") /\ terminal' = terminal) \/ Fail(p)
    /\ UNCHANGED <<head, context, temporary, file, published>>

\* The runner of a prepared request compares it with what HEAD prepares now.
Preflight(p) ==
    /\ At(p, "preflight")
    /\ IF PreflightAccepted(RequestOf(p), head, "gemini")
       THEN GoTo(p, "execute") /\ terminal' = terminal
       ELSE Fail(p)
    /\ UNCHANGED <<head, context, temporary, file, published>>

\* executeLocalReviewer, its synchronous form, or the host's own reviewer:
\* an answer, or an error or the deadline. The synchronous form refuses
\* every provider but Codex before it starts a reviewer.
Execute(p) ==
    /\ At(p, "execute")
    /\ \/ /\ Api[p] = "sync" => Provider(Committed[RequestOf(p).revision]) = "codex"
          /\ \E answer \in Given :
               process' = [process EXCEPT
                 ![p].at = "validate", ![p].answer = {answer},
                 ![p].judged = IF Api[p] = "native" THEN file[Place[p]] ELSE process[p].request]
          /\ terminal' = terminal
       \/ Fail(p)
    /\ UNCHANGED <<head, context, temporary, file, published>>

\* Mutant: the answer is judged by what HEAD holds now.
ValidateAtHead(p) ==
    /\ At(p, "validate")
    /\ IF ResponseAccepted(RequestAt(head), AnswerOf(p))
       THEN /\ GoTo(p, IF p \in Hooks THEN "temporary" ELSE "publish")
            /\ terminal' = terminal
       ELSE Fail(p)
    /\ UNCHANGED <<head, context, temporary, file, published>>

Validate(p) ==
    /\ At(p, "validate")
    /\ IF ResponseAccepted(JudgedBy(p), AnswerOf(p))
       THEN /\ GoTo(p, IF p \in Hooks THEN "temporary" ELSE "publish")
            /\ terminal' = terminal
       ELSE Fail(p)
    /\ UNCHANGED <<head, context, temporary, file, published>>

-----------------------------------------------------------------------------
\* store: the context is written next to its file and renamed over it.
ContextBy(p, whole) ==
    [revision |-> RequestOf(p).revision, decision |-> AnswerOf(p), whole |-> whole]

\* Mutant: the context file itself is opened and truncated.
OpenContext(p) ==
    /\ At(p, "temporary")
    /\ temporary' = [temporary EXCEPT ![p] = {ContextBy(p, FALSE)}]
    /\ context' = [context EXCEPT ![Place[p]] = {ContextBy(p, FALSE)}]
    /\ GoTo(p, "complete")
    /\ UNCHANGED <<head, file, published, terminal>>

OpenTemporary(p) ==
    /\ At(p, "temporary")
    /\ \/ /\ temporary' = [temporary EXCEPT ![p] = {ContextBy(p, FALSE)}]
          /\ GoTo(p, "complete")
          /\ terminal' = terminal
       \/ Fail(p) /\ temporary' = temporary
    /\ UNCHANGED <<head, context, file, published>>

\* A write that fails leaves the temporary file as it is.
CompleteTemporary(p) ==
    /\ At(p, "complete")
    /\ \/ /\ temporary' = [temporary EXCEPT ![p] = {ContextBy(p, TRUE)}]
          /\ GoTo(p, "rename")
          /\ terminal' = terminal
       \/ Fail(p) /\ temporary' = temporary
    /\ UNCHANGED <<head, context, file, published>>

\* The last rename wins. A decision other than PASS is stored as well, and
\* then fails the hook; its attempt is already finished as unknown.
RenameContext(p) ==
    /\ At(p, "rename")
    /\ \/ /\ context' = [context EXCEPT ![Place[p]] = temporary[p]]
          /\ temporary' = [temporary EXCEPT ![p] = {}]
          /\ IF AnswerOf(p).decision = "PASS"
             THEN GoTo(p, "publish") /\ terminal' = terminal
             ELSE GoTo(p, "failed") /\ Finish(p, "unknown")
       \/ Fail(p) /\ UNCHANGED <<context, temporary>>
    /\ UNCHANGED <<head, file, published>>

\* The write callback of standard output.
PublishAnswer(p) ==
    /\ At(p, "publish")
    /\ \/ /\ published' = [published EXCEPT ![p] = process[p].answer]
          /\ GoTo(p, "finish") /\ terminal' = terminal
       \/ published' = published /\ Fail(p)
    /\ UNCHANGED <<head, context, temporary, file>>

FinishAttempt(p) ==
    /\ At(p, "finish")
    /\ GoTo(p, "done") /\ Finish(p, "returned")
    /\ UNCHANGED <<head, context, temporary, file, published>>

-----------------------------------------------------------------------------
\* A process may die at any of its steps.
Crash(p) ==
    /\ ~At(p, "idle") /\ ~Ended(p)
    /\ GoTo(p, "crashed")
    /\ UNCHANGED <<head, context, temporary, file, published, terminal>>

\* The developer commits.
Commit ==
    /\ head < LastRevision
    /\ head' = head + 1
    /\ UNCHANGED <<context, temporary, file, process, published, terminal>>

\* The request file is edited between prepare and validate.
EditRequest(f) ==
    /\ file[f] # {}
    /\ file' = [file EXCEPT ![f] = {[r EXCEPT !.intact = FALSE] : r \in file[f]}]
    /\ UNCHANGED <<head, context, temporary, process, published, terminal>>

Step(p) ==
    \/ ReadInput(p) \/ RecordRevision(p) \/ PrepareRequest(p)
    \/ PersistRequest(p) \/ PrintPrompt(p) \/ Preflight(p)
    \/ Execute(p) \/ Validate(p)
    \/ OpenTemporary(p) \/ CompleteTemporary(p) \/ RenameContext(p)
    \/ PublishAnswer(p) \/ FinishAttempt(p)

Next ==
    \/ \E p \in Processes : Step(p) \/ Crash(p)
    \/ Commit
    \/ \E f \in Places : EditRequest(f)

Spec == Init /\ [][Next]_vars

-----------------------------------------------------------------------------
\* What the consumer committed at r, stated over its own files: the answer
\* names authorities of r only, all that r requires, and a PASS fills the
\* arrays r asks of it and breaks none of its rules.
Meets(r, answer) ==
    LET config == Committed[r]
        named == ToSet(answer.reported)
    IN  /\ answer.shaped
        /\ named \subseteq config.authority
        /\ config.version = 1 => config.required \subseteq named
        /\ config.version = 2 => named = config.authority
        /\ answer.decision = "PASS" /\ config.passArrays => answer.scope
        /\ config.rules => answer.obeys

\* Whatever HEAD does while a review runs, an answer that reaches standard
\* output meets the configuration committed at the revision its request
\* recorded, a hook publishes a PASS only (local-gate.mts:142-147), and the
\* attempt is recorded as returned only when the answer was written
\* (public-output.mts:10).
PublishedMeetsItsRevision ==
    \A p \in Processes :
      /\ \A answer \in published[p] :
           /\ Meets(RequestOf(p).revision, answer)
           /\ p \in Hooks => answer.decision = "PASS"
      /\ terminal[p] = "returned" => published[p] # {}

\* A context file holds one whole decision that its own revision accepts,
\* however hooks of one session overlap and wherever one of them dies
\* (local-gate.mts:26).
ContextIsWhole ==
    \A f \in Places : \A c \in context[f] : c.whole /\ Meets(c.revision, c.decision)

\* The request a native answer was validated against is the one whose prompt
\* the host was given, and nobody edited it (native-review.mts:57-88).
NativeJudgesWhatWasAsked ==
    \A p \in Natives : published[p] # {} => process[p].judged = process[p].request
=============================================================================
