-------------------------- MODULE LocalReviewProofs --------------------------
(***************************************************************************)
(* TLAPS proofs about LocalReview, for any processes of any interface, any *)
(* places, answers and commits: what reaches standard output or a context  *)
(* file meets the configuration of its own revision, and a native answer   *)
(* is judged by the request the host was asked.                            *)
(***************************************************************************)
EXTENDS LocalReview, FiniteSetTheorems, TLAPS

\* A request file after an edit.
Edited(requests) == {[r EXCEPT !.intact = FALSE] : r \in requests}

-----------------------------------------------------------------------------
\* What acceptance means.

\* As many distinct members as the set has are all of the set.
LEMMA CompleteReport ==
    ASSUME NEW T, NEW s \in Seq(T), NEW A, IsFiniteSet(A),
           Len(s) = Cardinality(A), ToSet(s) \subseteq A, IsInjective(s)
    PROVE  ToSet(s) = A
<1> DEFINE D == 1 .. Len(s)
<1>1. Len(s) \in Nat /\ DOMAIN s = D
  OBVIOUS
<1>2. s \in Bijection(D, ToSet(s))
  <2>1. s \in [D -> ToSet(s)]
    BY <1>1 DEF ToSet
  <2>2. \A t \in ToSet(s) : \E d \in D : s[d] = t
    BY <1>1 DEF ToSet
  <2>3. QED
    BY <2>1, <2>2 DEF Bijection, Injection, Surjection
<1>3. IsFiniteSet(D) /\ Cardinality(D) = Len(s)
  BY <1>1, FS_Interval
<1>4. Cardinality(ToSet(s)) = Cardinality(D)
  BY <1>2, <1>3, FS_Bijection DEF ExistsBijection
<1>5. ToSet(s) \in SUBSET A
  OBVIOUS
<1>6. QED
  BY <1>3, <1>4, <1>5, FS_Subset

LEMMA AcceptedMeets ==
    ASSUME NEW rev \in Revisions, NEW a \in Given, ResponseAccepted(RequestAt(rev), a)
    PROVE  Meets(rev, a)
<1> DEFINE config == Committed[rev]
<1>1. config \in Contents
  BY ContractAssumption
<1>2. a.reported \in Seq(Ids)
  BY LocalReviewAssumption DEF Answers
<1>3. /\ RequestAt(rev).revision = rev /\ RequestAt(rev).version = config.version
      /\ RequestAt(rev).authority = config.authority
  BY DEF RequestAt
<1>4. /\ ConfigLoads(config) /\ a.shaped /\ PassScope(config, a)
      /\ config.rules => a.obeys
      /\ IF config.version = 2 THEN ReportsV2(RequestAt(rev), a) ELSE ReportsV1(config, a)
  BY <1>3 DEF ResponseAccepted, DecisionAccepted
<1>5. ToSet(a.reported) \subseteq config.authority
  BY <1>3, <1>4 DEF ReportsV1, ReportsV2
<1>6. ASSUME config.version = 2 PROVE ToSet(a.reported) = config.authority
  <2>1. config.authority \in SUBSET Ids
    BY <1>1 DEF Contents
  <2>2. IsFiniteSet(config.authority)
    BY <2>1, ContractAssumption, FS_Subset
  <2>3. Len(a.reported) = Cardinality(config.authority) /\ IsInjective(a.reported)
    BY <1>3, <1>4, <1>6 DEF ReportsV2
  <2>4. QED
    BY <1>2, <1>5, <2>2, <2>3, CompleteReport
<1>7. ASSUME config.version = 1 PROVE config.required \subseteq ToSet(a.reported)
  BY <1>4, <1>7 DEF ReportsV1
<1>8. QED
  BY <1>4, <1>5, <1>6, <1>7 DEF Meets, PassScope

\* A request that was edited is not accepted.
LEMMA EditedRefused ==
    ASSUME NEW rev, NEW r \in Edited({RequestAt(rev)}), NEW a
    PROVE  ~ResponseAccepted(r, a)
<1>1. r.intact = FALSE
  BY DEF Edited, RequestAt
<1>2. QED
  BY <1>1 DEF ResponseAccepted

-----------------------------------------------------------------------------
\* The inductive invariant, process by process.

Shape ==
    /\ DOMAIN context = Places /\ DOMAIN file = Places
    /\ DOMAIN temporary = Processes /\ DOMAIN published = Processes
    /\ DOMAIN terminal = Processes /\ DOMAIN process = Processes
    /\ \A p \in Processes : DOMAIN process[p] = {"at", "prior", "request", "judged", "answer"}
    /\ head \in Revisions

Accepted == {"temporary", "complete", "rename", "publish", "finish", "done"}
Recorded ==
    {"inputs", "persist", "prompt", "preflight", "execute", "validate"} \cup Accepted

\* The request of the process, its answer, and that the one met the other.
Judged(p) ==
    /\ process[p].judged = process[p].request
    /\ \E rev \in Revisions, a \in Given :
          /\ process[p].request = {RequestAt(rev)} /\ process[p].answer = {a}
          /\ Meets(rev, a)

Passes(p) == \A a \in process[p].answer : a.decision = "PASS"

InStage(p) ==
    /\ process[p].at \in Recorded => \E rev \in Revisions : process[p].request = {RequestAt(rev)}
    /\ At(p, "preflight") => Api[p] = "bound"
    /\ At(p, "validate") =>
          /\ \E a \in Given : process[p].answer = {a}
          /\ process[p].judged \in {process[p].request, Edited(process[p].request)}
    /\ process[p].at \in Accepted => Judged(p)
    /\ At(p, "rename") =>
          \E rev \in Revisions, a \in Given :
             /\ process[p].request = {RequestAt(rev)} /\ process[p].answer = {a}
             /\ temporary[p] = {[revision |-> rev, decision |-> a, whole |-> TRUE]}
    /\ At(p, "publish") /\ p \in Hooks => Passes(p)
    /\ At(p, "finish") => published[p] # {}

\* A native review that asked the host finds its request file, edited or not.
FileKept(p) ==
    p \in Natives /\ process[p].at \in {"prompt", "execute"} =>
        file[Place[p]] \in {process[p].request, Edited(process[p].request)}

Answered(p) ==
    /\ published[p] # {} =>
          /\ process[p].at \in {"finish", "done", "failed", "crashed"}
          /\ published[p] = process[p].answer
          /\ Judged(p)
          /\ p \in Hooks => Passes(p)
    /\ terminal[p] = "returned" => published[p] # {}

Own(p) == InStage(p) /\ FileKept(p) /\ Answered(p)

IInv == Shape /\ ContextIsWhole /\ \A p \in Processes : Own(p)

-----------------------------------------------------------------------------
LEMMA InitInv == Init => IInv
<1> SUFFICES ASSUME Init PROVE IInv
  OBVIOUS
<1>1. PICK started \in Together :
         process = [p \in Processes |->
           [at |-> IF p \in started THEN "input" ELSE "idle",
            prior |-> {}, request |-> {}, judged |-> {}, answer |-> {}]]
  BY DEF Init
<1>2. Shape
  BY <1>1, ContractAssumption DEF Init, Shape, Revisions
<1>3. ContextIsWhole
  BY DEF Init, ContextIsWhole
<1>4. ASSUME NEW p \in Processes PROVE Own(p)
  <2>1. process[p].at \in {"input", "idle"} /\ published[p] = {} /\ terminal[p] = "none"
    BY <1>1 DEF Init
  <2>2. QED
    BY <2>1 DEF Own, InStage, FileKept, Answered, Recorded, Accepted, At
<1>5. QED
  BY <1>2, <1>3, <1>4 DEF IInv

\* A process that does not move keeps what is said of it, also when a request
\* file is created where there was none.
LEMMA OtherKept ==
    ASSUME IInv, NEW q \in Processes,
           UNCHANGED <<process[q], temporary[q], published[q], terminal[q]>>,
           file'[Place[q]] = file[Place[q]] \/ file[Place[q]] = {}
    PROVE  Own(q)'
<1>1. Own(q)
  BY DEF IInv
<1>2. (Judged(q)' <=> Judged(q)) /\ (Passes(q)' <=> Passes(q))
  BY DEF Judged, Passes, Meets, RequestAt
<1>3. InStage(q)' /\ Answered(q)'
  BY <1>1, <1>2 DEF Own, InStage, Answered, At, RequestAt, Edited
<1>4. FileKept(q)'
  <2>1. SUFFICES ASSUME q \in Natives, process[q].at \in {"prompt", "execute"}
                 PROVE  file'[Place[q]] \in {process[q].request, Edited(process[q].request)}
    BY DEF FileKept, Edited
  <2>2. file[Place[q]] \in {process[q].request, Edited(process[q].request)}
    BY <1>1, <2>1 DEF Own, FileKept
  <2>3. process[q].request # {}
    BY <1>1, <2>1 DEF Own, InStage, Recorded
  <2>4. file[Place[q]] # {}
    BY <2>2, <2>3 DEF Edited
  <2>5. QED
    BY <2>2, <2>4
<1>5. QED
  BY <1>3, <1>4 DEF Own

\* A step of one process: what remains to be shown is about that process.
LEMMA OneMoves ==
    ASSUME IInv, NEW p \in Processes, Shape', ContextIsWhole',
           \A q \in Processes \ {p} :
              UNCHANGED <<process[q], temporary[q], published[q], terminal[q]>>,
           \A q \in Processes \ {p} : file'[Place[q]] = file[Place[q]] \/ file[Place[q]] = {},
           Own(p)'
    PROVE  IInv'
<1>1. ASSUME NEW q \in Processes PROVE Own(q)'
  <2>1. CASE q = p
    BY <2>1
  <2>2. CASE q # p
    BY <2>2, OtherKept
  <2>3. QED
    BY <2>1, <2>2
<1>2. QED
  BY <1>1 DEF IInv
-----------------------------------------------------------------------------
\* The steps.

LEMMA Moved ==
    ASSUME Shape, NEW p \in Processes, NEW s, GoTo(p, s)
    PROVE  /\ process'[p].at = s
           /\ process'[p].request = process[p].request
           /\ process'[p].judged = process[p].judged
           /\ process'[p].answer = process[p].answer
           /\ DOMAIN process' = Processes
           /\ \A q \in Processes \ {p} : process'[q] = process[q]
           /\ \A q \in Processes : DOMAIN process'[q] = DOMAIN process[q]
  BY DEF Shape, GoTo

LEMMA Finished ==
    ASSUME Shape, NEW p \in Processes, NEW s, Finish(p, s)
    PROVE  /\ DOMAIN terminal' = Processes
           /\ \A q \in Processes \ {p} : terminal'[q] = terminal[q]
           /\ terminal'[p] \in {terminal[p], s}
  BY DEF Shape, Finish

\* A process that fails or dies takes nothing back.
LEMMA EndInv ==
    ASSUME IInv, NEW p \in Processes, NEW s \in {"failed", "crashed"}, GoTo(p, s),
           \/ UNCHANGED terminal
           \/ \E t \in {"error", "unknown"} : Finish(p, t),
           UNCHANGED <<head, file, published>>,
           ContextIsWhole', DOMAIN context' = Places, DOMAIN temporary' = Processes,
           \A q \in Processes \ {p} : temporary'[q] = temporary[q]
    PROVE  IInv'
<1>1. Shape /\ Own(p)
  BY DEF IInv
<1>2. /\ DOMAIN terminal' = Processes
      /\ \A q \in Processes \ {p} : terminal'[q] = terminal[q]
      /\ terminal'[p] \in {terminal[p], "error", "unknown"}
  BY <1>1, Finished DEF Shape
<1>3. Shape'
  BY <1>1, <1>2, Moved DEF Shape, Places
<1>4. InStage(p)' /\ FileKept(p)'
  BY <1>1, Moved DEF InStage, FileKept, At, Recorded, Accepted
<1>5. Answered(p)'
  <2>1. Judged(p) => Judged(p)'
    BY <1>1, Moved DEF Judged, Meets, RequestAt
  <2>2. Passes(p) => Passes(p)'
    BY <1>1, Moved DEF Passes
  <2>3. process'[p].at = s /\ process'[p].answer = process[p].answer
    BY <1>1, Moved
  <2>4. published[p] # {} =>
           published[p] = process[p].answer /\ Judged(p) /\ (p \in Hooks => Passes(p))
    BY <1>1 DEF Own, Answered
  <2>5. terminal'[p] = "returned" => published[p] # {}
    BY <1>1, <1>2 DEF Own, Answered
  <2>6. QED
    BY <2>1, <2>2, <2>3, <2>4, <2>5 DEF Answered
<1>6. \A q \in Processes \ {p} :
         UNCHANGED <<process[q], temporary[q], published[q], terminal[q]>>
  BY <1>1, <1>2, Moved
<1>7. QED
  BY <1>3, <1>4, <1>5, <1>6, OneMoves DEF Own

\* Mostly a failure changes nothing but the process and its measurement.
LEMMA FailInv ==
    ASSUME IInv, NEW p \in Processes, Fail(p),
           UNCHANGED <<head, context, temporary, file, published>>
    PROVE  IInv'
<1>1. ContextIsWhole' /\ DOMAIN context' = Places /\ DOMAIN temporary' = Processes
  BY DEF IInv, ContextIsWhole, Shape, Meets
<1>2. QED
  BY <1>1, EndInv DEF Fail

\* A step to another stage that leaves the repository alone.
LEMMA AdvanceInv ==
    ASSUME IInv, NEW p \in Processes, NEW s, GoTo(p, s),
           UNCHANGED <<head, context, temporary, file, published, terminal>>,
           process[p].at \notin {"finish", "done", "failed", "crashed"},
           InStage(p)', FileKept(p)'
    PROVE  IInv'
<1>1. Shape /\ Own(p)
  BY DEF IInv
<1>2. Shape' /\ ContextIsWhole'
  BY <1>1, Moved DEF IInv, Shape, ContextIsWhole, Meets, Places
<1>3. published[p] = {} /\ terminal[p] # "returned"
  BY <1>1 DEF Own, Answered
<1>4. Answered(p)'
  BY <1>3 DEF Answered
<1>5. \A q \in Processes \ {p} :
         UNCHANGED <<process[q], temporary[q], published[q], terminal[q]>>
  BY <1>1, Moved
<1>6. QED
  BY <1>2, <1>4, <1>5, OneMoves DEF Own

\* The revision a process records is the one its request is prepared from.
LEMMA BeginInv ==
    ASSUME IInv, NEW p \in Processes, ReadInput(p) \/ RecordRevision(p)
    PROVE  IInv'
<1>1. CASE Fail(p)
  BY <1>1, FailInv DEF ReadInput, RecordRevision
<1>2. CASE ~Fail(p)
  <2>1. /\ UNCHANGED <<head, context, temporary, file, published, terminal>>
        /\ At(p, "input") \/ At(p, "record")
    BY <1>2 DEF ReadInput, RecordRevision
  <2>2. Shape /\ Own(p)
    BY DEF IInv
  <2>3. /\ \A q \in Processes \ {p} : process'[q] = process[q]
        /\ DOMAIN process' = Processes
        /\ \A q \in Processes : DOMAIN process'[q] = DOMAIN process[q]
    BY <1>2, <2>2 DEF ReadInput, RecordRevision, Shape
  <2>4. /\ process'[p].at \in {"record", "inputs"}
        /\ process'[p].at = "inputs" => process'[p].request = {RequestAt(head)}
    BY <1>2, <2>2 DEF ReadInput, RecordRevision, Shape
  <2>5. Shape' /\ ContextIsWhole'
    BY <2>1, <2>2, <2>3 DEF IInv, Shape, ContextIsWhole, Meets, Places
  <2>6. head \in Revisions /\ RequestAt(head)' = RequestAt(head)
    BY <2>1, <2>2 DEF Shape, RequestAt
  <2>7. InStage(p)' /\ FileKept(p)'
    <3>1. process'[p].at = "inputs" =>
             \E rev \in Revisions : process'[p].request = {RequestAt(rev)}
      BY <2>4, <2>6
    <3>2. QED
      BY <2>4, <3>1 DEF InStage, FileKept, At, Recorded, Accepted, RequestAt
  <2>8. Answered(p)'
    BY <2>1, <2>2 DEF Own, Answered, At
  <2>9. QED
    BY <2>1, <2>3, <2>5, <2>7, <2>8, OneMoves DEF Own
<1>3. QED
  BY <1>1, <1>2

LEMMA PrepareInv ==
    ASSUME IInv, NEW p \in Processes, PrepareRequest(p) \/ Preflight(p)
    PROVE  IInv'
<1>1. CASE Fail(p)
  BY <1>1, FailInv DEF PrepareRequest, Preflight
<1>2. ASSUME ~Fail(p) PROVE IInv'
  <2>1. Shape /\ Own(p)
    BY DEF IInv
  <2>2. UNCHANGED <<head, context, temporary, file, published, terminal>>
    BY <1>2 DEF PrepareRequest, Preflight
  <2>3. process[p].at \in {"inputs", "preflight"}
    BY DEF PrepareRequest, Preflight, At
  <2>4. PICK s \in {"persist", "preflight", "execute"} :
           /\ GoTo(p, s)
           /\ p \in Natives => s = "persist"
           /\ s = "preflight" => Api[p] = "bound"
    <3>1. CASE PrepareRequest(p)
      <4>1. GoTo(p, AfterInputs(p))
        BY <1>2, <3>1 DEF PrepareRequest
      <4>2. QED
        BY <4>1 DEF AfterInputs, Natives
    <3>2. CASE Preflight(p)
      <4>1. GoTo(p, "execute")
        BY <1>2, <3>2 DEF Preflight
      <4>2. Api[p] = "bound"
        BY <2>1, <3>2 DEF Preflight, Own, InStage
      <4>3. QED
        BY <4>1, <4>2 DEF Natives
    <3>3. QED
      BY <3>1, <3>2
  <2>5. /\ process'[p].at = s /\ process'[p].request = process[p].request
    BY <2>1, <2>4, Moved
  <2>6. PICK rev \in Revisions : process[p].request = {RequestAt(rev)}
    BY <2>1, <2>3 DEF Own, InStage, Recorded
  <2>7. InStage(p)' /\ FileKept(p)'
    BY <2>4, <2>5, <2>6 DEF InStage, FileKept, At, Accepted, RequestAt
  <2>8. QED
    BY <2>2, <2>3, <2>4, <2>7, AdvanceInv
<1>3. QED
  BY <1>1, <1>2

\* A native request is created where there is none, so it is the one the host
\* is asked by.
LEMMA PersistInv == ASSUME IInv, NEW p \in Processes, PersistRequest(p) PROVE IInv'
<1>1. CASE file[Place[p]] # {}
  BY <1>1, FailInv DEF PersistRequest
<1>2. CASE file[Place[p]] = {}
  <2>1. Shape /\ Own(p) /\ At(p, "persist")
    BY DEF IInv, PersistRequest
  <2>2. /\ file' = [file EXCEPT ![Place[p]] = process[p].request] /\ GoTo(p, "prompt")
        /\ UNCHANGED <<head, context, temporary, published, terminal>>
    BY <1>2 DEF PersistRequest
  <2>3. /\ process'[p].at = "prompt" /\ process'[p].request = process[p].request
    BY <2>1, <2>2, Moved
  <2>4. Place[p] \in DOMAIN file
    BY <2>1 DEF Shape, Places
  <2>5. Shape' /\ ContextIsWhole'
    BY <2>1, <2>2, Moved DEF IInv, Shape, ContextIsWhole, Meets, Places
  <2>6. PICK rev \in Revisions : process[p].request = {RequestAt(rev)}
    BY <2>1 DEF Own, InStage, At, Recorded
  <2>7. InStage(p)' /\ FileKept(p)'
    BY <2>2, <2>3, <2>4, <2>6 DEF InStage, FileKept, At, Accepted, RequestAt
  <2>8. Answered(p)'
    BY <2>1, <2>2 DEF Own, Answered, At
  <2>9. \A q \in Processes \ {p} : file'[Place[q]] = file[Place[q]] \/ file[Place[q]] = {}
    BY <1>2, <2>2
  <2>10. \A q \in Processes \ {p} :
            UNCHANGED <<process[q], temporary[q], published[q], terminal[q]>>
    BY <2>1, <2>2, Moved
  <2>11. QED
    BY <2>5, <2>7, <2>8, <2>9, <2>10, OneMoves DEF Own
<1>3. QED
  BY <1>1, <1>2

LEMMA PrintInv == ASSUME IInv, NEW p \in Processes, PrintPrompt(p) PROVE IInv'
<1>1. CASE Fail(p)
  BY <1>1, FailInv DEF PrintPrompt
<1>2. ASSUME ~Fail(p) PROVE IInv'
  <2>1. Shape /\ Own(p) /\ At(p, "prompt")
    BY DEF IInv, PrintPrompt
  <2>2. GoTo(p, "execute") /\ UNCHANGED <<head, context, temporary, file, published, terminal>>
    BY <1>2 DEF PrintPrompt
  <2>3. process'[p].at = "execute" /\ process'[p].request = process[p].request
    BY <2>1, <2>2, Moved
  <2>4. PICK rev \in Revisions : process[p].request = {RequestAt(rev)}
    BY <2>1 DEF Own, InStage, At, Recorded
  <2>5. InStage(p)' /\ FileKept(p)'
    BY <2>1, <2>2, <2>3, <2>4 DEF Own, InStage, FileKept, At, Accepted, RequestAt, Edited
  <2>6. QED
    BY <2>1, <2>2, <2>5, AdvanceInv DEF At
<1>3. QED
  BY <1>1, <1>2

\* What is judged is the request of the process, or what its file holds now.
LEMMA ExecuteInv == ASSUME IInv, NEW p \in Processes, Execute(p) PROVE IInv'
<1>1. CASE Fail(p)
  BY <1>1, FailInv DEF Execute
<1>2. ASSUME ~Fail(p) PROVE IInv'
  <2>1. Shape /\ Own(p) /\ At(p, "execute")
    BY DEF IInv, Execute
  <2>2. UNCHANGED <<head, context, temporary, file, published, terminal>>
    BY <1>2 DEF Execute
  <2>3. PICK answer \in Given :
           process' = [process EXCEPT
             ![p].at = "validate", ![p].answer = {answer},
             ![p].judged = IF Api[p] = "native" THEN file[Place[p]] ELSE process[p].request]
    BY <1>2 DEF Execute
  <2> DEFINE judged == IF Api[p] = "native" THEN file[Place[p]] ELSE process[p].request
  <2>4. /\ process'[p].at = "validate" /\ process'[p].answer = {answer}
        /\ process'[p].request = process[p].request
        /\ process'[p].judged = judged
        /\ DOMAIN process' = Processes
        /\ \A q \in Processes \ {p} : process'[q] = process[q]
        /\ \A q \in Processes : DOMAIN process'[q] = DOMAIN process[q]
    BY <2>1, <2>3 DEF Shape
  <2>5. judged \in {process[p].request, Edited(process[p].request)}
    BY <2>1 DEF Own, FileKept, At, Natives
  <2>6. PICK rev \in Revisions : process[p].request = {RequestAt(rev)}
    BY <2>1 DEF Own, InStage, At, Recorded
  <2> HIDE DEF judged
  <2>7. InStage(p)' /\ FileKept(p)'
    BY <2>4, <2>5, <2>6 DEF InStage, FileKept, At, Accepted, RequestAt, Edited
  <2>8. Answered(p)'
    BY <2>1, <2>2 DEF Own, Answered, At
  <2>9. Shape' /\ ContextIsWhole'
    BY <2>1, <2>2, <2>4 DEF IInv, Shape, ContextIsWhole, Meets, Places
  <2>10. QED
    BY <2>2, <2>4, <2>7, <2>8, <2>9, OneMoves DEF Own
<1>3. QED
  BY <1>1, <1>2

\* What is accepted was judged by the request itself, and meets its revision.
LEMMA ValidateInv == ASSUME IInv, NEW p \in Processes, Validate(p) PROVE IInv'
<1>1. CASE Fail(p)
  BY <1>1, FailInv DEF Validate
<1>2. ASSUME ~Fail(p) PROVE IInv'
  <2>1. Shape /\ Own(p) /\ At(p, "validate")
    BY DEF IInv, Validate
  <2>2. /\ UNCHANGED <<head, context, temporary, file, published, terminal>>
        /\ ResponseAccepted(JudgedBy(p), AnswerOf(p))
    BY <1>2 DEF Validate
  <2>3. PICK s \in {"temporary", "publish"} : GoTo(p, s) /\ (s = "publish" => p \notin Hooks)
    BY <1>2 DEF Validate
  <2>4. PICK rev \in Revisions : process[p].request = {RequestAt(rev)}
    BY <2>1 DEF Own, InStage, At, Recorded
  <2>5. PICK a \in Given : process[p].answer = {a}
    BY <2>1 DEF Own, InStage
  <2>6. AnswerOf(p) = a
    BY <2>5 DEF AnswerOf
  <2>7. process[p].judged = process[p].request
    <3>1. process[p].judged \in {process[p].request, Edited(process[p].request)}
      BY <2>1 DEF Own, InStage
    <3>2. ASSUME process[p].judged = Edited(process[p].request) PROVE FALSE
      <4>1. JudgedBy(p) \in Edited({RequestAt(rev)})
        BY <2>4, <3>2 DEF JudgedBy, Edited
      <4>2. QED
        BY <2>2, <4>1, EditedRefused
    <3>3. QED
      BY <3>1, <3>2
  <2>8. JudgedBy(p) = RequestAt(rev)
    BY <2>4, <2>7 DEF JudgedBy
  <2>9. Meets(rev, a)
    BY <2>2, <2>6, <2>8, AcceptedMeets
  <2>10. /\ process'[p].at = s /\ process'[p].request = {RequestAt(rev)}
         /\ process'[p].answer = {a} /\ process'[p].judged = {RequestAt(rev)}
    BY <2>1, <2>3, <2>4, <2>5, <2>7, Moved
  <2>11. Judged(p)'
    BY <2>9, <2>10 DEF Judged, Meets, RequestAt
  <2>12. InStage(p)' /\ FileKept(p)'
    BY <2>3, <2>10, <2>11 DEF InStage, FileKept, At, RequestAt
  <2>13. QED
    BY <2>1, <2>2, <2>3, <2>12, AdvanceInv DEF At
<1>3. QED
  BY <1>1, <1>2

\* The temporary file holds the judged answer before it replaces the context.
LEMMA TemporaryInv ==
    ASSUME IInv, NEW p \in Processes, OpenTemporary(p) \/ CompleteTemporary(p)
    PROVE  IInv'
<1>1. CASE Fail(p) /\ temporary' = temporary
  BY <1>1, FailInv DEF OpenTemporary, CompleteTemporary
<1>2. ASSUME ~(Fail(p) /\ temporary' = temporary) PROVE IInv'
  <2>1. Shape /\ Own(p) /\ process[p].at \in {"temporary", "complete"}
    BY DEF IInv, OpenTemporary, CompleteTemporary, At
  <2>2. UNCHANGED <<head, context, file, published, terminal>>
    BY <1>2 DEF OpenTemporary, CompleteTemporary
  <2>3. PICK s \in {"complete", "rename"}, whole \in BOOLEAN :
           /\ GoTo(p, s) /\ temporary' = [temporary EXCEPT ![p] = {ContextBy(p, whole)}]
           /\ s = "rename" => whole
    <3>1. CASE OpenTemporary(p)
      BY <1>2, <3>1 DEF OpenTemporary
    <3>2. CASE CompleteTemporary(p)
      BY <1>2, <3>2 DEF CompleteTemporary
    <3>3. QED
      BY <3>1, <3>2
  <2>4. Judged(p)
    BY <2>1 DEF Own, InStage, Accepted
  <2>5. PICK rev \in Revisions, a \in Given :
           process[p].request = {RequestAt(rev)} /\ process[p].answer = {a} /\ Meets(rev, a)
    BY <2>4 DEF Judged
  <2>6. ContextBy(p, TRUE) = [revision |-> rev, decision |-> a, whole |-> TRUE]
    <3>1. RequestOf(p) = RequestAt(rev) /\ AnswerOf(p) = a
      BY <2>5 DEF RequestOf, AnswerOf
    <3>2. RequestAt(rev).revision = rev
      BY DEF RequestAt
    <3>3. QED
      BY <3>1, <3>2 DEF ContextBy
  <2>7. /\ process'[p].at = s /\ process'[p].request = process[p].request
        /\ process'[p].answer = process[p].answer /\ process'[p].judged = process[p].judged
    BY <2>1, <2>3, Moved
  <2>8. Judged(p)'
    BY <2>4, <2>7 DEF Judged, Meets, RequestAt
  <2>9. s = "rename" => temporary'[p] = {[revision |-> rev, decision |-> a, whole |-> TRUE]}
    BY <2>1, <2>3, <2>6 DEF Shape
  <2>10. InStage(p)' /\ FileKept(p)'
    BY <2>3, <2>5, <2>7, <2>8, <2>9 DEF InStage, FileKept, At, RequestAt
  <2>11. Answered(p)'
    BY <2>1, <2>2 DEF Own, Answered
  <2>12. Shape' /\ ContextIsWhole'
    BY <2>1, <2>2, <2>3, Moved DEF IInv, Shape, ContextIsWhole, Meets, Places
  <2>13. \A q \in Processes \ {p} :
            UNCHANGED <<process[q], temporary[q], published[q], terminal[q]>>
    BY <2>1, <2>2, <2>3, Moved
  <2>14. QED
    BY <2>2, <2>10, <2>11, <2>12, <2>13, OneMoves DEF Own
<1>3. QED
  BY <1>1, <1>2

\* The rename puts a whole context in place, whatever was there.
LEMMA RenameInv == ASSUME IInv, NEW p \in Processes, RenameContext(p) PROVE IInv'
<1>1. CASE Fail(p) /\ UNCHANGED <<context, temporary>>
  BY <1>1, FailInv DEF RenameContext
<1>2. ASSUME ~(Fail(p) /\ UNCHANGED <<context, temporary>>) PROVE IInv'
  <2>1. Shape /\ Own(p) /\ At(p, "rename")
    BY DEF IInv, RenameContext
  <2>2. /\ context' = [context EXCEPT ![Place[p]] = temporary[p]]
        /\ temporary' = [temporary EXCEPT ![p] = {}]
        /\ UNCHANGED <<head, file, published>>
    BY <1>2 DEF RenameContext
  <2>3. PICK rev \in Revisions, a \in Given :
           /\ process[p].request = {RequestAt(rev)} /\ process[p].answer = {a}
           /\ temporary[p] = {[revision |-> rev, decision |-> a, whole |-> TRUE]}
    BY <2>1 DEF Own, InStage
  <2>4. Judged(p)
    BY <2>1 DEF Own, InStage, At, Accepted
  <2>5. Meets(rev, a)
    <3>1. PICK r \in Revisions, b \in Given :
             process[p].request = {RequestAt(r)} /\ process[p].answer = {b} /\ Meets(r, b)
      BY <2>4 DEF Judged
    <3>2. RequestAt(r) = RequestAt(rev) /\ a = b
      BY <2>3, <3>1
    <3>3. r = rev
      BY <3>2 DEF RequestAt
    <3>4. QED
      BY <3>1, <3>2, <3>3
  <2>6. ContextIsWhole'
    <3>1. \A c \in temporary[p] : c.whole /\ Meets(c.revision, c.decision)
      BY <2>3, <2>5
    <3>2. \A f \in Places : context'[f] = context[f] \/ context'[f] = temporary[p]
      BY <2>1, <2>2 DEF Shape
    <3>3. ASSUME NEW f \in Places, NEW c \in context'[f]
          PROVE  c.whole /\ Meets(c.revision, c.decision)
      BY <3>1, <3>2 DEF IInv, ContextIsWhole
    <3>4. QED
      BY <3>3 DEF ContextIsWhole, Meets
  <2>7. DOMAIN context' = Places /\ DOMAIN temporary' = Processes
        /\ \A q \in Processes \ {p} : temporary'[q] = temporary[q]
    BY <2>1, <2>2 DEF Shape
  <2>8. CASE AnswerOf(p).decision # "PASS"
    <3>1. GoTo(p, "failed") /\ Finish(p, "unknown")
      BY <1>2, <2>8 DEF RenameContext
    <3>2. QED
      BY <2>2, <2>6, <2>7, <3>1, EndInv
  <2>9. CASE AnswerOf(p).decision = "PASS"
    <3>1. GoTo(p, "publish") /\ UNCHANGED terminal
      BY <1>2, <2>9 DEF RenameContext
    <3>2. /\ process'[p].at = "publish" /\ process'[p].request = process[p].request
          /\ process'[p].answer = process[p].answer /\ process'[p].judged = process[p].judged
      BY <2>1, <3>1, Moved
    <3>3. Judged(p)'
      BY <2>4, <3>2 DEF Judged, Meets, RequestAt
    <3>4. Passes(p)'
      BY <2>3, <2>9, <3>2 DEF Passes, AnswerOf
    <3>5. InStage(p)' /\ FileKept(p)'
      BY <2>3, <3>2, <3>3, <3>4 DEF InStage, FileKept, At, RequestAt
    <3>6. Answered(p)'
      BY <2>1, <2>2, <3>1 DEF Own, Answered, At
    <3>7. Shape'
      BY <2>1, <2>2, <2>7, <3>1, Moved DEF Shape, Places
    <3>8. \A q \in Processes \ {p} :
             UNCHANGED <<process[q], temporary[q], published[q], terminal[q]>>
      BY <2>1, <2>2, <2>7, <3>1, Moved
    <3>9. QED
      BY <2>2, <2>6, <3>5, <3>6, <3>7, <3>8, OneMoves DEF Own
  <2>10. QED
    BY <2>8, <2>9
<1>3. QED
  BY <1>1, <1>2

LEMMA PublishInv == ASSUME IInv, NEW p \in Processes, PublishAnswer(p) PROVE IInv'
<1>1. CASE published' = published /\ Fail(p)
  BY <1>1, FailInv DEF PublishAnswer
<1>2. ASSUME ~(published' = published /\ Fail(p)) PROVE IInv'
  <2>1. Shape /\ Own(p) /\ At(p, "publish")
    BY DEF IInv, PublishAnswer
  <2>2. /\ published' = [published EXCEPT ![p] = process[p].answer]
        /\ GoTo(p, "finish") /\ UNCHANGED <<head, context, temporary, file, terminal>>
    BY <1>2 DEF PublishAnswer
  <2>3. /\ process'[p].at = "finish" /\ process'[p].request = process[p].request
        /\ process'[p].answer = process[p].answer /\ process'[p].judged = process[p].judged
    BY <2>1, <2>2, Moved
  <2>4. Judged(p)
    BY <2>1 DEF Own, InStage, At, Accepted
  <2>5. Judged(p)'
    BY <2>3, <2>4 DEF Judged, Meets, RequestAt
  <2>6. p \in Hooks => Passes(p)'
    BY <2>1, <2>3 DEF Own, InStage, Passes
  <2>7. published'[p] = process'[p].answer /\ published'[p] # {}
    BY <2>1, <2>2, <2>3, <2>4 DEF Shape, Judged
  <2>8. \E rev \in Revisions : process'[p].request = {RequestAt(rev)}
    BY <2>3, <2>4 DEF Judged
  <2>9. InStage(p)' /\ FileKept(p)'
    BY <2>3, <2>5, <2>7, <2>8 DEF InStage, FileKept, At, RequestAt
  <2>10. Answered(p)'
    BY <2>3, <2>5, <2>6, <2>7 DEF Answered, Hooks
  <2>11. Shape' /\ ContextIsWhole'
    BY <2>1, <2>2, Moved DEF IInv, Shape, ContextIsWhole, Meets, Places
  <2>12. \A q \in Processes \ {p} :
            UNCHANGED <<process[q], temporary[q], published[q], terminal[q]>>
    BY <2>1, <2>2, Moved DEF Shape
  <2>13. QED
    BY <2>2, <2>9, <2>10, <2>11, <2>12, OneMoves DEF Own
<1>3. QED
  BY <1>1, <1>2

LEMMA FinishInv == ASSUME IInv, NEW p \in Processes, FinishAttempt(p) PROVE IInv'
<1>1. Shape /\ Own(p) /\ At(p, "finish")
  BY DEF IInv, FinishAttempt
<1>2. /\ GoTo(p, "done") /\ Finish(p, "returned")
      /\ UNCHANGED <<head, context, temporary, file, published>>
  BY DEF FinishAttempt
<1>3. /\ process'[p].at = "done" /\ process'[p].request = process[p].request
      /\ process'[p].answer = process[p].answer /\ process'[p].judged = process[p].judged
  BY <1>1, <1>2, Moved
<1>4. published[p] # {} /\ published[p] = process[p].answer /\ Judged(p)
      /\ (p \in Hooks => Passes(p))
  BY <1>1 DEF Own, InStage, Answered
<1>5. Judged(p)'
  BY <1>3, <1>4 DEF Judged, Meets, RequestAt
<1>6. p \in Hooks => Passes(p)'
  BY <1>3, <1>4 DEF Passes
<1>7. \E rev \in Revisions : process'[p].request = {RequestAt(rev)}
  BY <1>3, <1>4 DEF Judged
<1>8. InStage(p)' /\ FileKept(p)'
  BY <1>3, <1>5, <1>7 DEF InStage, FileKept, At, RequestAt
<1>9. Answered(p)'
  BY <1>2, <1>3, <1>4, <1>5, <1>6 DEF Answered, Hooks
<1>10. Shape' /\ ContextIsWhole'
  BY <1>1, <1>2, Moved, Finished DEF IInv, Shape, ContextIsWhole, Meets, Places
<1>11. \A q \in Processes \ {p} :
          UNCHANGED <<process[q], temporary[q], published[q], terminal[q]>>
  BY <1>1, <1>2, Moved, Finished
<1>12. QED
  BY <1>2, <1>8, <1>9, <1>10, <1>11, OneMoves DEF Own

\* A commit, an edit of a request file, or nothing.
LEMMA AroundInv ==
    ASSUME IInv, Commit \/ (\E f \in Places : EditRequest(f)) \/ UNCHANGED vars
    PROVE  IInv'
<1>1. UNCHANGED <<context, temporary, process, published, terminal>>
  BY DEF Commit, EditRequest, vars
<1>2. DOMAIN file' = Places
      /\ \A f \in Places : file'[f] = file[f] \/ file'[f] = Edited(file[f])
  BY DEF IInv, Shape, Commit, EditRequest, Edited, vars
<1>3. head' \in Revisions
  BY ContractAssumption DEF IInv, Shape, Commit, EditRequest, vars, Revisions
<1>4. Shape' /\ ContextIsWhole'
  BY <1>1, <1>2, <1>3 DEF IInv, Shape, ContextIsWhole, Meets, Places
<1>5. ASSUME NEW p \in Processes PROVE Own(p)'
  <2>1. Own(p) /\ Place[p] \in Places
    BY DEF IInv, Places
  <2>2. (Judged(p)' <=> Judged(p)) /\ (Passes(p)' <=> Passes(p))
    BY <1>1 DEF Judged, Passes, Meets, RequestAt
  <2>3. InStage(p)' /\ Answered(p)'
    BY <1>1, <2>1, <2>2 DEF Own, InStage, Answered, At, RequestAt, Edited
  <2>4. FileKept(p)'
    <3>1. SUFFICES ASSUME p \in Natives, process[p].at \in {"prompt", "execute"}
                   PROVE  file'[Place[p]] \in {process[p].request, Edited(process[p].request)}
      BY <1>1 DEF FileKept, Edited
    <3>2. file[Place[p]] \in {process[p].request, Edited(process[p].request)}
      BY <2>1, <3>1 DEF Own, FileKept
    <3>3. PICK rev \in Revisions : process[p].request = {RequestAt(rev)}
      BY <2>1, <3>1 DEF Own, InStage, Recorded
    <3>4. Edited(Edited(process[p].request)) = Edited(process[p].request)
      BY <3>3 DEF Edited, RequestAt
    <3>5. QED
      BY <1>2, <2>1, <3>2, <3>4
  <2>5. QED
    BY <2>3, <2>4 DEF Own
<1>6. QED
  BY <1>4, <1>5 DEF IInv

LEMMA CrashInv == ASSUME IInv, NEW p \in Processes, Crash(p) PROVE IInv'
<1>1. ContextIsWhole' /\ DOMAIN context' = Places /\ DOMAIN temporary' = Processes
      /\ \A q \in Processes \ {p} : temporary'[q] = temporary[q]
  BY DEF IInv, ContextIsWhole, Shape, Meets, Crash
<1>2. QED
  BY <1>1, EndInv DEF Crash

LEMMA StepInv == ASSUME IInv, [Next]_vars PROVE IInv'
<1>1. ASSUME NEW p \in Processes, Step(p) \/ Crash(p) PROVE IInv'
  BY <1>1, BeginInv, PrepareInv, PersistInv, PrintInv, ExecuteInv, ValidateInv, TemporaryInv,
     RenameInv, PublishInv, FinishInv, CrashInv DEF Step
<1>2. QED
  BY <1>1, AroundInv DEF Next

LEMMA Invariance == Spec => []IInv
  BY InitInv, StepInv, PTL DEF Spec

-----------------------------------------------------------------------------
\* The safety properties.

\* However HEAD moves while a review runs, what a process writes to standard
\* output meets the configuration committed at the revision it recorded, a
\* hook writes a PASS only, and only what was written is recorded as returned.
THEOREM PublishedSound == Spec => []PublishedMeetsItsRevision
<1>1. IInv => PublishedMeetsItsRevision
  <2>1. SUFFICES ASSUME IInv, NEW p \in Processes
                 PROVE  /\ \A answer \in published[p] :
                              /\ Meets(RequestOf(p).revision, answer)
                              /\ p \in Hooks => answer.decision = "PASS"
                        /\ terminal[p] = "returned" => published[p] # {}
    BY DEF PublishedMeetsItsRevision
  <2>2. Answered(p)
    BY <2>1 DEF IInv, Own
  <2>3. ASSUME NEW answer \in published[p]
        PROVE  Meets(RequestOf(p).revision, answer) /\ (p \in Hooks => answer.decision = "PASS")
    <3>1. published[p] = process[p].answer /\ Judged(p) /\ (p \in Hooks => Passes(p))
      BY <2>2 DEF Answered
    <3>2. PICK rev \in Revisions, a \in Given :
             process[p].request = {RequestAt(rev)} /\ process[p].answer = {a} /\ Meets(rev, a)
      BY <3>1 DEF Judged
    <3>3. RequestOf(p).revision = rev
      <4>1. RequestOf(p) = RequestAt(rev)
        BY <3>2 DEF RequestOf
      <4>2. QED
        BY <4>1 DEF RequestAt
    <3>4. answer = a
      BY <3>1, <3>2
    <3>5. QED
      BY <3>1, <3>2, <3>3, <3>4 DEF Passes
  <2>4. QED
    BY <2>2, <2>3 DEF Answered
<1>2. QED
  BY <1>1, Invariance, PTL

\* Hooks of one session that overlap, fail or die leave a whole decision that
\* its own revision accepts, or what was there before.
THEOREM ContextSound == Spec => []ContextIsWhole
  BY Invariance, PTL DEF IInv

\* A native answer that was published was judged by the very request whose
\* prompt the host was given.
THEOREM NativeSound == Spec => []NativeJudgesWhatWasAsked
<1>1. IInv => NativeJudgesWhatWasAsked
  BY DEF IInv, Own, Answered, Judged, Natives, NativeJudgesWhatWasAsked
<1>2. QED
  BY <1>1, Invariance, PTL
=============================================================================
