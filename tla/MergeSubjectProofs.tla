------------------------- MODULE MergeSubjectProofs -------------------------
(***************************************************************************)
(* TLAPS proofs about the two procedures that settle what was reviewed,    *)
(* each beside a PullRequest that moves at any moment, for every number of *)
(* heads, purposes, revisions, edits and attempts.                         *)
(*                                                                         *)
(* SelfAmendment: what accept verified stood on the live pull request at   *)
(* one moment. The five reads are no snapshot; that the tip of main only   *)
(* moves forward and that it is read before and after the merge makes them *)
(* one.                                                                    *)
(*                                                                         *)
(* GeminiCi: what was reviewed is what was prepared, and a report displays *)
(* what its own attempt emitted. The event never changes, a handle exists  *)
(* only when the inputs are complete, and a job carried over into a later  *)
(* attempt keeps publications of earlier attempts only.                    *)
(***************************************************************************)
EXTENDS SelfAmendment, GeminiCi, TLAPS

amendmentVars == <<world, event, amendment>>

AmendmentInit == InitPullRequest /\ InitAmendment

AmendmentNext ==
    \/ GitHub /\ UNCHANGED amendment
    \/ Amend /\ UNCHANGED <<world, event>>

AmendmentSpec == AmendmentInit /\ [][AmendmentNext]_amendmentVars

-----------------------------------------------------------------------------
\* The inductive invariant.

Numbers == main \in Nat /\ edits \in Nat /\ DOMAIN seen = Reads

Early == {"resolve", "prepare", "review", "complete"}

\* Nothing is read before its turn.
InTurn ==
    /\ step \in Early \cup {"first"} =>
          then = {} /\ seen["merge"] = {} /\ seen["mainAgain"] = {} /\ seen["pullAgain"] = {}
    /\ step \in Early => seen["main"] = {} /\ seen["pull"] = {}
    /\ step = "merge" => seen["mainAgain"] = {} /\ seen["pullAgain"] = {}

\* What each check the procedure has passed found; what it was about is fixed.
Passed ==
    /\ reviewed = {} \/ \E m \in reviewed : reviewed = {m}
    /\ step \in {"resolve", "failed"} \/ \A m \in reviewed : MergesEvent(m)
    /\ step \in {"resolve", "prepare", "failed"} \/ \A m \in reviewed : SameTree(m)
    /\ step \in Early \cup {"failed"} \/ \A d \in decision : ValidDecision(d) /\ d.eligible
    /\ step \in {"merge", "final", "verified"} => FirstPair
    /\ step = "verified" => FinalPair /\ seen["merge"] = reviewed

\* Main as the reads found it, in their order.
MainForward ==
    /\ \A v \in seen["main"] : v \in Nat /\ v <= main
    /\ \A t \in then : /\ t.main \in Nat /\ t.main <= main
                       /\ \A v \in seen["main"] : v <= t.main
    /\ \A w \in seen["mainAgain"] : w \in Nat /\ \A t \in then : t.main <= w

\* A pull request the merge was read beside, if it is not the one read first,
\* took an edit, and another one to become something else.
EditsCounted ==
    /\ \A s \in seen["pull"] : /\ s.edits \in Nat /\ s.edits <= edits
                               /\ s.edits = edits => s.pull = pull
    /\ \A s \in seen["pull"], t \in then : t.pull # s.pull =>
          edits >= s.edits + 1 /\ (edits = s.edits + 1 => pull = t.pull)
    /\ \A s \in seen["pull"], t \in then, f \in seen["pullAgain"] :
          /\ f.edits \in Nat
          /\ t.pull # s.pull =>
                f.edits >= s.edits + 1 /\ (f.edits = s.edits + 1 => f.pull = t.pull)

IInv == Numbers /\ InTurn /\ Passed /\ MainForward /\ EditsCounted

-----------------------------------------------------------------------------
LEMMA InitInv == AmendmentInit => IInv
<1> SUFFICES ASSUME AmendmentInit PROVE IInv
  OBVIOUS
<1>1. Numbers
  BY PullRequestAssumption DEF AmendmentInit, InitPullRequest, InitAmendment, Numbers
<1>2. /\ step = "resolve" /\ reviewed = {} /\ decision = {} /\ then = {}
      /\ \A r \in Reads : seen[r] = {}
  BY DEF AmendmentInit, InitAmendment
<1>3. InTurn /\ Passed /\ MainForward /\ EditsCounted
  BY <1>2 DEF InTurn, Passed, MainForward, EditsCounted, Early, Reads
<1>4. QED
  BY <1>1, <1>3 DEF IInv

\* GitHub moves: main forward, the pull request with an edit.
LEMMA WorldInv == ASSUME IInv, GitHub, UNCHANGED amendment PROVE IInv'
<1>0. /\ UNCHANGED <<step, reviewed, decision, seen, then>>
      /\ event' = event
  BY DEF GitHub, amendment
<1>1. /\ main' \in Nat /\ main <= main'
      /\ \/ edits' = edits /\ pull' = pull
         \/ edits' = edits + 1
      /\ edits' \in Nat
  BY DEF GitHub, Advance, Edit, Remerge, Refresh, IInv, Numbers
<1>2. Numbers' /\ InTurn'
  BY <1>0, <1>1 DEF IInv, Numbers, InTurn
<1>3. Passed'
  <2>1. UNCHANGED <<FirstPair, FinalPair>>
    BY <1>0 DEF FirstPair, FinalPair, OfEvent
  <2>2. \A m : MergesEvent(m)' = MergesEvent(m)
    BY <1>0 DEF MergesEvent
  <2>3. QED
    BY <1>0, <2>1, <2>2 DEF IInv, Passed, SameTree, ValidDecision, MergesEvent
<1>4. MainForward'
  BY <1>0, <1>1 DEF IInv, Numbers, MainForward
<1>5. EditsCounted'
  <2>1. \A s \in seen["pull"] : /\ s.edits \in Nat /\ s.edits <= edits'
                                /\ s.edits = edits' => s.pull = pull'
    BY <1>1 DEF IInv, Numbers, EditsCounted
  <2>2. \A s \in seen["pull"], t \in then : t.pull # s.pull =>
           edits' >= s.edits + 1 /\ (edits' = s.edits + 1 => pull' = t.pull)
    BY <1>1 DEF IInv, Numbers, EditsCounted
  <2>3. QED
    BY <1>0, <2>1, <2>2 DEF IInv, EditsCounted
<1>6. QED
  BY <1>2, <1>3, <1>4, <1>5 DEF IInv

-----------------------------------------------------------------------------
\* Steps of the procedure that read nothing.
LEMMA UnreadInv ==
    ASSUME IInv, UNCHANGED <<world, event, seen, then>>, InTurn', Passed'
    PROVE  IInv'
<1>1. UNCHANGED <<main, pull, edits>>
  BY DEF world
<1>2. Numbers' /\ MainForward' /\ EditsCounted'
  BY <1>1 DEF IInv, Numbers, MainForward, EditsCounted
<1>3. QED
  BY <1>2 DEF IInv

LEMMA JudgeInv ==
    ASSUME IInv, Resolve \/ Prepare \/ ReviewEligibility \/ Complete \/ Compare \/ GiveUp,
           UNCHANGED <<world, event>>
    PROVE  IInv'
<1>1. UNCHANGED <<seen, then>>
  BY DEF Resolve, Prepare, ReviewEligibility, Complete, Compare, GiveUp
<1>2. UNCHANGED <<FirstPair, FinalPair>> /\ \A m : MergesEvent(m)' = MergesEvent(m)
  BY <1>1 DEF FirstPair, FinalPair, OfEvent, MergesEvent
<1>3. InTurn /\ Passed
  BY DEF IInv
<1>4. CASE Resolve
  <2> DEFINE candidate == IF MergesEvent(event.merge) THEN event.merge ELSE mergeRef
  <2>1. step = "resolve" /\ step' = "prepare" /\ decision' = decision
    BY <1>4 DEF Resolve, GoTo
  <2>2. MergesEvent(candidate) /\ reviewed' = {candidate}
    BY <1>4 DEF Resolve
  <2>3. InTurn'
    BY <1>1, <1>3, <2>1 DEF InTurn, Early
  <2> HIDE DEF candidate
  <2>4. Passed'
    BY <1>2, <2>1, <2>2 DEF Passed, Early
  <2>5. QED
    BY <1>1, <2>3, <2>4, UnreadInv
<1>5. CASE Prepare
  <2>1. step = "prepare" /\ step' = "review" /\ UNCHANGED <<reviewed, decision>>
    BY <1>5 DEF Prepare, GoTo
  <2>2. \A m \in reviewed : SameTree(m)
    BY <1>5 DEF Prepare, Preparable
  <2>3. InTurn' /\ Passed'
    BY <1>1, <1>2, <1>3, <2>1, <2>2 DEF InTurn, Passed, Early, SameTree
  <2>4. QED
    BY <1>1, <2>3, UnreadInv
<1>6. CASE ReviewEligibility
  <2>1. step = "review" /\ step' = "complete" /\ UNCHANGED reviewed
    BY <1>6 DEF ReviewEligibility, GoTo
  <2>2. InTurn' /\ Passed'
    BY <1>1, <1>2, <1>3, <2>1 DEF InTurn, Passed, Early, SameTree
  <2>3. QED
    BY <1>1, <2>2, UnreadInv
<1>7. CASE Complete
  <2>1. step = "complete" /\ step' = "first" /\ UNCHANGED <<reviewed, decision>>
    BY <1>7 DEF Complete, GoTo
  <2>2. \A d \in decision : ValidDecision(d) /\ d.eligible
    BY <1>7 DEF Complete
  <2>3. InTurn' /\ Passed'
    BY <1>1, <1>2, <1>3, <2>1, <2>2 DEF InTurn, Passed, Early, SameTree, ValidDecision
  <2>4. QED
    BY <1>1, <2>3, UnreadInv
<1>8. CASE Compare
  <2>1. Due # {} /\ Agreed /\ UNCHANGED <<reviewed, decision>>
    BY <1>8 DEF Compare, Answered
  <2>2. \A m \in reviewed : SameTree(m)' = SameTree(m)
    BY DEF SameTree
  <2>3. CASE step = "first"
    <3>1. FirstPair /\ step' = "merge"
      BY <1>8, <2>1, <2>3 DEF Compare, Agreed, GoTo
    <3>2. InTurn' /\ Passed'
      BY <1>1, <1>2, <1>3, <2>1, <2>2, <2>3, <3>1 DEF InTurn, Passed, Early, ValidDecision
    <3>3. QED
      BY <1>1, <3>2, UnreadInv
  <2>4. CASE step = "merge"
    <3>1. step' = "final"
      BY <1>8, <2>4 DEF Compare, GoTo
    <3>2. InTurn' /\ Passed'
      BY <1>1, <1>2, <1>3, <2>1, <2>2, <2>4, <3>1 DEF InTurn, Passed, Early, ValidDecision
    <3>3. QED
      BY <1>1, <3>2, UnreadInv
  <2>5. CASE step = "final"
    <3>1. FinalPair /\ seen["merge"] = reviewed /\ step' = "verified"
      BY <1>8, <2>1, <2>5 DEF Compare, Agreed, GoTo
    <3>2. InTurn' /\ Passed'
      BY <1>1, <1>2, <1>3, <2>1, <2>2, <2>5, <3>1 DEF InTurn, Passed, Early, ValidDecision
    <3>3. QED
      BY <1>1, <3>2, UnreadInv
  <2>6. step \in {"first", "merge", "final"}
    BY <2>1 DEF Due
  <2>7. QED
    BY <2>3, <2>4, <2>5, <2>6
<1>9. CASE GiveUp
  <2>1. step' = "failed" /\ UNCHANGED <<reviewed, decision>>
    BY <1>9 DEF GiveUp, GoTo
  <2>2. InTurn' /\ Passed'
    BY <1>1, <1>3, <2>1 DEF InTurn, Passed, Early
  <2>3. QED
    BY <1>1, <2>2, UnreadInv
<1>10. QED
  BY <1>4, <1>5, <1>6, <1>7, <1>8, <1>9

\* One read: what it adds is compared with the moment it is made.
LEMMA ReadInv ==
    ASSUME IInv, NEW r \in Reads, Get(r), UNCHANGED <<world, event>>
    PROVE  IInv'
<1>1. UNCHANGED <<main, pull, edits, record, mergeRef, step, reviewed, decision, event>>
  BY DEF Get, world
<1>2. DOMAIN seen' = Reads /\ \A q \in Reads \ {r} : seen'[q] = seen[q]
  BY DEF Get, IInv, Numbers
<1>3. Numbers'
  BY <1>1, <1>2 DEF IInv, Numbers
<1>4. step \in {"first", "merge", "final"} /\ r \in Due
  BY DEF Get, Due
<1>5. \A m : MergesEvent(m)' = MergesEvent(m)
  BY <1>1 DEF MergesEvent
<1>6. CASE step = "first"
  <2>1. r \in {"main", "pull"} /\ then' = then
    BY <1>4, <1>6 DEF Due, Get
  <2>2. /\ then = {} /\ seen["merge"] = {} /\ seen["mainAgain"] = {} /\ seen["pullAgain"] = {}
    BY <1>6 DEF IInv, InTurn
  <2>3. /\ then' = {} /\ seen'["merge"] = {} /\ seen'["mainAgain"] = {} /\ seen'["pullAgain"] = {}
    BY <1>2, <2>1, <2>2 DEF Reads
  <2>4. InTurn' /\ Passed'
    BY <1>1, <1>5, <1>6, <2>3 DEF IInv, InTurn, Passed, Early, SameTree, ValidDecision
  <2>5. seen'["main"] = seen["main"] \/ seen'["main"] = {main}
    BY <1>2, <2>1 DEF Get, IInv, Numbers, Reads
  <2>6. seen'["pull"] = seen["pull"] \/ seen'["pull"] = {Shown}
    BY <1>2, <2>1 DEF Get, IInv, Numbers, Reads
  <2>7. Shown.edits = edits /\ Shown.pull = pull
    BY DEF Shown
  <2>8. MainForward'
    BY <1>1, <2>3, <2>5 DEF IInv, Numbers, MainForward
  <2>9. EditsCounted'
    BY <1>1, <2>3, <2>6, <2>7 DEF IInv, Numbers, EditsCounted
  <2>10. QED
    BY <1>3, <2>4, <2>8, <2>9 DEF IInv
<1>7. CASE step = "merge"
  <2>1. r = "merge" /\ then' = {[main |-> main, pull |-> pull]}
    BY <1>4, <1>7 DEF Due, Get
  <2>2. /\ seen["mainAgain"] = {} /\ seen["pullAgain"] = {}
        /\ seen'["mainAgain"] = {} /\ seen'["pullAgain"] = {}
        /\ seen'["main"] = seen["main"] /\ seen'["pull"] = seen["pull"]
    BY <1>2, <1>7, <2>1 DEF IInv, InTurn, Reads
  <2>3. FirstPair' = FirstPair
    BY <1>1, <2>2 DEF FirstPair, OfEvent
  <2>4. InTurn' /\ Passed'
    BY <1>1, <1>5, <1>7, <2>2, <2>3 DEF IInv, InTurn, Passed, Early, SameTree, ValidDecision
  <2>5. \A t \in then' : t.main = main /\ t.pull = pull
    BY <2>1
  <2>6. MainForward'
    BY <1>1, <2>2, <2>5 DEF IInv, Numbers, MainForward
  <2>7. \A s \in seen["pull"] : pull # s.pull => edits >= s.edits + 1
    BY DEF IInv, Numbers, EditsCounted
  <2>8. EditsCounted'
    BY <1>1, <2>2, <2>5, <2>7 DEF IInv, Numbers, EditsCounted
  <2>9. QED
    BY <1>3, <2>4, <2>6, <2>8 DEF IInv
<1>8. CASE step = "final"
  <2>1. r \in {"mainAgain", "pullAgain"} /\ then' = then
    BY <1>4, <1>8 DEF Due, Get
  <2>2. seen'["main"] = seen["main"] /\ seen'["pull"] = seen["pull"]
    BY <1>2, <2>1 DEF Reads
  <2>3. FirstPair' = FirstPair
    BY <1>1, <2>2 DEF FirstPair, OfEvent
  <2>4. InTurn' /\ Passed'
    BY <1>1, <1>5, <1>8, <2>3 DEF IInv, InTurn, Passed, Early, SameTree, ValidDecision
  <2>5. seen'["mainAgain"] = seen["mainAgain"] \/ seen'["mainAgain"] = {main}
    BY <1>2, <2>1 DEF Get, IInv, Numbers, Reads
  <2>6. seen'["pullAgain"] = seen["pullAgain"] \/ seen'["pullAgain"] = {Shown}
    BY <1>2, <2>1 DEF Get, IInv, Numbers, Reads
  <2>7. Shown.edits = edits /\ Shown.pull = pull
    BY DEF Shown
  <2>8. MainForward'
    BY <1>1, <2>1, <2>2, <2>5 DEF IInv, Numbers, MainForward
  <2>9. EditsCounted'
    BY <1>1, <2>1, <2>2, <2>6, <2>7 DEF IInv, Numbers, EditsCounted
  <2>10. QED
    BY <1>3, <2>4, <2>8, <2>9 DEF IInv
<1>9. QED
  BY <1>4, <1>6, <1>7, <1>8

LEMMA StepInv == ASSUME IInv, [AmendmentNext]_amendmentVars PROVE IInv'
<1>1. CASE UNCHANGED amendmentVars
  <2>1. UNCHANGED <<world, event, step, reviewed, decision, seen, then>>
    BY <1>1 DEF amendmentVars, amendment
  <2>2. UNCHANGED <<FirstPair, FinalPair>> /\ \A m : MergesEvent(m)' = MergesEvent(m)
    BY <2>1 DEF FirstPair, FinalPair, OfEvent, MergesEvent
  <2>3. InTurn' /\ Passed'
    BY <2>1, <2>2 DEF IInv, InTurn, Passed, SameTree, ValidDecision
  <2>4. QED
    BY <2>1, <2>3, UnreadInv
<1>2. QED
  BY <1>1, WorldInv, JudgeInv, ReadInv DEF AmendmentNext, Amend

\* At the end of the two pairs of reads the first and the last agree, and the
\* merge lies between them.
LEMMA Verified == IInv => VerifiedOnLiveMerge
<1> SUFFICES ASSUME IInv, step = "verified" PROVE
       /\ \A m \in reviewed : MergesEvent(m) /\ SameTree(m) /\ seen["merge"] = {m}
       /\ \A t \in then :
             /\ t.main = event.base
             /\ \/ OfEvent(t.pull)
                \/ \A s \in seen["pull"], f \in seen["pullAgain"] : f.edits >= s.edits + 2
       /\ \A d \in decision : d.eligible /\ d.bound /\ d.checks
  BY DEF VerifiedOnLiveMerge
<1>1. \A m \in reviewed : MergesEvent(m) /\ SameTree(m) /\ seen["merge"] = {m}
  BY DEF IInv, Passed
<1>2. \A d \in decision : d.eligible /\ d.bound /\ d.checks
  BY DEF IInv, Passed, ValidDecision, Early
<1>3. FirstPair /\ FinalPair
  BY DEF IInv, Passed
<1>4. seen["main"] = {event.base} /\ seen["mainAgain"] = {event.base}
  BY <1>3 DEF FirstPair, FinalPair
<1>5. ASSUME NEW t \in then PROVE t.main = event.base
  BY <1>4 DEF IInv, MainForward
<1>6. ASSUME NEW t \in then, ~OfEvent(t.pull), NEW s \in seen["pull"], NEW f \in seen["pullAgain"]
      PROVE  f.edits >= s.edits + 2
  <2>1. t.pull # s.pull /\ t.pull # f.pull
    BY <1>3, <1>6 DEF FirstPair, FinalPair
  <2>2. /\ s.edits \in Nat /\ f.edits \in Nat
        /\ f.edits >= s.edits + 1 /\ f.edits # s.edits + 1
    BY <2>1 DEF IInv, EditsCounted
  <2>3. QED
    BY <2>2
<1>7. QED
  BY <1>1, <1>2, <1>5, <1>6

\* An amendment that accept verified was the reviewed one, on the live main and
\* the live pull request, at the moment its test merge was read, unless the
\* author changed the pull request and changed it back between the reads.
THEOREM VerificationSound == AmendmentSpec => []VerifiedOnLiveMerge
  BY InitInv, StepInv, Verified, PTL DEF AmendmentSpec

-----------------------------------------------------------------------------
\* The ordinary Gemini route beside GitHub.

geminiVars == <<world, event, gemini>>

GeminiInit == InitPullRequest /\ InitGemini

GeminiNext ==
    \/ GitHub /\ UNCHANGED gemini
    \/ Gemini /\ UNCHANGED <<world, event>>

GeminiSpec == GeminiInit /\ [][GeminiNext]_geminiVars

\* The stages before there is a handle, those in which the job asks with what
\* it has of the source, and those in which it asks Vertex.
Unprepared == {"register", "authorize", "fetch", "lookup", "refetch", "install", "inspect", "prepare"}
FromSource == {"fetch", "lookup", "refetch", "install", "inspect", "prepare"}
AsksVertex == DOMAIN After \cup {"accessToken"}

Stages == Unprepared \cup AsksVertex \cup
          {"exchange", "review", "decide", "publish", "emit", "emitted", "failed", "ended"}

Secrets == SourceSecrets \cup VertexSecrets

Hashes == {"absent", "pinned", "altered", "broken"}
Runtimes == [hashed : Hashes, rest : {"absent", "pinned", "altered"}]

Inputs == [base : 1 .. LastMain, reviewed : Merges]

Conclusions == {"PASS", "BLOCK"}

JobRecords ==
    [at : Stages, registered : SUBSET Secrets, sent : SUBSET Secrets,
     candidate : SUBSET Merges, reviewed : SUBSET Merges, inspected : SUBSET Hashes,
     handle : {"none", "ready", "consumed"}, input : SUBSET Inputs,
     started : SUBSET [base : 1 .. LastMain, reviewed : Merges, runtime : Runtimes],
     answer : {"none", "missing", "oversized", "text"}, conclusion : SUBSET Conclusions]

Publications == [attempt : Attempts, nonce : Attempts, reviewed : Merges, conclusion : Conclusions]

ShownJobs ==
    [result : {"none", "success", "failure", "carried"}, listed : Attempts \cup {0},
     outputs : SUBSET [nonce : Attempts, reviewed : Merges, conclusion : Conclusions],
     log : Seq(Publications)]

Displays == [fetch : {"due", "done", "unavailable"}, file : SUBSET Publications]

WorldTypes ==
    /\ main \in 1 .. LastMain /\ pull \in Pulls /\ mergeRef \in Merges
    /\ event.base \in 1 .. LastMain /\ event.merge \in Merges
    /\ record.base \in 1 .. LastMain /\ record.merge \in Merges

GeminiTypes ==
    /\ attempt \in Attempts /\ job \in JobRecords /\ runtime \in Runtimes
    /\ jobs \in [Attempts -> ShownJobs] /\ shown \in [Attempts -> Displays]

\* What the job is about to send was registered before it came this far.
Masked ==
    /\ job.at = "authorize" => "source" \in job.registered
    /\ job.at \in FromSource => SourceSecrets \subseteq job.registered
    /\ job.at \in AsksVertex => job.at \in job.registered

\* What the process holds rests on merges of the event.
Prepared ==
    /\ \A m \in job.reviewed : MergesEvent(m)
    /\ \A i \in job.input : i.base = event.base /\ MergesEvent(i.reviewed)
    /\ job.at \in Unprepared => job.handle = "none" /\ job.started = {}
    /\ job.at \in AsksVertex \cup {"exchange"} => job.handle # "none"
    /\ Masked


\* What GitHub shows of each attempt. A publication names the attempt that
\* emitted it, which is an earlier one in a job that was carried over.
Recorded ==
    /\ jobs[attempt].result = "none" <=> job.at # "ended"
    /\ \A a \in Attempts : \A i \in DOMAIN jobs[a].log :
          /\ jobs[a].log[i].attempt <= a
          /\ jobs[a].result = "carried" => jobs[a].log[i].attempt < a
          /\ MergesEvent(jobs[a].log[i].reviewed)
    /\ \A a \in Attempts : a > attempt => jobs[a] = NoJob /\ shown[a].fetch = "due"
    /\ \A a \in Attempts : shown[a].fetch = "due" => shown[a].file = {}

GeminiInv ==
    /\ WorldTypes /\ GeminiTypes /\ Prepared /\ Recorded
    /\ ReviewedAsPrepared /\ DisplayIsThisAttempts

LEMMA GeminiInitInv == GeminiInit => GeminiInv
<1> SUFFICES ASSUME GeminiInit PROVE GeminiInv
  OBVIOUS
<1>1. WorldTypes
  <2>1. /\ main \in 1 .. LastMain /\ pull \in Pulls /\ mergeRef \in Merges
        /\ record \in [base : 1 .. main, merge : Merges]
    BY DEF GeminiInit, InitPullRequest
  <2>2. event.base = record.base /\ event.merge = record.merge
    BY DEF GeminiInit, InitPullRequest
  <2>3. QED
    BY <2>1, <2>2, PullRequestAssumption DEF WorldTypes
<1>2. /\ attempt = 1 /\ job = NewJob /\ runtime = NoRuntime
      /\ jobs = [a \in Attempts |-> NoJob]
      /\ shown = [a \in Attempts |-> [fetch |-> "due", file |-> {}]]
  BY DEF GeminiInit, InitGemini
<1>3. NewJob \in JobRecords /\ NoJob \in ShownJobs /\ 1 \in Attempts
  BY AttemptsAssumption
  DEF NewJob, NoJob, JobRecords, ShownJobs, Stages, Unprepared, Attempts
<1>4. GeminiTypes
  BY <1>2, <1>3 DEF GeminiTypes, Displays, Runtimes, Hashes, NoRuntime, Runtime
<1>5. Prepared /\ ReviewedAsPrepared
  BY <1>2 DEF NewJob, Prepared, Masked, FromSource, AsksVertex, ReviewedAsPrepared, After
<1>6. Recorded /\ DisplayIsThisAttempts
  BY <1>2, <1>3 DEF NewJob, NoJob, Recorded, DisplayIsThisAttempts
<1>7. QED
  BY <1>1, <1>4, <1>5, <1>6 DEF GeminiInv

\* GitHub moves, and the run does not look.
LEMMA GitHubInv == ASSUME GeminiInv, GitHub, UNCHANGED gemini PROVE GeminiInv'
<1>1. UNCHANGED <<event, attempt, job, runtime, jobs, shown>>
  BY DEF GitHub, gemini
<1>2. WorldTypes'
  <2>1. main' \in 1 .. LastMain /\ pull' \in Pulls
    BY PullRequestAssumption
    DEF GitHub, Advance, Edit, Remerge, Refresh, GeminiInv, WorldTypes
  <2>2. mergeRef' \in Merges
    BY DEF GitHub, Advance, Edit, Remerge, Refresh, GeminiInv, WorldTypes, Merges, Pulls
  <2>3. record'.base \in 1 .. LastMain /\ record'.merge \in Merges
    BY DEF GitHub, Advance, Edit, Remerge, Refresh, GeminiInv, WorldTypes
  <2>4. QED
    BY <1>1, <2>1, <2>2, <2>3 DEF GeminiInv, WorldTypes
<1>3. \A m : MergesEvent(m)' = MergesEvent(m)
  BY <1>1 DEF MergesEvent
<1>4. QED
  BY <1>1, <1>2, <1>3
  DEF GeminiInv, GeminiTypes, Prepared, Masked, Recorded, ReviewedAsPrepared,
      DisplayIsThisAttempts, MergesEvent

-----------------------------------------------------------------------------
\* Steps of the process that GitHub does not show.
LEMMA HiddenInv ==
    ASSUME GeminiInv, UNCHANGED <<world, event, attempt, jobs, shown>>,
           job' \in JobRecords, runtime' \in Runtimes, Prepared', ReviewedAsPrepared',
           job'.at = "ended" <=> job.at = "ended"
    PROVE  GeminiInv'
<1>1. UNCHANGED <<main, pull, mergeRef, record>>
  BY DEF world
<1>2. \A m : MergesEvent(m)' = MergesEvent(m)
  BY DEF MergesEvent
<1>3. WorldTypes' /\ GeminiTypes'
  BY <1>1 DEF GeminiInv, WorldTypes, GeminiTypes
<1>4. Recorded' /\ DisplayIsThisAttempts'
  BY <1>2 DEF GeminiInv, Recorded, DisplayIsThisAttempts, MergesEvent
<1>5. QED
  BY <1>3, <1>4 DEF GeminiInv

\* The merge is found.
LEMMA FoundInv ==
    ASSUME GeminiInv, UNCHANGED <<world, event>>,
           \/ RegisterSource \/ RegisterAuthorization
           \/ FetchEventMerge \/ LookUpMergeRef \/ FetchCandidate
    PROVE  GeminiInv'
<1>1. UNCHANGED <<attempt, runtime, jobs, shown>> /\ job \in JobRecords
      /\ job.at \in Unprepared /\ job.handle = "none" /\ job.started = {}
  BY DEF RegisterSource, RegisterAuthorization, FetchEventMerge, LookUpMergeRef, FetchCandidate,
         GeminiInv, GeminiTypes, Prepared, Unprepared
<1>2. /\ job' \in JobRecords
      /\ job'.at \in Unprepared
      /\ job'.handle = "none" /\ job'.started = {} /\ job'.input = job.input
      /\ job'.sent \subseteq job'.registered /\ job'.sent \subseteq SourceSecrets
      /\ \A m \in job'.reviewed : MergesEvent(m)
      /\ job'.at = "authorize" => "source" \in job'.registered
      /\ job'.at \in FromSource => SourceSecrets \subseteq job'.registered
  <2>1. /\ job.sent \subseteq job.registered /\ job.sent \subseteq SourceSecrets
        /\ \A m \in job.reviewed : MergesEvent(m)
        /\ event.merge \in Merges /\ mergeRef \in Merges
        /\ job.at = "authorize" => "source" \in job.registered
        /\ job.at \in FromSource => SourceSecrets \subseteq job.registered
    BY <1>1 DEF GeminiInv, ReviewedAsPrepared, Prepared, Masked, WorldTypes
  <2>2. CASE RegisterSource
    BY <1>1, <2>1, <2>2
    DEF RegisterSource, JobRecords, Stages, Unprepared, FromSource, Secrets, SourceSecrets
  <2>3. CASE RegisterAuthorization
    BY <1>1, <2>1, <2>3
    DEF RegisterAuthorization, JobRecords, Stages, Unprepared, FromSource, Secrets, SourceSecrets
  <2>4. CASE FetchEventMerge
    <3>1. CASE MergesEvent(event.merge)
      BY <1>1, <2>1, <2>4, <3>1
      DEF FetchEventMerge, JobRecords, Stages, Unprepared, FromSource, Secrets, SourceSecrets
    <3>2. CASE ~MergesEvent(event.merge)
      BY <1>1, <2>1, <2>4, <3>2
      DEF FetchEventMerge, JobRecords, Stages, Unprepared, FromSource, Secrets, SourceSecrets
    <3>3. QED
      BY <3>1, <3>2
  <2>5. CASE LookUpMergeRef
    BY <1>1, <2>1, <2>5
    DEF LookUpMergeRef, JobRecords, Stages, Unprepared, FromSource, Secrets, SourceSecrets
  <2>6. CASE FetchCandidate
    BY <1>1, <2>1, <2>6
    DEF FetchCandidate, JobRecords, Stages, Unprepared, FromSource, Secrets, SourceSecrets
  <2>7. QED
    BY <2>2, <2>3, <2>4, <2>5, <2>6
<1>3. \A m : MergesEvent(m)' = MergesEvent(m)
  BY DEF MergesEvent
<1>4. job'.at \notin AsksVertex \cup {"exchange"} /\ job'.at # "ended" /\ job.at # "ended"
  BY <1>1, <1>2 DEF After, Unprepared, AsksVertex
<1>5. Prepared' /\ ReviewedAsPrepared'
  BY <1>2, <1>3, <1>4 DEF GeminiInv, Prepared, Masked, ReviewedAsPrepared
<1>6. runtime' \in Runtimes
  BY <1>1 DEF GeminiInv, GeminiTypes
<1>7. QED
  BY <1>1, <1>2, <1>4, <1>5, <1>6, HiddenInv

\* The runtime is installed and inspected and the inputs are assembled.
LEMMA AssembledInv ==
    ASSUME GeminiInv, UNCHANGED <<world, event>>, Install \/ Inspect \/ PrepareInput
    PROVE  GeminiInv'
<1>1. UNCHANGED <<attempt, jobs, shown>> /\ job \in JobRecords /\ runtime' \in Runtimes
      /\ runtime \in Runtimes
      /\ job.at \in FromSource /\ job.handle = "none" /\ job.started = {}
  BY DEF Install, Inspect, PrepareInput, GeminiInv, GeminiTypes, Prepared, Unprepared, FromSource,
         Runtimes, Hashes, Runtime
<1>2. /\ job.sent \subseteq job.registered /\ job.sent \subseteq SourceSecrets
      /\ SourceSecrets \subseteq job.registered
      /\ \A m \in job.reviewed : MergesEvent(m)
      /\ event.base \in 1 .. LastMain
  BY <1>1 DEF GeminiInv, ReviewedAsPrepared, Prepared, Masked, WorldTypes
<1>3. \A m : MergesEvent(m)' = MergesEvent(m)
  BY DEF MergesEvent
<1>4. job.at # "ended"
  BY <1>1 DEF FromSource
<1>5. CASE Install \/ Inspect
  <2>1. /\ job' \in JobRecords /\ job'.at \in {"inspect", "prepare"}
        /\ job'.handle = "none" /\ job'.started = {}
        /\ job'.input = job.input /\ job'.reviewed = job.reviewed
        /\ job'.sent = job.sent /\ job'.registered = job.registered
    <3>1. CASE Install
      BY <1>1, <3>1 DEF Install, JobRecords, Stages, Unprepared
    <3>2. CASE Inspect
      BY <1>1, <3>2 DEF Inspect, JobRecords, Stages, Unprepared, Runtimes
    <3>3. QED
      BY <1>5, <3>1, <3>2
  <2>2. job'.at \notin AsksVertex \cup {"exchange", "authorize"} /\ job'.at # "ended"
    BY <2>1 DEF After, AsksVertex
  <2>3. Prepared' /\ ReviewedAsPrepared'
    BY <1>2, <1>3, <2>1, <2>2 DEF GeminiInv, Prepared, Masked, ReviewedAsPrepared
  <2>4. QED
    BY <1>1, <1>4, <2>1, <2>2, <2>3, HiddenInv
<1>6. CASE PrepareInput
  <2>1. ProtectedInput \subseteq Inputs
        /\ \A i \in ProtectedInput : i.base = event.base /\ MergesEvent(i.reviewed)
    BY <1>1, <1>2 DEF ProtectedInput, Inputs, JobRecords
  <2>2. /\ job' \in JobRecords /\ job'.at = "exchange"
        /\ job'.handle = "ready" /\ job'.started = {}
        /\ job'.input = ProtectedInput /\ job'.reviewed = job.reviewed
        /\ job'.sent = job.sent \cup {"source"} /\ job'.registered = job.registered
    BY <1>1, <1>6, <2>1
    DEF PrepareInput, JobRecords, Stages, Secrets, SourceSecrets
  <2>3. Prepared'
    BY <1>2, <1>3, <2>1, <2>2
    DEF GeminiInv, Prepared, Masked, Unprepared, FromSource, AsksVertex, After
  <2>4. ReviewedAsPrepared'
    BY <1>2, <2>2 DEF ReviewedAsPrepared, SourceSecrets
  <2>5. QED
    BY <1>1, <1>4, <2>2, <2>3, <2>4, HiddenInv
<1>7. QED
  BY <1>5, <1>6, <1>1 DEF Install, Inspect, PrepareInput

Moved(j, went, came, at) ==
    [j EXCEPT !.sent = @ \cup went, !.registered = @ \cup came, !.at = at]

\* From here on there is a handle and Vertex may be asked.
LEMMA AskedInv ==
    ASSUME GeminiInv, UNCHANGED <<world, event>>,
           RegisterRequest \/ Exchange \/ ExchangeFails \/ Execute
    PROVE  GeminiInv'
<1>1. UNCHANGED <<attempt, runtime, jobs, shown>> /\ job \in JobRecords /\ runtime \in Runtimes
      /\ job.at \in AsksVertex \cup {"exchange"} /\ job.handle # "none"
  BY DEF RegisterRequest, Exchange, ExchangeFails, Execute, AsksVertex, GeminiInv, GeminiTypes,
         Prepared
<1>2. /\ job.sent \subseteq job.registered
      /\ job.at \in AsksVertex => job.at \in job.registered
      /\ \A m \in job.reviewed : MergesEvent(m)
      /\ \A i \in job.input : i.base = event.base /\ MergesEvent(i.reviewed)
  BY DEF GeminiInv, ReviewedAsPrepared, Prepared, Masked
<1>3. \A m : MergesEvent(m)' = MergesEvent(m)
  BY DEF MergesEvent
<1>4. DOMAIN After = {"oidcRequest", "assertion", "stsToken"}
      /\ After["oidcRequest"] = "assertion" /\ After["assertion"] = "stsToken"
      /\ After["stsToken"] = "accessToken"
  BY DEF After
<1>5. AsksVertex = {"oidcRequest", "assertion", "stsToken", "accessToken"}
  BY <1>4 DEF AsksVertex
<1>6. ASSUME NEW at \in AsksVertex \cup {"failed"}, NEW came \in SUBSET Secrets,
             NEW went \in SUBSET Secrets,
             job' = Moved(job, went, came, at),
             went \subseteq job.registered, at \in AsksVertex => at \in came
      PROVE  GeminiInv'
  <2>1. at \in Stages
    BY <1>6 DEF Stages
  <2>2. /\ job' \in JobRecords /\ job'.at = at
        /\ job'.handle = job.handle /\ job'.started = job.started
        /\ job'.input = job.input /\ job'.reviewed = job.reviewed
        /\ job'.inspected = job.inspected
        /\ job'.sent = job.sent \cup went /\ job'.registered = job.registered \cup came
    BY <1>1, <1>6, <2>1 DEF JobRecords, Moved
  <2>3. at \notin Unprepared \cup {"authorize", "exchange", "ended"} /\ at \notin FromSource
        /\ job.at # "ended"
    BY <1>1, <1>5, <1>6 DEF Unprepared, FromSource
  <2>4. Prepared'
    BY <1>1, <1>2, <1>3, <1>6, <2>2, <2>3 DEF Prepared, Masked
  <2>5. ReviewedAsPrepared'
    BY <1>1, <1>2, <1>3, <1>6, <2>2 DEF GeminiInv, ReviewedAsPrepared
  <2>6. QED
    BY <1>1, <2>2, <2>3, <2>4, <2>5, HiddenInv
<1>7. CASE RegisterRequest
  <2>1. job' = Moved(job, {}, {"oidcRequest"}, "oidcRequest")
    BY <1>1, <1>7 DEF RegisterRequest, JobRecords, Moved
  <2>2. "oidcRequest" \in Secrets
    BY DEF Secrets, VertexSecrets
  <2>3. QED
    BY <1>5, <1>6, <2>1, <2>2
<1>8. CASE Exchange
  <2>1. job.at \in {"oidcRequest", "assertion", "stsToken"}
        /\ job' = Moved(job, {job.at}, {After[job.at]}, After[job.at])
    BY <1>4, <1>8 DEF Exchange, Moved
  <2>2. job.at \in Secrets /\ After[job.at] \in Secrets /\ After[job.at] \in AsksVertex
    BY <1>4, <1>5, <2>1 DEF Secrets, VertexSecrets
  <2>3. job.at \in job.registered
    BY <1>2, <1>5, <2>1
  <2>4. QED
    BY <1>6, <2>1, <2>2, <2>3
<1>9. CASE ExchangeFails
  <2>1. job.at \in {"oidcRequest", "assertion", "stsToken"}
        /\ job' = Moved(job, {job.at}, {}, "failed")
    BY <1>1, <1>4, <1>9 DEF ExchangeFails, JobRecords, Moved
  <2>2. job.at \in Secrets /\ job.at \in job.registered
    BY <1>2, <1>5, <2>1 DEF Secrets, VertexSecrets
  <2>3. "failed" \notin AsksVertex
    BY <1>5
  <2>4. QED
    BY <1>6, <2>1, <2>2, <2>3
<1>10. CASE Execute
  <2>1. /\ Call \subseteq [base : 1 .. LastMain, reviewed : Merges, runtime : Runtimes]
        /\ \A c \in Call : c.base = event.base /\ MergesEvent(c.reviewed) /\ c.runtime = runtime
    BY <1>1, <1>2 DEF Call, JobRecords, Inputs
  <2>2. job.at = "accessToken" /\ "accessToken" \in job.registered
    BY <1>2, <1>5, <1>10 DEF Execute
  <2>3. /\ job' \in JobRecords /\ job'.at \in {"review", "failed"} /\ job'.handle = "consumed"
        /\ job'.input = job.input /\ job'.reviewed = job.reviewed
        /\ job'.inspected = job.inspected
        /\ job'.sent \subseteq job'.registered
        /\ \/ job'.started = job.started
           \/ job'.started = Call /\ runtime.hashed \in job.inspected
    <3>1. CASE SameRuntime
      BY <1>1, <1>2, <1>10, <2>1, <2>2, <3>1
      DEF Execute, SameRuntime, JobRecords, Stages, Secrets, VertexSecrets
    <3>2. CASE ~SameRuntime
      BY <1>1, <1>2, <1>10, <3>2 DEF Execute, JobRecords, Stages
    <3>3. QED
      BY <3>1, <3>2
  <2>4. job'.at \notin Unprepared \cup AsksVertex \cup FromSource \cup {"exchange", "ended"}
        /\ job.at # "ended"
    BY <1>5, <2>2, <2>3 DEF Unprepared, FromSource
  <2>5. Prepared'
    BY <1>2, <1>3, <2>3, <2>4 DEF Prepared, Masked, Unprepared
  <2>6. ReviewedAsPrepared'
    BY <1>3, <2>1, <2>3 DEF GeminiInv, ReviewedAsPrepared
  <2>7. QED
    BY <1>1, <2>3, <2>4, <2>5, <2>6, HiddenInv
<1>11. QED
  BY <1>7, <1>8, <1>9, <1>10

\* What is left of the process decides nothing about what was prepared.
LEMMA SettledInv ==
    ASSUME GeminiInv, UNCHANGED <<world, event>>,
           Converse \/ Decide \/ JobFails \/ RuntimeChanges
    PROVE  GeminiInv'
<1>1. UNCHANGED <<attempt, jobs, shown>> /\ job \in JobRecords /\ runtime' \in Runtimes
  BY DEF Converse, Decide, JobFails, RuntimeChanges, GeminiInv, GeminiTypes, Runtimes, Hashes,
         NoRuntime, Runtime
<1>2. /\ job' \in JobRecords
      /\ job'.at = job.at \/ job'.at \in {"decide", "publish", "failed"}
      /\ job'.at = "ended" <=> job.at = "ended"
      /\ job'.handle = job.handle /\ job'.started = job.started
      /\ job'.input = job.input /\ job'.reviewed = job.reviewed
      /\ job'.inspected = job.inspected
      /\ job'.sent = job.sent /\ job'.registered = job.registered
  <2>1. CASE Converse
    BY <1>1, <2>1 DEF Converse, JobRecords, Stages
  <2>2. CASE Decide
    <3>1. PICK c \in Conclusions : job' = [job EXCEPT !.conclusion = {c}, !.at = "publish"]
      BY <2>2 DEF Decide, Conclusions
    <3>2. job.at # "ended"
      BY <2>2 DEF Decide
    <3>3. QED
      BY <1>1, <3>1, <3>2 DEF JobRecords, Stages
  <2>3. CASE JobFails
    BY <1>1, <2>3 DEF JobFails, JobRecords, Stages
  <2>4. CASE RuntimeChanges
    BY <1>1, <2>4 DEF RuntimeChanges
  <2>5. QED
    BY <2>1, <2>2, <2>3, <2>4
<1>3. \A m : MergesEvent(m)' = MergesEvent(m)
  BY DEF MergesEvent
<1>4. {"decide", "publish", "failed"} \cap
          (Unprepared \cup FromSource \cup AsksVertex \cup {"exchange", "authorize"}) = {}
  BY DEF Unprepared, FromSource, AsksVertex, After
<1>5. Prepared' /\ ReviewedAsPrepared'
  BY <1>2, <1>3, <1>4 DEF GeminiInv, Prepared, Masked, ReviewedAsPrepared
<1>6. QED
  BY <1>1, <1>2, <1>5, HiddenInv

-----------------------------------------------------------------------------
\* Steps that change what GitHub shows.

\* What a step may do to the process without touching what was prepared.
Settles(at) ==
    job' = [job EXCEPT !.at = at] /\ at \in Stages \ (Unprepared \cup AsksVertex \cup {"exchange"})

LEMMA SettlesInv ==
    ASSUME GeminiInv, UNCHANGED event, NEW at, Settles(at)
    PROVE  job' \in JobRecords /\ job'.at = at /\ Prepared' /\ ReviewedAsPrepared'
<1>1. /\ job \in JobRecords /\ at \in Stages
      /\ at \notin Unprepared \cup FromSource /\ at \notin AsksVertex \cup {"exchange", "authorize"}
  BY DEF Settles, GeminiInv, GeminiTypes, Unprepared, FromSource
<1>2. /\ job' \in JobRecords /\ job'.at = at
      /\ job'.handle = job.handle /\ job'.started = job.started
      /\ job'.input = job.input /\ job'.reviewed = job.reviewed
      /\ job'.inspected = job.inspected
      /\ job'.sent = job.sent /\ job'.registered = job.registered
  BY <1>1 DEF Settles, JobRecords
<1>3. \A m : MergesEvent(m)' = MergesEvent(m)
  BY DEF MergesEvent
<1>4. QED
  BY <1>1, <1>2, <1>3 DEF GeminiInv, Prepared, Masked, ReviewedAsPrepared

LEMMA PublicationOfEvent ==
    ASSUME GeminiInv
    PROVE  \A p \in Publication :
               p \in Publications /\ p.attempt = attempt /\ MergesEvent(p.reviewed)
<1>1. job \in JobRecords /\ attempt \in Attempts /\ \A s \in job.started : MergesEvent(s.reviewed)
  BY DEF GeminiInv, GeminiTypes, ReviewedAsPrepared
<1>2. QED
  BY <1>1 DEF Publication, Publications, JobRecords

\* The outputs and the publication are written while the job is not concluded,
\* and what is displayed is of concluded jobs.
LEMMA WrittenInv ==
    ASSUME GeminiInv, UNCHANGED <<world, event>>, WriteOutputs \/ Emit
    PROVE  GeminiInv'
<1>1. UNCHANGED <<attempt, runtime, shown>> /\ job.at # "ended"
  BY DEF WriteOutputs, Emit
<1>2. job' \in JobRecords /\ job'.at # "ended" /\ Prepared' /\ ReviewedAsPrepared'
  <2>1. Settles("emit") \/ Settles("emitted")
    BY DEF WriteOutputs, Emit, Settles, Stages, Unprepared, AsksVertex, After
  <2>2. QED
    BY <2>1, SettlesInv
<1>3. \A m : MergesEvent(m)' = MergesEvent(m)
  BY DEF MergesEvent
<1>4. /\ attempt \in Attempts /\ jobs \in [Attempts -> ShownJobs] /\ shown \in [Attempts -> Displays]
      /\ jobs[attempt].result = "none"
  BY <1>1 DEF GeminiInv, GeminiTypes, Recorded
<1>5. PICK j : /\ jobs' = [jobs EXCEPT ![attempt] = j]
               /\ j \in ShownJobs /\ j.result = "none"
               /\ \A i \in DOMAIN j.log :
                     j.log[i].attempt <= attempt /\ MergesEvent(j.log[i].reviewed)
  <2>1. \A i \in DOMAIN jobs[attempt].log :
           /\ jobs[attempt].log[i].attempt <= attempt
           /\ MergesEvent(jobs[attempt].log[i].reviewed)
    BY <1>4 DEF GeminiInv, Recorded
  <2>2. CASE WriteOutputs
    <3> DEFINE o == {[nonce |-> p.nonce, reviewed |-> p.reviewed, conclusion |-> p.conclusion] :
                        p \in Publication}
               j == [jobs[attempt] EXCEPT !.outputs = o]
    <3>1. jobs' = [jobs EXCEPT ![attempt] = j]
      BY <2>2, <1>4 DEF WriteOutputs
    <3>2. o \subseteq [nonce : Attempts, reviewed : Merges, conclusion : Conclusions]
      BY PublicationOfEvent DEF Publications
    <3> HIDE DEF o
    <3>3. j \in ShownJobs /\ j.result = "none" /\ j.log = jobs[attempt].log
      BY <1>4, <3>2 DEF ShownJobs
    <3>4. QED
      BY <2>1, <3>1, <3>3
  <2>3. CASE Emit
    <3>1. PICK p \in Publication : jobs' = [jobs EXCEPT ![attempt].log = Append(@, p)]
      BY <2>3 DEF Emit
    <3>2. p \in Publications /\ p.attempt = attempt /\ MergesEvent(p.reviewed)
      BY PublicationOfEvent
    <3> DEFINE l == Append(jobs[attempt].log, p)
               j == [jobs[attempt] EXCEPT !.log = l]
    <3>3. jobs' = [jobs EXCEPT ![attempt] = j]
      BY <3>1, <1>4
    <3>4. jobs[attempt].log \in Seq(Publications)
      BY <1>4 DEF ShownJobs
    <3>5. /\ l \in Seq(Publications)
          /\ \A i \in DOMAIN l : (i \in DOMAIN jobs[attempt].log /\ l[i] = jobs[attempt].log[i]) \/ l[i] = p
      BY <3>2, <3>4
    <3> HIDE DEF l
    <3>6. j \in ShownJobs /\ j.result = "none" /\ j.log = l
      BY <1>4, <3>5 DEF ShownJobs
    <3>7. attempt <= attempt
      BY <1>4 DEF Attempts
    <3>8. \A i \in DOMAIN l : l[i].attempt <= attempt /\ MergesEvent(l[i].reviewed)
      BY <2>1, <3>2, <3>5, <3>7
    <3> HIDE DEF j
    <3>9. QED
      BY <3>3, <3>6, <3>8
  <2>4. QED
    BY <2>2, <2>3
<1>6. jobs' \in [Attempts -> ShownJobs] /\ jobs'[attempt] = j
      /\ \A a \in Attempts : a # attempt => jobs'[a] = jobs[a]
  BY <1>4, <1>5
<1>7. WorldTypes' /\ GeminiTypes'
  BY <1>1, <1>2, <1>6 DEF GeminiInv, WorldTypes, GeminiTypes, world
<1>8. Recorded'
  <2>1. \A a \in Attempts : a > attempt => a # attempt
    BY <1>4 DEF Attempts
  <2>2. \A a \in Attempts : a > attempt => jobs'[a] = NoJob /\ shown'[a].fetch = "due"
    BY <1>1, <1>6, <2>1 DEF GeminiInv, Recorded
  <2>3. \A a \in Attempts : \A i \in DOMAIN jobs'[a].log :
           /\ jobs'[a].log[i].attempt <= a
           /\ jobs'[a].result = "carried" => jobs'[a].log[i].attempt < a
           /\ MergesEvent(jobs'[a].log[i].reviewed)
    BY <1>5, <1>6 DEF GeminiInv, Recorded
  <2>4. \A a \in Attempts : shown'[a].fetch = "due" => shown'[a].file = {}
    BY <1>1 DEF GeminiInv, Recorded
  <2>5. jobs'[attempt].result = "none"
    BY <1>5, <1>6
  <2>6. QED
    BY <1>1, <1>2, <1>3, <2>2, <2>3, <2>4, <2>5 DEF Recorded
<1>9. DisplayIsThisAttempts'
  <2>1. shown[attempt].file = {}
    BY <1>4 DEF GeminiInv, DisplayIsThisAttempts
  <2>2. QED
    BY <1>1, <1>3, <1>6, <2>1 DEF GeminiInv, DisplayIsThisAttempts, MergesEvent
<1>10. QED
  BY <1>2, <1>7, <1>8, <1>9 DEF GeminiInv

\* GitHub concludes the job.
LEMMA ConcludedInv ==
    ASSUME GeminiInv, UNCHANGED <<world, event>>, Conclude
    PROVE  GeminiInv'
<1>1. UNCHANGED <<attempt, runtime, shown>> /\ jobs[attempt].result = "none"
  BY DEF Conclude
<1>2. job' \in JobRecords /\ job'.at = "ended" /\ Prepared' /\ ReviewedAsPrepared'
  <2>1. Settles("ended")
    BY DEF Conclude, Settles, Stages, Unprepared, AsksVertex, After
  <2>2. QED
    BY <2>1, SettlesInv
<1>3. \A m : MergesEvent(m)' = MergesEvent(m)
  BY DEF MergesEvent
<1>4. /\ attempt \in Attempts /\ jobs \in [Attempts -> ShownJobs] /\ shown \in [Attempts -> Displays]
  BY DEF GeminiInv, GeminiTypes
<1>5. PICK r \in {"success", "failure"} :
         jobs' = [jobs EXCEPT ![attempt].result = r, ![attempt].listed = attempt]
  BY DEF Conclude
<1>6. /\ jobs' \in [Attempts -> ShownJobs]
      /\ jobs'[attempt].result = r /\ jobs'[attempt].log = jobs[attempt].log
      /\ \A a \in Attempts : a # attempt => jobs'[a] = jobs[a]
  <2> DEFINE j == [jobs[attempt] EXCEPT !.result = r, !.listed = attempt]
  <2>1. jobs' = [jobs EXCEPT ![attempt] = j]
    BY <1>4, <1>5
  <2>2. j \in ShownJobs /\ j.result = r /\ j.log = jobs[attempt].log
    BY <1>4 DEF ShownJobs
  <2> HIDE DEF j
  <2>3. QED
    BY <1>4, <2>1, <2>2
<1>7. WorldTypes' /\ GeminiTypes'
  BY <1>1, <1>2, <1>6 DEF GeminiInv, WorldTypes, GeminiTypes, world
<1>8. Recorded'
  <2>1. \A a \in Attempts : a > attempt => a # attempt
    BY <1>4 DEF Attempts
  <2>2. \A a \in Attempts : a > attempt => jobs'[a] = NoJob /\ shown'[a].fetch = "due"
    BY <1>1, <1>6, <2>1 DEF GeminiInv, Recorded
  <2>3. \A a \in Attempts : \A i \in DOMAIN jobs'[a].log :
           /\ jobs'[a].log[i].attempt <= a
           /\ jobs'[a].result = "carried" => jobs'[a].log[i].attempt < a
           /\ MergesEvent(jobs'[a].log[i].reviewed)
    BY <1>6 DEF GeminiInv, Recorded
  <2>4. \A a \in Attempts : shown'[a].fetch = "due" => shown'[a].file = {}
    BY <1>1 DEF GeminiInv, Recorded
  <2>5. jobs'[attempt].result # "none"
    BY <1>6
  <2>6. QED
    BY <1>1, <1>2, <1>3, <2>2, <2>3, <2>4, <2>5 DEF Recorded
<1>9. DisplayIsThisAttempts'
  <2>1. shown[attempt].file = {}
    BY <1>1, <1>4 DEF GeminiInv, DisplayIsThisAttempts
  <2>2. QED
    BY <1>1, <1>3, <1>6, <2>1 DEF GeminiInv, DisplayIsThisAttempts, MergesEvent
<1>10. QED
  BY <1>2, <1>7, <1>8, <1>9 DEF GeminiInv

\* The report of the attempt fetches, or does without.
LEMMA FetchedInv ==
    ASSUME GeminiInv, UNCHANGED <<world, event>>, Fetch \/ FetchFails
    PROVE  GeminiInv'
<1>1. UNCHANGED <<attempt, job, runtime, jobs>> /\ FetchDue
  BY DEF Fetch, FetchFails
<1>2. \A m : MergesEvent(m)' = MergesEvent(m)
  BY DEF MergesEvent
<1>3. /\ attempt \in Attempts /\ jobs \in [Attempts -> ShownJobs] /\ shown \in [Attempts -> Displays]
  BY DEF GeminiInv, GeminiTypes
<1>4. PICK d : /\ shown' = [shown EXCEPT ![attempt] = d]
               /\ d \in Displays /\ d.fetch # "due"
               /\ \A p \in d.file :
                     /\ p.attempt = attempt
                     /\ jobs[attempt].result = "success" /\ jobs[attempt].log = <<p>>
                     /\ MergesEvent(p.reviewed)
                     /\ \A o \in jobs[attempt].outputs :
                           o.reviewed = p.reviewed /\ o.conclusion = p.conclusion
  <2>1. CASE Fetch
    <3> DEFINE l == jobs[attempt].log
               d == [fetch |-> "done", file |-> {l[1]}]
    <3>1. shown' = [shown EXCEPT ![attempt] = d] /\ Retrievable(attempt)
      BY <2>1 DEF Fetch
    <3>2. /\ l \in Seq(Publications) /\ Len(l) = 1
          /\ jobs[attempt].result \in {"success", "carried"}
          /\ jobs[attempt].outputs # {}
          /\ \A o \in jobs[attempt].outputs : Bound(l[1], o, attempt)
      BY <1>3, <3>1 DEF Retrievable, ShownJobs
    <3>3. l = <<l[1]>> /\ l[1] \in Publications /\ 1 \in DOMAIN l
      BY <3>2
    <3>4. l[1].attempt = attempt
      BY <3>2 DEF Bound
    <3>5. jobs[attempt].result = "success" /\ MergesEvent(l[1].reviewed)
      <4>1. /\ MergesEvent(l[1].reviewed)
            /\ jobs[attempt].result = "carried" => l[1].attempt < attempt
        BY <1>3, <3>3 DEF GeminiInv, Recorded
      <4>2. QED
        BY <1>3, <3>2, <3>4, <4>1 DEF Attempts
    <3>6. \A o \in jobs[attempt].outputs : o.reviewed = l[1].reviewed /\ o.conclusion = l[1].conclusion
      BY <3>2 DEF Bound
    <3>7. d \in Displays /\ d.fetch # "due" /\ \A p \in d.file : p = l[1]
      BY <3>3 DEF Displays
    <3>8. QED
      BY <3>1, <3>3, <3>4, <3>5, <3>6, <3>7
  <2>2. CASE FetchFails
    <3> DEFINE d == [shown[attempt] EXCEPT !.fetch = "unavailable"]
    <3>1. shown' = [shown EXCEPT ![attempt] = d]
      BY <1>3, <2>2 DEF FetchFails
    <3>2. shown[attempt].file = {}
      BY <1>1, <1>3 DEF FetchDue, GeminiInv, Recorded
    <3>3. d \in Displays /\ d.fetch # "due" /\ d.file = {}
      BY <1>3, <3>2 DEF Displays
    <3>4. QED
      BY <3>1, <3>3
  <2>3. QED
    BY <2>1, <2>2
<1>5. /\ shown' \in [Attempts -> Displays] /\ shown'[attempt] = d
      /\ \A a \in Attempts : a # attempt => shown'[a] = shown[a]
  BY <1>3, <1>4
<1>6. WorldTypes' /\ GeminiTypes'
  BY <1>1, <1>5 DEF GeminiInv, WorldTypes, GeminiTypes, world
<1>7. Recorded'
  <2>1. \A a \in Attempts : a > attempt => a # attempt
    BY <1>3 DEF Attempts
  <2>2. QED
    BY <1>1, <1>2, <1>4, <1>5, <2>1 DEF GeminiInv, Recorded, MergesEvent
<1>8. DisplayIsThisAttempts'
  BY <1>1, <1>2, <1>4, <1>5 DEF GeminiInv, DisplayIsThisAttempts, MergesEvent
<1>9. Prepared' /\ ReviewedAsPrepared'
  BY <1>1, <1>2 DEF GeminiInv, Prepared, Masked, ReviewedAsPrepared, MergesEvent
<1>10. QED
  BY <1>6, <1>7, <1>8, <1>9 DEF GeminiInv

\* The next attempt, which may keep the job of this one and what it shows.
LEMMA RunAgainInv ==
    ASSUME GeminiInv, UNCHANGED <<world, event>>, RunAgain
    PROVE  GeminiInv'
<1> DEFINE b == attempt + 1
<1>1. shown' = shown /\ attempt' = b /\ runtime' = NoRuntime
  BY DEF RunAgain
<1>2. /\ attempt \in Attempts /\ b \in Attempts /\ b > attempt
      /\ jobs \in [Attempts -> ShownJobs] /\ shown \in [Attempts -> Displays]
      /\ \A a \in Attempts : a > b => a > attempt
  BY AttemptsAssumption DEF RunAgain, GeminiInv, GeminiTypes, Attempts
<1> HIDE DEF b
<1>3. \A m : MergesEvent(m)' = MergesEvent(m)
  BY DEF MergesEvent
<1>4. jobs[b] = NoJob /\ shown[b].fetch = "due" /\ shown[b].file = {}
  BY <1>2 DEF GeminiInv, Recorded
<1>5. /\ job' \in JobRecords /\ job'.at \in {"register", "ended"}
      /\ job'.handle = "none" /\ job'.started = {} /\ job'.input = {} /\ job'.reviewed = {}
      /\ job'.sent = {}
  <2>1. job' = NewJob \/ job' = [NewJob EXCEPT !.at = "ended"]
    BY DEF RunAgain
  <2>2. QED
    BY <2>1 DEF NewJob, JobRecords, Stages, Unprepared
<1>6. Prepared' /\ ReviewedAsPrepared'
  BY <1>5 DEF Prepared, Masked, FromSource, AsksVertex, ReviewedAsPrepared, After
<1>7. PICK j : /\ jobs' = [jobs EXCEPT ![b] = j]
               /\ j \in ShownJobs
               /\ j.result = "none" <=> job'.at # "ended"
               /\ \A i \in DOMAIN j.log : j.log[i].attempt < b /\ MergesEvent(j.log[i].reviewed)
  <2>1. CASE job' = NewJob /\ jobs' = jobs
    <3>1. jobs' = [jobs EXCEPT ![b] = NoJob]
      BY <1>2, <1>4, <2>1
    <3>2. NoJob \in ShownJobs /\ NoJob.result = "none" /\ DOMAIN NoJob.log = {} /\ job'.at # "ended"
      BY <2>1 DEF NoJob, NewJob, ShownJobs
    <3>3. QED
      BY <3>1, <3>2
  <2>2. CASE job' = [NewJob EXCEPT !.at = "ended"]
             /\ \E n \in {jobs[attempt].listed, attempt + 1} :
                   jobs' = [jobs EXCEPT ![attempt + 1] =
                               [jobs[attempt] EXCEPT !.result = "carried", !.listed = n]]
    <3>1. PICK n \in {jobs[attempt].listed, b} :
             jobs' = [jobs EXCEPT ![b] = [jobs[attempt] EXCEPT !.result = "carried", !.listed = n]]
      BY <2>2 DEF b
    <3> DEFINE j == [jobs[attempt] EXCEPT !.result = "carried", !.listed = n]
    <3>2. j \in ShownJobs /\ j.result = "carried" /\ j.log = jobs[attempt].log
      BY <1>2, <3>1 DEF ShownJobs
    <3>3. \A i \in DOMAIN jobs[attempt].log :
             jobs[attempt].log[i].attempt < b /\ MergesEvent(jobs[attempt].log[i].reviewed)
      <4>1. ASSUME NEW i \in DOMAIN jobs[attempt].log
            PROVE  jobs[attempt].log[i].attempt < b /\ MergesEvent(jobs[attempt].log[i].reviewed)
        <5>1. /\ jobs[attempt].log[i].attempt <= attempt
              /\ MergesEvent(jobs[attempt].log[i].reviewed)
          BY <1>2, <4>1 DEF GeminiInv, Recorded
        <5>2. jobs[attempt].log \in Seq(Publications)
          BY <1>2 DEF ShownJobs
        <5>3. jobs[attempt].log[i] \in Publications
          BY <4>1, <5>2
        <5>4. QED
          BY <1>2, <5>1, <5>3 DEF Publications, Attempts
      <4>2. QED
        BY <4>1
    <3>4. job'.at = "ended"
      BY <2>2 DEF NewJob
    <3> HIDE DEF j
    <3>5. jobs' = [jobs EXCEPT ![b] = j]
      BY <3>1 DEF j
    <3>6. QED
      BY <3>2, <3>3, <3>4, <3>5
  <2>3. QED
    BY <2>1, <2>2 DEF RunAgain
<1>8. jobs' \in [Attempts -> ShownJobs] /\ jobs'[b] = j
      /\ \A a \in Attempts : a # b => jobs'[a] = jobs[a]
  BY <1>2, <1>7
<1>9. WorldTypes' /\ GeminiTypes'
  BY <1>1, <1>2, <1>5, <1>8 DEF GeminiInv, WorldTypes, GeminiTypes, world, Runtimes, Hashes, NoRuntime, Runtime
<1>10. Recorded'
  <2>1. \A a \in Attempts : a > b => a # b
    BY <1>2 DEF Attempts
  <2>2. \A a \in Attempts : a > b => jobs'[a] = NoJob /\ shown'[a].fetch = "due"
    BY <1>1, <1>2, <1>8, <2>1 DEF GeminiInv, Recorded
  <2>3. ASSUME NEW a \in Attempts, NEW i \in DOMAIN jobs'[a].log
        PROVE  /\ jobs'[a].log[i].attempt <= a
               /\ jobs'[a].result = "carried" => jobs'[a].log[i].attempt < a
               /\ MergesEvent(jobs'[a].log[i].reviewed)
    <3>1. CASE a = b
      <4>1. jobs'[a].log \in Seq(Publications)
        BY <1>8 DEF ShownJobs
      <4>2. jobs'[a].log[i] \in Publications
        BY <2>3, <4>1
      <4>3. QED
        BY <1>2, <1>7, <1>8, <3>1, <4>2 DEF Publications, Attempts
    <3>2. CASE a # b
      BY <1>8, <3>2 DEF GeminiInv, Recorded
    <3>3. QED
      BY <3>1, <3>2
  <2>4. \A a \in Attempts : shown'[a].fetch = "due" => shown'[a].file = {}
    BY <1>1 DEF GeminiInv, Recorded
  <2>5. jobs'[attempt'].result = "none" <=> job'.at # "ended"
    BY <1>1, <1>7, <1>8
  <2>6. QED
    BY <1>1, <1>3, <2>2, <2>3, <2>4, <2>5 DEF Recorded
<1>11. DisplayIsThisAttempts'
  BY <1>1, <1>3, <1>4, <1>8 DEF GeminiInv, DisplayIsThisAttempts, MergesEvent
<1>12. QED
  BY <1>6, <1>9, <1>10, <1>11 DEF GeminiInv

LEMMA GeminiStepInv == ASSUME GeminiInv, [GeminiNext]_geminiVars PROVE GeminiInv'
<1>1. CASE UNCHANGED geminiVars
  <2>1. UNCHANGED <<world, event, attempt, job, runtime, jobs, shown>>
    BY <1>1 DEF geminiVars, gemini
  <2>2. job \in JobRecords /\ runtime \in Runtimes
    BY DEF GeminiInv, GeminiTypes
  <2>3. Prepared' /\ ReviewedAsPrepared'
    BY <2>1 DEF GeminiInv, Prepared, Masked, ReviewedAsPrepared, MergesEvent
  <2>4. QED
    BY <2>1, <2>2, <2>3, HiddenInv
<1>2. CASE Gemini /\ UNCHANGED <<world, event>>
  BY <1>2, FoundInv, AssembledInv, AskedInv, SettledInv, WrittenInv, ConcludedInv, FetchedInv,
     RunAgainInv
  DEF Gemini
<1>3. QED
  BY <1>1, <1>2, GitHubInv DEF GeminiNext

LEMMA GeminiInvariant == GeminiSpec => []GeminiInv
  BY GeminiInitInv, GeminiStepInv, PTL DEF GeminiSpec

\* A session reviews a merge of the base and head of the event with the lock,
\* package.json and entry point that were inspected, whatever GitHub merges anew
\* and whatever happens on the runner; every secret was registered before it
\* was sent, and Vertex is asked for nothing before the inputs are complete.
THEOREM PreparationBinds == GeminiSpec => []ReviewedAsPrepared
  BY GeminiInvariant, PTL DEF GeminiInv

\* A report displays what the successful job of its own attempt emitted, and
\* never what was carried over, whatever number GitHub lists that job under.
THEOREM DisplayBinds == GeminiSpec => []DisplayIsThisAttempts
  BY GeminiInvariant, PTL DEF GeminiInv
=============================================================================
