-------------------------- MODULE AdditionFinalizer --------------------------
(***************************************************************************)
(* The adoption of an Owner addition: the attempts of the producer run     *)
(* that judge a pull request, the merge, and the finalizer that reads both *)
(* back, one API call after the other, and writes an adoption record       *)
(* (src/src/owner-addition/finalize-owner-addition.mts, with the           *)
(* provenance and the readback it calls). Branch, tag, artifacts and run   *)
(* go on changing while it reads. What a commit contains is a set of       *)
(* changes; a time is a second of the clock, and several things may happen *)
(* in one second.                                                          *)
(***************************************************************************)
EXTENDS AdoptionEvaluation, FiniteSets, SequencesExt

CONSTANTS
    Edits,          \* the changes people push to the target branch
    MaxCommits,     \* bound on the commits, so that the graph is finite
    MaxAttempts,    \* bound on the attempts of the producer run
    MaxTime,        \* bound on the clock
    MaxListed       \* the commits a comparison may list: 250

ASSUME BoundsAssumption ==
    /\ MaxListed \in Nat
    /\ MaxCommits \in Nat \ {0} /\ MaxAttempts \in Nat /\ MaxTime \in Nat
    /\ Edits \subseteq {"route", "amend", "nothing"}

VARIABLES
    commits,    \* every commit: its parents and its changes
    main,       \* the tip of the target branch
    head,       \* the head of the pull request, 0 before it is opened
    merge,      \* the merge commit, 0 while the pull request is open
    mergedAt,   \* the second of the merge
    tag,        \* where the tag of the addition points: a commit, or 0
    attempts,   \* the attempts of the producer run
    clock,
    phase,      \* what the finalizer does next
    seen,       \* what it has read so far
    tips,       \* the tips the branch had since it started
    record      \* the adoption records written

git == <<commits, main, head, merge, mergedAt, tag>>
finalizer == <<phase, seen, tips, record>>
adoptionVars == <<git, attempts, clock, finalizer>>

-----------------------------------------------------------------------------
Content(c) == commits[c].content
Parents(c) == commits[c].parents

\* The commits a commit contains; parents are older than their children.
Ancestors(c) ==
    LET up[n \in 0 .. MaxCommits] ==
            IF n = 0 THEN {c}
            ELSE up[n - 1] \cup UNION {Range(Parents(x)) : x \in up[n - 1]}
    IN  up[MaxCommits]

\* What the file of the Authority says.
Authority(c) == Content(c) \cap {"addition", "amend"}

\* The caller workflow and the policy of a commit select the procedural route.
RouteSelected(c) == "route" \in Content(c)

Attempt(h, b) ==
    [head |-> h, base |-> b, state |-> "running", verdict |-> "eligible",
     uploadedAt |-> 0, doneAt |-> 0, acceptedAt |-> 0]

Waiting == [mergeSha |-> 0, base |-> 0, b |-> 0, attempt |-> 0, target |-> 0, tagRef |-> 0,
            authority |-> {}]

-----------------------------------------------------------------------------
InitAdoption ==
    /\ \E content \in SUBSET {"route"} : commits = <<[parents |-> <<>>, content |-> content]>>
    /\ main = 1 /\ head = 0 /\ merge = 0 /\ mergedAt = 0 /\ tag = 0
    /\ attempts = <<>> /\ clock = 1
    /\ phase = "idle" /\ seen = Waiting /\ tips = {} /\ record = {}

Commit(parents, content) ==
    /\ Len(commits) < MaxCommits
    /\ commits' = Append(commits, [parents |-> parents, content |-> content])

Moves(c) == main' = c /\ tips' = tips \cup {c}

\* Somebody makes or takes back a change on the branch; a commit may also
\* change nothing.
PushMain ==
    /\ \E e \in Edits \cup {"addition"} :
         /\ e = "addition" => e \in Content(main)
         /\ Commit(<<main>>, IF e \in Content(main) THEN Content(main) \ {e}
                            ELSE Content(main) \cup ({e} \ {"nothing"}))
    /\ Moves(Len(commits'))
    /\ UNCHANGED <<head, merge, mergedAt, tag, attempts, clock, phase, seen, record>>

\* The branch is set back to a parent of its tip.
ResetMain ==
    /\ Parents(main) # <<>>
    /\ Moves(Parents(main)[1])
    /\ UNCHANGED <<commits, head, merge, mergedAt, tag, attempts, clock, phase, seen, record>>

\* The pull request adds one decision to what the branch holds now; its tag
\* is made for this head.
ProposeAddition ==
    /\ merge = 0
    /\ Commit(<<main>>, Content(main) \cup {"addition"})
    /\ head' = Len(commits') /\ tag' = Len(commits')
    /\ UNCHANGED <<main, merge, mergedAt, attempts, clock, finalizer>>

MoveTag ==
    /\ tag # 0 /\ tag' \in {0, main} \ {tag}
    /\ UNCHANGED <<commits, main, head, merge, mergedAt, attempts, clock, finalizer>>

\* A merge commit of the tip and the head brings what the pull request adds; a
\* squash has one parent.
Merge ==
    /\ head # 0 /\ merge = 0 /\ head \notin Ancestors(main)
    /\ \E parents \in {<<main, head>>, <<main>>} :
            Commit(parents, Content(main) \cup (Content(head) \ Content(Parents(head)[1])))
    /\ merge' = Len(commits') /\ mergedAt' = clock
    /\ Moves(Len(commits'))
    /\ UNCHANGED <<head, tag, attempts, clock, phase, seen, record>>

Tick ==
    /\ clock < MaxTime /\ clock' = clock + 1
    /\ UNCHANGED <<git, attempts, finalizer>>

\* The producer judges the head against the base of this moment.
StartAttempt ==
    /\ head # 0 /\ merge = 0 /\ Len(attempts) < MaxAttempts
    /\ \A a \in DOMAIN attempts : attempts[a].state \in {"accepted", "failed"}
    /\ attempts' = Append(attempts, Attempt(head, main))
    /\ UNCHANGED <<git, clock, finalizer>>

\* The evidence is uploaded, then bound by an annotation; the job ends, and
\* accept after it. A job may fail at any time.
RunAttempt ==
    /\ \E a \in DOMAIN attempts :
         \/ /\ attempts[a].state = "running"
            /\ \E v \in {"eligible", "ineligible"} :
                 attempts' = [attempts EXCEPT ![a].state = "uploaded", ![a].verdict = v,
                                              ![a].uploadedAt = clock]
         \/ /\ attempts[a].state = "uploaded"
            /\ attempts' = [attempts EXCEPT ![a].state = "done", ![a].doneAt = clock]
         \/ /\ attempts[a].state = "done"
            /\ attempts' = [attempts EXCEPT ![a].state = "accepted", ![a].acceptedAt = clock]
         \/ /\ attempts[a].state \in {"running", "uploaded", "done"}
            /\ attempts' = [attempts EXCEPT ![a].state = "failed"]
    /\ UNCHANGED <<git, clock, finalizer>>

World ==
    \/ PushMain \/ ResetMain \/ ProposeAddition \/ MoveTag \/ Merge \/ Tick
    \/ StartAttempt \/ RunAttempt

-----------------------------------------------------------------------------
\* finalizeOwnerAddition

Resting == {"idle", "failed", "refused", "done"}

Goes(ok, next, what) ==
    /\ phase' = IF ok THEN next ELSE "refused"
    /\ seen' = IF ok THEN what ELSE seen
    /\ UNCHANGED <<git, attempts, clock, tips, record>>

\* Once the pull request is merged the operator names an attempt, and starts
\* again when a run was in vain.
Begin(a) ==
    /\ merge # 0
    /\ phase \in Resting \ {"done"} /\ a \in DOMAIN attempts
    /\ phase' = "pull" /\ seen' = [Waiting EXCEPT !.attempt = a] /\ tips' = {main}
    /\ UNCHANGED <<git, attempts, clock, record>>

\* A call that fails ends the run.
CallFails ==
    /\ phase \notin Resting
    /\ phase' = "failed"
    /\ UNCHANGED <<git, attempts, clock, seen, tips, record>>

\* The evidence expired or arrives damaged.
EvidenceLost ==
    /\ phase = "artifact"
    /\ phase' = "failed"
    /\ UNCHANGED <<git, attempts, clock, seen, tips, record>>

\* The pull request and the commits of its merge: an ordinary merge of exactly
\* the head, with the tree of the head.
ReadMerge ==
    /\ phase = "pull"
    /\ LET ordinary == /\ Len(Parents(merge)) = 2
                       /\ Parents(merge)[2] = head /\ Content(merge) = Content(head)
       IN  Goes(ordinary, "policy",
                [seen EXCEPT !.mergeSha = merge, !.b = head,
                             !.base = IF ordinary THEN Parents(merge)[1] ELSE 0])

\* Caller, workflow and policy as the recorded base has them.
ReadPolicy ==
    /\ phase = "policy"
    /\ Goes(RouteSelected(seen.base), "run", seen)

\* The attempt, its jobs and their checks, all of them over before the merge.
\* GitHub may have forgotten which pull request the run was linked to.
ReadRun ==
    /\ phase = "run"
    /\ LET a == attempts[seen.attempt]
       IN  \E linked \in BOOLEAN :
           Goes(/\ a.state = "accepted" /\ a.head = seen.b
                /\ linked => a.base = seen.base
                /\ a.doneAt < mergedAt /\ a.acceptedAt < mergedAt, "artifact", seen)

\* The evidence, which names the base and the head it judged.
ReadArtifact ==
    /\ phase = "artifact"
    /\ LET a == attempts[seen.attempt]
       IN  Goes(/\ a.uploadedAt <= a.doneAt /\ a.uploadedAt < mergedAt
                /\ a.head = seen.b /\ a.base = seen.base
                /\ a.verdict = "eligible", "tagObject", seen)

\* The object of the tag never changes, and decides nothing when GitHub no
\* longer has it.
ReadTagObject ==
    /\ phase = "tagObject"
    /\ Goes(TRUE, "tagRef", seen)

\* Mutant: the tag must still be there.
RequireTagRef ==
    /\ phase = "tagRef"
    /\ Goes(tag = seen.b, "target", [seen EXCEPT !.tagRef = tag])

\* Where the tag points today is noted and decides nothing.
ReadTagRef ==
    /\ phase = "tagRef"
    /\ Goes(TRUE, "target", [seen EXCEPT !.tagRef = tag])

ReadTarget ==
    /\ phase = "target"
    /\ Goes(TRUE, "compare", [seen EXCEPT !.target = main])

\* The branch went on by more commits than a comparison with the merge may list.
TooFar(from, to) == Cardinality(Ancestors(to) \ Ancestors(from)) > MaxListed

\* GitHub lists all the commits, or the page that was asked for.
Compare ==
    /\ phase = "compare"
    /\ \E all \in BOOLEAN :
         Goes(/\ seen.mergeSha \in Ancestors(seen.target)
              /\ all => ~TooFar(seen.mergeSha, seen.target), "authority", seen)

\* Mutant: the file is read from the branch, wherever it is by now.
ReadAuthorityOfBranch ==
    /\ phase = "authority"
    /\ Goes(Authority(main) = Authority(seen.b), "build", [seen EXCEPT !.authority = Authority(main)])

ReadAuthority ==
    /\ phase = "authority"
    /\ Goes(Authority(seen.target) = Authority(seen.b), "build",
            [seen EXCEPT !.authority = Authority(seen.target)])

\* verifyOwnerAdditionReadback
ReadbackHolds ==
    /\ seen.mergeSha \in Ancestors(seen.target)
    /\ seen.authority = Authority(seen.b)

\* What the finalizer hands to the evaluation.
Facts ==
    [procedure |-> "bound", ordinary |-> "bound", set |-> "bound", eligible |-> "bound",
     verdict |-> "eligible", merge |-> "bound", evidence |-> "bound",
     before |-> attempts[seen.attempt].doneAt < mergedAt,
     readback |-> IF ReadbackHolds THEN "bound" ELSE "wrong"]

Build ==
    /\ phase = "build"
    /\ IF Adoption(Facts) = "valid"
       THEN phase' = "done" /\ record' = record \cup {seen}
       ELSE phase' = "refused" /\ UNCHANGED record
    /\ UNCHANGED <<git, attempts, clock, seen, tips>>

Finalize ==
    \/ CallFails \/ EvidenceLost \/ ReadMerge \/ ReadPolicy \/ ReadRun
    \/ ReadArtifact \/ ReadTagObject \/ ReadTagRef \/ ReadTarget \/ Compare \/ ReadAuthority \/ Build

AdoptionNext == World \/ Finalize \/ \E a \in 1 .. MaxAttempts : Begin(a)

AdoptionSpec == InitAdoption /\ [][AdoptionNext]_adoptionVars

-----------------------------------------------------------------------------
\* An adoption record stands for an ordinary merge of the very head that was
\* found eligible, on the very base it was judged against, before the merge,
\* under a route that base selects; and its canonical state is one revision:
\* the branch pointed at it while the finalizer ran, it contains the merge, and
\* its Authority is the one that was judged (finalize-owner-addition.mts:265-362,
\* github-owner-addition-provenance.mts:153-371).
RecordBindsTheMerge ==
    \A r \in record :
        LET a == attempts[r.attempt]
        IN  /\ Parents(r.mergeSha) = <<r.base, r.b>> /\ Content(r.mergeSha) = Content(r.b)
            /\ a.head = r.b /\ a.base = r.base /\ a.verdict = "eligible"
            /\ a.acceptedAt < mergedAt
            /\ RouteSelected(r.base)
            /\ r.target \in tips
            /\ r.mergeSha \in Ancestors(r.target)
            /\ Authority(r.target) = Authority(r.b)

\* Nothing but what is wrong refuses an adoption, or a branch that went on too
\* far to be compared: not the tag, and not what the branch became after it was
\* read (finalize-owner-addition.mts:341-348).
RefusedForCause ==
    phase = "refused" =>
        LET a == attempts[seen.attempt]
        IN  \/ Parents(merge) # <<a.base, a.head>> \/ Content(merge) # Content(a.head)
            \/ a.state # "accepted" \/ a.verdict # "eligible"
            \/ a.acceptedAt >= mergedAt \/ ~RouteSelected(a.base)
            \/ \E t \in tips : \/ merge \notin Ancestors(t) \/ TooFar(merge, t)
                               \/ Authority(t) # Authority(a.head)
=============================================================================
