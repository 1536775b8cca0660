-------------------------- MODULE PublicationProofs --------------------------
(***************************************************************************)
(* TLAPS proofs about what the gate leaves behind on GitHub.               *)
(*                                                                         *)
(* AdditionFinalizer, for every number of commits, attempts and seconds:   *)
(* what an adoption record stands for and why an adoption is refused,      *)
(* while branch, tag, run and clock go on. Commits are never changed, so   *)
(* what a commit contains outlives whatever the branch becomes.            *)
(*                                                                         *)
(* AdoptionEvaluation: a verdict is turned around by the first fact at     *)
(* fault, absent or not verified until then, or not at all.                *)
(*                                                                         *)
(* ReportPublisher, for every number of jobs, pushes and findings: what is *)
(* published rests on inputs of its head, what is reported as posted is    *)
(* posted, once if jobs take turns, and on lines of its own head or, where *)
(* that head returns, of one in between.                                   *)
(*                                                                         *)
(* ReportText, for every patch, script, draft and finding: the report fits *)
(* GitHub's limit, and a cut patch offers no line that did not change.     *)
(***************************************************************************)
EXTENDS MCAdditionFinalizer, MCReportPublisher, FiniteSetTheorems, SequenceTheorems,
        WellFoundedInduction, TLAPS

-----------------------------------------------------------------------------
\* The inductive invariant of the finalizer.

Commits == [parents : Seq(Nat), content : SUBSET {"route", "amend", "addition", "nothing"}]

AttemptRecords ==
    [head : Nat, base : Nat, state : {"running", "uploaded", "done", "accepted", "failed"},
     verdict : {"eligible", "ineligible"}, uploadedAt : Nat, doneAt : Nat, acceptedAt : Nat]

Findings ==
    [mergeSha : Nat, base : Nat, b : Nat, attempt : Nat, target : Nat, tagRef : Nat,
     authority : SUBSET {"addition", "amend"}]

Phases == Resting \cup {"pull", "policy", "run", "artifact", "tagObject", "tagRef", "target",
                        "compare", "authority", "build"}

AdoptionTypes ==
    /\ commits \in Seq(Commits)
    /\ main \in DOMAIN commits /\ head \in DOMAIN commits \cup {0}
    /\ merge \in DOMAIN commits \cup {0} /\ tag \in DOMAIN commits \cup {0}
    /\ mergedAt \in Nat /\ clock \in Nat
    /\ attempts \in Seq(AttemptRecords)
    /\ phase \in Phases /\ seen \in Findings
    /\ tips \subseteq DOMAIN commits

\* Parents are commits too.
Graph == \A c \in DOMAIN commits : Range(Parents(c)) \subseteq DOMAIN commits

\* The merge, once there is one, is of the head, and not of the future.
MergeOfHead ==
    merge # 0 =>
        /\ head # 0 /\ mergedAt <= clock
        /\ \E c \in DOMAIN commits : Parents(merge) \in {<<c, head>>, <<c>>}

\* An attempt is about commits there are, and its times are in order.
AttemptsInOrder ==
    \A i \in DOMAIN attempts :
        LET a == attempts[i]
        IN  /\ a.head \in DOMAIN commits /\ a.base \in DOMAIN commits
            /\ a.state = "uploaded" => a.uploadedAt <= clock
            /\ a.state \in {"done", "accepted"} => a.uploadedAt <= a.doneAt /\ a.doneAt <= clock
            /\ a.state = "accepted" => a.doneAt <= a.acceptedAt /\ a.acceptedAt <= clock

\* What the finalizer knows once it has passed each of its reads.
AfterPull == Phases \ (Resting \cup {"pull"})
AfterPolicy == AfterPull \ {"policy"}
AfterRun == AfterPolicy \ {"run"}
AfterArtifact == AfterRun \ {"artifact"}
AfterTarget == AfterArtifact \ {"tagObject", "tagRef", "target"}
AfterCompare == AfterTarget \ {"compare"}
AfterAuthority == AfterCompare \ {"authority"}

MergeRead(s) ==
    /\ s.mergeSha = merge /\ s.b = head /\ s.base \in DOMAIN commits
    /\ Parents(merge) = <<s.base, s.b>> /\ Content(merge) = Content(s.b)

RunRead(s) ==
    LET a == attempts[s.attempt]
    IN  /\ a.state = "accepted" /\ a.head = s.b
        /\ a.doneAt < mergedAt /\ a.acceptedAt < mergedAt

ArtifactRead(s) ==
    LET a == attempts[s.attempt] IN a.base = s.base /\ a.verdict = "eligible"

Known ==
    /\ phase # "idle" => merge # 0 /\ main \in tips /\ seen.attempt \in DOMAIN attempts
    /\ phase \in AfterPull => MergeRead(seen)
    /\ phase \in AfterPolicy => RouteSelected(seen.base)
    /\ phase \in AfterRun => RunRead(seen)
    /\ phase \in AfterArtifact => ArtifactRead(seen)
    /\ phase \in AfterTarget => seen.target \in tips
    /\ phase \in AfterCompare => seen.mergeSha \in Ancestors(seen.target)
    /\ phase \in AfterAuthority => /\ Authority(seen.target) = Authority(seen.b)
                                   /\ seen.authority = Authority(seen.target)

\* A record holds all of it, and is the last thing the finalizer does.
Bound(r) ==
    /\ r.attempt \in DOMAIN attempts
    /\ MergeRead(r) /\ RouteSelected(r.base) /\ RunRead(r) /\ ArtifactRead(r)
    /\ r.target \in tips /\ r.mergeSha \in Ancestors(r.target)
    /\ Authority(r.target) = Authority(r.b)

Recorded == record # {} => phase = "done" /\ merge # 0 /\ \A r \in record : Bound(r)

\* Why an adoption is refused. An attempt that was not accepted when it was
\* read can still be accepted, but only after the merge.
Cause ==
    LET a == attempts[seen.attempt]
    IN  \/ Parents(merge) # <<a.base, a.head>> \/ Content(merge) # Content(a.head)
        \/ a.state # "accepted" \/ a.verdict # "eligible"
        \/ a.acceptedAt >= mergedAt \/ ~RouteSelected(a.base)
        \/ \E t \in tips : \/ merge \notin Ancestors(t) \/ TooFar(merge, t)
                           \/ Authority(t) # Authority(a.head)

AdoptionInv ==
    /\ AdoptionTypes /\ Graph /\ MergeOfHead /\ AttemptsInOrder
    /\ Known /\ Recorded
    /\ phase = "refused" => Cause

-----------------------------------------------------------------------------
\* What a commit contains does not depend on the commits made after it.

\* Every set of naturals that is not empty has a least element: induction, in
\* the form the provers can use. Finite sets are well-founded under inclusion.
LEMMA LeastNatural ==
  ASSUME NEW T, T \subseteq Nat, T # {}
  PROVE  \E m \in T : \A k \in T : m <= k
<1> DEFINE R == StrictSubsetOrdering(Nat)
           U == {0 .. k : k \in T}
           S == FiniteSubsetsOf(Nat)
<1>1. IsWellFoundedOn(R, S)
  BY FS_StrictSubsetOrderingWellFounded
<1>2. U \subseteq S /\ U # {}
  <2>1. ASSUME NEW k \in T PROVE 0 .. k \in S
    <3>1. IsFiniteSet(0 .. k)
      BY FS_Interval
    <3>2. 0 .. k \in SUBSET Nat
      OBVIOUS
    <3>3. QED
      BY <3>1, <3>2 DEF FiniteSubsetsOf
  <2>2. QED
    BY <2>1
<1>3. \E x \in U : \A y \in U : ~(<<y, x>> \in R)
  <2> HIDE DEF R, S, U
  <2>1. QED
    BY <1>1, <1>2, WFMin
<1>4. PICK m \in T : \A k \in T : ~(<<0 .. k, 0 .. m>> \in R)
  BY <1>3
<1>5. ASSUME NEW k \in T, k < m PROVE FALSE
  <2>1. m \in 0 .. m /\ m \notin 0 .. k /\ 0 .. k \subseteq 0 .. m /\ 0 .. m \subseteq Nat
    BY <1>5
  <2>2. <<0 .. k, 0 .. m>> \in R
    BY <2>1 DEF StrictSubsetOrdering
  <2>3. QED
    BY <2>2, <1>4, <1>5
<1>6. QED
  BY <1>5

\* Induction over the naturals, for a set.
LEMMA Induction ==
  ASSUME NEW T, 0 \in T, \A n \in Nat : n \in T => n + 1 \in T
  PROVE  \A n \in Nat : n \in T
<1> SUFFICES ASSUME Nat \ T # {} PROVE FALSE
  OBVIOUS
<1>1. PICK m \in Nat \ T : \A k \in Nat \ T : m <= k
  BY LeastNatural
<1>2. m - 1 \in Nat /\ m - 1 \in T
  BY <1>1
<1>3. QED
  BY <1>1, <1>2

\* The function Ancestors chooses, for a graph g.
Chain(g, c, f) ==
    f = [n \in 0 .. MaxCommits |->
           IF n = 0 THEN {c} ELSE f[n - 1] \cup UNION {Range(g[x].parents) : x \in f[n - 1]}]

LEMMA AncestorsByChain ==
  ASSUME NEW c PROVE Ancestors(c) = (CHOOSE f : Chain(commits, c, f))[MaxCommits]
BY DEF Ancestors, Chain, Parents

\* Along a chain nothing leaves a set that is closed under parents.
LEMMA ChainStays ==
  ASSUME NEW g, NEW S, NEW c \in S, NEW f, Chain(g, c, f),
         \A x \in S : Range(g[x].parents) \subseteq S
  PROVE  \A n \in 0 .. MaxCommits : f[n] \subseteq S
<1> DEFINE T == {n \in 0 .. MaxCommits : ~(f[n] \subseteq S)}
<1>1. SUFFICES ASSUME T # {} PROVE FALSE
  OBVIOUS
<1>2. PICK m \in T : \A k \in T : m <= k
  <2>1. T \subseteq Nat
    OBVIOUS
  <2> HIDE DEF T
  <2>2. QED
    BY <1>1, <2>1, LeastNatural
<1>3. f[m] = IF m = 0 THEN {c} ELSE f[m - 1] \cup UNION {Range(g[x].parents) : x \in f[m - 1]}
  BY <1>2 DEF Chain
<1>4. CASE m = 0
  BY <1>3, <1>4
<1>5. CASE m # 0
  <2>1. m - 1 \in 0 .. MaxCommits /\ m - 1 \notin T
    BY <1>2, <1>5, BoundsAssumption
  <2>2. f[m - 1] \subseteq S
    BY <2>1
  <2>3. QED
    BY <1>2, <1>3, <1>5, <2>2
<1>6. QED
  BY <1>4, <1>5

\* So what lies outside the set is not looked at.
LEMMA ChainLocal ==
  ASSUME NEW g, NEW h, NEW S, NEW c \in S, NEW f, Chain(g, c, f),
         \A x \in S : Range(g[x].parents) \subseteq S /\ h[x] = g[x]
  PROVE  Chain(h, c, f)
<1>1. \A n \in 0 .. MaxCommits : f[n] \subseteq S
  BY ChainStays
<1> DEFINE Up(i, n) == IF n = 0 THEN {c}
                       ELSE f[n - 1] \cup UNION {Range(i[x].parents) : x \in f[n - 1]}
<1>2. ASSUME NEW n \in 0 .. MaxCommits PROVE Up(g, n) = Up(h, n)
  <2>1. CASE n = 0
    BY <2>1
  <2>2. CASE n # 0
    <3>1. n - 1 \in 0 .. MaxCommits
      BY <2>2, BoundsAssumption
    <3>2. \A x \in f[n - 1] : h[x] = g[x]
      BY <3>1, <1>1
    <3>3. QED
      BY <3>2
  <2>3. QED
    BY <2>1, <2>2
<1>3. f = [n \in 0 .. MaxCommits |-> Up(g, n)]
  BY DEF Chain
<1>4. f = [n \in 0 .. MaxCommits |-> Up(h, n)]
  <2> HIDE DEF Up
  <2>1. QED
    BY <1>2, <1>3
<1>5. QED
  BY <1>4 DEF Chain

\* The commits of a graph that only grows contain what they contained.
LEMMA AncestorsStable ==
  ASSUME Graph, NEW c \in DOMAIN commits,
         \A x \in DOMAIN commits : commits'[x] = commits[x]
  PROVE  Ancestors(c)' = Ancestors(c)
<1> DEFINE S == DOMAIN commits
<1>1. \A x \in S : Range(commits[x].parents) \subseteq S /\ commits'[x] = commits[x]
  BY DEF Graph, Parents
<1>2. \A x \in S : Range(commits'[x].parents) \subseteq S /\ commits[x] = commits'[x]
  BY <1>1
<1>3. \A f : Chain(commits, c, f) <=> Chain(commits', c, f)
  <2> HIDE DEF S
  <2>1. c \in S
    BY DEF S
  <2>2. ASSUME NEW f, Chain(commits, c, f) PROVE Chain(commits', c, f)
    BY <1>1, <2>1, <2>2, ChainLocal
  <2>3. ASSUME NEW f, Chain(commits', c, f) PROVE Chain(commits, c, f)
    BY <1>2, <2>1, <2>3, ChainLocal
  <2>4. QED
    BY <2>2, <2>3
<1>4. (CHOOSE f : Chain(commits, c, f)) = (CHOOSE f : Chain(commits', c, f))
  BY <1>3
<1>5. Ancestors(c)' = (CHOOSE f : Chain(commits', c, f))[MaxCommits]
  BY DEF Ancestors, Chain, Parents
<1>6. QED
  BY <1>4, <1>5, AncestorsByChain

-----------------------------------------------------------------------------
\* The world only adds: commits, tips, attempts, and what an attempt has come to.

Grows ==
    /\ DOMAIN commits \subseteq DOMAIN commits'
    /\ \A c \in DOMAIN commits : commits'[c] = commits[c]
    /\ tips \subseteq tips' /\ (main' = main \/ main' \in tips')
    /\ merge # 0 => merge' = merge /\ head' = head /\ mergedAt' = mergedAt
    /\ \A i \in DOMAIN attempts :
         /\ i \in DOMAIN attempts'
         /\ attempts'[i].head = attempts[i].head /\ attempts'[i].base = attempts[i].base
         /\ attempts[i].state = "accepted" => attempts'[i] = attempts[i]
         /\ attempts[i].state # "accepted" /\ attempts'[i].state = "accepted" =>
              attempts'[i].acceptedAt = clock
    /\ phase' = phase /\ seen' = seen /\ record' = record

GraphInv == AdoptionTypes /\ Graph /\ MergeOfHead /\ AttemptsInOrder

LEMMA CommitAdds ==
  ASSUME AdoptionTypes, Graph, NEW parents \in Seq(DOMAIN commits),
         NEW content \in SUBSET {"route", "amend", "addition", "nothing"},
         Commit(parents, content)
  PROVE  /\ commits' \in Seq(Commits) /\ Len(commits') \in Nat /\ Len(commits') # 0
         /\ DOMAIN commits' = DOMAIN commits \cup {Len(commits')}
         /\ \A c \in DOMAIN commits : commits'[c] = commits[c]
         /\ commits'[Len(commits')] = [parents |-> parents, content |-> content]
         /\ Graph'
<1> DEFINE made == [parents |-> parents, content |-> content]
<1>1. commits \in Seq(Commits) /\ DOMAIN commits = 1 .. Len(commits) /\ Len(commits) \in Nat
  BY DEF AdoptionTypes
<1>2. parents \in Seq(Nat)
  BY <1>1
<1>3. made \in Commits
  BY <1>2 DEF Commits
<1>4. commits' = Append(commits, made)
  BY DEF Commit
<1>5. /\ commits' \in Seq(Commits) /\ Len(commits') = Len(commits) + 1
      /\ DOMAIN commits' = 1 .. Len(commits) + 1
      /\ \A c \in DOMAIN commits : commits'[c] = commits[c]
      /\ commits'[Len(commits) + 1] = made
  <2> HIDE DEF made
  <2>1. QED
    BY <1>1, <1>3, <1>4
<1>6. DOMAIN commits' = DOMAIN commits \cup {Len(commits')}
  BY <1>1, <1>5
<1>7. commits'[Len(commits')] = made
  BY <1>5
<1>8. Graph'
  <2>1. ASSUME NEW c \in DOMAIN commits PROVE Range(Parents(c)') \subseteq DOMAIN commits'
    BY <1>5, <1>6 DEF Graph, Parents
  <2>2. Range(parents) \subseteq DOMAIN commits
    BY DEF Range
  <2>3. Range(commits'[Len(commits')].parents) \subseteq DOMAIN commits'
    <3>1. commits'[Len(commits')].parents = parents
      BY <1>7
    <3> HIDE DEF made
    <3>2. QED
      BY <3>1, <2>2, <1>6
  <2>4. ASSUME NEW c \in DOMAIN commits' PROVE Range(commits'[c].parents) \subseteq DOMAIN commits'
    BY <2>1, <2>3, <1>6 DEF Parents
  <2>5. QED
    BY <2>4 DEF Graph, Parents
<1>9. QED
  BY <1>1, <1>5, <1>6, <1>7, <1>8

LEMMA CommitTypes ==
  ASSUME AdoptionTypes, NEW c \in DOMAIN commits
  PROVE  /\ c \in Nat \ {0} /\ Parents(c) \in Seq(Nat)
         /\ Content(c) \in SUBSET {"route", "amend", "addition", "nothing"}
<1>1. commits \in Seq(Commits)
  BY DEF AdoptionTypes
<1>2. c \in Nat \ {0} /\ commits[c] \in Commits
  BY <1>1
<1>3. QED
  BY <1>2 DEF Commits, Parents, Content

LEMMA AttemptTypes ==
  ASSUME AdoptionTypes, NEW i \in DOMAIN attempts PROVE attempts[i] \in AttemptRecords
BY DEF AdoptionTypes

LEMMA PushGrows ==
  ASSUME GraphInv, PushMain PROVE GraphInv' /\ Grows
<1>1. main \in DOMAIN commits /\ Content(main) \in SUBSET {"route", "amend", "addition", "nothing"}
  BY CommitTypes DEF GraphInv, AdoptionTypes
<1>2. PICK e \in Edits \cup {"addition"} :
         Commit(<<main>>, IF e \in Content(main) THEN Content(main) \ {e}
                          ELSE Content(main) \cup ({e} \ {"nothing"}))
  BY DEF PushMain
<1>3. /\ <<main>> \in Seq(DOMAIN commits)
      /\ (IF e \in Content(main) THEN Content(main) \ {e}
          ELSE Content(main) \cup ({e} \ {"nothing"}))
           \in SUBSET {"route", "amend", "addition", "nothing"}
  BY <1>1, BoundsAssumption
<1>4. /\ commits' \in Seq(Commits) /\ Len(commits') \in Nat /\ Len(commits') # 0
      /\ DOMAIN commits' = DOMAIN commits \cup {Len(commits')}
      /\ \A c \in DOMAIN commits : commits'[c] = commits[c]
      /\ Graph'
  BY <1>2, <1>3, CommitAdds DEF GraphInv
<1>5. /\ main' = Len(commits') /\ tips' = tips \cup {Len(commits')}
      /\ UNCHANGED <<head, merge, mergedAt, tag, attempts, clock, phase, seen, record>>
  BY DEF PushMain, Moves
<1>6. AdoptionTypes'
  BY <1>4, <1>5 DEF GraphInv, AdoptionTypes
<1>7. MergeOfHead'
  BY <1>4, <1>5 DEF GraphInv, AdoptionTypes, MergeOfHead, Parents
<1>8. AttemptsInOrder'
  BY <1>4, <1>5 DEF GraphInv, AdoptionTypes, AttemptsInOrder
<1>9. Grows
  BY <1>4, <1>5 DEF Grows
<1>10. QED
  BY <1>4, <1>6, <1>7, <1>8, <1>9 DEF GraphInv

LEMMA ResetGrows ==
  ASSUME GraphInv, ResetMain PROVE GraphInv' /\ Grows
<1>1. /\ Parents(main) # <<>>
      /\ main' = Parents(main)[1] /\ tips' = tips \cup {main'}
      /\ UNCHANGED <<commits, head, merge, mergedAt, tag, attempts, clock, phase, seen, record>>
  BY DEF ResetMain, Moves
<1>2. main \in DOMAIN commits /\ Parents(main) \in Seq(Nat)
  BY CommitTypes DEF GraphInv, AdoptionTypes
<1>3. main' \in DOMAIN commits
  <2>1. Parents(main)[1] \in Range(Parents(main))
    BY <1>1, <1>2 DEF Range
  <2>2. QED
    BY <1>1, <1>2, <2>1 DEF GraphInv, Graph
<1>4. AdoptionTypes'
  BY <1>1, <1>3 DEF GraphInv, AdoptionTypes
<1>5. Graph' /\ MergeOfHead' /\ AttemptsInOrder'
  BY <1>1 DEF GraphInv, Graph, MergeOfHead, AttemptsInOrder, Parents
<1>6. Grows
  BY <1>1 DEF Grows
<1>7. QED
  BY <1>4, <1>5, <1>6 DEF GraphInv

LEMMA ProposalGrows ==
  ASSUME GraphInv, ProposeAddition PROVE GraphInv' /\ Grows
<1>1. main \in DOMAIN commits /\ Content(main) \in SUBSET {"route", "amend", "addition", "nothing"}
  BY CommitTypes DEF GraphInv, AdoptionTypes
<1>2. /\ <<main>> \in Seq(DOMAIN commits)
      /\ Content(main) \cup {"addition"} \in SUBSET {"route", "amend", "addition", "nothing"}
  BY <1>1
<1>3. Commit(<<main>>, Content(main) \cup {"addition"})
  BY DEF ProposeAddition
<1>4. /\ commits' \in Seq(Commits) /\ Len(commits') \in Nat /\ Len(commits') # 0
      /\ DOMAIN commits' = DOMAIN commits \cup {Len(commits')}
      /\ \A c \in DOMAIN commits : commits'[c] = commits[c]
      /\ Graph'
  BY <1>2, <1>3, CommitAdds DEF GraphInv
<1>5. /\ merge = 0 /\ head' = Len(commits') /\ tag' = Len(commits')
      /\ UNCHANGED <<main, merge, mergedAt, attempts, clock, phase, seen, tips, record>>
  BY DEF ProposeAddition, finalizer
<1>6. AdoptionTypes'
  BY <1>4, <1>5 DEF GraphInv, AdoptionTypes
<1>7. MergeOfHead'
  BY <1>5 DEF MergeOfHead
<1>8. AttemptsInOrder'
  BY <1>4, <1>5 DEF GraphInv, AdoptionTypes, AttemptsInOrder
<1>9. Grows
  BY <1>4, <1>5 DEF Grows
<1>10. QED
  BY <1>4, <1>6, <1>7, <1>8, <1>9 DEF GraphInv

LEMMA MergeGrows ==
  ASSUME GraphInv, Merge PROVE GraphInv' /\ Grows
<1>1. PICK parents \in {<<main, head>>, <<main>>} :
         Commit(parents, Content(main) \cup (Content(head) \ Content(Parents(head)[1])))
  BY DEF Merge
<1>2. /\ head # 0 /\ merge = 0
      /\ merge' = Len(commits') /\ mergedAt' = clock
      /\ main' = Len(commits') /\ tips' = tips \cup {Len(commits')}
      /\ UNCHANGED <<head, tag, attempts, clock, phase, seen, record>>
  BY DEF Merge, Moves
<1>3. /\ main \in DOMAIN commits /\ head \in DOMAIN commits
      /\ Content(main) \in SUBSET {"route", "amend", "addition", "nothing"}
      /\ Content(head) \in SUBSET {"route", "amend", "addition", "nothing"}
  BY <1>2, CommitTypes DEF GraphInv, AdoptionTypes
<1>4. /\ parents \in Seq(DOMAIN commits)
      /\ Content(main) \cup (Content(head) \ Content(Parents(head)[1]))
           \in SUBSET {"route", "amend", "addition", "nothing"}
  <2>1. <<main, head>> \in Seq(DOMAIN commits) /\ <<main>> \in Seq(DOMAIN commits)
    BY <1>3
  <2>2. QED
    BY <1>3, <2>1
<1>5. /\ commits' \in Seq(Commits) /\ Len(commits') \in Nat /\ Len(commits') # 0
      /\ DOMAIN commits' = DOMAIN commits \cup {Len(commits')}
      /\ \A c \in DOMAIN commits : commits'[c] = commits[c]
      /\ commits'[Len(commits')] =
           [parents |-> parents, content |-> Content(main) \cup (Content(head) \ Content(Parents(head)[1]))]
      /\ Graph'
  BY <1>1, <1>4, CommitAdds DEF GraphInv
<1>6. AdoptionTypes'
  BY <1>2, <1>5 DEF GraphInv, AdoptionTypes
<1>7. MergeOfHead'
  <2>1. commits'[merge'].parents = parents
    BY <1>2, <1>5
  <2>2. main \in DOMAIN commits' /\ clock \in Nat
    BY <1>3, <1>5 DEF GraphInv, AdoptionTypes
  <2>3. QED
    BY <1>2, <2>1, <2>2 DEF MergeOfHead, Parents
<1>8. AttemptsInOrder'
  BY <1>2, <1>5 DEF GraphInv, AdoptionTypes, AttemptsInOrder
<1>9. Grows
  BY <1>2, <1>5 DEF Grows
<1>10. QED
  BY <1>5, <1>6, <1>7, <1>8, <1>9 DEF GraphInv

LEMMA TickGrows ==
  ASSUME GraphInv, Tick PROVE GraphInv' /\ Grows
<1>1. clock \in Nat /\ clock' = clock + 1
  BY DEF GraphInv, AdoptionTypes, Tick
<1>2. UNCHANGED <<commits, main, head, merge, mergedAt, tag, attempts, phase, seen, tips, record>>
  BY DEF Tick, git, finalizer
<1>3. AdoptionTypes'
  BY <1>1, <1>2 DEF GraphInv, AdoptionTypes
<1>4. Graph' /\ MergeOfHead'
  BY <1>1, <1>2 DEF GraphInv, AdoptionTypes, Graph, MergeOfHead, Parents
<1>5. AttemptsInOrder'
  <2>1. ASSUME NEW i \in DOMAIN attempts
        PROVE  attempts[i].uploadedAt \in Nat /\ attempts[i].doneAt \in Nat
               /\ attempts[i].acceptedAt \in Nat
    BY AttemptTypes DEF GraphInv, AttemptRecords
  <2>2. QED
    BY <1>1, <1>2, <2>1 DEF GraphInv, AttemptsInOrder
<1>6. Grows
  BY <1>2 DEF Grows
<1>7. QED
  BY <1>3, <1>4, <1>5, <1>6 DEF GraphInv

LEMMA TagGrows ==
  ASSUME GraphInv, MoveTag PROVE GraphInv' /\ Grows
<1>1. /\ tag' \in DOMAIN commits \cup {0}
      /\ UNCHANGED <<commits, main, head, merge, mergedAt, attempts, clock, phase, seen, tips, record>>
  BY DEF GraphInv, AdoptionTypes, MoveTag, finalizer
<1>2. AdoptionTypes'
  BY <1>1 DEF GraphInv, AdoptionTypes
<1>3. Graph' /\ MergeOfHead' /\ AttemptsInOrder'
  BY <1>1 DEF GraphInv, Graph, MergeOfHead, AttemptsInOrder, Parents
<1>4. QED
  BY <1>1, <1>2, <1>3 DEF GraphInv, Grows

LEMMA StartGrows ==
  ASSUME GraphInv, StartAttempt PROVE GraphInv' /\ Grows
<1>1. /\ head # 0 /\ attempts' = Append(attempts, Attempt(head, main))
      /\ UNCHANGED <<commits, main, head, merge, mergedAt, tag, clock, phase, seen, tips, record>>
  BY DEF StartAttempt, git, finalizer
<1>2. /\ head \in DOMAIN commits /\ main \in DOMAIN commits /\ commits \in Seq(Commits)
      /\ attempts \in Seq(AttemptRecords)
  BY <1>1 DEF GraphInv, AdoptionTypes
<1>3. Attempt(head, main) \in AttemptRecords
  BY <1>2 DEF Attempt, AttemptRecords
<1>4. /\ attempts' \in Seq(AttemptRecords)
      /\ DOMAIN attempts' = DOMAIN attempts \cup {Len(attempts) + 1}
      /\ \A i \in DOMAIN attempts : attempts'[i] = attempts[i]
      /\ attempts'[Len(attempts) + 1] = Attempt(head, main)
  <2> HIDE DEF Attempt
  <2>1. QED
    BY <1>1, <1>2, <1>3
<1>5. AdoptionTypes'
  BY <1>1, <1>4 DEF GraphInv, AdoptionTypes
<1>6. Graph' /\ MergeOfHead'
  BY <1>1 DEF GraphInv, Graph, MergeOfHead, Parents
<1>7. AttemptsInOrder'
  <2>1. /\ Attempt(head, main).head = head /\ Attempt(head, main).base = main
        /\ Attempt(head, main).state = "running"
    BY DEF Attempt
  <2>2. QED
    BY <1>1, <1>2, <1>4, <2>1 DEF GraphInv, AttemptsInOrder
<1>8. Grows
  BY <1>1, <1>4 DEF Grows
<1>9. QED
  BY <1>5, <1>6, <1>7, <1>8 DEF GraphInv

LEMMA RunGrows ==
  ASSUME GraphInv, RunAttempt PROVE GraphInv' /\ Grows
<1> DEFINE Uploaded(i, v) == [attempts[i] EXCEPT !.state = "uploaded", !.verdict = v, !.uploadedAt = clock]
           Done(i) == [attempts[i] EXCEPT !.state = "done", !.doneAt = clock]
           Accepted(i) == [attempts[i] EXCEPT !.state = "accepted", !.acceptedAt = clock]
           Failed(i) == [attempts[i] EXCEPT !.state = "failed"]
           Changes(i, made) ==
             \/ /\ attempts[i].state = "running"
                /\ \E v \in {"eligible", "ineligible"} : made = Uploaded(i, v)
             \/ attempts[i].state = "uploaded" /\ made = Done(i)
             \/ attempts[i].state = "done" /\ made = Accepted(i)
             \/ attempts[i].state \in {"running", "uploaded", "done"} /\ made = Failed(i)
<1>1. /\ \E i \in DOMAIN attempts : \E made :
            attempts' = [attempts EXCEPT ![i] = made] /\ Changes(i, made)
      /\ UNCHANGED <<commits, main, head, merge, mergedAt, tag, clock, phase, seen, tips, record>>
  <2>1. UNCHANGED <<commits, main, head, merge, mergedAt, tag, clock, phase, seen, tips, record>>
    BY DEF RunAttempt, git, finalizer
  <2>2. PICK i \in DOMAIN attempts :
         \/ /\ attempts[i].state = "running"
            /\ \E v \in {"eligible", "ineligible"} : attempts' = [attempts EXCEPT ![i] = Uploaded(i, v)]
         \/ attempts[i].state = "uploaded" /\ attempts' = [attempts EXCEPT ![i] = Done(i)]
         \/ attempts[i].state = "done" /\ attempts' = [attempts EXCEPT ![i] = Accepted(i)]
         \/ /\ attempts[i].state \in {"running", "uploaded", "done"}
            /\ attempts' = [attempts EXCEPT ![i] = Failed(i)]
    <3> DEFINE U(i, v) == [attempts EXCEPT ![i].state = "uploaded", ![i].verdict = v,
                                           ![i].uploadedAt = clock]
               D(i) == [attempts EXCEPT ![i].state = "done", ![i].doneAt = clock]
               A(i) == [attempts EXCEPT ![i].state = "accepted", ![i].acceptedAt = clock]
               F(i) == [attempts EXCEPT ![i].state = "failed"]
    <3>1. PICK i \in DOMAIN attempts :
            \/ /\ attempts[i].state = "running"
               /\ \E v \in {"eligible", "ineligible"} : attempts' = U(i, v)
            \/ attempts[i].state = "uploaded" /\ attempts' = D(i)
            \/ attempts[i].state = "done" /\ attempts' = A(i)
            \/ attempts[i].state \in {"running", "uploaded", "done"} /\ attempts' = F(i)
      BY DEF RunAttempt
    <3>2. attempts \in Seq(AttemptRecords) /\ attempts[i] \in AttemptRecords
      BY AttemptTypes DEF GraphInv, AdoptionTypes
    <3>3. ASSUME NEW v PROVE U(i, v) = [attempts EXCEPT ![i] = Uploaded(i, v)]
      BY <3>2 DEF AttemptRecords
    <3>4. D(i) = [attempts EXCEPT ![i] = Done(i)]
      BY <3>2 DEF AttemptRecords
    <3>5. A(i) = [attempts EXCEPT ![i] = Accepted(i)]
      BY <3>2 DEF AttemptRecords
    <3>6. F(i) = [attempts EXCEPT ![i] = Failed(i)]
      BY <3>2 DEF AttemptRecords
    <3> HIDE DEF U, D, A, F, Uploaded, Done, Accepted, Failed
    <3>7. QED
      BY <3>1, <3>3, <3>4, <3>5, <3>6
  <2>3. \E made : attempts' = [attempts EXCEPT ![i] = made] /\ Changes(i, made)
    <3> HIDE DEF Uploaded, Done, Accepted, Failed
    <3>1. QED
      BY <2>2
  <2>4. QED
    BY <2>1, <2>3
<1>i. PICK i \in DOMAIN attempts : \E made :
         attempts' = [attempts EXCEPT ![i] = made] /\ Changes(i, made)
  BY <1>1
<1>2. PICK made : attempts' = [attempts EXCEPT ![i] = made] /\ Changes(i, made)
  BY <1>i
<1>3. attempts[i] \in AttemptRecords /\ clock \in Nat /\ attempts \in Seq(AttemptRecords)
  BY AttemptTypes DEF GraphInv, AdoptionTypes
<1>4. /\ made \in AttemptRecords
      /\ made.head = attempts[i].head /\ made.base = attempts[i].base
      /\ attempts[i].state # "accepted"
      /\ made.state = "accepted" => made.acceptedAt = clock
  BY <1>2, <1>3 DEF AttemptRecords
<1>5. /\ made.state = "uploaded" => made.uploadedAt = clock
      /\ made.state = "done" => made.uploadedAt = attempts[i].uploadedAt /\ made.doneAt = clock
                               /\ attempts[i].state = "uploaded"
      /\ made.state = "accepted" => /\ made.uploadedAt = attempts[i].uploadedAt
                                   /\ made.doneAt = attempts[i].doneAt
                                   /\ attempts[i].state = "done"
  BY <1>2, <1>3 DEF AttemptRecords
<1>6. /\ attempts' \in Seq(AttemptRecords) /\ DOMAIN attempts' = DOMAIN attempts
      /\ attempts'[i] = made
      /\ \A k \in DOMAIN attempts \ {i} : attempts'[k] = attempts[k]
  <2> HIDE DEF Changes
  <2>1. QED
    BY <1>2, <1>3, <1>4
<1> HIDE DEF Changes, Uploaded, Done, Accepted, Failed
<1>7. AdoptionTypes'
  BY <1>1, <1>6 DEF GraphInv, AdoptionTypes
<1>8. Graph' /\ MergeOfHead'
  BY <1>1 DEF GraphInv, Graph, MergeOfHead, Parents
<1>9. AttemptsInOrder'
  <2>1. \A k \in DOMAIN attempts \ {i} :
          /\ attempts'[k].head \in DOMAIN commits /\ attempts'[k].base \in DOMAIN commits
          /\ attempts'[k].state = "uploaded" => attempts'[k].uploadedAt <= clock
          /\ attempts'[k].state \in {"done", "accepted"} =>
               attempts'[k].uploadedAt <= attempts'[k].doneAt /\ attempts'[k].doneAt <= clock
          /\ attempts'[k].state = "accepted" =>
               attempts'[k].doneAt <= attempts'[k].acceptedAt /\ attempts'[k].acceptedAt <= clock
    BY <1>6 DEF GraphInv, AttemptsInOrder
  <2>2. /\ made.head \in DOMAIN commits /\ made.base \in DOMAIN commits
        /\ made.state = "uploaded" => made.uploadedAt <= clock
        /\ made.state \in {"done", "accepted"} => made.uploadedAt <= made.doneAt /\ made.doneAt <= clock
        /\ made.state = "accepted" => made.doneAt <= made.acceptedAt /\ made.acceptedAt <= clock
    <3>1. /\ made.head \in DOMAIN commits /\ made.base \in DOMAIN commits
          /\ attempts[i].state = "uploaded" => attempts[i].uploadedAt <= clock
          /\ attempts[i].state = "done" => /\ attempts[i].uploadedAt <= attempts[i].doneAt
                                           /\ attempts[i].doneAt <= clock
      BY <1>4 DEF GraphInv, AttemptsInOrder
    <3>2. clock <= clock
      BY <1>3
    <3>3. QED
      BY <1>4, <1>5, <3>1, <3>2
  <2>3. QED
    BY <1>1, <1>6, <2>1, <2>2 DEF AttemptsInOrder
<1>10. Grows
  BY <1>1, <1>4, <1>6 DEF Grows
<1>11. QED
  BY <1>7, <1>8, <1>9, <1>10 DEF GraphInv

LEMMA WorldGrows ==
  ASSUME GraphInv, World PROVE GraphInv' /\ Grows
BY PushGrows, ResetGrows, ProposalGrows, MergeGrows, TickGrows, TagGrows, StartGrows, RunGrows
   DEF World

-----------------------------------------------------------------------------
\* What the finalizer has read stays true whatever the world adds.

\* What is true of a finding, or of a record, of an attempt there is.
LEMMA CommitsStay ==
  ASSUME GraphInv, Grows, NEW c \in DOMAIN commits
  PROVE  /\ c \in DOMAIN commits' /\ Parents(c)' = Parents(c) /\ Content(c)' = Content(c)
         /\ Authority(c)' = Authority(c) /\ RouteSelected(c)' = RouteSelected(c)
         /\ Ancestors(c)' = Ancestors(c)
<1>1. c \in DOMAIN commits' /\ commits'[c] = commits[c]
  BY DEF Grows
<1>2. Ancestors(c)' = Ancestors(c)
  BY AncestorsStable DEF GraphInv, Grows
<1>3. QED
  BY <1>1, <1>2 DEF Parents, Content, Authority, RouteSelected

LEMMA MergeReadStays ==
  ASSUME GraphInv, Grows, merge # 0, NEW s, MergeRead(s)
  PROVE  MergeRead(s)'
<1>1. merge \in DOMAIN commits /\ head \in DOMAIN commits
  BY DEF GraphInv, AdoptionTypes, MergeOfHead
<1>2. merge' = merge /\ head' = head
  BY DEF Grows
<1>3. s.mergeSha = merge /\ s.b = head /\ s.base \in DOMAIN commits
      /\ commits[merge].parents = <<s.base, s.b>> /\ commits[merge].content = commits[s.b].content
  BY DEF MergeRead, Parents, Content
<1>4. commits'[merge] = commits[merge] /\ commits'[head] = commits[head] /\ s.base \in DOMAIN commits'
  BY <1>1, <1>3 DEF Grows
<1>5. QED
  BY <1>2, <1>3, <1>4 DEF MergeRead, Parents, Content

LEMMA RunReadStays ==
  ASSUME GraphInv, Grows, merge # 0, NEW s, s.attempt \in DOMAIN attempts, RunRead(s)
  PROVE  RunRead(s)' /\ (ArtifactRead(s) => ArtifactRead(s)')
<1>1. attempts'[s.attempt] = attempts[s.attempt] /\ mergedAt' = mergedAt
  BY DEF Grows, RunRead
<1>2. QED
  BY <1>1 DEF RunRead, ArtifactRead

LEMMA TargetStays ==
  ASSUME GraphInv, Grows, merge # 0, NEW s, s.target \in tips
  PROVE  /\ s.target \in tips'
         /\ s.mergeSha \in Ancestors(s.target) => s.mergeSha \in Ancestors(s.target)'
         /\ MergeRead(s) /\ Authority(s.target) = Authority(s.b) =>
              Authority(s.target)' = Authority(s.b)'
         /\ Authority(s.target)' = Authority(s.target)
<1>1. s.target \in DOMAIN commits /\ head \in DOMAIN commits
  BY DEF GraphInv, AdoptionTypes, MergeOfHead
<1>2. s.target \in tips'
  BY DEF Grows
<1>3. Ancestors(s.target)' = Ancestors(s.target) /\ Authority(s.target)' = Authority(s.target)
  BY <1>1, CommitsStay
<1>4. MergeRead(s) => s.b \in DOMAIN commits
  BY <1>1 DEF MergeRead
<1>5. MergeRead(s) => Authority(s.b)' = Authority(s.b)
  BY <1>4, CommitsStay
<1>6. QED
  BY <1>2, <1>3, <1>5

LEMMA KnownStays ==
  ASSUME GraphInv, Grows, Known PROVE Known'
<1>1. phase' = phase /\ seen' = seen
  BY DEF Grows
<1>2. phase # "idle" => merge' # 0 /\ main' \in tips' /\ seen.attempt \in DOMAIN attempts'
  BY DEF Known, Grows
<1>3. phase \in AfterPull => MergeRead(seen)'
  <2>1. SUFFICES ASSUME phase \in AfterPull PROVE MergeRead(seen)'
    OBVIOUS
  <2>2. merge # 0 /\ MergeRead(seen)
    BY <2>1 DEF Known, AfterPull, Resting
  <2>3. \A s : MergeRead(s) => MergeRead(s)'
    BY <2>2, MergeReadStays
  <2>4. QED
    BY <1>1, <2>2, <2>3 DEF MergeRead, Parents, Content
<1>4. phase \in AfterPolicy => RouteSelected(seen.base)'
  <2>1. SUFFICES ASSUME phase \in AfterPolicy PROVE RouteSelected(seen.base)'
    OBVIOUS
  <2>2. MergeRead(seen) /\ RouteSelected(seen.base)
    BY <2>1 DEF Known, AfterPolicy
  <2>3. seen.base \in DOMAIN commits
    BY <2>2 DEF MergeRead
  <2>4. commits'[seen.base] = commits[seen.base]
    BY <2>3 DEF Grows
  <2>5. QED
    BY <1>1, <2>2, <2>4 DEF RouteSelected, Content
<1>5. /\ phase \in AfterRun => RunRead(seen)'
      /\ phase \in AfterArtifact => ArtifactRead(seen)'
  <2>1. SUFFICES ASSUME phase \in AfterRun
                 PROVE  RunRead(seen)' /\ (phase \in AfterArtifact => ArtifactRead(seen)')
    BY DEF AfterArtifact
  <2>2. merge # 0 /\ seen.attempt \in DOMAIN attempts /\ RunRead(seen)
    BY <2>1 DEF Known, AfterRun, AfterPolicy, AfterPull, Resting
  <2>3. attempts'[seen.attempt] = attempts[seen.attempt] /\ mergedAt' = mergedAt
    BY <2>2 DEF Grows, RunRead
  <2>4. QED
    BY <1>1, <2>2, <2>3 DEF RunRead, ArtifactRead, Known
<1>6. phase \in AfterTarget => seen.target \in tips'
  BY DEF Known, Grows
<1>7. phase \in AfterCompare => seen.mergeSha \in Ancestors(seen.target)'
  <2>1. SUFFICES ASSUME phase \in AfterCompare PROVE seen.mergeSha \in Ancestors(seen.target)'
    OBVIOUS
  <2>2. seen.target \in DOMAIN commits /\ seen.mergeSha \in Ancestors(seen.target)
    BY <2>1 DEF Known, AfterCompare, GraphInv, AdoptionTypes
  <2>3. \A c \in DOMAIN commits : Ancestors(c)' = Ancestors(c)
    BY CommitsStay
  <2>4. QED
    BY <1>1, <2>2, <2>3
<1>8. phase \in AfterAuthority => /\ Authority(seen.target)' = Authority(seen.b)'
                                  /\ seen.authority = Authority(seen.target)'
  <2>1. SUFFICES ASSUME phase \in AfterAuthority
                 PROVE  /\ Authority(seen.target)' = Authority(seen.b)'
                        /\ seen.authority = Authority(seen.target)'
    OBVIOUS
  <2>2. /\ seen.target \in DOMAIN commits /\ seen.b = head /\ head \in DOMAIN commits
        /\ Authority(seen.target) = Authority(seen.b) /\ seen.authority = Authority(seen.target)
    BY <2>1 DEF Known, AfterAuthority, AfterCompare, AfterTarget, AfterArtifact, AfterRun,
                AfterPolicy, AfterPull, Resting, GraphInv, AdoptionTypes, MergeRead, MergeOfHead
  <2>3. commits'[seen.target] = commits[seen.target] /\ commits'[seen.b] = commits[seen.b]
    BY <2>2 DEF Grows
  <2>4. QED
    BY <1>1, <2>2, <2>3 DEF Authority, Content
<1>9. QED
  BY <1>1, <1>2, <1>3, <1>4, <1>5, <1>6, <1>7, <1>8 DEF Known

LEMMA RecordedStays ==
  ASSUME GraphInv, Grows, Recorded PROVE Recorded'
<1>1. record' = record /\ phase' = phase
  BY DEF Grows
<1>2. SUFFICES ASSUME record # {} PROVE phase = "done" /\ merge' # 0 /\ \A r \in record : Bound(r)'
  BY <1>1 DEF Recorded
<1>3. phase = "done" /\ merge # 0 /\ merge' # 0
  BY <1>2 DEF Recorded, Grows
<1>4. ASSUME NEW r \in record PROVE Bound(r)'
  <2>1. /\ r.attempt \in DOMAIN attempts
        /\ MergeRead(r) /\ RouteSelected(r.base) /\ RunRead(r) /\ ArtifactRead(r)
        /\ r.target \in tips /\ r.mergeSha \in Ancestors(r.target)
        /\ Authority(r.target) = Authority(r.b)
    BY <1>2 DEF Recorded, Bound
  <2>2. MergeRead(r)' /\ RunRead(r)' /\ ArtifactRead(r)' /\ r.attempt \in DOMAIN attempts'
    BY <1>3, <2>1, MergeReadStays, RunReadStays DEF Grows
  <2>3. RouteSelected(r.base)'
    BY <2>1, CommitsStay DEF MergeRead
  <2>4. /\ r.target \in tips' /\ r.mergeSha \in Ancestors(r.target)'
        /\ Authority(r.target)' = Authority(r.b)'
    BY <1>3, <2>1, TargetStays
  <2>5. QED
    BY <2>2, <2>3, <2>4 DEF Bound
<1>5. QED
  BY <1>3, <1>4

\* An attempt that was not accepted can be, but only after the merge.
LEMMA CauseStays ==
  ASSUME GraphInv, Grows, merge # 0, seen.attempt \in DOMAIN attempts, Cause
  PROVE  Cause'
<1> DEFINE a == attempts[seen.attempt]
           b == attempts'[seen.attempt]
<1>1. /\ merge' = merge /\ mergedAt' = mergedAt /\ seen' = seen /\ tips \subseteq tips'
      /\ b.head = a.head /\ b.base = a.base
      /\ a.state = "accepted" => b = a
      /\ a.state # "accepted" /\ b.state = "accepted" => b.acceptedAt = clock
  BY DEF Grows
<1>2. a.head \in DOMAIN commits /\ a.base \in DOMAIN commits /\ merge \in DOMAIN commits
  BY DEF GraphInv, AttemptsInOrder, AdoptionTypes
<1>3. mergedAt <= clock /\ clock \in Nat /\ mergedAt \in Nat
  BY DEF GraphInv, MergeOfHead, AdoptionTypes
<1>4. /\ Parents(merge)' = Parents(merge) /\ Content(merge)' = Content(merge)
      /\ Content(a.head)' = commits'[b.head].content /\ commits'[b.head].content = Content(a.head)
      /\ commits'[b.base] = commits[a.base]
  BY <1>1, <1>2 DEF Grows, Parents, Content
<1>5. CASE Parents(merge) # <<a.base, a.head>> \/ Content(merge) # Content(a.head)
           \/ ~RouteSelected(a.base)
  BY <1>1, <1>4, <1>5 DEF Cause, Parents, Content, RouteSelected
<1>6. CASE a.state # "accepted"
  <2>1. CASE b.state = "accepted"
    <3>1. b.acceptedAt >= mergedAt
      BY <1>1, <1>3, <1>6, <2>1
    <3>2. QED
      BY <1>1, <3>1 DEF Cause
  <2>2. CASE b.state # "accepted"
    BY <1>1, <2>2 DEF Cause
  <2>3. QED
    BY <2>1, <2>2
<1>7. CASE a.state = "accepted" /\ (a.verdict # "eligible" \/ a.acceptedAt >= mergedAt)
  BY <1>1, <1>7 DEF Cause
<1>8. ASSUME NEW t \in tips,
             \/ merge \notin Ancestors(t) \/ TooFar(merge, t)
             \/ Authority(t) # Authority(a.head)
      PROVE  Cause'
  <2>1. t \in DOMAIN commits /\ t \in tips'
    BY <1>1 DEF GraphInv, AdoptionTypes
  <2>2. Ancestors(t)' = Ancestors(t) /\ Authority(t)' = Authority(t)
    BY <2>1, CommitsStay
  <2>3. Authority(attempts[seen.attempt].head)' = Authority(a.head)
    BY <1>1, <1>2, <1>4 DEF Authority, Content
  <2>4. TooFar(merge, t)' <=> TooFar(merge, t)
    <3>1. PICK m \in DOMAIN commits : m = merge
      BY <1>2
    <3>2. Ancestors(m)' = Ancestors(m)
      BY <3>1, CommitsStay
    <3>3. TooFar(m, t)' <=> TooFar(m, t)
      BY <2>2, <3>2 DEF TooFar
    <3>4. QED
      BY <1>1, <3>1, <3>3
  <2>5. \/ merge' \notin Ancestors(t)' \/ TooFar(merge, t)'
        \/ Authority(t)' # Authority(attempts[seen.attempt].head)'
    BY <1>1, <1>8, <2>2, <2>3, <2>4
  <2>6. QED
    BY <2>1, <2>5 DEF Cause
<1>9. QED
  BY <1>5, <1>6, <1>7, <1>8 DEF Cause

LEMMA WorldStep ==
  ASSUME AdoptionInv, World PROVE AdoptionInv'
<1>1. GraphInv
  BY DEF AdoptionInv, GraphInv
<1>2. GraphInv' /\ Grows
  BY <1>1, WorldGrows
<1>3. Known' /\ Recorded'
  BY <1>1, <1>2, KnownStays, RecordedStays DEF AdoptionInv
<1>4. phase' = "refused" => Cause'
  BY <1>1, <1>2, CauseStays DEF AdoptionInv, Grows, Known
<1>5. QED
  BY <1>2, <1>3, <1>4 DEF AdoptionInv, GraphInv

-----------------------------------------------------------------------------
\* The steps of the finalizer: each read adds to what is known, or refuses for
\* a cause.

\* Nothing outside the finalizer changes.
Reads == UNCHANGED <<git, attempts, clock, tips, record>>

LEMMA ReadsKeep ==
  ASSUME AdoptionInv, Reads, record = {}, phase # "idle",
         phase' \in Phases \ {"idle"}, seen' \in Findings, seen'.attempt = seen.attempt,
         phase' = "refused" => Cause /\ seen' = seen,
         phase' \in AfterPull =>
            /\ MergeRead(seen')
            /\ phase' \in AfterPolicy => RouteSelected(seen'.base)
            /\ phase' \in AfterRun => RunRead(seen')
            /\ phase' \in AfterArtifact => ArtifactRead(seen')
            /\ phase' \in AfterTarget => seen'.target \in tips
            /\ phase' \in AfterCompare => seen'.mergeSha \in Ancestors(seen'.target)
            /\ phase' \in AfterAuthority => /\ Authority(seen'.target) = Authority(seen'.b)
                                            /\ seen'.authority = Authority(seen'.target)
  PROVE  AdoptionInv'
<1>1. UNCHANGED <<commits, main, head, merge, mergedAt, tag, attempts, clock, tips, record>>
  BY DEF Reads, git
<1>2. AdoptionTypes' /\ Graph' /\ MergeOfHead' /\ AttemptsInOrder'
  BY <1>1 DEF AdoptionInv, AdoptionTypes, Graph, MergeOfHead, AttemptsInOrder, Parents
<1>3. Recorded'
  BY <1>1 DEF Recorded
<1>4. phase' = "refused" => Cause'
  <2>1. \A c : Ancestors(c)' = Ancestors(c) /\ Authority(c)' = Authority(c)
               /\ Parents(c)' = Parents(c) /\ Content(c)' = Content(c)
               /\ RouteSelected(c)' = RouteSelected(c)
               /\ \A d : TooFar(d, c)' = TooFar(d, c)
    BY <1>1 DEF TooFar, Ancestors, Authority, Parents, Content, RouteSelected
  <2>2. SUFFICES ASSUME phase' = "refused" PROVE Cause'
    OBVIOUS
  <2>3. Cause /\ seen' = seen
    BY <2>2
  <2>4. QED
    BY <1>1, <2>1, <2>3 DEF Cause
<1>5. merge # 0 /\ main \in tips /\ seen.attempt \in DOMAIN attempts
  BY DEF AdoptionInv, Known
<1>6. Known'
  <2>1. AfterAuthority \subseteq AfterCompare /\ AfterCompare \subseteq AfterTarget
        /\ AfterTarget \subseteq AfterArtifact /\ AfterArtifact \subseteq AfterRun
        /\ AfterRun \subseteq AfterPolicy /\ AfterPolicy \subseteq AfterPull
    BY DEF AfterAuthority, AfterCompare, AfterTarget, AfterArtifact, AfterRun, AfterPolicy
  <2>2. phase' # "idle" => merge' # 0 /\ main' \in tips' /\ seen'.attempt \in DOMAIN attempts'
    BY <1>1, <1>5
  <2>3. phase' \in AfterPull => MergeRead(seen)'
    BY <1>1 DEF MergeRead, Parents, Content
  <2>4. phase' \in AfterPolicy => RouteSelected(seen.base)'
    BY <1>1, <2>1 DEF RouteSelected, Content
  <2>5. phase' \in AfterRun => RunRead(seen)'
    BY <1>1, <2>1 DEF RunRead
  <2>6. phase' \in AfterArtifact => ArtifactRead(seen)'
    BY <1>1, <2>1 DEF ArtifactRead
  <2>7. phase' \in AfterTarget => seen'.target \in tips'
    BY <1>1, <2>1
  <2>8. phase' \in AfterCompare => (seen.mergeSha \in Ancestors(seen.target))'
    BY <1>1, <2>1 DEF Ancestors, Parents
  <2>9. phase' \in AfterAuthority => (/\ Authority(seen.target) = Authority(seen.b)
                                      /\ seen.authority = Authority(seen.target))'
    BY <1>1, <2>1 DEF Authority, Content
  <2>10. QED
    BY <2>2, <2>3, <2>4, <2>5, <2>6, <2>7, <2>8, <2>9 DEF Known
<1>7. QED
  BY <1>2, <1>3, <1>4, <1>6 DEF AdoptionInv

\* The common shape of a read that either goes on or refuses.
LEMMA GoesKeeps ==
  ASSUME AdoptionInv, phase \in Phases \ Resting, NEW ok \in BOOLEAN,
         NEW next \in Phases \ {"idle", "refused"}, NEW what \in Findings, Goes(ok, next, what),
         what.attempt = seen.attempt,
         ~ok => Cause,
         ok /\ next \in AfterPull =>
            /\ MergeRead(what)
            /\ next \in AfterPolicy => RouteSelected(what.base)
            /\ next \in AfterRun => RunRead(what)
            /\ next \in AfterArtifact => ArtifactRead(what)
            /\ next \in AfterTarget => what.target \in tips
            /\ next \in AfterCompare => what.mergeSha \in Ancestors(what.target)
            /\ next \in AfterAuthority => /\ Authority(what.target) = Authority(what.b)
                                          /\ what.authority = Authority(what.target)
  PROVE  AdoptionInv'
<1>1. Reads /\ phase # "idle" /\ record = {}
  BY DEF Goes, Reads, git, AdoptionInv, Recorded, Resting
<1>2. CASE ok
  <2>1. phase' = next /\ seen' = what
    BY <1>2 DEF Goes
  <2>2. QED
    BY <1>1, <1>2, <2>1, ReadsKeep
<1>3. CASE ~ok
  <2>1. phase' = "refused" /\ seen' = seen
    BY <1>3 DEF Goes
  <2>2. seen \in Findings /\ phase' \in Phases \ {"idle"} /\ phase' \notin AfterPull
    BY <2>1 DEF AdoptionInv, AdoptionTypes, Phases, AfterPull, Resting
  <2>3. QED
    BY <1>1, <1>3, <2>1, <2>2, ReadsKeep
<1>4. QED
  BY <1>2, <1>3

LEMMA ReadMergeStep ==
  ASSUME AdoptionInv, ReadMerge PROVE AdoptionInv'
<1> DEFINE ordinary == /\ Len(Parents(merge)) = 2
                       /\ Parents(merge)[2] = head /\ Content(merge) = Content(head)
           what == [seen EXCEPT !.mergeSha = merge, !.b = head,
                                !.base = IF ordinary THEN Parents(merge)[1] ELSE 0]
<1>1. phase = "pull" /\ Goes(ordinary, "policy", what)
  BY DEF ReadMerge
<1>2. /\ merge # 0 /\ merge \in DOMAIN commits /\ seen \in Findings
      /\ head \in DOMAIN commits /\ DOMAIN commits \subseteq Nat
  BY <1>1 DEF AdoptionInv, AdoptionTypes, Known, MergeOfHead
<1>3. PICK c \in DOMAIN commits : Parents(merge) \in {<<c, head>>, <<c>>}
  BY <1>2 DEF AdoptionInv, MergeOfHead
<1>4. ordinary => Parents(merge) = <<c, head>> /\ what.base = c /\ Content(merge) = Content(head)
  BY <1>2, <1>3 DEF Findings
<1>5. ~ordinary => \/ Parents(merge) = <<c>>
                   \/ Parents(merge) = <<c, head>> /\ Content(merge) # Content(head)
  <2>1. Len(<<c, head>>) = 2 /\ <<c, head>>[2] = head
    OBVIOUS
  <2>2. CASE Parents(merge) = <<c, head>>
    BY <2>1, <2>2
  <2>3. QED
    BY <1>3, <2>2
<1>6. what \in Findings /\ what.attempt = seen.attempt /\ what.mergeSha = merge /\ what.b = head
  <2>1. (IF ordinary THEN Parents(merge)[1] ELSE 0) \in Nat
    BY <1>2, <1>3, <1>4
  <2> HIDE DEF ordinary
  <2>2. QED
    BY <1>2, <2>1 DEF Findings
<1>7. ordinary => MergeRead(what)
  <2> HIDE DEF ordinary, what
  <2>1. QED
    BY <1>4, <1>6 DEF MergeRead
<1>8. ~ordinary => Cause
  <2> HIDE DEF ordinary
  <2>1. QED
    BY <1>5 DEF Cause
<1>9. /\ phase \in Phases \ Resting /\ "policy" \in Phases \ {"idle", "refused"}
      /\ "policy" \notin AfterPolicy
  BY <1>1 DEF Phases, Resting, AfterPolicy, AfterPull
<1>10. ordinary \in BOOLEAN
  OBVIOUS
<1> HIDE DEF ordinary, what
<1>11. QED
  BY <1>1, <1>6, <1>7, <1>8, <1>9, <1>10, GoesKeeps
     DEF AfterAuthority, AfterCompare, AfterTarget, AfterArtifact, AfterRun

\* The sets of phases, one within the other.
LEMMA PhasesInOrder ==
  /\ AfterPull = {"policy", "run", "artifact", "tagObject", "tagRef", "target", "compare",
                  "authority", "build"}
  /\ AfterPolicy = {"run", "artifact", "tagObject", "tagRef", "target", "compare", "authority", "build"}
  /\ AfterRun = {"artifact", "tagObject", "tagRef", "target", "compare", "authority", "build"}
  /\ AfterArtifact = {"tagObject", "tagRef", "target", "compare", "authority", "build"}
  /\ AfterTarget = {"compare", "authority", "build"}
  /\ AfterCompare = {"authority", "build"} /\ AfterAuthority = {"build"}
  /\ Phases \ Resting = AfterPull \cup {"pull"}
  /\ AfterPull \subseteq Phases \ {"idle", "refused"}
<1>1. /\ AfterPull = {"policy", "run", "artifact", "tagObject", "tagRef", "target", "compare",
                      "authority", "build"}
      /\ Phases \ Resting = AfterPull \cup {"pull"}
      /\ AfterPull \subseteq Phases \ {"idle", "refused"}
  BY DEF AfterPull, Phases, Resting
<1>2. AfterPolicy = {"run", "artifact", "tagObject", "tagRef", "target", "compare", "authority", "build"}
  BY <1>1 DEF AfterPolicy
<1>3. AfterRun = {"artifact", "tagObject", "tagRef", "target", "compare", "authority", "build"}
  BY <1>2 DEF AfterRun
<1>4. AfterArtifact = {"tagObject", "tagRef", "target", "compare", "authority", "build"}
  BY <1>3 DEF AfterArtifact
<1>5. AfterTarget = {"compare", "authority", "build"}
  BY <1>4 DEF AfterTarget
<1>6. QED
  BY <1>1, <1>2, <1>3, <1>4, <1>5 DEF AfterCompare, AfterAuthority

\* What is known of the attempt and of the merge by the time the run is read.
LEMMA AttemptKnown ==
  ASSUME AdoptionInv, phase \in Phases \ Resting
  PROVE  /\ seen \in Findings /\ seen.attempt \in DOMAIN attempts /\ merge # 0 /\ main \in tips
         /\ attempts[seen.attempt] \in AttemptRecords /\ mergedAt \in Nat
         /\ LET a == attempts[seen.attempt]
            IN  a.state = "accepted" => a.uploadedAt <= a.doneAt /\ a.doneAt <= a.acceptedAt
<1>1. seen.attempt \in DOMAIN attempts /\ merge # 0 /\ seen \in Findings /\ mergedAt \in Nat
      /\ main \in tips
  BY DEF AdoptionInv, AdoptionTypes, Known, Resting
<1>2. QED
  BY <1>1, AttemptTypes DEF AdoptionInv, AttemptsInOrder

LEMMA ReadPolicyStep ==
  ASSUME AdoptionInv, ReadPolicy PROVE AdoptionInv'
<1>1. phase = "policy" /\ Goes(RouteSelected(seen.base), "run", seen)
  BY DEF ReadPolicy
<1>2. MergeRead(seen) /\ seen \in Findings
  BY <1>1, PhasesInOrder DEF AdoptionInv, Known, AdoptionTypes
<1>3. ~RouteSelected(seen.base) => Cause
  BY <1>2 DEF MergeRead, Cause
<1>4. RouteSelected(seen.base) \in BOOLEAN
  BY DEF RouteSelected
<1>5. QED
  BY <1>1, <1>2, <1>3, <1>4, PhasesInOrder, GoesKeeps

LEMMA ReadRunStep ==
  ASSUME AdoptionInv, ReadRun PROVE AdoptionInv'
<1> DEFINE a == attempts[seen.attempt]
           ok(linked) == /\ a.state = "accepted" /\ a.head = seen.b
                         /\ linked => a.base = seen.base
                         /\ a.doneAt < mergedAt /\ a.acceptedAt < mergedAt
<1>1. phase = "run" /\ \E linked \in BOOLEAN : Goes(ok(linked), "artifact", seen)
  BY DEF ReadRun
<1>2. PICK linked \in BOOLEAN : Goes(ok(linked), "artifact", seen)
  BY <1>1
<1>3. MergeRead(seen) /\ RouteSelected(seen.base) /\ seen \in Findings
  BY <1>1, PhasesInOrder DEF AdoptionInv, Known, AdoptionTypes
<1>4. /\ a \in AttemptRecords /\ mergedAt \in Nat
      /\ a.state = "accepted" => a.uploadedAt <= a.doneAt /\ a.doneAt <= a.acceptedAt
  BY <1>1, PhasesInOrder, AttemptKnown
<1>5. ASSUME ~ok(linked) PROVE Cause
  <2>1. CASE a.state # "accepted" \/ a.head # seen.b \/ a.base # seen.base
    BY <2>1, <1>3 DEF Cause, MergeRead
  <2>2. CASE a.state = "accepted" /\ (~(a.doneAt < mergedAt) \/ ~(a.acceptedAt < mergedAt))
    <3>1. a.acceptedAt >= mergedAt
      BY <2>2, <1>4 DEF AttemptRecords
    <3>2. QED
      BY <3>1 DEF Cause
  <2>3. QED
    BY <1>5, <2>1, <2>2
<1>6. ok(linked) => RunRead(seen)
  BY DEF RunRead
<1>7. ok(linked) \in BOOLEAN
  OBVIOUS
<1> HIDE DEF ok
<1>8. QED
  BY <1>1, <1>2, <1>3, <1>5, <1>6, <1>7, PhasesInOrder, GoesKeeps

LEMMA ReadArtifactStep ==
  ASSUME AdoptionInv, ReadArtifact PROVE AdoptionInv'
<1> DEFINE a == attempts[seen.attempt]
           ok == /\ a.uploadedAt <= a.doneAt /\ a.uploadedAt < mergedAt
                 /\ a.head = seen.b /\ a.base = seen.base
                 /\ a.verdict = "eligible"
<1>1. phase = "artifact" /\ Goes(ok, "tagObject", seen)
  BY DEF ReadArtifact
<1>2. MergeRead(seen) /\ RouteSelected(seen.base) /\ RunRead(seen) /\ seen \in Findings
  BY <1>1, PhasesInOrder DEF AdoptionInv, Known, AdoptionTypes
<1>3. /\ a \in AttemptRecords /\ mergedAt \in Nat
      /\ a.state = "accepted" => a.uploadedAt <= a.doneAt /\ a.doneAt <= a.acceptedAt
  BY <1>1, PhasesInOrder, AttemptKnown
<1>4. a.uploadedAt <= a.doneAt /\ a.uploadedAt < mergedAt /\ a.head = seen.b
  BY <1>2, <1>3 DEF RunRead, AttemptRecords
<1>5. ~ok => Cause
  BY <1>2, <1>4 DEF Cause, MergeRead
<1>6. ok => ArtifactRead(seen)
  BY DEF ArtifactRead
<1>7. ok \in BOOLEAN
  OBVIOUS
<1> HIDE DEF ok
<1>8. QED
  BY <1>1, <1>2, <1>5, <1>6, <1>7, PhasesInOrder, GoesKeeps

\* The tag decides nothing, and what is noted of it neither.
LEMMA TagSteps ==
  ASSUME AdoptionInv, ReadTagObject \/ ReadTagRef \/ ReadTarget PROVE AdoptionInv'
<1>1. phase \in {"tagObject", "tagRef", "target"}
  BY DEF ReadTagObject, ReadTagRef, ReadTarget
<1>2. /\ MergeRead(seen) /\ RouteSelected(seen.base) /\ RunRead(seen) /\ ArtifactRead(seen)
      /\ seen \in Findings /\ main \in tips /\ tips \subseteq Nat /\ tag \in Nat
  BY <1>1, PhasesInOrder DEF AdoptionInv, Known, AdoptionTypes, Resting
<1>3. CASE ReadTagObject
  <2>1. phase = "tagObject" /\ Goes(TRUE, "tagRef", seen)
    BY <1>3 DEF ReadTagObject
  <2>2. QED
    BY <1>2, <2>1, PhasesInOrder, GoesKeeps
<1>4. CASE ReadTagRef
  <2> DEFINE what == [seen EXCEPT !.tagRef = tag]
  <2>1. phase = "tagRef" /\ Goes(TRUE, "target", what)
    BY <1>4 DEF ReadTagRef
  <2>2. what \in Findings /\ what.attempt = seen.attempt
    BY <1>2 DEF Findings
  <2>3. MergeRead(what) /\ RouteSelected(what.base) /\ RunRead(what) /\ ArtifactRead(what)
    BY <1>2 DEF Findings, MergeRead, RunRead, ArtifactRead
  <2> HIDE DEF what
  <2>4. QED
    BY <2>1, <2>2, <2>3, PhasesInOrder, GoesKeeps
<1>5. CASE ReadTarget
  <2> DEFINE what == [seen EXCEPT !.target = main]
  <2>1. phase = "target" /\ Goes(TRUE, "compare", what)
    BY <1>5 DEF ReadTarget
  <2>2. what \in Findings /\ what.attempt = seen.attempt /\ what.target = main
    BY <1>2 DEF Findings
  <2>3. MergeRead(what) /\ RouteSelected(what.base) /\ RunRead(what) /\ ArtifactRead(what)
    BY <1>2 DEF Findings, MergeRead, RunRead, ArtifactRead
  <2> HIDE DEF what
  <2>4. QED
    BY <1>2, <2>1, <2>2, <2>3, PhasesInOrder, GoesKeeps
<1>6. QED
  BY <1>3, <1>4, <1>5

LEMMA CompareStep ==
  ASSUME AdoptionInv, Compare PROVE AdoptionInv'
<1>i. PICK all \in BOOLEAN :
         Goes(/\ seen.mergeSha \in Ancestors(seen.target)
              /\ all => ~TooFar(seen.mergeSha, seen.target), "authority", seen)
  BY DEF Compare
<1> DEFINE ok == /\ seen.mergeSha \in Ancestors(seen.target)
                 /\ all => ~TooFar(seen.mergeSha, seen.target)
<1>1. phase = "compare" /\ Goes(ok, "authority", seen)
  BY <1>i DEF Compare
<1>2. /\ MergeRead(seen) /\ RouteSelected(seen.base) /\ RunRead(seen) /\ ArtifactRead(seen)
      /\ seen \in Findings /\ seen.target \in tips
  BY <1>1, PhasesInOrder DEF AdoptionInv, Known, AdoptionTypes
<1>3. ~ok => Cause
  BY <1>2 DEF MergeRead, Cause
<1>4. ok \in BOOLEAN /\ (ok => seen.mergeSha \in Ancestors(seen.target))
  OBVIOUS
<1> HIDE DEF ok
<1>5. QED
  BY <1>1, <1>2, <1>3, <1>4, PhasesInOrder, GoesKeeps

LEMMA ReadAuthorityStep ==
  ASSUME AdoptionInv, ReadAuthority PROVE AdoptionInv'
<1> DEFINE ok == Authority(seen.target) = Authority(seen.b)
           what == [seen EXCEPT !.authority = Authority(seen.target)]
<1>1. phase = "authority" /\ Goes(ok, "build", what)
  BY DEF ReadAuthority
<1>2. /\ MergeRead(seen) /\ RouteSelected(seen.base) /\ RunRead(seen) /\ ArtifactRead(seen)
      /\ seen \in Findings /\ seen.target \in tips /\ seen.mergeSha \in Ancestors(seen.target)
  BY <1>1, PhasesInOrder DEF AdoptionInv, Known, AdoptionTypes
<1>3. Authority(seen.target) \in SUBSET {"addition", "amend"}
  BY DEF Authority
<1>4. /\ what \in Findings /\ what.attempt = seen.attempt /\ what.target = seen.target
      /\ what.b = seen.b /\ what.base = seen.base /\ what.mergeSha = seen.mergeSha
      /\ what.authority = Authority(seen.target)
  BY <1>2, <1>3 DEF Findings
<1>5. ~ok => Cause
  BY <1>2 DEF RunRead, Cause
<1>6. ok \in BOOLEAN
  OBVIOUS
<1>7. MergeRead(what) /\ RouteSelected(what.base) /\ RunRead(what) /\ ArtifactRead(what)
  <2> HIDE DEF what
  <2>1. QED
    BY <1>2, <1>4 DEF MergeRead, RunRead, ArtifactRead
<1>8. ok => Authority(what.target) = Authority(what.b) /\ what.authority = Authority(what.target)
  <2> HIDE DEF what
  <2>1. QED
    BY <1>4
<1> HIDE DEF ok, what
<1>9. QED
  BY <1>1, <1>2, <1>4, <1>5, <1>6, <1>7, <1>8, PhasesInOrder, GoesKeeps

\* All that is known by then amounts to an adoption that is valid.
LEMMA AllBoundIsValid ==
  ASSUME NEW f,
         f.procedure = "bound", f.ordinary = "bound", f.set = "bound", f.eligible = "bound",
         f.verdict = "eligible", f.merge = "bound", f.evidence = "bound", f.before,
         f.readback = "bound"
  PROVE  Adoption(f) = "valid"
<1>1. FirstFault(f) = {}
  <2>1. \A i \in DOMAIN EligibilityFacts : f[EligibilityFacts[i]] = "bound"
    BY DEF EligibilityFacts
  <2>2. QED
    BY <2>1 DEF FirstFault
<1>2. Eligibility(f) = "eligible"
  BY <1>1 DEF Eligibility
<1>3. MergeValid(f) /\ ~EvidenceIncomplete(f) /\ EvidenceValid(f)
  BY DEF MergeValid, EvidenceIncomplete, EvidenceValid
<1>4. Canonical(f) = "verified"
  BY <1>3 DEF Canonical
<1>5. QED
  BY <1>2, <1>3, <1>4 DEF Adoption

LEMMA BuildStep ==
  ASSUME AdoptionInv, Build PROVE AdoptionInv'
<1>1. phase = "build" /\ UNCHANGED <<git, attempts, clock, seen, tips>>
  BY DEF Build
<1>2. /\ MergeRead(seen) /\ RouteSelected(seen.base) /\ RunRead(seen) /\ ArtifactRead(seen)
      /\ seen.target \in tips /\ seen.mergeSha \in Ancestors(seen.target)
      /\ Authority(seen.target) = Authority(seen.b) /\ seen.authority = Authority(seen.target)
      /\ merge # 0 /\ main \in tips /\ seen.attempt \in DOMAIN attempts /\ record = {}
  BY <1>1, PhasesInOrder DEF AdoptionInv, Known, Recorded
<1>3. Adoption(Facts) = "valid"
  <2>1. ReadbackHolds /\ attempts[seen.attempt].doneAt < mergedAt
    BY <1>2 DEF ReadbackHolds, RunRead
  <2>2. /\ Facts.procedure = "bound" /\ Facts.ordinary = "bound" /\ Facts.set = "bound"
        /\ Facts.eligible = "bound" /\ Facts.verdict = "eligible" /\ Facts.merge = "bound"
        /\ Facts.evidence = "bound" /\ Facts.before /\ Facts.readback = "bound"
    BY <2>1 DEF Facts
  <2>3. QED
    BY <2>2, AllBoundIsValid
<1>4. phase' = "done" /\ record' = {seen}
  BY <1>2, <1>3 DEF Build
<1>5. UNCHANGED <<commits, main, head, merge, mergedAt, tag, attempts, clock, seen, tips>>
  BY <1>1 DEF git
<1>6. AdoptionTypes' /\ Graph' /\ MergeOfHead' /\ AttemptsInOrder'
  BY <1>4, <1>5 DEF AdoptionInv, AdoptionTypes, Phases, Resting, Graph, MergeOfHead, AttemptsInOrder,
                    Parents
<1>7. phase' \notin AfterPull /\ phase' # "refused"
  BY <1>4, PhasesInOrder
<1>8. Known'
  BY <1>2, <1>4, <1>5, PhasesInOrder DEF Known
<1>9. Bound(seen)'
  BY <1>2, <1>5 DEF Bound, MergeRead, RouteSelected, RunRead, ArtifactRead, Ancestors, Authority,
                    Parents, Content
<1>10. Recorded'
  <2>1. \A r : r = seen' => Bound(r)'
    BY <1>9, <1>5 DEF Bound, MergeRead, RouteSelected, RunRead, ArtifactRead, Ancestors, Authority,
                      Parents, Content
  <2>2. QED
    BY <1>2, <1>4, <1>5, <2>1 DEF Recorded
<1>11. QED
  BY <1>6, <1>7, <1>8, <1>10 DEF AdoptionInv

LEMMA FailureStep ==
  ASSUME AdoptionInv, CallFails \/ EvidenceLost PROVE AdoptionInv'
<1>1. phase \in Phases \ Resting /\ phase' = "failed"
      /\ UNCHANGED <<git, attempts, clock, seen, tips, record>>
  BY DEF AdoptionInv, AdoptionTypes, CallFails, EvidenceLost, Resting
<1>2. Reads /\ record = {} /\ phase # "idle"
  BY <1>1 DEF Reads, AdoptionInv, Recorded, Resting
<1>3. phase' \in Phases \ {"idle"} /\ phase' \notin AfterPull /\ seen' \in Findings
  BY <1>1, PhasesInOrder DEF Phases, Resting, AdoptionInv, AdoptionTypes
<1>4. QED
  BY <1>1, <1>2, <1>3, ReadsKeep

LEMMA BeginStep ==
  ASSUME AdoptionInv, NEW a \in 1 .. MaxAttempts, Begin(a) PROVE AdoptionInv'
<1>1. /\ merge # 0 /\ phase \in Resting \ {"done"} /\ a \in DOMAIN attempts
      /\ phase' = "pull" /\ seen' = [Waiting EXCEPT !.attempt = a] /\ tips' = {main}
      /\ UNCHANGED <<commits, main, head, merge, mergedAt, tag, attempts, clock, record>>
  BY DEF Begin, git
<1>2. record = {}
  BY <1>1 DEF AdoptionInv, Recorded
<1>3. seen' \in Findings /\ seen'.attempt = a
  BY <1>1 DEF Waiting, Findings
<1>4. phase' \in Phases /\ phase' \notin AfterPull /\ phase' \notin {"idle", "refused"}
  BY <1>1, PhasesInOrder DEF Phases
<1>5. AdoptionTypes' /\ Graph' /\ MergeOfHead' /\ AttemptsInOrder'
  BY <1>1, <1>3, <1>4 DEF AdoptionInv, AdoptionTypes, Graph, MergeOfHead, AttemptsInOrder, Parents
<1>6. Known'
  BY <1>1, <1>3, <1>4, PhasesInOrder DEF Known
<1>7. Recorded'
  BY <1>1, <1>2 DEF Recorded
<1>8. QED
  BY <1>4, <1>5, <1>6, <1>7 DEF AdoptionInv

LEMMA AdoptionStarts ==
  ASSUME InitAdoption PROVE AdoptionInv
<1>1. PICK content \in SUBSET {"route"} : commits = <<[parents |-> <<>>, content |-> content]>>
  BY DEF InitAdoption
<1>2. /\ main = 1 /\ head = 0 /\ merge = 0 /\ mergedAt = 0 /\ tag = 0
      /\ attempts = <<>> /\ clock = 1
      /\ phase = "idle" /\ seen = Waiting /\ tips = {} /\ record = {}
  BY DEF InitAdoption
<1>3. [parents |-> <<>>, content |-> content] \in Commits
  BY DEF Commits
<1>4. commits \in Seq(Commits) /\ DOMAIN commits = {1} /\ commits[1].parents = <<>>
  BY <1>1, <1>3
<1>5. seen \in Findings
  BY <1>2 DEF Waiting, Findings
<1>6. AdoptionTypes
  BY <1>2, <1>4, <1>5 DEF AdoptionTypes, Phases, Resting
<1>7. Graph
  <2>1. Range(<<>>) = {}
    BY DEF Range
  <2>2. QED
    BY <1>4, <2>1 DEF Graph, Parents
<1>8. phase \notin AfterPull
  BY <1>2, PhasesInOrder
<1>9. MergeOfHead /\ AttemptsInOrder /\ Known /\ Recorded
  BY <1>2, <1>8, PhasesInOrder DEF MergeOfHead, AttemptsInOrder, Known, Recorded
<1>10. QED
  BY <1>2, <1>6, <1>7, <1>9 DEF AdoptionInv

LEMMA AdoptionStep ==
  ASSUME AdoptionInv, [AdoptionNext]_adoptionVars PROVE AdoptionInv'
<1>1. CASE World
  BY <1>1, WorldStep
<1>2. CASE Finalize
  BY <1>2, FailureStep, ReadMergeStep, ReadPolicyStep, ReadRunStep, ReadArtifactStep, TagSteps,
     CompareStep, ReadAuthorityStep, BuildStep DEF Finalize
<1>3. CASE \E a \in 1 .. MaxAttempts : Begin(a)
  BY <1>3, BeginStep
<1>4. CASE UNCHANGED adoptionVars
  <2>1. UNCHANGED <<commits, main, head, merge, mergedAt, tag, attempts, clock, phase, seen, tips,
                    record>>
    BY <1>4 DEF adoptionVars, git, finalizer
  <2>2. AdoptionTypes' /\ Graph' /\ MergeOfHead' /\ AttemptsInOrder'
    BY <2>1 DEF AdoptionInv, AdoptionTypes, Graph, MergeOfHead, AttemptsInOrder, Parents
  <2>3. GraphInv /\ Grows
    BY <2>1 DEF AdoptionInv, GraphInv, Grows
  <2>4. Known' /\ Recorded' /\ (phase' = "refused" => Cause')
    BY <2>1, <2>3, KnownStays, RecordedStays, CauseStays DEF AdoptionInv, Known
  <2>5. QED
    BY <2>2, <2>4 DEF AdoptionInv
<1>5. QED
  BY <1>1, <1>2, <1>3, <1>4 DEF AdoptionNext

\* What the finalizer has read is true when it acts on it, and what it wrote
\* or refused for stays true, in a repository that goes on changing
\* (finalize-owner-addition.mts:265-362).
THEOREM AdoptionInvariance == AdoptionSpec => []AdoptionInv
<1>1. InitAdoption => AdoptionInv
  BY AdoptionStarts
<1>2. AdoptionInv /\ [AdoptionNext]_adoptionVars => AdoptionInv'
  BY AdoptionStep
<1>3. QED
  BY <1>1, <1>2, PTL DEF AdoptionSpec

\* An adoption record stands for an ordinary merge of the very head that was
\* found eligible, on its base and before the merge, and for one revision of
\* the branch that contains it with the Authority that was judged
\* (finalize-owner-addition.mts:265-362).
THEOREM RecordsBind == AdoptionSpec => []RecordBindsTheMerge
<1>1. AdoptionInv => RecordBindsTheMerge
  BY DEF AdoptionInv, Recorded, Bound, MergeRead, RunRead, ArtifactRead, RecordBindsTheMerge
<1>2. QED
  BY <1>1, AdoptionInvariance, PTL

\* An adoption is refused for what is wrong with the merge, the attempt, its
\* route or the branch, never for the tag (finalize-owner-addition.mts:341-348).
THEOREM RefusalsHaveCause == AdoptionSpec => []RefusedForCause
<1>1. AdoptionInv => RefusedForCause
  BY DEF AdoptionInv, Cause, RefusedForCause
<1>2. QED
  BY <1>1, AdoptionInvariance, PTL

-----------------------------------------------------------------------------
\* The evaluation, for facts that come in in any order.

FactRecords ==
    [procedure : Qualities, ordinary : Qualities, set : Qualities, eligible : Qualities,
     verdict : {"eligible", "ineligible"}, merge : Qualities, evidence : Qualities,
     before : BOOLEAN, readback : Qualities]

FactsInv == facts \in FactRecords

FactKinds == {"procedure", "ordinary", "set", "eligible", "merge", "evidence", "readback"}

\* The four facts of eligibility, written out.
AllEligible(f) ==
    f.procedure = "bound" /\ f.ordinary = "bound" /\ f.set = "bound" /\ f.eligible = "bound"

FirstUnverified(f) ==
    \/ f.procedure = "unverified"
    \/ f.procedure = "bound" /\ f.ordinary = "unverified"
    \/ f.procedure = "bound" /\ f.ordinary = "bound" /\ f.set = "unverified"
    \/ f.procedure = "bound" /\ f.ordinary = "bound" /\ f.set = "bound" /\ f.eligible = "unverified"

LEMMA EligibilityWrittenOut ==
  ASSUME NEW f
  PROVE  /\ Eligibility(f) = IF AllEligible(f) THEN f.verdict ELSE "incomplete"
         /\ EligibilityUnavailable(f) <=> FirstUnverified(f)
<1> DEFINE E == <<"procedure", "ordinary", "set", "eligible">>
<1>1. /\ DOMAIN E = 1 .. 4 /\ E[1] = "procedure" /\ E[2] = "ordinary" /\ E[3] = "set"
      /\ E[4] = "eligible"
  OBVIOUS
<1>2. FirstFault(f) = {i \in DOMAIN E : f[E[i]] # "bound" /\ \A k \in 1 .. i - 1 : f[E[k]] = "bound"}
  BY DEF FirstFault, EligibilityFacts
<1>3. EligibilityUnavailable(f) <=> \E i \in FirstFault(f) : f[E[i]] = "unverified"
  BY DEF EligibilityUnavailable, EligibilityFacts
<1> HIDE DEF E
<1>4. /\ 1 \in FirstFault(f) <=> f.procedure # "bound"
      /\ 2 \in FirstFault(f) <=> f.procedure = "bound" /\ f.ordinary # "bound"
      /\ 3 \in FirstFault(f) <=> f.procedure = "bound" /\ f.ordinary = "bound" /\ f.set # "bound"
      /\ 4 \in FirstFault(f) <=> /\ f.procedure = "bound" /\ f.ordinary = "bound"
                                 /\ f.set = "bound" /\ f.eligible # "bound"
  <2>1. 1 .. 0 = {} /\ 1 .. 1 = {1} /\ 1 .. 2 = {1, 2} /\ 1 .. 3 = {1, 2, 3}
    OBVIOUS
  <2>2. 1 \in DOMAIN E /\ 2 \in DOMAIN E /\ 3 \in DOMAIN E /\ 4 \in DOMAIN E
    BY <1>1
  <2>3. QED
    BY <1>1, <1>2, <2>1, <2>2
<1>5. \A i \in FirstFault(f) : i \in {1, 2, 3, 4}
  BY <1>1, <1>2
<1>6. FirstFault(f) = {} <=> AllEligible(f)
  BY <1>4, <1>5 DEF AllEligible
<1>7. (\E i \in FirstFault(f) : f[E[i]] = "unverified") <=> FirstUnverified(f)
  BY <1>1, <1>4, <1>5 DEF FirstUnverified
<1>8. QED
  BY <1>3, <1>6, <1>7 DEF Eligibility

\* The evaluation, written out.
PlainAdoption(f) ==
    IF AllEligible(f) /\ f.verdict = "ineligible" THEN "invalid"
    ELSE IF f.merge = "none" /\ f.readback = "none" THEN "pending"
    ELSE IF ~AllEligible(f) THEN IF FirstUnverified(f) THEN "incomplete" ELSE "invalid"
    ELSE IF f.merge # "bound" THEN "invalid"
    ELSE IF f.evidence \in {"none", "unverified"} THEN "incomplete"
    ELSE IF f.evidence # "bound" \/ ~f.before THEN "invalid"
    ELSE IF f.readback = "none" THEN "pending"
    ELSE IF f.readback = "bound" THEN "valid" ELSE "invalid"

LEMMA AdoptionWrittenOut ==
  ASSUME NEW f \in FactRecords PROVE Adoption(f) = PlainAdoption(f)
<1>1. /\ Eligibility(f) = IF AllEligible(f) THEN f.verdict ELSE "incomplete"
      /\ EligibilityUnavailable(f) <=> FirstUnverified(f)
  BY EligibilityWrittenOut
<1>2. /\ f.verdict \in {"eligible", "ineligible"} /\ f.before \in BOOLEAN
      /\ f.merge \in {"none", "unverified", "bound", "wrong"}
      /\ f.evidence \in {"none", "unverified", "bound", "wrong"}
      /\ f.readback \in {"none", "unverified", "bound", "wrong"}
  BY DEF FactRecords, Qualities
<1>3. /\ MergeValid(f) <=> f.merge = "bound"
      /\ EvidenceIncomplete(f) <=> f.evidence \in {"none", "unverified"}
      /\ f.merge = "bound" => (EvidenceValid(f) <=> f.evidence = "bound" /\ f.before)
  BY DEF MergeValid, EvidenceIncomplete, EvidenceValid
<1>4. f.merge = "bound" =>
        Canonical(f) = IF f.readback = "none" THEN "pending"
                       ELSE IF f.readback = "bound" THEN "verified" ELSE "invalid"
  BY <1>3 DEF Canonical
<1>5. QED
  BY <1>1, <1>2, <1>3, <1>4 DEF Adoption, PlainAdoption

\* One fact comes in; it was not there, or not verified.
OneComes(f, g, kind) ==
    /\ f[kind] \in {"none", "unverified"} /\ g[kind] # "none" /\ g[kind] # f[kind]
    /\ \A other \in (FactKinds \cup {"verdict", "before"}) \ {kind} : g[other] = f[other]

LEMMA OneFactComes ==
  ASSUME FactsInv, Lifecycle!Next
  PROVE  FactsInv' /\ \E kind \in FactKinds : OneComes(facts, facts', kind)
<1>1. facts \in FactRecords
  BY DEF FactsInv
<1>2. PICK kind \in FactKinds : Lifecycle!Comes(kind)
  BY DEF Lifecycle!Next, Lifecycle!Learn, Lifecycle!Merged, Lifecycle!ReadBack, FactKinds
<1>3. PICK q \in Qualities \ {"none", facts[kind]} : facts' = [facts EXCEPT ![kind] = q]
  BY <1>2 DEF Lifecycle!Comes, Lifecycle!Qualities, Qualities
<1>4. facts[kind] \in {"none", "unverified"}
  BY <1>2 DEF Lifecycle!Comes
<1>5. DOMAIN facts = FactKinds \cup {"verdict", "before"}
  BY <1>1 DEF FactRecords, FactKinds
<1>6. OneComes(facts, facts', kind)
  BY <1>3, <1>4, <1>5 DEF OneComes, FactKinds
<1>7. facts' \in FactRecords
  BY <1>1, <1>3 DEF FactRecords, FactKinds
<1>8. QED
  BY <1>6, <1>7 DEF FactsInv

\* The fact that turned a verdict around was the first at fault.
Turned(f, g) ==
    \E i \in DOMAIN Judged :
        /\ \A k \in 1 .. i - 1 : f[Judged[k]] = "bound"
        /\ f[Judged[i]] \in Premature[Judged[i]] /\ g[Judged[i]] # f[Judged[i]]

LEMMA JudgedInOrder ==
  /\ DOMAIN Judged = 1 .. 7
  /\ Judged[1] = "procedure" /\ Judged[2] = "ordinary" /\ Judged[3] = "set"
  /\ Judged[4] = "eligible" /\ Judged[5] = "merge" /\ Judged[6] = "evidence"
  /\ Judged[7] = "readback"
BY DEF Judged, EligibilityFacts

LEMMA TurnedWrittenOut ==
  ASSUME NEW f, NEW g,
         \/ f.procedure = "none" /\ g.procedure # f.procedure
         \/ f.procedure = "bound" /\ f.ordinary = "none" /\ g.ordinary # f.ordinary
         \/ f.procedure = "bound" /\ f.ordinary = "bound" /\ f.set = "none" /\ g.set # f.set
         \/ /\ f.procedure = "bound" /\ f.ordinary = "bound" /\ f.set = "bound"
            /\ f.eligible = "none" /\ g.eligible # f.eligible
         \/ AllEligible(f) /\ f.merge \in {"none", "unverified"} /\ g.merge # f.merge
         \/ /\ AllEligible(f) /\ f.merge = "bound" /\ f.evidence = "bound"
            /\ f.readback = "unverified" /\ g.readback # f.readback
  PROVE  Turned(f, g)
<1> USE JudgedInOrder
<1>1. /\ Premature["procedure"] = {"none"} /\ Premature["ordinary"] = {"none"}
      /\ Premature["set"] = {"none"} /\ Premature["eligible"] = {"none"}
      /\ Premature["merge"] = {"none", "unverified"} /\ Premature["readback"] = {"unverified"}
  BY DEF Premature
<1>2. /\ 1 .. 0 = {} /\ 1 .. 1 = {1} /\ 1 .. 2 = {1, 2} /\ 1 .. 3 = {1, 2, 3}
      /\ 1 .. 4 = {1, 2, 3, 4} /\ 1 .. 6 = {1, 2, 3, 4, 5, 6}
      /\ 1 .. 7 = {1, 2, 3, 4, 5, 6, 7}
  OBVIOUS
<1>3. ASSUME NEW i \in DOMAIN Judged, \A k \in 1 .. i - 1 : f[Judged[k]] = "bound",
             f[Judged[i]] \in Premature[Judged[i]], g[Judged[i]] # f[Judged[i]]
      PROVE  Turned(f, g)
  BY <1>3 DEF Turned
<1>4. CASE f.procedure = "none" /\ g.procedure # f.procedure
  BY <1>1, <1>2, <1>3, <1>4
<1>5. CASE f.procedure = "bound" /\ f.ordinary = "none" /\ g.ordinary # f.ordinary
  BY <1>1, <1>2, <1>3, <1>5
<1>6. CASE f.procedure = "bound" /\ f.ordinary = "bound" /\ f.set = "none" /\ g.set # f.set
  BY <1>1, <1>2, <1>3, <1>6
<1>7. CASE /\ f.procedure = "bound" /\ f.ordinary = "bound" /\ f.set = "bound"
           /\ f.eligible = "none" /\ g.eligible # f.eligible
  BY <1>1, <1>2, <1>3, <1>7
<1>8. CASE AllEligible(f) /\ f.merge \in {"none", "unverified"} /\ g.merge # f.merge
  BY <1>1, <1>2, <1>3, <1>8 DEF AllEligible
<1>9. CASE /\ AllEligible(f) /\ f.merge = "bound" /\ f.evidence = "bound"
           /\ f.readback = "unverified" /\ g.readback # f.readback
  BY <1>1, <1>2, <1>3, <1>9 DEF AllEligible
<1>10. QED
  BY <1>4, <1>5, <1>6, <1>7, <1>8, <1>9

\* A verdict is turned around by the first fact at fault or not at all.
LEMMA OneFactTurns ==
  ASSUME NEW f \in FactRecords, NEW g \in FactRecords,
         NEW kind \in FactKinds, OneComes(f, g, kind),
         PlainAdoption(f) \in {"valid", "invalid"}, PlainAdoption(g) # PlainAdoption(f)
  PROVE  Turned(f, g)
<1>1. /\ f.before \in BOOLEAN /\ f.verdict = g.verdict /\ f.before = g.before
      /\ f[kind] \in {"none", "unverified"} /\ g[kind] # "none" /\ g[kind] # f[kind]
  BY DEF OneComes, FactKinds, FactRecords
<1>2. ASSUME NEW other \in FactKinds, other # kind PROVE g[other] = f[other]
  BY <1>2 DEF OneComes
<1>3. CASE kind = "procedure"
  <2>1. /\ f.procedure \in {"none", "unverified"} /\ g.procedure # f.procedure
        /\ g.merge = f.merge /\ g.readback = f.readback
    BY <1>1, <1>2, <1>3 DEF FactKinds
  <2>2. f.procedure = "none"
    BY <2>1 DEF PlainAdoption, AllEligible, FirstUnverified
  <2>3. QED
    BY <2>1, <2>2, TurnedWrittenOut
<1>4. CASE kind = "ordinary"
  <2>1. /\ f.ordinary \in {"none", "unverified"} /\ g.ordinary # f.ordinary
        /\ g.procedure = f.procedure /\ g.merge = f.merge /\ g.readback = f.readback
    BY <1>1, <1>2, <1>4 DEF FactKinds
  <2>2. f.procedure = "bound" /\ f.ordinary = "none"
    BY <2>1 DEF PlainAdoption, AllEligible, FirstUnverified
  <2>3. QED
    BY <2>1, <2>2, TurnedWrittenOut
<1>5. CASE kind = "set"
  <2>1. /\ f.set \in {"none", "unverified"} /\ g.set # f.set
        /\ g.procedure = f.procedure /\ g.ordinary = f.ordinary
        /\ g.merge = f.merge /\ g.readback = f.readback
    BY <1>1, <1>2, <1>5 DEF FactKinds
  <2>2. f.procedure = "bound" /\ f.ordinary = "bound" /\ f.set = "none"
    BY <2>1 DEF PlainAdoption, AllEligible, FirstUnverified
  <2>3. QED
    BY <2>1, <2>2, TurnedWrittenOut
<1>6. CASE kind = "eligible"
  <2>1. /\ f.eligible \in {"none", "unverified"} /\ g.eligible # f.eligible
        /\ g.procedure = f.procedure /\ g.ordinary = f.ordinary /\ g.set = f.set
        /\ g.merge = f.merge /\ g.readback = f.readback
    BY <1>1, <1>2, <1>6 DEF FactKinds
  <2>2. f.procedure = "bound" /\ f.ordinary = "bound" /\ f.set = "bound" /\ f.eligible = "none"
    BY <2>1 DEF PlainAdoption, AllEligible, FirstUnverified
  <2>3. QED
    BY <2>1, <2>2, TurnedWrittenOut
<1>7. ASSUME kind \in {"merge", "evidence", "readback"}
      PROVE  (AllEligible(g) <=> AllEligible(f)) /\ (FirstUnverified(g) <=> FirstUnverified(f))
  <2>1. /\ g.procedure = f.procedure /\ g.ordinary = f.ordinary /\ g.set = f.set
        /\ g.eligible = f.eligible
    BY <1>2, <1>7 DEF FactKinds
  <2>2. QED
    BY <2>1 DEF AllEligible, FirstUnverified
<1>8. CASE kind = "merge"
  <2>1. /\ f.merge \in {"none", "unverified"} /\ g.merge # f.merge /\ g.merge # "none"
        /\ g.evidence = f.evidence /\ g.readback = f.readback
    BY <1>1, <1>2, <1>8 DEF FactKinds
  <2>2. AllEligible(f)
    BY <1>1, <1>7, <1>8, <2>1 DEF PlainAdoption
  <2>3. QED
    BY <2>1, <2>2, TurnedWrittenOut
<1>9. CASE kind = "evidence"
  <2>1. /\ f.evidence \in {"none", "unverified"} /\ g.merge = f.merge /\ g.readback = f.readback
    BY <1>1, <1>2, <1>9 DEF FactKinds
  <2>2. QED
    BY <1>1, <1>7, <1>9, <2>1 DEF PlainAdoption
<1>10. CASE kind = "readback"
  <2>1. /\ f.readback \in {"none", "unverified"} /\ g.readback # f.readback
        /\ g.readback # "none" /\ g.merge = f.merge /\ g.evidence = f.evidence
    BY <1>1, <1>2, <1>10 DEF FactKinds
  <2>2. AllEligible(f) /\ f.merge = "bound" /\ f.evidence = "bound" /\ f.readback = "unverified"
    BY <1>1, <1>7, <1>10, <2>1 DEF PlainAdoption
  <2>3. QED
    BY <2>1, <2>2, TurnedWrittenOut
<1>11. QED
  BY <1>3, <1>4, <1>5, <1>6, <1>8, <1>9, <1>10 DEF FactKinds

\* A valid addition stays valid, an ineligible one invalid; any other that was
\* called invalid is turned around only by the first fact at fault, and only
\* where that was absent or not verified (owner-addition-adoption.mts:234-248).
THEOREM VerdictsStand == Lifecycle!Spec => VerdictStands
<1> DEFINE Stands == Adoption(facts) \in {"valid", "invalid"} /\ Adoption(facts') # Adoption(facts) =>
                       Turned(facts, facts')
<1>1. Lifecycle!Init => FactsInv
  <2>1. ASSUME NEW v \in {"eligible", "ineligible"}, NEW b \in BOOLEAN,
               facts = Lifecycle!Unknown(v, b)
        PROVE  FactsInv
    BY <2>1 DEF Lifecycle!Unknown, FactsInv, FactRecords, Qualities
  <2>2. QED
    BY <2>1 DEF Lifecycle!Init
<1>2. FactsInv /\ [Lifecycle!Next]_facts => FactsInv'
  BY OneFactComes DEF FactsInv
<1>3. FactsInv /\ [Lifecycle!Next]_facts => [Stands]_facts
  <2>1. SUFFICES ASSUME FactsInv, Lifecycle!Next PROVE Stands
    OBVIOUS
  <2>2. facts \in FactRecords /\ facts' \in FactRecords
    BY <2>1, OneFactComes DEF FactsInv
  <2>3. Adoption(facts) = PlainAdoption(facts) /\ Adoption(facts') = PlainAdoption(facts')
    BY <2>2, AdoptionWrittenOut
  <2>4. PICK kind \in FactKinds : OneComes(facts, facts', kind)
    BY <2>1, OneFactComes
  <2>5. QED
    BY <2>2, <2>3, <2>4, OneFactTurns
<1>4. [Stands]_facts => [Adoption(facts) \in {"valid", "invalid"} /\ Adoption(facts') # Adoption(facts) =>
         \E i \in DOMAIN Judged :
            /\ \A k \in 1 .. i - 1 : facts[Judged[k]] = "bound"
            /\ facts[Judged[i]] \in Premature[Judged[i]]
            /\ facts'[Judged[i]] # facts[Judged[i]]]_facts
  BY DEF Turned
<1>5. QED
  BY <1>1, <1>2, <1>3, <1>4, PTL DEF Lifecycle!Spec, VerdictStands

-----------------------------------------------------------------------------
(***************************************************************************)
(* ReportPublisher, for every number of report jobs, every head and every  *)
(* finding: what a job published rests on its own inputs, and what it      *)
(* calls delivered is on the pull request. When the jobs take turns nothing *)
(* is posted twice. What is posted is on a line its head changes, or on one *)
(* of a head between two pushes of that head.                              *)
(***************************************************************************)

Stages == {"new", "input", "pull", "files", "comments", "again", "post", "render", "list",
           "upsert", "output", "done", "failed"}

Keys == {Key(j[r], i) : j \in Jobs, r \in Reports, i \in Nat}

\* The findings of a job, each where it occurs first.
FirstPlaces(j) ==
    {i \in DOMAIN j.findings : \A k \in 1 .. i - 1 : j.findings[k] # j.findings[i]}

ReportTypes ==
    /\ pushed \in 1 .. Len(Heads) /\ job \in Jobs
    /\ stage \in [Reports -> Stages]
    /\ valid \in [Reports -> SUBSET Nat] /\ pending \in [Reports -> SUBSET Nat]
    /\ target \in [Reports -> {0, 1}]
    /\ posted \in Seq([key : Keys, at : Range(Heads)])
    /\ marked \in Seq(Reports) /\ outputs \subseteq Reports

\* A job that publishes has accepted its inputs.
Settled(r) == stage[r] \notin {"new", "input", "failed"} => InputAccepted(job[r])

\* What a job holds for valid is posted, or about to be.
Selected(r) ==
    /\ valid[r] \subseteq FirstPlaces(job[r]) /\ pending[r] \subseteq FirstPlaces(job[r])
    /\ stage[r] \in {"new", "input", "pull", "files"} => valid[r] = {}
    /\ stage[r] \in {"again", "post"} =>
         \A i \in valid[r] : i \in pending[r] \/ Key(job[r], i) \in InlineKeys
    /\ stage[r] \in {"render", "list", "upsert", "output", "done"} =>
         \A i \in valid[r] : Key(job[r], i) \in InlineKeys

Published(r) == (\E i \in DOMAIN marked : marked[i] = r) \/ r \in outputs => InputAccepted(job[r])

ReportsInv ==
    ReportTypes /\ \A r \in Reports : Settled(r) /\ Selected(r) /\ Published(r)

\* The jobs of one pull request are of one concurrency group.
OneGroupOnly == \A r, s \in Reports : Group[r] = Group[s]

\* While a job works nothing is posted but by it.
TurnsTaken ==
    /\ \A r, s \in Reports : Active(r) /\ Active(s) => r = s
    /\ \A r \in Reports :
         /\ stage[r] \in {"again", "post"} => \A i \in pending[r] : Key(job[r], i) \notin InlineKeys
         /\ stage[r] = "upsert" => target[r] = IF marked = <<>> THEN 0 ELSE 1
    /\ PostedOnce

\* The files were listed when the head was the job's, or a later one.
Placed(r) ==
    /\ stage[r] # "new" => \E n \in 1 .. pushed : Heads[n] = job[r].head
    /\ stage[r] \in {"comments", "again"} =>
         \E n \in 1 .. pushed : \E k \in n .. pushed :
            /\ Heads[n] = job[r].head
            /\ \A i \in valid[r] : job[r].findings[i] \in Located[Heads[k]]
    /\ stage[r] = "again" => pending[r] \subseteq valid[r]
    /\ stage[r] = "post" => \A i \in pending[r] : LineOf(job[r].head, job[r].findings[i])

LinesInv == (\A r \in Reports : Placed(r)) /\ LinesOfReviewedDiff

-----------------------------------------------------------------------------
\* A review posts every pending finding, and each once.

LEMMA OrderReachesAll ==
  ASSUME NEW P \in SUBSET Nat, IsFiniteSet(P), NEW order \in [1 .. Cardinality(P) -> P],
         \A n, k \in DOMAIN order : n < k => order[n] < order[k]
  PROVE  /\ Cardinality(P) \in Nat
         /\ \A n, k \in 1 .. Cardinality(P) : order[n] = order[k] => n = k
         /\ \A i \in P : \E n \in 1 .. Cardinality(P) : order[n] = i
<1> DEFINE C == Cardinality(P)
           I == {order[n] : n \in 1 .. C}
<1>1. C \in Nat
  BY FS_CardinalityType
<1>2. ASSUME NEW n \in 1 .. C, NEW k \in 1 .. C, order[n] = order[k] PROVE n = k
  <2>1. order[n] \in Nat /\ order[k] \in Nat /\ n \in Int /\ k \in Int
    <3>1. order[n] \in P /\ order[k] \in P
      OBVIOUS
    <3>2. n \in Int /\ k \in Int
      BY <1>1
    <3>3. QED
      BY <3>1, <3>2
  <2>2. ~(order[n] < order[k]) /\ ~(order[k] < order[n])
    BY <1>2, <2>1
  <2>3. ~(n < k) /\ ~(k < n)
    BY <2>2
  <2>4. QED
    BY <2>1, <2>3
<1> HIDE DEF C
<1>3. IsFiniteSet(1 .. C) /\ Cardinality(1 .. C) = C
  BY <1>1, FS_Interval
<1>4. ExistsBijection(1 .. C, I)
  <2>1. order \in [1 .. C -> I]
    BY DEF C
  <2>2. order \in Bijection(1 .. C, I)
    BY <1>2, <2>1 DEF Bijection, Injection, Surjection, IsInjective
  <2>3. QED
    BY <2>2 DEF ExistsBijection
<1>5. Cardinality(I) = C
  BY <1>3, <1>4, FS_Bijection
<1>6. I \in SUBSET P
  BY DEF C
<1>7. P = I
  <2> HIDE DEF I
  <2>1. QED
    BY <1>5, <1>6, FS_Subset DEF C
<1>8. QED
  BY <1>1, <1>2, <1>7 DEF C

\* The findings of a job are finitely many.
LEMMA PendingFinite ==
  ASSUME ReportsInv, NEW r \in Reports
  PROVE  /\ IsFiniteSet(pending[r]) /\ pending[r] \in SUBSET Nat
         /\ pending[r] \subseteq FirstPlaces(job[r]) /\ job[r].findings \in Seq(Range(job[r].findings))
<1>1. job[r].findings \in Seq(Range(job[r].findings))
  BY FindingsAssumption DEF ReportsInv, ReportTypes
<1>2. DOMAIN job[r].findings = 1 .. Len(job[r].findings) /\ Len(job[r].findings) \in Nat
  BY <1>1
<1>3. pending[r] \subseteq FirstPlaces(job[r]) /\ pending[r] \in SUBSET Nat
  BY DEF ReportsInv, ReportTypes, Selected
<1>4. pending[r] \in SUBSET (1 .. Len(job[r].findings))
  BY <1>2, <1>3 DEF FirstPlaces
<1>5. IsFiniteSet(1 .. Len(job[r].findings))
  BY <1>2, FS_Interval
<1>6. QED
  BY <1>1, <1>3, <1>4, <1>5, FS_Subset

LEMMA Appended ==
  ASSUME NEW S, NEW s \in Seq(S), NEW t \in Seq(S)
  PROVE  /\ s \o t \in Seq(S) /\ Len(s \o t) = Len(s) + Len(t)
         /\ \A i \in 1 .. Len(s) + Len(t) :
              (s \o t)[i] = IF i <= Len(s) THEN s[i] ELSE t[i - Len(s)]
OBVIOUS

LEMMA ReviewPosts ==
  ASSUME ReportsInv, NEW r \in Reports, PostReview(r)
  PROVE  /\ posted' \in Seq([key : Keys, at : Range(Heads)])
         /\ InlineKeys' = InlineKeys \cup {Key(job[r], i) : i \in pending[r]}
         /\ \E order \in [1 .. Cardinality(pending[r]) -> pending[r]] :
              /\ \A n, k \in 1 .. Cardinality(pending[r]) : order[n] = order[k] => n = k
              /\ Cardinality(pending[r]) \in Nat
              /\ DOMAIN posted' = 1 .. Len(posted) + Cardinality(pending[r])
              /\ \A i \in DOMAIN posted' :
                   posted'[i] = IF i \in DOMAIN posted THEN posted[i]
                                ELSE [key |-> Key(job[r], order[i - Len(posted)]), at |-> LiveHead]
<1> DEFINE P == pending[r]
           C == Cardinality(P)
           Comments == [key : Keys, at : Range(Heads)]
<1>1. PICK order \in [1 .. C -> P] :
         /\ \A n, k \in DOMAIN order : n < k => order[n] < order[k]
         /\ posted' = posted \o [n \in 1 .. C |-> [key |-> Key(job[r], order[n]), at |-> LiveHead]]
  BY DEF PostReview
<1>2. IsFiniteSet(P) /\ P \in SUBSET Nat
  BY PendingFinite
<1>3. /\ C \in Nat
      /\ \A n, k \in 1 .. C : order[n] = order[k] => n = k
      /\ \A i \in P : \E n \in 1 .. C : order[n] = i
  <2> HIDE DEF P
  <2>1. QED
    BY <1>1, <1>2, OrderReachesAll
<1>4. posted \in Seq(Comments) /\ Len(posted) \in Nat /\ DOMAIN posted = 1 .. Len(posted)
  BY DEF ReportsInv, ReportTypes
<1> DEFINE comment(n) == [key |-> Key(job[r], order[n]), at |-> LiveHead]
           made == [n \in 1 .. C |-> comment(n)]
<1>5. ASSUME NEW n \in 1 .. C PROVE comment(n) \in Comments
  <2>1. order[n] \in Nat
    BY <1>2
  <2>2. Key(job[r], order[n]) \in Keys
    BY <2>1 DEF Keys, ReportsInv, ReportTypes
  <2>3. LiveHead \in Range(Heads)
    BY HeadsAssumption DEF LiveHead, Range, ReportsInv, ReportTypes
  <2>4. QED
    BY <2>2, <2>3
<1>6. made \in Seq(Comments) /\ Len(made) = C /\ DOMAIN made = 1 .. C
      /\ \A n \in 1 .. C : made[n] = comment(n)
  <2> HIDE DEF comment, Comments, C, P
  <2>1. QED
    BY <1>3, <1>5
<1> HIDE DEF Comments, C, P
<1>7. /\ posted' \in Seq(Comments) /\ DOMAIN posted' = 1 .. Len(posted) + C
      /\ \A i \in DOMAIN posted' :
           posted'[i] = IF i \in DOMAIN posted THEN posted[i]
                        ELSE [key |-> Key(job[r], order[i - Len(posted)]), at |-> LiveHead]
  <2>1. posted' = posted \o made
    BY <1>1
  <2> HIDE DEF made, comment
  <2>2. /\ posted' \in Seq(Comments) /\ DOMAIN posted' = 1 .. Len(posted) + C
        /\ \A i \in 1 .. Len(posted) + C :
             posted'[i] = IF i <= Len(posted) THEN posted[i] ELSE made[i - Len(posted)]
    <3>1. posted \o made \in Seq(Comments) /\ Len(posted \o made) = Len(posted) + Len(made)
          /\ \A i \in 1 .. Len(posted) + Len(made) :
               (posted \o made)[i] = IF i <= Len(posted) THEN posted[i] ELSE made[i - Len(posted)]
      BY <1>4, <1>6, Appended
    <3>2. QED
      BY <1>3, <1>4, <1>6, <2>1, <3>1
  <2>3. \A i \in 1 .. Len(posted) + C : i \notin 1 .. Len(posted) => i - Len(posted) \in 1 .. C
    BY <1>3, <1>4
  <2>4. QED
    BY <1>3, <1>4, <1>6, <2>2, <2>3 DEF comment
<1>8. InlineKeys' = InlineKeys \cup {Key(job[r], i) : i \in P}
  <2>1. ASSUME NEW i \in DOMAIN posted'
        PROVE  posted'[i].key \in InlineKeys \cup {Key(job[r], k) : k \in P}
    <3>1. CASE i \in DOMAIN posted
      BY <1>7, <3>1 DEF InlineKeys
    <3>2. CASE i \notin DOMAIN posted
      <4>1. i - Len(posted) \in 1 .. C
        BY <1>3, <1>4, <1>7, <3>2
      <4>2. order[i - Len(posted)] \in P
        BY <4>1 DEF C, P
      <4>3. QED
        BY <1>7, <3>2, <4>2
    <3>3. QED
      BY <3>1, <3>2
  <2>2. ASSUME NEW i \in DOMAIN posted PROVE posted[i].key \in InlineKeys'
    <3>1. i \in DOMAIN posted' /\ posted'[i] = posted[i]
      BY <1>3, <1>4, <1>7
    <3>2. QED
      BY <3>1 DEF InlineKeys
  <2>3. ASSUME NEW i \in P PROVE Key(job[r], i) \in InlineKeys'
    <3>1. PICK n \in 1 .. C : order[n] = i
      BY <1>3
    <3>2. /\ Len(posted) + n \in DOMAIN posted' /\ Len(posted) + n \notin DOMAIN posted
          /\ Len(posted) + n - Len(posted) = n
      BY <1>3, <1>4, <1>7
    <3>3. posted'[Len(posted) + n].key = Key(job[r], i)
      BY <1>7, <3>1, <3>2
    <3>4. QED
      BY <3>2, <3>3 DEF InlineKeys
  <2>4. QED
    BY <2>1, <2>2, <2>3 DEF InlineKeys
<1>9. QED
  BY <1>1, <1>3, <1>7, <1>8 DEF Comments, C, P

-----------------------------------------------------------------------------
\* What one step of a job does to its own state, and leaves alone of the rest.

Kept(r) == valid'[r] = valid[r] /\ pending'[r] = pending[r]

LocalStep(r) ==
    \/ /\ stage[r] = "new" /\ stage'[r] = "input" /\ Kept(r)
       /\ ~\E other \in Reports : Group[other] = Group[r] /\ Active(other)
       /\ \E i \in 1 .. pushed : Heads[i] = job[r].head
    \/ /\ stage[r] = "input" /\ InputAccepted(job[r]) /\ stage'[r] \in {"pull", "render"}
       /\ Kept(r)
    \/ stage[r] # "new" /\ stage'[r] = "failed" /\ Kept(r)
    \/ /\ stage[r] \in {"pull", "files", "comments", "again", "post"} /\ stage'[r] = "render"
       /\ valid'[r] = {} /\ pending'[r] = pending[r]
    \/ /\ stage[r] = "pull" /\ stage'[r] \in {"files", "render"} /\ Kept(r)
    \/ /\ stage[r] = "files" /\ valid'[r] = ValidFindings(job[r], Located[LiveHead])
       /\ pending'[r] = pending[r] /\ stage'[r] = IF valid'[r] = {} THEN "render" ELSE "comments"
    \/ /\ stage[r] = "comments" /\ valid'[r] = valid[r]
       /\ pending'[r] = {i \in valid[r] : Key(job[r], i) \notin InlineKeys}
       /\ stage'[r] = IF pending'[r] = {} THEN "render" ELSE "again"
    \/ /\ stage[r] = "again" /\ LiveHead = job[r].head /\ stage'[r] = "post" /\ Kept(r)
    \/ /\ stage[r] = "post" /\ stage'[r] = "render" /\ valid'[r] = valid[r]
       /\ pending'[r] = pending[r] /\ PostReview(r)
    \/ /\ stage[r] \in {"render", "list", "upsert", "output"}
       /\ stage'[r] \in {"list", "upsert", "output", "done"} /\ Kept(r)

RemoteStep(r) ==
    /\ posted' = posted \/ (stage[r] = "post" /\ PostReview(r))
    /\ \/ marked' = marked
       \/ /\ stage[r] = "upsert" /\ stage'[r] # "upsert"
          /\ marked' = IF target[r] = 0 THEN Append(marked, r) ELSE [marked EXCEPT ![target[r]] = r]
    /\ outputs' = outputs \/ (stage[r] = "output" /\ outputs' = outputs \cup {r})
    /\ stage'[r] = "upsert" => marked' = marked /\ target'[r] = IF marked = <<>> THEN 0 ELSE 1

OthersKept(r) ==
    /\ pushed' = pushed /\ job' = job
    /\ \A s \in Reports \ {r} : stage'[s] = stage[s] /\ valid'[s] = valid[s]
                                /\ pending'[s] = pending[s] /\ target'[s] = target[s]

OneJobMoves(r) == ReportTypes' /\ LocalStep(r) /\ RemoteStep(r) /\ OthersKept(r)

\* A step that changes nothing but the stage of its job.
LEMMA StageMoves ==
  ASSUME ReportsInv, NEW r \in Reports, NEW to \in Stages, GoTo(r, to),
         UNCHANGED <<pushed, job, local, remote, outputs>>
  PROVE  /\ ReportTypes' /\ OthersKept(r) /\ Kept(r) /\ stage'[r] = to
         /\ to # "upsert" => RemoteStep(r)
<1>1. UNCHANGED <<pushed, job, valid, pending, target, posted, marked, outputs>>
  BY DEF local, remote
<1>2. /\ stage' = [stage EXCEPT ![r] = to] /\ stage \in [Reports -> Stages]
  BY DEF GoTo, ReportsInv, ReportTypes
<1>3. stage' \in [Reports -> Stages] /\ stage'[r] = to /\ \A s \in Reports \ {r} : stage'[s] = stage[s]
  BY <1>2
<1>4. QED
  BY <1>1, <1>3 DEF ReportsInv, ReportTypes, OthersKept, Kept, RemoteStep

LEMMA ValidTypes ==
  ASSUME ReportsInv, NEW r \in Reports, NEW diff
  PROVE  ValidFindings(job[r], diff) \subseteq FirstPlaces(job[r]) /\ FirstPlaces(job[r]) \subseteq Nat
<1>1. job[r].findings \in Seq(Range(job[r].findings))
  BY PendingFinite
<1>2. DOMAIN job[r].findings \subseteq Nat
  BY <1>1
<1>3. QED
  BY <1>2 DEF ValidFindings, FirstPlaces

LEMMA StartMoves ==
  ASSUME ReportsInv, NEW r \in Reports, Start(r) PROVE OneJobMoves(r)
<1>1. GoTo(r, "input") /\ UNCHANGED <<pushed, job, local, remote, outputs>>
  BY DEF Start
<1>2. "input" \in Stages
  BY DEF Stages
<1>3. ReportTypes' /\ OthersKept(r) /\ Kept(r) /\ stage'[r] = "input" /\ RemoteStep(r)
  BY <1>1, <1>2, StageMoves
<1>4. LocalStep(r)
  BY <1>3 DEF Start, LocalStep
<1>5. QED
  BY <1>3, <1>4 DEF OneJobMoves

LEMMA InputMoves ==
  ASSUME ReportsInv, NEW r \in Reports, ReadInput(r) PROVE OneJobMoves(r)
<1> DEFINE to == IF ~InputAccepted(job[r]) THEN "failed"
                 ELSE IF InlineDue(job[r]) THEN "pull" ELSE "render"
<1>1. GoTo(r, to) /\ UNCHANGED <<pushed, job, local, remote, outputs>> /\ stage[r] = "input"
  BY DEF ReadInput
<1>2. to \in Stages /\ to # "upsert"
  BY DEF Stages
<1>3. to = "failed" \/ (InputAccepted(job[r]) /\ to \in {"pull", "render"})
  OBVIOUS
<1> HIDE DEF to
<1>4. ReportTypes' /\ OthersKept(r) /\ Kept(r) /\ stage'[r] = to /\ RemoteStep(r)
  BY <1>1, <1>2, StageMoves
<1>5. LocalStep(r)
  BY <1>1, <1>3, <1>4 DEF LocalStep
<1>6. QED
  BY <1>4, <1>5 DEF OneJobMoves

LEMMA PlainMoves ==
  ASSUME ReportsInv, NEW r \in Reports, ReadPull(r) \/ Render(r) \/ CommentFails(r) \/ SkipComment(r) \/ Die(r)
  PROVE  OneJobMoves(r)
<1>1. /\ UNCHANGED <<pushed, job, local, remote, outputs>>
      /\ \E to \in Stages \ {"upsert"} :
           /\ GoTo(r, to)
           /\ \/ stage[r] = "pull" /\ to \in {"files", "render"}
              \/ stage[r] # "new" /\ to = "failed"
              \/ stage[r] \in {"render", "list", "upsert", "output"} /\ to \in {"list", "output"}
  <2>1. CASE ReadPull(r)
    BY <2>1 DEF ReadPull, Stages
  <2>2. CASE Render(r)
    BY <2>2 DEF Render, Stages
  <2>3. CASE CommentFails(r)
    BY <2>3 DEF CommentFails, Stages
  <2>4. CASE SkipComment(r)
    BY <2>4 DEF SkipComment, Stages
  <2>5. CASE Die(r)
    BY <2>5 DEF Die, Active, Stages
  <2>6. QED
    BY <2>1, <2>2, <2>3, <2>4, <2>5
<1>2. PICK to \in Stages \ {"upsert"} :
        /\ GoTo(r, to)
        /\ \/ stage[r] = "pull" /\ to \in {"files", "render"}
           \/ stage[r] # "new" /\ to = "failed"
           \/ stage[r] \in {"render", "list", "upsert", "output"} /\ to \in {"list", "output"}
  BY <1>1
<1>3. ReportTypes' /\ OthersKept(r) /\ Kept(r) /\ stage'[r] = to /\ RemoteStep(r)
  BY <1>1, <1>2, StageMoves
<1>4. LocalStep(r)
  BY <1>2, <1>3 DEF LocalStep
<1>5. QED
  BY <1>3, <1>4 DEF OneJobMoves

\* A step that sets what the job holds for valid, or is about to post.
LEMMA SelectionMoves ==
  ASSUME ReportsInv, NEW r \in Reports, NEW to \in Stages \ {"upsert"}, GoTo(r, to),
         NEW v \in SUBSET Nat, NEW p \in SUBSET Nat,
         valid' = [valid EXCEPT ![r] = v], pending' = [pending EXCEPT ![r] = p],
         UNCHANGED <<pushed, job, target, remote, outputs>>
  PROVE  /\ ReportTypes' /\ OthersKept(r) /\ RemoteStep(r)
         /\ stage'[r] = to /\ valid'[r] = v /\ pending'[r] = p
<1>1. UNCHANGED <<pushed, job, target, posted, marked, outputs>>
  BY DEF remote
<1>2. /\ stage' = [stage EXCEPT ![r] = to] /\ stage \in [Reports -> Stages]
      /\ valid \in [Reports -> SUBSET Nat] /\ pending \in [Reports -> SUBSET Nat]
  BY DEF GoTo, ReportsInv, ReportTypes
<1>3. /\ stage' \in [Reports -> Stages] /\ stage'[r] = to
      /\ \A s \in Reports \ {r} : stage'[s] = stage[s]
  BY <1>2
<1>4. /\ valid' \in [Reports -> SUBSET Nat] /\ valid'[r] = v
      /\ \A s \in Reports \ {r} : valid'[s] = valid[s]
  BY <1>2
<1>5. /\ pending' \in [Reports -> SUBSET Nat] /\ pending'[r] = p
      /\ \A s \in Reports \ {r} : pending'[s] = pending[s]
  BY <1>2
<1>6. QED
  BY <1>1, <1>3, <1>4, <1>5 DEF ReportsInv, ReportTypes, OthersKept, RemoteStep

\* A function that is not changed is changed nowhere.
LEMMA SameAt ==
  ASSUME ReportsInv, NEW r \in Reports
  PROVE  /\ valid = [valid EXCEPT ![r] = valid[r]] /\ valid[r] \in SUBSET Nat
         /\ pending = [pending EXCEPT ![r] = pending[r]] /\ pending[r] \in SUBSET Nat
BY DEF ReportsInv, ReportTypes

LEMMA FailsMoves ==
  ASSUME ReportsInv, NEW r \in Reports, InlineFails(r) PROVE OneJobMoves(r)
<1>1. /\ GoTo(r, "render") /\ valid' = [valid EXCEPT ![r] = {}] /\ pending' = pending
      /\ stage[r] \in {"pull", "files", "comments", "again", "post"}
      /\ UNCHANGED <<pushed, job, target, remote, outputs>>
  BY DEF InlineFails
<1>2. "render" \in Stages \ {"upsert"} /\ {} \in SUBSET Nat
  BY DEF Stages
<1>3. pending' = [pending EXCEPT ![r] = pending[r]] /\ pending[r] \in SUBSET Nat
  BY <1>1, SameAt
<1>4. /\ ReportTypes' /\ OthersKept(r) /\ RemoteStep(r)
      /\ stage'[r] = "render" /\ valid'[r] = {} /\ pending'[r] = pending[r]
  BY <1>1, <1>2, <1>3, SelectionMoves
<1>5. LocalStep(r)
  BY <1>1, <1>4 DEF LocalStep
<1>6. QED
  BY <1>4, <1>5 DEF OneJobMoves

LEMMA FilesMoves ==
  ASSUME ReportsInv, NEW r \in Reports, ListFiles(r) PROVE OneJobMoves(r)
<1> DEFINE v == ValidFindings(job[r], Located[LiveHead])
           to == IF v = {} THEN "render" ELSE "comments"
<1>1. v \in SUBSET Nat
  BY ValidTypes
<1>2. valid' = [valid EXCEPT ![r] = v] /\ pending' = pending /\ stage[r] = "files"
      /\ UNCHANGED <<pushed, job, target, remote, outputs>>
  BY DEF ListFiles
<1>3. valid'[r] = v
  <2> HIDE DEF v
  <2>1. QED
    BY <1>2 DEF ReportsInv, ReportTypes
<1>4. GoTo(r, to)
  <2> HIDE DEF v
  <2>1. GoTo(r, IF valid'[r] = {} THEN "render" ELSE "comments")
    BY DEF ListFiles
  <2>2. QED
    BY <2>1, <1>3
<1>5. to \in Stages \ {"upsert"}
  BY DEF Stages
<1> HIDE DEF v
<1>6. pending' = [pending EXCEPT ![r] = pending[r]] /\ pending[r] \in SUBSET Nat
  BY <1>2, SameAt
<1>7. /\ ReportTypes' /\ OthersKept(r) /\ RemoteStep(r)
      /\ stage'[r] = to /\ valid'[r] = v /\ pending'[r] = pending[r]
  <2> HIDE DEF to
  <2>1. QED
    BY <1>1, <1>2, <1>4, <1>5, <1>6, SelectionMoves
<1>8. LocalStep(r)
  BY <1>2, <1>7 DEF LocalStep, v
<1>9. QED
  BY <1>7, <1>8 DEF OneJobMoves

LEMMA CommentsMoves ==
  ASSUME ReportsInv, NEW r \in Reports, ListComments(r) PROVE OneJobMoves(r)
<1> DEFINE p == {i \in valid[r] : Key(job[r], i) \notin InlineKeys}
           to == IF p = {} THEN "render" ELSE "again"
<1>1. p \in SUBSET Nat
  BY SameAt
<1>2. pending' = [pending EXCEPT ![r] = p] /\ valid' = valid /\ stage[r] = "comments"
      /\ UNCHANGED <<pushed, job, target, remote, outputs>>
  BY DEF ListComments
<1>3. pending'[r] = p
  <2> HIDE DEF p
  <2>1. QED
    BY <1>2 DEF ReportsInv, ReportTypes
<1>4. GoTo(r, to)
  <2> HIDE DEF p
  <2>1. GoTo(r, IF pending'[r] = {} THEN "render" ELSE "again")
    BY DEF ListComments
  <2>2. QED
    BY <2>1, <1>3
<1>5. to \in Stages \ {"upsert"}
  BY DEF Stages
<1> HIDE DEF p
<1>6. valid' = [valid EXCEPT ![r] = valid[r]] /\ valid[r] \in SUBSET Nat
  BY <1>2, SameAt
<1>7. /\ ReportTypes' /\ OthersKept(r) /\ RemoteStep(r)
      /\ stage'[r] = to /\ valid'[r] = valid[r] /\ pending'[r] = p
  <2> HIDE DEF to
  <2>1. QED
    BY <1>1, <1>2, <1>4, <1>5, <1>6, SelectionMoves
<1>8. LocalStep(r)
  BY <1>2, <1>7 DEF LocalStep, p
<1>9. QED
  BY <1>7, <1>8 DEF OneJobMoves

LEMMA AgainMoves ==
  ASSUME ReportsInv, NEW r \in Reports, ReadPullAgain(r) PROVE OneJobMoves(r)
<1>1. stage[r] = "again" /\ UNCHANGED <<pushed, job, pending, target, remote, outputs>>
  BY DEF ReadPullAgain
<1>2. "post" \in Stages \ {"upsert"} /\ "render" \in Stages \ {"upsert"} /\ {} \in SUBSET Nat
  BY DEF Stages
<1>3. pending' = [pending EXCEPT ![r] = pending[r]] /\ pending[r] \in SUBSET Nat
      /\ valid = [valid EXCEPT ![r] = valid[r]] /\ valid[r] \in SUBSET Nat
  BY <1>1, SameAt
<1>4. CASE LiveHead = job[r].head
  <2>1. GoTo(r, "post") /\ valid' = [valid EXCEPT ![r] = valid[r]]
    BY <1>3, <1>4 DEF ReadPullAgain
  <2>2. /\ ReportTypes' /\ OthersKept(r) /\ RemoteStep(r)
        /\ stage'[r] = "post" /\ valid'[r] = valid[r] /\ pending'[r] = pending[r]
    BY <1>1, <1>2, <1>3, <2>1, SelectionMoves
  <2>3. LocalStep(r)
    BY <1>1, <1>4, <2>2 DEF LocalStep, Kept
  <2>4. QED
    BY <2>2, <2>3 DEF OneJobMoves
<1>5. CASE LiveHead # job[r].head
  <2>1. GoTo(r, "render") /\ valid' = [valid EXCEPT ![r] = {}]
    BY <1>5 DEF ReadPullAgain
  <2>2. /\ ReportTypes' /\ OthersKept(r) /\ RemoteStep(r)
        /\ stage'[r] = "render" /\ valid'[r] = {} /\ pending'[r] = pending[r]
    BY <1>1, <1>2, <1>3, <2>1, SelectionMoves
  <2>3. LocalStep(r)
    BY <1>1, <2>2 DEF LocalStep
  <2>4. QED
    BY <2>2, <2>3 DEF OneJobMoves
<1>6. QED
  BY <1>4, <1>5

LEMMA PostMoves ==
  ASSUME ReportsInv, NEW r \in Reports, PostReview(r) PROVE OneJobMoves(r)
<1>1. /\ stage[r] = "post" /\ GoTo(r, "render")
      /\ UNCHANGED <<pushed, job, pending, target, marked, outputs>>
  BY DEF PostReview
<1>2. PICK v \in {valid[r], {}} : valid' = [valid EXCEPT ![r] = v]
  <2>1. \E answered \in BOOLEAN : valid' = [valid EXCEPT ![r] = IF answered THEN valid[r] ELSE {}]
    BY DEF PostReview
  <2>2. QED
    BY <2>1
<1>3. /\ stage \in [Reports -> Stages] /\ stage' = [stage EXCEPT ![r] = "render"]
      /\ valid \in [Reports -> SUBSET Nat] /\ "render" \in Stages
  BY <1>1 DEF ReportsInv, ReportTypes, GoTo, Stages
<1>4. v \in SUBSET Nat
  BY SameAt
<1>5. /\ stage' \in [Reports -> Stages] /\ stage'[r] = "render"
      /\ \A s \in Reports \ {r} : stage'[s] = stage[s]
  BY <1>3
<1>6. /\ valid' \in [Reports -> SUBSET Nat] /\ valid'[r] = v
      /\ \A s \in Reports \ {r} : valid'[s] = valid[s]
  BY <1>2, <1>3, <1>4
<1>7. posted' \in Seq([key : Keys, at : Range(Heads)])
  BY ReviewPosts
<1>8. ReportTypes'
  BY <1>1, <1>5, <1>6, <1>7 DEF ReportsInv, ReportTypes
<1>9. OthersKept(r) /\ RemoteStep(r)
  BY <1>1, <1>5, <1>6 DEF OthersKept, RemoteStep
<1>10. LocalStep(r)
  <2>1. CASE v = valid[r]
    BY <1>1, <1>5, <1>6, <2>1 DEF LocalStep
  <2>2. CASE v = {}
    BY <1>1, <1>5, <1>6, <2>2 DEF LocalStep
  <2>3. QED
    BY <2>1, <2>2
<1>11. QED
  BY <1>8, <1>9, <1>10 DEF OneJobMoves

LEMMA FindMoves ==
  ASSUME ReportsInv, NEW r \in Reports, FindComment(r) PROVE OneJobMoves(r)
<1> DEFINE place == IF marked = <<>> THEN 0 ELSE 1
<1>1. /\ stage[r] = "list" /\ stage' = [stage EXCEPT ![r] = "upsert"]
      /\ target' = [target EXCEPT ![r] = place]
      /\ UNCHANGED <<pushed, job, valid, pending, posted, marked, outputs>>
  BY DEF FindComment, GoTo, remote
<1>2. /\ stage \in [Reports -> Stages] /\ target \in [Reports -> {0, 1}] /\ "upsert" \in Stages
      /\ place \in {0, 1}
  BY DEF ReportsInv, ReportTypes, Stages
<1> HIDE DEF place
<1>3. /\ stage' \in [Reports -> Stages] /\ stage'[r] = "upsert"
      /\ \A s \in Reports \ {r} : stage'[s] = stage[s]
  BY <1>1, <1>2
<1>4. /\ target' \in [Reports -> {0, 1}] /\ target'[r] = place
      /\ \A s \in Reports \ {r} : target'[s] = target[s]
  BY <1>1, <1>2
<1>5. ReportTypes' /\ OthersKept(r)
  BY <1>1, <1>3, <1>4 DEF ReportsInv, ReportTypes, OthersKept
<1>6. RemoteStep(r) /\ LocalStep(r)
  BY <1>1, <1>3, <1>4 DEF RemoteStep, LocalStep, Kept, place
<1>7. QED
  BY <1>5, <1>6 DEF OneJobMoves

LEMMA Replaced ==
  ASSUME NEW S, NEW s \in Seq(S), NEW x \in S
  PROVE  [s EXCEPT ![1] = x] \in Seq(S) /\ Len([s EXCEPT ![1] = x]) = Len(s)
<1> DEFINE t == [s EXCEPT ![1] = x]
<1>1. Len(s) \in Nat /\ t \in [1 .. Len(s) -> S]
  <2> DEFINE n == Len(s)
  <2>1. n \in Nat /\ s \in [1 .. n -> S]
    OBVIOUS
  <2> HIDE DEF n
  <2>2. t \in [1 .. n -> S]
    BY <2>1
  <2>3. QED
    BY <2>1, <2>2 DEF n
<1> HIDE DEF t
<1>2. t \in Seq(S) /\ Len(t) = Len(s)
  BY <1>1
<1>3. QED
  BY <1>2 DEF t

LEMMA UpsertMoves ==
  ASSUME ReportsInv, NEW r \in Reports, Upsert(r) PROVE OneJobMoves(r)
<1>1. /\ stage[r] = "upsert" /\ \E to \in {"failed", "output"} : stage' = [stage EXCEPT ![r] = to]
      /\ marked' = IF target[r] = 0 THEN Append(marked, r) ELSE [marked EXCEPT ![target[r]] = r]
      /\ UNCHANGED <<pushed, job, valid, pending, target, posted, outputs>>
  BY DEF Upsert, GoTo, local
<1>2. PICK to \in {"failed", "output"} : stage' = [stage EXCEPT ![r] = to]
  BY <1>1
<1>3. stage \in [Reports -> Stages] /\ to \in Stages /\ marked \in Seq(Reports)
      /\ target[r] \in {0, 1}
  BY DEF ReportsInv, ReportTypes, Stages
<1>4. /\ stage' \in [Reports -> Stages] /\ stage'[r] = to
      /\ \A s \in Reports \ {r} : stage'[s] = stage[s]
  BY <1>2, <1>3
<1>5. marked' \in Seq(Reports)
  <2>1. CASE target[r] = 0
    BY <1>1, <1>3, <2>1
  <2>2. CASE target[r] = 1
    BY <1>1, <1>3, <2>2, Replaced
  <2>3. QED
    BY <1>3, <2>1, <2>2
<1>6. ReportTypes' /\ OthersKept(r)
  BY <1>1, <1>4, <1>5 DEF ReportsInv, ReportTypes, OthersKept
<1>7. RemoteStep(r) /\ LocalStep(r)
  BY <1>1, <1>4 DEF RemoteStep, LocalStep, Kept
<1>8. QED
  BY <1>6, <1>7 DEF OneJobMoves

LEMMA OutputMoves ==
  ASSUME ReportsInv, NEW r \in Reports, WriteOutputs(r) PROVE OneJobMoves(r)
<1>1. /\ stage[r] = "output" /\ stage' = [stage EXCEPT ![r] = "done"] /\ outputs' = outputs \cup {r}
      /\ UNCHANGED <<pushed, job, valid, pending, target, posted, marked>>
  BY DEF WriteOutputs, GoTo, local, remote
<1>2. stage \in [Reports -> Stages] /\ "done" \in Stages
  BY DEF ReportsInv, ReportTypes, Stages
<1>3. /\ stage' \in [Reports -> Stages] /\ stage'[r] = "done"
      /\ \A s \in Reports \ {r} : stage'[s] = stage[s]
  BY <1>1, <1>2
<1>4. ReportTypes' /\ OthersKept(r)
  BY <1>1, <1>3 DEF ReportsInv, ReportTypes, OthersKept
<1>5. RemoteStep(r) /\ LocalStep(r)
  BY <1>1, <1>3 DEF RemoteStep, LocalStep, Kept
<1>6. QED
  BY <1>4, <1>5 DEF OneJobMoves

LEMMA OneMoves ==
  ASSUME ReportsInv, NEW r \in Reports, Start(r) \/ Work(r) \/ Die(r) PROVE OneJobMoves(r)
BY StartMoves, InputMoves, PlainMoves, FailsMoves, FilesMoves, CommentsMoves, AgainMoves,
   PostMoves, FindMoves, UpsertMoves, OutputMoves DEF Work

LEMMA PushTypes ==
  ASSUME ReportsInv, Push
  PROVE  ReportTypes' /\ pushed' = pushed + 1
         /\ UNCHANGED <<job, stage, valid, pending, target, posted, marked, outputs>>
<1>1. /\ pushed < Len(Heads) /\ pushed' = pushed + 1
      /\ UNCHANGED <<job, stage, valid, pending, target, posted, marked, outputs>>
  BY DEF Push, local, remote
<1>2. pushed' \in 1 .. Len(Heads)
  BY <1>1, HeadsAssumption DEF ReportsInv, ReportTypes
<1>3. QED
  BY <1>1, <1>2 DEF ReportsInv, ReportTypes

-----------------------------------------------------------------------------
\* What was published rests on its inputs, and what is called delivered is there.

\* Comments are added, never taken away.
LEMMA KeysStay ==
  ASSUME ReportsInv, NEW r \in Reports, OneJobMoves(r)
  PROVE  /\ InlineKeys \subseteq InlineKeys'
         /\ stage[r] = "post" /\ PostReview(r) => \A i \in pending[r] : Key(job[r], i) \in InlineKeys'
<1>1. posted' = posted => InlineKeys' = InlineKeys
  BY DEF InlineKeys
<1>2. PostReview(r) => InlineKeys' = InlineKeys \cup {Key(job[r], i) : i \in pending[r]}
  BY ReviewPosts
<1>3. QED
  BY <1>1, <1>2 DEF OneJobMoves, RemoteStep

LEMMA SelectedStays ==
  ASSUME ReportsInv, NEW r \in Reports, OneJobMoves(r), NEW s \in Reports
  PROVE  Selected(s)'
<1>1. job' = job /\ InlineKeys \subseteq InlineKeys' /\ Selected(s) /\ Selected(r)
  BY KeysStay DEF OneJobMoves, OthersKept, ReportsInv
<1>2. CASE s # r
  <2>1. stage'[s] = stage[s] /\ valid'[s] = valid[s] /\ pending'[s] = pending[s]
    BY <1>2 DEF OneJobMoves, OthersKept
  <2>2. QED
    BY <1>1, <2>1 DEF Selected, Key
<1>3. CASE s = r
  <2>1. /\ valid[r] \subseteq FirstPlaces(job[r]) /\ pending[r] \subseteq FirstPlaces(job[r])
        /\ stage[r] \in {"new", "input", "pull", "files"} => valid[r] = {}
        /\ stage[r] \in {"again", "post"} =>
             \A i \in valid[r] : i \in pending[r] \/ Key(job[r], i) \in InlineKeys
        /\ stage[r] \in {"render", "list", "upsert", "output", "done"} =>
             \A i \in valid[r] : Key(job[r], i) \in InlineKeys
    BY <1>1 DEF Selected
  <2>2. ValidFindings(job[r], Located[LiveHead]) \subseteq FirstPlaces(job[r])
    BY ValidTypes
  <2>3. LocalStep(r)
    BY DEF OneJobMoves
  <2>4. \A i : Key(job[r], i)' = Key(job[r], i)
    BY <1>1 DEF Key
  <2>5. /\ valid'[r] \subseteq FirstPlaces(job[r]) /\ pending'[r] \subseteq FirstPlaces(job[r])
        /\ stage'[r] \in {"new", "input", "pull", "files"} => valid'[r] = {}
        /\ stage'[r] \in {"again", "post"} =>
             \A i \in valid'[r] : i \in pending'[r] \/ Key(job[r], i) \in InlineKeys'
        /\ stage'[r] \in {"render", "list", "upsert", "output", "done"} =>
             \A i \in valid'[r] : Key(job[r], i) \in InlineKeys'
    BY <1>1, <2>1, <2>2, <2>3, KeysStay DEF LocalStep, Kept
  <2>6. QED
    BY <1>1, <1>3, <2>4, <2>5 DEF Selected
<1>4. QED
  BY <1>2, <1>3

LEMMA SettledStays ==
  ASSUME ReportsInv, NEW r \in Reports, OneJobMoves(r), NEW s \in Reports
  PROVE  Settled(s)' /\ Published(s)'
<1>1. job' = job /\ Settled(s) /\ Published(s) /\ Settled(r)
  BY DEF OneJobMoves, OthersKept, ReportsInv
<1>2. InputAccepted(job[s])' <=> InputAccepted(job[s])
  BY <1>1 DEF InputAccepted, ProjectionAccepted, DisplayAccepted, ProcedureAccepted,
              ProvenanceAccepted, LegacyAccepted, ProcedureDue, Projected
<1>3. Settled(s)'
  <2>1. CASE s # r
    BY <1>1, <1>2, <2>1 DEF Settled, OneJobMoves, OthersKept
  <2>2. CASE s = r
    BY <1>1, <1>2, <2>2 DEF Settled, OneJobMoves, LocalStep
  <2>3. QED
    BY <2>1, <2>2
<1>4. Published(s)'
  <2>1. \A i \in DOMAIN marked' :
          \/ i \in DOMAIN marked /\ marked'[i] = marked[i]
          \/ stage[r] = "upsert" /\ marked'[i] = r
    <3>1. CASE marked' = marked
      BY <3>1
    <3>2. CASE stage[r] = "upsert" /\ marked' = Append(marked, r)
      <4>1. marked \in Seq(Reports)
        BY DEF ReportsInv, ReportTypes
      <4>2. QED
        BY <3>2, <4>1
    <3>3. CASE stage[r] = "upsert" /\ marked' = [marked EXCEPT ![target[r]] = r]
      BY <3>3
    <3>4. QED
      BY <3>1, <3>2, <3>3 DEF OneJobMoves, RemoteStep
  <2>2. outputs' = outputs \/ (stage[r] = "output" /\ outputs' = outputs \cup {r})
    BY DEF OneJobMoves, RemoteStep
  <2>3. stage[r] \in {"upsert", "output"} => InputAccepted(job[r])
    BY <1>1 DEF Settled
  <2>4. (\E i \in DOMAIN marked' : marked'[i] = s) \/ s \in outputs' => InputAccepted(job[s])
    BY <1>1, <2>1, <2>2, <2>3 DEF Published
  <2>5. QED
    BY <1>2, <2>4 DEF Published
<1>5. QED
  BY <1>3, <1>4

LEMMA ReportsStart ==
  ASSUME Init PROVE ReportsInv
<1>1. /\ pushed = 1 /\ job \in Jobs /\ stage = [r \in Reports |-> "new"]
      /\ valid = [r \in Reports |-> {}] /\ pending = [r \in Reports |-> {}]
      /\ target = [r \in Reports |-> 0] /\ posted = <<>> /\ marked = <<>> /\ outputs = {}
  BY DEF Init
<1>2. pushed \in 1 .. Len(Heads)
  BY <1>1, HeadsAssumption
<1>3. ReportTypes
  BY <1>1, <1>2 DEF ReportTypes, Stages
<1>4. ASSUME NEW r \in Reports PROVE Settled(r) /\ Selected(r) /\ Published(r)
  BY <1>1 DEF Settled, Selected, Published
<1>5. QED
  BY <1>3, <1>4 DEF ReportsInv

LEMMA NothingMoves ==
  ASSUME ReportsInv, UNCHANGED <<job, stage, valid, pending, target, posted, marked, outputs>>,
         ReportTypes'
  PROVE  ReportsInv' /\ InlineKeys' = InlineKeys
<1>1. InlineKeys' = InlineKeys
  BY DEF InlineKeys
<1>2. ASSUME NEW r \in Reports PROVE Settled(r)' /\ Selected(r)' /\ Published(r)'
  <2>1. Settled(r) /\ Selected(r) /\ Published(r)
    BY DEF ReportsInv
  <2>2. InputAccepted(job[r])' <=> InputAccepted(job[r])
    BY DEF InputAccepted, ProjectionAccepted, DisplayAccepted, ProcedureAccepted,
           ProvenanceAccepted, LegacyAccepted, ProcedureDue, Projected
  <2>3. Settled(r)' /\ Published(r)'
    BY <2>1, <2>2 DEF Settled, Published
  <2>4. Selected(r)'
    BY <1>1, <2>1 DEF Selected, Key, FirstPlaces
  <2>5. QED
    BY <2>3, <2>4
<1>3. QED
  BY <1>1, <1>2 DEF ReportsInv

LEMMA ReportsStep ==
  ASSUME ReportsInv, [Next]_vars PROVE ReportsInv'
<1>1. CASE Push
  BY <1>1, PushTypes, NothingMoves
<1>2. ASSUME NEW r \in Reports, Start(r) \/ Work(r) \/ Die(r) PROVE ReportsInv'
  <2>1. OneJobMoves(r)
    BY <1>2, OneMoves
  <2>2. \A s \in Reports : Settled(s)' /\ Selected(s)' /\ Published(s)'
    BY <2>1, SettledStays, SelectedStays
  <2>3. QED
    BY <2>1, <2>2 DEF OneJobMoves, ReportsInv
<1>3. CASE UNCHANGED vars
  <2>1. UNCHANGED <<pushed, job, stage, valid, pending, target, posted, marked, outputs>>
    BY <1>3 DEF vars, local, remote
  <2>2. ReportTypes'
    BY <2>1 DEF ReportsInv, ReportTypes
  <2>3. QED
    BY <2>1, <2>2, NothingMoves
<1>4. QED
  BY <1>1, <1>2, <1>3 DEF Next

\* Whatever the pull request does, whatever fails and however often a job is
\* repeated, a job publishes on inputs it has accepted and forgets no finding
\* it calls delivered (ci-report.mts:244-291).
THEOREM ReportsInvariance == Spec => []ReportsInv
<1>1. Init => ReportsInv
  BY ReportsStart
<1>2. ReportsInv /\ [Next]_vars => ReportsInv'
  BY ReportsStep
<1>3. QED
  BY <1>1, <1>2, PTL DEF Spec

\* What a job publishes rests on inputs of its own head, all of them, on every
\* route (ci-report-entrypoint.mts:183-215).
THEOREM PublishedRests == Spec => []PublishedRestsOnItsHead
<1>1. ReportsInv => PublishedRestsOnItsHead
  BY DEF ReportsInv, Published, PublishedRestsOnItsHead, InputAccepted, ProjectionAccepted,
         DisplayAccepted, ProcedureAccepted, LegacyAccepted
<1>2. QED
  BY <1>1, ReportsInvariance, PTL

\* A finding the report calls posted or already present is on the pull request
\* (ci-report.mts:255, 286).
THEOREM ReportedArePosted == Spec => []ReportedMeansPosted
<1>1. ReportsInv => ReportedMeansPosted
  BY DEF ReportsInv, Selected, ReportedMeansPosted
<1>2. QED
  BY <1>1, ReportsInvariance, PTL

-----------------------------------------------------------------------------
\* Jobs that take turns post nothing twice.

\* Two places where findings occur first have different keys.
LEMMA KeysDiffer ==
  ASSUME ReportsInv, NEW r \in Reports, NEW i \in FirstPlaces(job[r]), NEW k \in FirstPlaces(job[r]),
         Key(job[r], i) = Key(job[r], k)
  PROVE  i = k
<1>1. FirstPlaces(job[r]) \subseteq Nat /\ DOMAIN job[r].findings = 1 .. Len(job[r].findings)
  BY ValidTypes, PendingFinite
<1>2. job[r].findings[i] = job[r].findings[k]
  BY DEF Key
<1>3. i \in Nat /\ k \in Nat /\ i >= 1 /\ k >= 1
  BY <1>1 DEF FirstPlaces
<1>4. ~(i < k) /\ ~(k < i)
  BY <1>2, <1>3 DEF FirstPlaces
<1>5. QED
  BY <1>3, <1>4

LEMMA ReviewPostsOnce ==
  ASSUME ReportsInv, NEW r \in Reports, PostReview(r), PostedOnce,
         \A i \in pending[r] : Key(job[r], i) \notin InlineKeys
  PROVE  \A i, k \in DOMAIN posted' : posted'[i].key = posted'[k].key => i = k
<1> DEFINE C == Cardinality(pending[r])
<1>1. PICK order \in [1 .. C -> pending[r]] :
         /\ \A n, k \in 1 .. C : order[n] = order[k] => n = k
         /\ C \in Nat
         /\ DOMAIN posted' = 1 .. Len(posted) + C
         /\ \A i \in DOMAIN posted' :
              posted'[i] = IF i \in DOMAIN posted THEN posted[i]
                           ELSE [key |-> Key(job[r], order[i - Len(posted)]), at |-> LiveHead]
  BY ReviewPosts
<1> HIDE DEF C
<1>2. DOMAIN posted = 1 .. Len(posted) /\ Len(posted) \in Nat
  BY DEF ReportsInv, ReportTypes
<1>3. ASSUME NEW i \in DOMAIN posted', i \notin DOMAIN posted
      PROVE  /\ i - Len(posted) \in 1 .. C /\ order[i - Len(posted)] \in pending[r]
             /\ posted'[i].key = Key(job[r], order[i - Len(posted)])
             /\ posted'[i].key \notin InlineKeys
  <2>1. i - Len(posted) \in 1 .. C
    BY <1>1, <1>2, <1>3
  <2>2. posted'[i].key = Key(job[r], order[i - Len(posted)])
    BY <1>1, <1>3
  <2>3. QED
    BY <1>1, <2>1, <2>2
<1>4. ASSUME NEW i \in DOMAIN posted' , i \in DOMAIN posted
      PROVE  posted'[i].key = posted[i].key /\ posted'[i].key \in InlineKeys
  BY <1>1, <1>4 DEF InlineKeys
<1>5. ASSUME NEW i \in DOMAIN posted', NEW k \in DOMAIN posted', posted'[i].key = posted'[k].key
      PROVE  i = k
  <2>1. CASE i \in DOMAIN posted /\ k \in DOMAIN posted
    BY <1>4, <1>5, <2>1 DEF PostedOnce
  <2>2. CASE i \notin DOMAIN posted /\ k \notin DOMAIN posted
    <3>1. order[i - Len(posted)] = order[k - Len(posted)]
      <4>1. /\ order[i - Len(posted)] \in FirstPlaces(job[r])
            /\ order[k - Len(posted)] \in FirstPlaces(job[r])
        BY <1>3, <2>2, PendingFinite
      <4>2. Key(job[r], order[i - Len(posted)]) = Key(job[r], order[k - Len(posted)])
        BY <1>3, <1>5, <2>2
      <4>3. QED
        BY <4>1, <4>2, KeysDiffer
    <3>2. i - Len(posted) = k - Len(posted)
      BY <1>1, <1>3, <2>2, <3>1
    <3>3. QED
      BY <1>1, <1>2, <3>2
  <2>3. QED
    BY <1>3, <1>4, <1>5, <2>1, <2>2
<1>6. QED
  BY <1>5

LEMMA TurnsStep ==
  ASSUME OneGroupOnly, ReportsInv, TurnsTaken, NEW r \in Reports, OneJobMoves(r)
  PROVE  TurnsTaken'
<1>1. /\ job' = job /\ LocalStep(r) /\ RemoteStep(r)
      /\ \A s \in Reports \ {r} : stage'[s] = stage[s] /\ valid'[s] = valid[s]
                                  /\ pending'[s] = pending[s] /\ target'[s] = target[s]
  BY DEF OneJobMoves, OthersKept
<1>2. stage[r] = "new" => \A s \in Reports : ~Active(s)
  BY <1>1 DEF LocalStep, OneGroupOnly
<1>3. Active(r)' => stage[r] = "new" \/ Active(r)
  BY <1>1 DEF LocalStep, Active, Ended
<1>4. \A s \in Reports \ {r} : Active(s)' <=> Active(s)
  BY <1>1 DEF Active
<1>5. ASSUME NEW p \in Reports, NEW s \in Reports, Active(p)', Active(s)' PROVE p = s
  BY <1>2, <1>3, <1>4, <1>5 DEF TurnsTaken
<1>6. stage[r] \in {"post", "upsert"} => \A s \in Reports \ {r} : ~Active(s)
  BY DEF TurnsTaken, Active, Ended
<1>7. /\ stage[r] # "post" => posted' = posted /\ InlineKeys' = InlineKeys
      /\ stage[r] # "upsert" => marked' = marked
  BY <1>1 DEF RemoteStep, InlineKeys
<1>8. ASSUME NEW s \in Reports
      PROVE  /\ stage'[s] \in {"again", "post"} => \A i \in pending'[s] : Key(job[s], i) \notin InlineKeys'
             /\ stage'[s] = "upsert" => target'[s] = IF marked' = <<>> THEN 0 ELSE 1
  <2>1. CASE s # r
    <3>1. stage[s] \in {"again", "post", "upsert"} => Active(s)
      BY DEF Active, Ended
    <3>2. QED
      BY <1>1, <1>6, <1>7, <2>1, <3>1 DEF TurnsTaken
  <2>2. CASE s = r
    <3>1. stage'[r] \in {"again", "post"} => \A i \in pending'[r] : Key(job[r], i) \notin InlineKeys'
      <4>1. CASE stage[r] = "post"
        BY <1>1, <4>1 DEF LocalStep
      <4>2. CASE stage[r] # "post"
        BY <1>1, <1>7, <4>2 DEF LocalStep, Kept, TurnsTaken
      <4>3. QED
        BY <4>1, <4>2
    <3>2. stage'[r] = "upsert" => target'[r] = IF marked' = <<>> THEN 0 ELSE 1
      BY <1>1 DEF RemoteStep
    <3>3. QED
      BY <2>2, <3>1, <3>2
  <2>3. QED
    BY <2>1, <2>2
<1>9. \A i, k \in DOMAIN posted' : posted'[i].key = posted'[k].key => i = k
  <2>1. CASE posted' = posted
    BY <2>1 DEF TurnsTaken, PostedOnce
  <2>2. CASE stage[r] = "post" /\ PostReview(r)
    BY <2>2, ReviewPostsOnce DEF TurnsTaken
  <2>3. QED
    BY <1>1, <2>1, <2>2 DEF RemoteStep
<1>10. Len(marked') <= 1
  <2>1. marked \in Seq(Reports) /\ Len(marked) <= 1 /\ target[r] \in {0, 1}
    BY DEF TurnsTaken, PostedOnce, ReportsInv, ReportTypes
  <2>2. CASE marked' = marked
    BY <2>1, <2>2
  <2>3. CASE stage[r] = "upsert" /\ marked' = IF target[r] = 0 THEN Append(marked, r)
                                              ELSE [marked EXCEPT ![target[r]] = r]
    <3>1. target[r] = IF marked = <<>> THEN 0 ELSE 1
      BY <2>3 DEF TurnsTaken
    <3>2. CASE target[r] = 0
      BY <2>1, <2>3, <3>1, <3>2
    <3>3. CASE target[r] = 1
      BY <2>1, <2>3, <3>3, Replaced
    <3>4. QED
      BY <2>1, <3>2, <3>3
  <2>4. QED
    BY <1>1, <2>2, <2>3 DEF RemoteStep
<1>11. \A s \in Reports : \A i : Key(job[s], i)' = Key(job[s], i)
  BY <1>1 DEF Key
<1>12. QED
  BY <1>1, <1>5, <1>8, <1>9, <1>10, <1>11 DEF TurnsTaken, PostedOnce

\* However often reports are repeated, lost or late, when the jobs of the pull
\* request take turns it has one comment with the marker, and no finding of a
\* decision on a head is posted twice (ci-report.mts:244-252, 666).
THEOREM TurnsPostOnce == ASSUME OneGroupOnly PROVE Spec => []PostedOnce
<1>1. Init => TurnsTaken
  BY DEF Init, TurnsTaken, Active, PostedOnce
<1>2. ReportsInv /\ TurnsTaken /\ [Next]_vars => TurnsTaken'
  <2>1. SUFFICES ASSUME ReportsInv, TurnsTaken, [Next]_vars PROVE TurnsTaken'
    OBVIOUS
  <2>2. CASE Push \/ UNCHANGED vars
    <3>1. UNCHANGED <<job, stage, valid, pending, target, posted, marked>>
      BY <2>2 DEF Push, vars, local, remote
    <3>2. QED
      BY <2>1, <3>1 DEF TurnsTaken, Active, InlineKeys, Key, PostedOnce
  <2>3. ASSUME NEW r \in Reports, Start(r) \/ Work(r) \/ Die(r) PROVE TurnsTaken'
    BY <2>1, <2>3, OneMoves, TurnsStep
  <2>4. QED
    BY <2>1, <2>2, <2>3 DEF Next
<1>3. TurnsTaken => PostedOnce
  BY DEF TurnsTaken
<1>4. QED
  BY <1>1, <1>2, <1>3, ReportsInvariance, PTL DEF Spec

-----------------------------------------------------------------------------
\* Findings are posted on lines of the head they are about.

\* What was a line of a head, or of one between two pushes of it, stays one.
LEMMA LineStays ==
  ASSUME NEW h, NEW finding, LineOf(h, finding), 1 .. pushed \subseteq 1 .. pushed'
  PROVE  LineOf(h, finding)'
BY DEF LineOf

LEMMA PlacedStays ==
  ASSUME ReportsInv, NEW r \in Reports, OneJobMoves(r), Placed(r)
  PROVE  Placed(r)'
<1>1. pushed' = pushed /\ job' = job /\ LocalStep(r) /\ pushed \in 1 .. Len(Heads)
      /\ Len(Heads) \in Nat /\ DOMAIN Heads = 1 .. Len(Heads)
  BY HeadsAssumption DEF OneJobMoves, OthersKept, ReportsInv, ReportTypes
<1>2. stage'[r] # "new" => \E n \in 1 .. pushed : Heads[n] = job[r].head
  BY <1>1 DEF LocalStep, Placed
<1>3. ASSUME stage'[r] \in {"comments", "again"}
      PROVE  \E n \in 1 .. pushed : \E k \in n .. pushed :
               /\ Heads[n] = job[r].head
               /\ \A i \in valid'[r] : job[r].findings[i] \in Located[Heads[k]]
  <2>1. CASE stage[r] = "files"
    <3>1. PICK n \in 1 .. pushed : Heads[n] = job[r].head
      BY <1>2, <1>3
    <3>2. valid'[r] = ValidFindings(job[r], Located[LiveHead])
      BY <1>1, <1>3, <2>1 DEF LocalStep
    <3>3. \A i \in valid'[r] : job[r].findings[i] \in Located[Heads[pushed]]
      BY <3>2 DEF ValidFindings, LiveHead
    <3>4. pushed \in n .. pushed
      BY <1>1
    <3>5. QED
      BY <3>1, <3>3, <3>4
  <2>2. CASE stage[r] = "comments"
    BY <1>1, <1>3, <2>2 DEF LocalStep, Placed
  <2>3. QED
    BY <1>1, <1>3, <2>1, <2>2 DEF LocalStep
<1>4. stage'[r] = "again" => pending'[r] \subseteq valid'[r]
  BY <1>1 DEF LocalStep
<1>5. ASSUME stage'[r] = "post"
      PROVE  \A i \in pending'[r] : LineOf(job[r].head, job[r].findings[i])
  <2>1. stage[r] = "again" /\ Heads[pushed] = job[r].head /\ pending'[r] = pending[r]
    BY <1>1, <1>5 DEF LocalStep, Kept, LiveHead
  <2>2. PICK n \in 1 .. pushed : \E k \in n .. pushed :
          /\ Heads[n] = job[r].head
          /\ \A i \in valid[r] : job[r].findings[i] \in Located[Heads[k]]
    BY <2>1 DEF Placed
  <2>3. PICK k \in n .. pushed :
          /\ Heads[n] = job[r].head
          /\ \A i \in valid[r] : job[r].findings[i] \in Located[Heads[k]]
    BY <2>2
  <2>4. pending[r] \subseteq valid[r]
    BY <2>1 DEF Placed
  <2>5. CASE k = n \/ k = pushed
    BY <2>1, <2>3, <2>4, <2>5 DEF LineOf
  <2>6. CASE k # n /\ k # pushed
    <3>1. n < k /\ k < pushed /\ k \in 1 .. pushed /\ pushed \in 1 .. pushed
      BY <1>1, <2>6
    <3>2. QED
      BY <2>1, <2>3, <2>4, <3>1 DEF LineOf
  <2>7. QED
    BY <2>5, <2>6
<1>6. ASSUME NEW i, LineOf(job[r].head, job[r].findings[i])
      PROVE  LineOf(job[r].head, job[r].findings[i])'
  BY <1>1, <1>6 DEF LineOf
<1>7. QED
  BY <1>1, <1>2, <1>3, <1>4, <1>5, <1>6 DEF Placed

LEMMA LinesByKeys ==
  LinesOfReviewedDiff <=> \A key \in InlineKeys : LineOf(key.head, key.finding)
BY DEF LinesOfReviewedDiff, InlineKeys

LEMMA LinesStep ==
  ASSUME ReportsInv, LinesInv, NEW r \in Reports, OneJobMoves(r)
  PROVE  LinesInv'
<1>1. Placed(r)'
  BY PlacedStays DEF LinesInv
<1>2. ASSUME NEW s \in Reports \ {r} PROVE Placed(s)'
  <2>1. pushed' = pushed /\ job' = job /\ stage'[s] = stage[s] /\ valid'[s] = valid[s]
        /\ pending'[s] = pending[s]
    BY DEF OneJobMoves, OthersKept
  <2>2. Placed(s)
    BY DEF LinesInv
  <2>3. QED
    BY <2>1, <2>2 DEF Placed, LineOf
<1>3. ASSUME NEW key \in InlineKeys' PROVE LineOf(key.head, key.finding)
  <2>1. CASE key \in InlineKeys
    BY <2>1, LinesByKeys DEF LinesInv
  <2>2. CASE key \notin InlineKeys
    <3>1. posted' # posted
      BY <1>3, <2>2 DEF InlineKeys
    <3>2. stage[r] = "post" /\ PostReview(r)
      BY <3>1 DEF OneJobMoves, RemoteStep
    <3>3. PICK i \in pending[r] : key = Key(job[r], i)
      BY <1>3, <2>2, <3>2, ReviewPosts
    <3>4. LineOf(job[r].head, job[r].findings[i])
      BY <3>2 DEF LinesInv, Placed
    <3>5. QED
      BY <3>3, <3>4 DEF Key
  <2>3. QED
    BY <2>1, <2>2
<1>4. LinesOfReviewedDiff'
  <2>1. pushed' = pushed
    BY DEF OneJobMoves, OthersKept
  <2>2. QED
    BY <1>3, <2>1 DEF LinesOfReviewedDiff, InlineKeys, LineOf
<1>5. QED
  BY <1>1, <1>2, <1>4 DEF LinesInv

\* A finding is posted on a line its own head changes, although the files are
\* those of the head of another moment. Where a push brought that head back it
\* may be a line of a head in between; nothing else escapes the second reading
\* of the head (ci-report.mts:236, 253).
THEOREM LinesAreOfTheHead == Spec => []LinesOfReviewedDiff
<1>1. Init => LinesInv
  BY DEF Init, LinesInv, Placed, LinesOfReviewedDiff
<1>2. ReportsInv /\ LinesInv /\ [Next]_vars => LinesInv'
  <2>1. SUFFICES ASSUME ReportsInv, LinesInv, [Next]_vars PROVE LinesInv'
    OBVIOUS
  <2>2. CASE Push \/ UNCHANGED vars
    <3>1. /\ UNCHANGED <<job, stage, valid, pending, posted>>
          /\ pushed' \in {pushed, pushed + 1} /\ pushed \in Nat
      BY <2>1, <2>2 DEF Push, vars, local, remote, ReportsInv, ReportTypes
    <3>2. 1 .. pushed \subseteq 1 .. pushed' /\ \A n : n .. pushed \subseteq n .. pushed'
      BY <3>1
    <3>3. LinesOfReviewedDiff'
      <4>1. ASSUME NEW i \in DOMAIN posted'
            PROVE  LineOf(posted[i].key.head, posted[i].key.finding)'
        BY <2>1, <3>1, <3>2, <4>1, LineStays DEF LinesInv, LinesOfReviewedDiff, LineOf
      <4>2. QED
        BY <3>1, <4>1 DEF LinesOfReviewedDiff
    <3>4. ASSUME NEW r \in Reports PROVE Placed(r)'
      <4>1. Placed(r)
        BY <2>1 DEF LinesInv
      <4>2. ASSUME NEW i, LineOf(job[r].head, job[r].findings[i])
            PROVE  LineOf(job[r].head, job[r].findings[i])'
        BY <3>1, <3>2, <4>2 DEF LineOf
      <4>3. QED
        BY <3>1, <3>2, <4>1, <4>2 DEF Placed
    <3>5. QED
      BY <3>3, <3>4 DEF LinesInv
  <2>3. ASSUME NEW r \in Reports, Start(r) \/ Work(r) \/ Die(r) PROVE LinesInv'
    BY <2>1, <2>3, OneMoves, LinesStep
  <2>4. QED
    BY <2>1, <2>2, <2>3 DEF Next
<1>3. LinesInv => LinesOfReviewedDiff
  BY DEF LinesInv
<1>4. QED
  BY <1>1, <1>2, <1>3, ReportsInvariance, PTL DEF Spec

-----------------------------------------------------------------------------
\* The report fits. Lengths are natural numbers, and the shares of the
\* explanations are together at most what was left for them.

JoinedBy(lengths, N, f) ==
    f = [n \in 0 .. N |->
           IF n = 0 THEN 0 ELSE f[n - 1] + (IF n = 1 THEN 0 ELSE 2) + lengths[n]]

LEMMA JoinedExists ==
  ASSUME NEW lengths PROVE \A N \in Nat : \E f : JoinedBy(lengths, N, f)
<1> DEFINE T == {N \in Nat : \E f : JoinedBy(lengths, N, f)}
<1>1. 0 \in T
  <2> DEFINE f == [n \in 0 .. 0 |-> 0]
  <2>1. JoinedBy(lengths, 0, f)
    BY DEF JoinedBy
  <2>2. QED
    BY <2>1
<1>2. ASSUME NEW N \in Nat, N \in T PROVE N + 1 \in T
  <2>1. PICK f : JoinedBy(lengths, N, f)
    BY <1>2
  <2> DEFINE g == [n \in 0 .. N + 1 |->
                     IF n = N + 1 THEN f[N] + (IF n = 1 THEN 0 ELSE 2) + lengths[n] ELSE f[n]]
  <2>2. JoinedBy(lengths, N + 1, g)
    <3> DEFINE h == [n \in 0 .. N + 1 |->
           IF n = 0 THEN 0 ELSE g[n - 1] + (IF n = 1 THEN 0 ELSE 2) + lengths[n]]
    <3>1. ASSUME NEW n \in 0 .. N + 1 PROVE g[n] = h[n]
      <4>1. CASE n = N + 1
        BY <4>1
      <4>2. CASE n # N + 1
        <5>1. n \in 0 .. N /\ g[n] = f[n] /\ (n # 0 => g[n - 1] = f[n - 1])
          BY <4>2
        <5>2. QED
          BY <2>1, <5>1 DEF JoinedBy
      <4>3. QED
        BY <4>1, <4>2
    <3>2. g = h
      BY <3>1
    <3>3. QED
      BY <3>2 DEF JoinedBy
  <2>3. QED
    BY <2>2
<1> HIDE DEF T
<1>3. \A N \in Nat : N \in T
  BY <1>1, <1>2, Induction
<1>4. QED
  BY <1>3 DEF T

LEMMA JoinedNat ==
  ASSUME NEW lengths, Len(lengths) \in Nat,
         \A n \in 1 .. Len(lengths) : lengths[n] \in Nat
  PROVE  Text!Joined(lengths) \in Nat
<1> DEFINE L == Len(lengths)
           f == CHOOSE f : JoinedBy(lengths, L, f)
<1>1. Text!Joined(lengths) = f[L]
  BY DEF Text!Joined, JoinedBy
<1>2. JoinedBy(lengths, L, f)
  BY JoinedExists
<1> DEFINE T == {n \in Nat : n <= L => f[n] \in Nat}
<1> HIDE DEF f
<1>3. 0 \in T
  BY <1>2 DEF JoinedBy
<1>4. ASSUME NEW n \in Nat, n \in T PROVE n + 1 \in T
  <2>1. CASE n + 1 <= L
    <3>1. f[n + 1] = f[n] + (IF n + 1 = 1 THEN 0 ELSE 2) + lengths[n + 1]
      BY <1>2, <2>1 DEF JoinedBy
    <3>2. QED
      BY <1>4, <2>1, <3>1
  <2>2. QED
    BY <2>1
<1>5. L \in T
  <2> HIDE DEF T
  <2>1. QED
    BY <1>3, <1>4, Induction
<1>6. QED
  BY <1>1, <1>5

\* The states of the distribution, and one share.
Shared == [left : Nat, bodies : Nat, length : Nat]

LEMMA LessInTurn ==
  ASSUME NEW l \in Nat, NEW a \in Nat, NEW b \in Nat, NEW m \in Nat, NEW c \in Nat, NEW e \in Nat,
         NEW z \in Nat, NEW k \in {0, 1},
         l + a + b * 20 <= z, e = b - k, m + c <= l + a + k * 20
  PROVE  m + c + e * 20 <= z
OBVIOUS

LEMMA ShareIsLess ==
  ASSUME NEW a \in Nat, NEW b \in Nat, b > 0 PROVE a \div b \in Nat /\ a \div b <= a
OBVIOUS

LEMMA OneShare ==
  ASSUME NEW s \in Shared, NEW body \in Nat, body > 0 => s.bodies > 0
  PROVE  /\ Text!GiveShare(s, body) \in Shared
         /\ Text!GiveShare(s, body).bodies = IF body = 0 THEN s.bodies ELSE s.bodies - 1
         /\ Text!GiveShare(s, body).length + Text!GiveShare(s, body).left
              <= s.length + s.left + (IF body = 0 THEN 0 ELSE 20)
<1>1. CASE body = 0
  BY <1>1 DEF Text!GiveShare, Shared
<1>2. CASE body > 0
  <2> DEFINE share == Text!Smaller(body, s.left \div s.bodies)
  <2>1. share \in Nat /\ share <= s.left
    BY <1>2, ShareIsLess DEF Text!Smaller, Shared
  <2>2. Text!GiveShare(s, body) =
          [left |-> s.left - share, bodies |-> s.bodies - 1,
           length |-> s.length + 19 + share + (IF share < body THEN 1 ELSE 0)]
    BY <1>2 DEF Text!GiveShare, Text!Explanation
  <2> HIDE DEF share
  <2>3. QED
    BY <1>2, <2>1, <2>2 DEF Shared
<1>3. QED
  BY <1>1, <1>2

SharedBy(first, findings, N, f) ==
    f = [n \in 0 .. N |->
           IF n = 0 THEN first ELSE Text!GiveShare(f[n - 1], findings[n].body)]

LEMMA SharesExist ==
  ASSUME NEW first, NEW findings PROVE \A N \in Nat : \E f : SharedBy(first, findings, N, f)
<1> DEFINE T == {N \in Nat : \E f : SharedBy(first, findings, N, f)}
<1>1. 0 \in T
  <2> DEFINE f == [n \in 0 .. 0 |-> first]
  <2>1. SharedBy(first, findings, 0, f)
    BY DEF SharedBy
  <2>2. QED
    BY <2>1
<1>2. ASSUME NEW N \in Nat, N \in T PROVE N + 1 \in T
  <2>1. PICK f : SharedBy(first, findings, N, f)
    BY <1>2
  <2> DEFINE g == [n \in 0 .. N + 1 |->
                     IF n = N + 1 THEN Text!GiveShare(f[N], findings[n].body) ELSE f[n]]
             h == [n \in 0 .. N + 1 |->
                     IF n = 0 THEN first ELSE Text!GiveShare(g[n - 1], findings[n].body)]
  <2>2. ASSUME NEW n \in 0 .. N + 1 PROVE g[n] = h[n]
    <3>1. CASE n = N + 1
      BY <3>1
    <3>2. CASE n # N + 1
      <4>1. n \in 0 .. N /\ g[n] = f[n] /\ (n # 0 => g[n - 1] = f[n - 1])
        BY <3>2
      <4>2. QED
        BY <2>1, <4>1 DEF SharedBy
    <3>3. QED
      BY <3>1, <3>2
  <2>3. g = h
    BY <2>2
  <2>4. SharedBy(first, findings, N + 1, g)
    BY <2>3 DEF SharedBy
  <2>5. QED
    BY <2>4
<1> HIDE DEF T
<1>3. \A N \in Nat : N \in T
  BY <1>1, <1>2, Induction
<1>4. QED
  BY <1>3 DEF T

\* After n findings, what their explanations took is no longer left.
LEMMA SharesAddUp ==
  ASSUME NEW findings \in Seq(FindingTexts), NEW first \in Shared,
         first.bodies = Cardinality({i \in DOMAIN findings : findings[i].body > 0}),
         NEW f, SharedBy(first, findings, Len(findings), f)
  PROVE  /\ f[Len(findings)].length \in Nat
         /\ f[Len(findings)].length <= first.length + first.left + first.bodies * 20
<1> DEFINE N == Len(findings)
           Rest(n) == {i \in n + 1 .. N : findings[i].body > 0}
           T == {n \in Nat : n <= N =>
                   /\ f[n] \in Shared /\ f[n].bodies = Cardinality(Rest(n))
                   /\ f[n].length + f[n].left + f[n].bodies * 20
                        <= first.length + first.left + first.bodies * 20}
<1>0. N \in Nat /\ DOMAIN findings = 1 .. N /\ \A i \in 1 .. N : findings[i].body \in Nat
  BY TextsAssumption
<1>1. 0 \in T
  <2>1. f[0] = first
    BY <1>0 DEF SharedBy
  <2>2. Rest(0) = {i \in DOMAIN findings : findings[i].body > 0}
    BY <1>0
  <2> HIDE DEF Rest
  <2>3. first.left \in Nat /\ first.bodies \in Nat /\ first.length \in Nat
    BY DEF Shared
  <2>4. f[0].length + f[0].left + f[0].bodies * 20
          <= first.length + first.left + first.bodies * 20
    BY <2>1, <2>3
  <2>5. QED
    BY <2>1, <2>2, <2>4
<1>2. ASSUME NEW n \in Nat, n \in T PROVE n + 1 \in T
  <2>1. SUFFICES ASSUME n + 1 <= N
                 PROVE  /\ f[n + 1] \in Shared /\ f[n + 1].bodies = Cardinality(Rest(n + 1))
                        /\ f[n + 1].length + f[n + 1].left + f[n + 1].bodies * 20
                             <= first.length + first.left + first.bodies * 20
    OBVIOUS
  <2> DEFINE body == findings[n + 1].body
  <2>2. /\ f[n] \in Shared /\ f[n].bodies = Cardinality(Rest(n))
        /\ f[n].length + f[n].left + f[n].bodies * 20
             <= first.length + first.left + first.bodies * 20
    BY <1>2, <2>1
  <2>3. f[n + 1] = Text!GiveShare(f[n], body)
    BY <1>0, <2>1 DEF SharedBy
  <2>4. body \in Nat
    BY <1>0, <2>1
  <2>5. IsFiniteSet(Rest(n)) /\ Rest(n + 1) = IF body > 0 THEN Rest(n) \ {n + 1} ELSE Rest(n)
    <3>1. IsFiniteSet(n + 1 .. N)
      BY <1>0, FS_Interval
    <3>2. Rest(n) \subseteq n + 1 .. N
      OBVIOUS
    <3>3. IsFiniteSet(Rest(n))
      BY <3>1, <3>2, FS_Subset
    <3>4. QED
      BY <1>0, <2>1, <2>4, <3>3
  <2>6. body > 0 => n + 1 \in Rest(n)
    BY <1>0, <2>1
  <2> HIDE DEF Rest, T
  <2>7. Cardinality(Rest(n + 1)) = IF body > 0 THEN Cardinality(Rest(n)) - 1 ELSE Cardinality(Rest(n))
    BY <2>5, <2>6, FS_RemoveElement
  <2>8. body > 0 => f[n].bodies > 0
    <3>1. body > 0 => Cardinality(Rest(n)) # 0
      BY <2>5, <2>6, FS_EmptySet
    <3>2. QED
      BY <2>2, <3>1 DEF Shared
  <2> HIDE DEF body
  <2>9. /\ f[n + 1] \in Shared
        /\ f[n + 1].bodies = IF body = 0 THEN f[n].bodies ELSE f[n].bodies - 1
        /\ f[n + 1].length + f[n + 1].left <= f[n].length + f[n].left + (IF body = 0 THEN 0 ELSE 20)
    BY <2>2, <2>3, <2>4, <2>8, OneShare
  <2>10. f[n + 1].bodies = Cardinality(Rest(n + 1))
    BY <2>2, <2>4, <2>7, <2>9
  <2>11. /\ f[n].left \in Nat /\ f[n].bodies \in Nat /\ f[n].length \in Nat
         /\ f[n + 1].left \in Nat /\ f[n + 1].bodies \in Nat /\ f[n + 1].length \in Nat
         /\ first.left \in Nat /\ first.bodies \in Nat /\ first.length \in Nat
    BY <2>2, <2>9 DEF Shared
  <2>12. first.length + first.left + first.bodies * 20 \in Nat
    BY <2>11
  <2>13. f[n + 1].length + f[n + 1].left + f[n + 1].bodies * 20
           <= first.length + first.left + first.bodies * 20
    <3> DEFINE k == IF body = 0 THEN 0 ELSE 1
    <3>1. /\ k \in {0, 1} /\ f[n + 1].bodies = f[n].bodies - k
          /\ f[n + 1].length + f[n + 1].left <= f[n].length + f[n].left + k * 20
      BY <2>9, <2>11
    <3> DEFINE l == f[n].length  a == f[n].left  b == f[n].bodies
               m == f[n + 1].length  c == f[n + 1].left  e == f[n + 1].bodies
               z == first.length + first.left + first.bodies * 20
    <3>2. /\ l \in Nat /\ a \in Nat /\ b \in Nat /\ m \in Nat /\ c \in Nat /\ e \in Nat
          /\ z \in Nat /\ l + a + b * 20 <= z
      BY <2>2, <2>11, <2>12
    <3>3. e = b - k /\ m + c <= l + a + k * 20 /\ k \in {0, 1}
      BY <3>1
    <3> HIDE DEF k, l, a, b, m, c, e, z
    <3>4. m + c + e * 20 <= z
      BY <3>2, <3>3, LessInTurn
    <3>5. QED
      BY <3>4 DEF m, c, e, z
  <2>14. QED
    BY <2>9, <2>10, <2>13
<1>3. N \in T
  <2> HIDE DEF T
  <2>1. QED
    BY <1>0, <1>1, <1>2, Induction
<1>4. QED
  BY <1>0, <1>3 DEF Shared

-----------------------------------------------------------------------------
Drafted(d) ==
    /\ d \in [fixed : Nat, required : Nat, optional : Nat,
              footer : Nat, compactFooter : Nat, findings : Seq(FindingTexts)]
    /\ Len(d.findings) <= 20

LEMMA FindingsFit ==
  ASSUME NEW d, Drafted(d)
  PROVE  /\ Text!FullFindings(d) \in Nat /\ Text!CoreFindings(d) \in Nat
         /\ \A room \in Int : Text!CoreFindings(d) <= room =>
              /\ Text!CompactFindings(d, room) \in Nat
              /\ Text!CompactFindings(d, room) <= room + 400
<1> DEFINE N == Len(d.findings)
           B == Text!Bodies(d)
           C == Text!CoreFindings(d)
<1>0. /\ d.findings \in Seq(FindingTexts) /\ N \in Nat /\ N <= 20
      /\ DOMAIN d.findings = 1 .. N
      /\ \A i \in 1 .. N : d.findings[i] \in [core : Nat, full : Nat, body : Nat]
      /\ d.footer \in Nat /\ d.compactFooter \in Nat
  BY TextsAssumption DEF Drafted
<1>1. \A part \in {"core", "full"} : Text!Joined(Text!Texts(d, part)) \in Nat
  <2> TAKE part \in {"core", "full"}
  <2>1. Text!Texts(d, part) = [i \in 1 .. N |-> d.findings[i][part]]
    BY <1>0 DEF Text!Texts
  <2>2. \A i \in 1 .. N : d.findings[i][part] \in Nat
    BY <1>0
  <2>3. Text!Texts(d, part) \in Seq(Nat) /\ Len(Text!Texts(d, part)) = N
    BY <1>0, <2>1, <2>2
  <2>4. QED
    BY <1>0, <2>1, <2>2, <2>3, JoinedNat
<1>2. Text!FullFindings(d) \in Nat /\ C \in Nat
  BY <1>0, <1>1 DEF Text!FullFindings, Text!CoreFindings, Text!Heading
<1>3. B \in Nat /\ B <= N
  <2> DEFINE X == {i \in DOMAIN d.findings : d.findings[i].body > 0}
  <2>1. N \in Nat /\ X \subseteq 1 .. N
    BY <1>0
  <2>2. B = Cardinality(X)
    BY DEF Text!Bodies, Text!Cardinality, Cardinality
  <2> HIDE DEF N, B, X
  <2>3. IsFiniteSet(1 .. N) /\ Cardinality(1 .. N) = N
    BY <2>1, FS_Interval
  <2>4. IsFiniteSet(X) /\ Cardinality(X) <= Cardinality(1 .. N)
    BY <2>1, <2>3, FS_Subset
  <2>5. Cardinality(X) \in Nat
    BY <2>4, FS_CardinalityType
  <2>6. QED
    BY <2>2, <2>3, <2>4, <2>5
<1>4. ASSUME NEW room \in Int, C <= room
      PROVE  Text!CompactFindings(d, room) \in Nat /\ Text!CompactFindings(d, room) <= room + 400
  <2> DEFINE spare == room - C - B * 20
             first == [left |-> IF spare > 0 THEN spare ELSE 0, bodies |-> B, length |-> C]
             f == CHOOSE f : SharedBy(first, d.findings, N, f)
  <2>1. Text!CompactFindings(d, room) = f[N].length
    BY DEF Text!CompactFindings, Text!Explanation, SharedBy
  <2>2. SharedBy(first, d.findings, N, f)
    BY <1>0, SharesExist
  <2>3. first \in Shared /\ first.bodies = B
    BY <1>2, <1>3, <1>4 DEF Shared
  <2>4. first.length + first.left + first.bodies * 20 <= room + 400
    BY <1>0, <1>2, <1>3, <1>4
  <2> HIDE DEF first, f
  <2>5. f[N].length \in Nat /\ f[N].length <= first.length + first.left + first.bodies * 20
    <3>1. first.bodies = Cardinality({i \in DOMAIN d.findings : d.findings[i].body > 0})
      BY <2>3 DEF Text!Bodies, Text!Cardinality, Cardinality
    <3>2. QED
      BY <1>0, <2>2, <2>3, <3>1, SharesAddUp
  <2>6. QED
    BY <1>3, <1>4, <2>1, <2>3, <2>4, <2>5 DEF Shared
<1>5. QED
  BY <1>2, <1>4

LEMMA ReportFits ==
  ASSUME NEW d, Drafted(d)
  PROVE  \A n \in Text!RenderReport(d) :
            n \in Nat /\ n <= 60400 /\ n >= d.fixed + d.required + Text!Ending
<1> DEFINE F == Text!FullFindings(d)
           M == d.fixed + d.required + 24 + 49
           room == 60000 - M
<1>0. /\ d.fixed \in Nat /\ d.required \in Nat /\ d.optional \in Nat
      /\ M \in Nat /\ room \in Int /\ Text!Mandatory(d) = M /\ Text!MaxReport = 60000
      /\ Text!Ending = 49
  BY DEF Drafted, Text!Mandatory, Text!MaxReport, Text!Truncation, Text!Ending
<1>1. F \in Nat
  BY FindingsFit
<1>2. ASSUME NEW n \in Text!RenderFindings(d, room) PROVE n \in Nat /\ (n <= room + 400 \/ n = 0)
  BY <1>0, FindingsFit DEF Text!RenderFindings
<1>3. ASSUME NEW n \in Nat PROVE /\ Text!FitSection(d.optional, room - n) \in Nat
                                 /\ Text!FitSection(d.optional, room - n) <= (IF room - n > 0 THEN room - n ELSE 0)
  BY <1>0, <1>3 DEF Text!FitSection
<1>4. CASE d.fixed + d.required + (IF d.findings = <<>> THEN 0 ELSE F) + d.optional + 49 <= 60000
  <2> DEFINE n == d.fixed + d.required + (IF d.findings = <<>> THEN 0 ELSE F) + d.optional + 49
  <2>1. Text!RenderReport(d) = {n}
    BY <1>0, <1>4 DEF Text!RenderReport
  <2>2. n \in Nat /\ n <= 60400 /\ n >= d.fixed + d.required + 49
    <3> DEFINE full == IF d.findings = <<>> THEN 0 ELSE F
    <3>1. full \in Nat
      BY <1>1
    <3>2. d.fixed + d.required + full + d.optional + 49 <= 60000
      BY <1>4
    <3> HIDE DEF full
    <3>3. LET m == d.fixed + d.required + full + d.optional + 49
          IN  m \in Nat /\ m <= 60400 /\ m >= d.fixed + d.required + 49
      BY <1>0, <3>1, <3>2
    <3>4. QED
      BY <3>3 DEF full
  <2>3. QED
    BY <1>0, <2>1, <2>2
<1>5. CASE ~(d.fixed + d.required + (IF d.findings = <<>> THEN 0 ELSE F) + d.optional + 49 <= 60000)
  <2>1. Text!RenderReport(d) = {M + n + Text!FitSection(d.optional, room - n) :
                                  n \in IF room < 0 THEN {} ELSE Text!RenderFindings(d, room)}
    BY <1>0, <1>5 DEF Text!RenderReport
  <2>2. ASSUME NEW n \in Text!RenderFindings(d, room), room >= 0
        PROVE  LET k == M + n + Text!FitSection(d.optional, room - n)
               IN  k \in Nat /\ k <= 60400 /\ k >= d.fixed + d.required + 49
    <3> DEFINE k == Text!FitSection(d.optional, room - n)
    <3>1. n \in Nat /\ (n <= room + 400 \/ n = 0)
      BY <1>2, <2>2
    <3>2. k \in Nat /\ k <= IF room - n > 0 THEN room - n ELSE 0
      BY <1>3, <3>1
    <3> HIDE DEF k
    <3>3. M + n + k \in Nat /\ M + n + k <= 60400 /\ M + n + k >= d.fixed + d.required + 49
      BY <1>0, <2>2, <3>1, <3>2
    <3>4. QED
      BY <3>3 DEF k
  <2>3. QED
    BY <1>0, <2>1, <2>2
<1>6. QED
  BY <1>4, <1>5

\* A report GitHub accepts, whatever the findings, the gates and the evidence
\* are: at most 65536 characters, with everything that must be kept
\* (ci-report.mts:599-648).
THEOREM ReportsFit == ReportRunSpec => []WithinGitHubLimit
<1>1. ReportRunInit => Drafted(draft)
  <2>1. ASSUME NEW d \in Drafts PROVE Drafted(d)
    <3>1. /\ d \in [fixed : Nat, required : Nat, optional : Nat,
                    footer : Nat, compactFooter : Nat, findings : {<<>>}]
          /\ d.findings = <<>>
      BY TextsAssumption
    <3>2. <<>> \in Seq(FindingTexts) /\ Len(<<>>) = 0
      OBVIOUS
    <3>3. d = [fixed |-> d.fixed, required |-> d.required, optional |-> d.optional,
               footer |-> d.footer, compactFooter |-> d.compactFooter, findings |-> <<>>]
      BY <3>1
    <3>4. d.findings \in Seq(FindingTexts) /\ Len(d.findings) <= 20
      BY <3>1, <3>2
    <3>5. /\ d.fixed \in Nat /\ d.required \in Nat /\ d.optional \in Nat
          /\ d.footer \in Nat /\ d.compactFooter \in Nat
      BY <3>1
    <3>6. QED
      BY <3>1, <3>3, <3>4, <3>5 DEF Drafted
  <2>2. QED
    BY <2>1 DEF ReportRunInit, Text!Init
<1>2. Drafted(draft) /\ [ReportRunNext]_<<vars, matter, text>> => Drafted(draft)'
  <2> SUFFICES ASSUME Drafted(draft), [ReportRunNext]_<<vars, matter, text>> PROVE Drafted(draft')
    OBVIOUS
  <2>1. CASE UNCHANGED draft
    BY <2>1
  <2>2. CASE Text!AddFinding
    BY <2>2 DEF Text!AddFinding, Text!MaxFindings, Drafted
  <2>3. QED
    BY <2>1, <2>2 DEF ReportRunNext, text, Text!CutPatch, Text!AppendHunk
<1>3. Drafted(draft) => WithinGitHubLimit
  <2> SUFFICES ASSUME Drafted(draft) PROVE Text!FitsGitHub
    BY DEF WithinGitHubLimit
  <2>1. QED
    BY ReportFits DEF Text!FitsGitHub
<1>4. QED
  BY <1>1, <1>2, <1>3, PTL DEF ReportRunSpec

-----------------------------------------------------------------------------
\* The lines of a patch. Old and new file are two sides of the same rows: on
\* a side, the rows of the kinds K have a line, and those of one kind change
\* it. F is where each hunk starts there, and C how many lines it has.

RowRecords ==
    [kind : {"hunk"}, old : Nat, oldCount : Nat, new : Nat, newCount : Nat]
    \cup [kind : {"add", "del", "same", "mark"}]

HunkAt(R, n, h) ==
    h \in 1 .. n /\ R[h].kind = "hunk" /\ \A k \in h + 1 .. n : R[k].kind # "hunk"

Steps(R, K, h, n) == {k \in h + 1 .. n : R[k].kind \in K}

Lines(R, K, own, F, n) == {Text!LineOf(R, i, K, F) : i \in {j \in 1 .. n : R[j].kind = own}}

\* What has been read of a side after n rows, the last hunk being at h.
SideRead(R, K, own, F, C, n, h, at, left, lines) ==
    /\ HunkAt(R, n, h)
    /\ at = F[h] + Cardinality(Steps(R, K, h, n))
    /\ left = C[h] - Cardinality(Steps(R, K, h, n))
    /\ lines = Lines(R, K, own, F, n)
    /\ \A i \in 1 .. n : \E g \in 1 .. i : HunkAt(R, i, g)
    /\ \A g \in 1 .. h - 1 : R[g].kind = "hunk" =>
         \E m \in g .. h - 1 : /\ HunkAt(R, m, g) /\ R[m + 1].kind = "hunk"
                               /\ Cardinality(Steps(R, K, g, m)) = C[g]

LEMMA HunkIsOne ==
  ASSUME NEW R, NEW n \in Nat, NEW h, NEW g, HunkAt(R, n, h), HunkAt(R, n, g)
  PROVE  h = g
<1>1. h \in 1 .. n /\ g \in 1 .. n /\ ~(h \in g + 1 .. n) /\ ~(g \in h + 1 .. n)
  BY DEF HunkAt
<1>2. QED
  BY <1>1

LEMMA LineOfRow ==
  ASSUME NEW R, NEW K, NEW F, NEW i \in Nat, NEW h, HunkAt(R, i, h)
  PROVE  Text!LineOf(R, i, K, F) = F[h] + Cardinality(Steps(R, K, h, i - 1))
<1> DEFINE c == CHOOSE j \in 1 .. i : R[j].kind = "hunk" /\ \A k \in j + 1 .. i : R[k].kind # "hunk"
<1>1. \E j \in 1 .. i : R[j].kind = "hunk" /\ \A k \in j + 1 .. i : R[k].kind # "hunk"
  BY DEF HunkAt
<1>2. HunkAt(R, i, c)
  BY <1>1 DEF HunkAt
<1>3. Text!LineOf(R, i, K, F) = F[c] + Cardinality(Steps(R, K, c, i - 1))
  BY DEF Text!LineOf, Steps, Text!Cardinality, Cardinality
<1> HIDE DEF c
<1>4. QED
  BY <1>2, <1>3, HunkIsOne

LEMMA StepsFinite ==
  ASSUME NEW R, NEW K, NEW h \in Nat, NEW n \in Nat
  PROVE  IsFiniteSet(Steps(R, K, h, n)) /\ Cardinality(Steps(R, K, h, n)) \in Nat
<1>1. IsFiniteSet(h + 1 .. n) /\ Steps(R, K, h, n) \subseteq h + 1 .. n
  BY FS_Interval DEF Steps
<1>2. QED
  BY <1>1, FS_Subset, FS_CardinalityType

LEMMA StepsGrow ==
  ASSUME NEW R, NEW K, NEW h \in Nat, NEW n \in Nat, h <= n
  PROVE  Cardinality(Steps(R, K, h, n + 1)) =
           IF R[n + 1].kind \in K THEN Cardinality(Steps(R, K, h, n)) + 1
           ELSE Cardinality(Steps(R, K, h, n))
<1>1. Steps(R, K, h, n + 1) =
        IF R[n + 1].kind \in K THEN Steps(R, K, h, n) \cup {n + 1} ELSE Steps(R, K, h, n)
  BY DEF Steps
<1>2. n + 1 \notin Steps(R, K, h, n)
  BY DEF Steps
<1>3. QED
  BY <1>1, <1>2, StepsFinite, FS_AddElement

LEMMA StepsStart ==
  ASSUME NEW R, NEW K, NEW h \in Nat PROVE Cardinality(Steps(R, K, h, h)) = 0
<1>1. Steps(R, K, h, h) = {}
  BY DEF Steps
<1>2. QED
  BY <1>1, FS_EmptySet

LEMMA FirstHunk ==
  ASSUME NEW R, NEW K, NEW own, own # "hunk", NEW F, NEW C, R[1].kind = "hunk",
         F[1] \in Nat, C[1] \in Nat
  PROVE  SideRead(R, K, own, F, C, 1, 1, F[1], C[1], {})
<1>1. HunkAt(R, 1, 1)
  BY DEF HunkAt
<1>2. Cardinality(Steps(R, K, 1, 1)) = 0
  BY StepsStart
<1>3. Lines(R, K, own, F, 1) = {}
  BY DEF Lines
<1>4. QED
  BY <1>1, <1>2, <1>3 DEF SideRead

\* A hunk may only follow one whose lines have all been read.
LEMMA HunkOpens ==
  ASSUME NEW R, NEW K, NEW own, own # "hunk", NEW F, NEW C, NEW n \in Nat, NEW h, NEW at, NEW lines,
         SideRead(R, K, own, F, C, n, h, at, 0, lines), R[n + 1].kind = "hunk",
         F[n + 1] \in Nat, C[n + 1] \in Nat, C[h] \in Nat
  PROVE  SideRead(R, K, own, F, C, n + 1, n + 1, F[n + 1], C[n + 1], lines)
<1>0. /\ HunkAt(R, n, h) /\ h \in 1 .. n
      /\ 0 = C[h] - Cardinality(Steps(R, K, h, n)) /\ lines = Lines(R, K, own, F, n)
      /\ \A i \in 1 .. n : \E g \in 1 .. i : HunkAt(R, i, g)
      /\ \A g \in 1 .. h - 1 : R[g].kind = "hunk" =>
           \E m \in g .. h - 1 : /\ HunkAt(R, m, g) /\ R[m + 1].kind = "hunk"
                                 /\ Cardinality(Steps(R, K, g, m)) = C[g]
  BY DEF SideRead, HunkAt
<1>1. HunkAt(R, n + 1, n + 1)
  BY DEF HunkAt
<1>2. Cardinality(Steps(R, K, n + 1, n + 1)) = 0
  BY StepsStart
<1>3. Lines(R, K, own, F, n + 1) = lines
  <2>1. {j \in 1 .. n + 1 : R[j].kind = own} = {j \in 1 .. n : R[j].kind = own}
    OBVIOUS
  <2>2. QED
    BY <1>0, <2>1 DEF Lines
<1>4. \A i \in 1 .. n + 1 : \E g \in 1 .. i : HunkAt(R, i, g)
  <2> TAKE i \in 1 .. n + 1
  <2>1. CASE i = n + 1
    BY <1>1, <2>1
  <2>2. CASE i \in 1 .. n
    BY <1>0, <2>2
  <2>3. QED
    BY <2>1, <2>2
<1>5. ASSUME NEW g \in 1 .. n, R[g].kind = "hunk"
      PROVE  \E m \in g .. n : /\ HunkAt(R, m, g) /\ R[m + 1].kind = "hunk"
                               /\ Cardinality(Steps(R, K, g, m)) = C[g]
  <2>1. CASE g < h
    <3>1. g \in 1 .. h - 1
      BY <1>0, <2>1
    <3>2. PICK m \in g .. h - 1 : /\ HunkAt(R, m, g) /\ R[m + 1].kind = "hunk"
                                  /\ Cardinality(Steps(R, K, g, m)) = C[g]
      BY <1>0, <1>5, <3>1
    <3>3. m \in g .. n
      BY <1>0
    <3>4. QED
      BY <3>2, <3>3
  <2>2. CASE g = h
    <3>1. Cardinality(Steps(R, K, h, n)) \in Nat
      BY <1>0, StepsFinite
    <3>2. Cardinality(Steps(R, K, h, n)) = C[h]
      BY <1>0, <3>1
    <3>3. QED
      BY <1>0, <2>2, <3>2
  <2>3. CASE g > h
    BY <1>0, <1>5, <2>3 DEF HunkAt
  <2>4. QED
    BY <1>0, <2>1, <2>2, <2>3
<1>6. n + 1 - 1 = n
  OBVIOUS
<1>7. QED
  BY <1>1, <1>2, <1>3, <1>4, <1>5, <1>6 DEF SideRead

\* Any other row belongs to the last hunk.
LEMMA RowRead ==
  ASSUME NEW R, NEW K, NEW own, own # "hunk", NEW F, NEW C, NEW n \in Nat, NEW h,
         NEW at, NEW left, NEW lines,
         SideRead(R, K, own, F, C, n, h, at, left, lines), R[n + 1].kind # "hunk",
         F[h] \in Nat, C[h] \in Nat
  PROVE  SideRead(R, K, own, F, C, n + 1, h,
                  IF R[n + 1].kind \in K THEN at + 1 ELSE at,
                  IF R[n + 1].kind \in K THEN left - 1 ELSE left,
                  IF R[n + 1].kind = own THEN lines \cup {at} ELSE lines)
<1>0. /\ HunkAt(R, n, h) /\ h \in 1 .. n
      /\ at = F[h] + Cardinality(Steps(R, K, h, n))
      /\ left = C[h] - Cardinality(Steps(R, K, h, n)) /\ lines = Lines(R, K, own, F, n)
      /\ \A i \in 1 .. n : \E g \in 1 .. i : HunkAt(R, i, g)
      /\ \A g \in 1 .. h - 1 : R[g].kind = "hunk" =>
           \E m \in g .. h - 1 : /\ HunkAt(R, m, g) /\ R[m + 1].kind = "hunk"
                                 /\ Cardinality(Steps(R, K, g, m)) = C[g]
  BY DEF SideRead, HunkAt
<1>1. HunkAt(R, n + 1, h)
  <2>1. \A k \in h + 1 .. n + 1 : k \in h + 1 .. n \/ k = n + 1
    BY <1>0
  <2>2. QED
    BY <1>0, <2>1 DEF HunkAt
<1>2. /\ Cardinality(Steps(R, K, h, n)) \in Nat
      /\ Cardinality(Steps(R, K, h, n + 1)) =
           IF R[n + 1].kind \in K THEN Cardinality(Steps(R, K, h, n)) + 1
           ELSE Cardinality(Steps(R, K, h, n))
  BY <1>0, StepsFinite, StepsGrow
<1>3. Lines(R, K, own, F, n + 1) = IF R[n + 1].kind = own THEN lines \cup {at} ELSE lines
  <2>1. Text!LineOf(R, n + 1, K, F) = at
    <3>1. n + 1 - 1 = n /\ n + 1 \in Nat
      OBVIOUS
    <3>2. QED
      BY <1>0, <1>1, <3>1, LineOfRow
  <2>2. {j \in 1 .. n + 1 : R[j].kind = own} =
          IF R[n + 1].kind = own THEN {j \in 1 .. n : R[j].kind = own} \cup {n + 1}
          ELSE {j \in 1 .. n : R[j].kind = own}
    OBVIOUS
  <2>3. QED
    BY <1>0, <2>1, <2>2 DEF Lines
<1>4. \A i \in 1 .. n + 1 : \E g \in 1 .. i : HunkAt(R, i, g)
  <2> TAKE i \in 1 .. n + 1
  <2>1. CASE i = n + 1
    BY <1>0, <1>1, <2>1
  <2>2. CASE i \in 1 .. n
    BY <1>0, <2>2
  <2>3. QED
    BY <2>1, <2>2
<1>5. /\ (IF R[n + 1].kind \in K THEN at + 1 ELSE at) = F[h] + Cardinality(Steps(R, K, h, n + 1))
      /\ (IF R[n + 1].kind \in K THEN left - 1 ELSE left) = C[h] - Cardinality(Steps(R, K, h, n + 1))
  BY <1>0, <1>2
<1>6. QED
  BY <1>0, <1>1, <1>3, <1>4, <1>5 DEF SideRead

-----------------------------------------------------------------------------
\* When all is read: every hunk is complete, and every changed row has a line
\* of its own if no hunk starts before the end of one above it.
Complete(R, K, C) ==
    \A g \in DOMAIN R : R[g].kind = "hunk" =>
        Cardinality({i \in {j \in DOMAIN R : j > g /\ \A k \in g + 1 .. j : R[k].kind # "hunk"} :
                       R[i].kind \in K}) = C[g]

LEMMA AllComplete ==
  ASSUME NEW R \in Seq(RowRecords), NEW K, "hunk" \notin K, NEW own, NEW F, NEW C, NEW h,
         NEW at, NEW lines, SideRead(R, K, own, F, C, Len(R), h, at, 0, lines), C[h] \in Nat
  PROVE  /\ Complete(R, K, C)
         /\ \A g \in DOMAIN R : R[g].kind = "hunk" =>
              \E m \in g .. Len(R) :
                 /\ HunkAt(R, m, g) /\ (m = Len(R) \/ R[m + 1].kind = "hunk")
                 /\ Cardinality(Steps(R, K, g, m)) = C[g]
<1> DEFINE N == Len(R)
<1>0. N \in Nat /\ DOMAIN R = 1 .. N
  OBVIOUS
<1>1. /\ HunkAt(R, N, h) /\ h \in 1 .. N
      /\ 0 = C[h] - Cardinality(Steps(R, K, h, N))
      /\ \A g \in 1 .. h - 1 : R[g].kind = "hunk" =>
           \E m \in g .. h - 1 : /\ HunkAt(R, m, g) /\ R[m + 1].kind = "hunk"
                                 /\ Cardinality(Steps(R, K, g, m)) = C[g]
  BY DEF SideRead, HunkAt
<1> HIDE DEF N
<1>2. ASSUME NEW g \in 1 .. N, R[g].kind = "hunk"
      PROVE  \E m \in g .. N : /\ HunkAt(R, m, g) /\ (m = N \/ R[m + 1].kind = "hunk")
                               /\ Cardinality(Steps(R, K, g, m)) = C[g]
  <2>1. CASE g < h
    <3>1. g \in 1 .. h - 1
      BY <1>0, <1>1, <2>1
    <3>2. PICK m \in g .. h - 1 : /\ HunkAt(R, m, g) /\ R[m + 1].kind = "hunk"
                                  /\ Cardinality(Steps(R, K, g, m)) = C[g]
      BY <1>1, <1>2, <3>1
    <3>3. m \in g .. N
      BY <1>0, <1>1
    <3>4. QED
      BY <3>2, <3>3
  <2>2. CASE g = h
    <3>1. Cardinality(Steps(R, K, h, N)) \in Nat
      BY <1>0, <1>1, StepsFinite
    <3>2. Cardinality(Steps(R, K, h, N)) = C[h] /\ N \in g .. N
      BY <1>0, <1>1, <2>2, <3>1
    <3>3. QED
      BY <1>1, <2>2, <3>2
  <2>3. CASE g > h
    BY <1>0, <1>1, <1>2, <2>3 DEF HunkAt
  <2>4. QED
    BY <1>0, <1>1, <2>1, <2>2, <2>3
<1>3. ASSUME NEW g \in 1 .. N, R[g].kind = "hunk"
      PROVE  Cardinality({i \in {j \in 1 .. N : j > g /\ \A k \in g + 1 .. j : R[k].kind # "hunk"} :
                            R[i].kind \in K}) = C[g]
  <2>1. PICK m \in g .. N : /\ HunkAt(R, m, g) /\ (m = N \/ R[m + 1].kind = "hunk")
                            /\ Cardinality(Steps(R, K, g, m)) = C[g]
    BY <1>2, <1>3
  <2>2. ASSUME NEW j \in 1 .. N
        PROVE  (j > g /\ \A k \in g + 1 .. j : R[k].kind # "hunk") <=> j \in g + 1 .. m
    <3>1. CASE j \in g + 1 .. m
      BY <1>0, <2>1, <3>1 DEF HunkAt
    <3>2. CASE j > m
      BY <1>0, <2>1, <3>2
    <3>3. CASE j <= g
      BY <1>0, <3>3
    <3>4. QED
      BY <1>0, <2>1, <3>1, <3>2, <3>3
  <2>3. {i \in {j \in 1 .. N : j > g /\ \A k \in g + 1 .. j : R[k].kind # "hunk"} :
           R[i].kind \in K} = Steps(R, K, g, m)
    BY <1>0, <2>2 DEF Steps
  <2>4. QED
    BY <2>1, <2>3
<1>4. QED
  BY <1>0, <1>2, <1>3 DEF Complete, N

LEMMA LinesAreOwn ==
  ASSUME NEW R \in Seq(RowRecords), NEW K, "hunk" \notin K, NEW own \in K, NEW F, NEW C, NEW h,
         NEW at, NEW lines, SideRead(R, K, own, F, C, Len(R), h, at, 0, lines),
         \A g \in DOMAIN R : R[g].kind = "hunk" => F[g] \in Nat /\ C[g] \in Nat,
         \A g, j \in DOMAIN R :
            R[g].kind = "hunk" /\ R[j].kind = "hunk" /\ g < j => F[g] + C[g] <= F[j]
  PROVE  Cardinality(lines) = Cardinality({i \in DOMAIN R : R[i].kind = own})
<1> DEFINE N == Len(R)
           X == {i \in 1 .. N : R[i].kind = own}
           p(i) == Text!LineOf(R, i, K, F)
<1>0. N \in Nat /\ DOMAIN R = 1 .. N
  OBVIOUS
<1>1. /\ lines = {p(i) : i \in X} /\ HunkAt(R, N, h) /\ C[h] \in Nat
      /\ \A i \in 1 .. N : \E g \in 1 .. i : HunkAt(R, i, g)
  BY <1>0 DEF SideRead, HunkAt, Lines
<1>2. \A g \in 1 .. N : R[g].kind = "hunk" =>
        \E m \in g .. N : /\ HunkAt(R, m, g) /\ (m = N \/ R[m + 1].kind = "hunk")
                          /\ Cardinality(Steps(R, K, g, m)) = C[g]
  <2>1. \A g \in DOMAIN R : R[g].kind = "hunk" =>
          \E m \in g .. Len(R) : /\ HunkAt(R, m, g) /\ (m = Len(R) \/ R[m + 1].kind = "hunk")
                                 /\ Cardinality(Steps(R, K, g, m)) = C[g]
    <3>1. C[h] \in Nat
      BY <1>1
    <3>2. QED
      BY <3>1, AllComplete
  <2>2. QED
    BY <1>0, <2>1
<1> HIDE DEF N
<1>3. ASSUME NEW i \in X, NEW g, HunkAt(R, i, g)
      PROVE  p(i) \in Nat /\ F[g] <= p(i) /\ p(i) < F[g] + C[g]
  <2>1. g \in 1 .. N /\ g <= i /\ i \in 1 .. N /\ R[g].kind = "hunk" /\ R[i].kind = own /\ g # i
    BY <1>0, <1>3 DEF HunkAt
  <2>2. PICK m \in g .. N : /\ HunkAt(R, m, g) /\ (m = N \/ R[m + 1].kind = "hunk")
                            /\ Cardinality(Steps(R, K, g, m)) = C[g]
    BY <1>2, <2>1
  <2>3. i <= m
    BY <1>0, <1>3, <2>1, <2>2 DEF HunkAt
  <2>4. /\ Steps(R, K, g, i - 1) \subseteq Steps(R, K, g, m)
        /\ i \in Steps(R, K, g, m) /\ i \notin Steps(R, K, g, i - 1)
    BY <1>0, <2>1, <2>2, <2>3 DEF Steps
  <2>5. /\ IsFiniteSet(Steps(R, K, g, m)) /\ Cardinality(Steps(R, K, g, m)) \in Nat
        /\ Cardinality(Steps(R, K, g, i - 1)) \in Nat
    BY <1>0, <2>1, <2>2, StepsFinite
  <2>6. Cardinality(Steps(R, K, g, i - 1)) < Cardinality(Steps(R, K, g, m))
    <3>1. /\ Cardinality(Steps(R, K, g, i - 1)) <= Cardinality(Steps(R, K, g, m))
          /\ Cardinality(Steps(R, K, g, i - 1)) = Cardinality(Steps(R, K, g, m)) =>
               Steps(R, K, g, i - 1) = Steps(R, K, g, m)
      BY <2>4, <2>5, FS_Subset
    <3>2. QED
      BY <2>4, <2>5, <3>1
  <2>7. p(i) = F[g] + Cardinality(Steps(R, K, g, i - 1))
    BY <1>0, <1>3, <2>1, LineOfRow
  <2>8. QED
    BY <1>0, <2>1, <2>2, <2>5, <2>6, <2>7
<1>4. ASSUME NEW i \in X, NEW j \in X, i < j PROVE p(i) < p(j)
  <2>1. i \in 1 .. N /\ j \in 1 .. N /\ R[i].kind = own
    OBVIOUS
  <2>2. PICK g \in 1 .. i : HunkAt(R, i, g)
    BY <1>1, <2>1
  <2>3. PICK f \in 1 .. j : HunkAt(R, j, f)
    BY <1>1, <2>1
  <2>4. /\ g \in 1 .. N /\ f \in 1 .. N /\ R[g].kind = "hunk" /\ R[f].kind = "hunk" /\ g # i
        /\ F[g] \in Nat /\ C[g] \in Nat /\ F[f] \in Nat
    BY <1>0, <2>1, <2>2, <2>3 DEF HunkAt
  <2>5. g <= f
    BY <1>0, <1>4, <2>1, <2>2, <2>3, <2>4 DEF HunkAt
  <2>6. CASE g = f
    <3>1. /\ Steps(R, K, g, i - 1) \subseteq Steps(R, K, g, j - 1)
          /\ i \in Steps(R, K, g, j - 1) /\ i \notin Steps(R, K, g, i - 1)
      BY <1>0, <1>4, <2>1, <2>2, <2>4 DEF Steps
    <3>2. /\ IsFiniteSet(Steps(R, K, g, j - 1)) /\ Cardinality(Steps(R, K, g, j - 1)) \in Nat
          /\ Cardinality(Steps(R, K, g, i - 1)) \in Nat
      BY <1>0, <2>1, <2>4, StepsFinite
    <3>3. Cardinality(Steps(R, K, g, i - 1)) < Cardinality(Steps(R, K, g, j - 1))
      <4>1. /\ Cardinality(Steps(R, K, g, i - 1)) <= Cardinality(Steps(R, K, g, j - 1))
            /\ Cardinality(Steps(R, K, g, i - 1)) = Cardinality(Steps(R, K, g, j - 1)) =>
                 Steps(R, K, g, i - 1) = Steps(R, K, g, j - 1)
        BY <3>1, <3>2, FS_Subset
      <4>2. QED
        BY <3>1, <3>2, <4>1
    <3>4. /\ p(i) = F[g] + Cardinality(Steps(R, K, g, i - 1))
          /\ p(j) = F[g] + Cardinality(Steps(R, K, g, j - 1))
      BY <1>0, <2>1, <2>2, <2>3, <2>6, LineOfRow
    <3>5. QED
      BY <2>4, <3>2, <3>3, <3>4
  <2>7. CASE g < f
    <3>1. F[g] + C[g] <= F[f]
      BY <1>0, <2>4, <2>7
    <3>2. p(i) \in Nat /\ p(i) < F[g] + C[g]
      BY <2>2, <1>3
    <3>3. p(j) \in Nat /\ F[f] <= p(j)
      BY <2>3, <1>3
    <3> HIDE DEF p
    <3>4. QED
      BY <2>4, <3>1, <3>2, <3>3
  <2>8. QED
    BY <2>4, <2>5, <2>6, <2>7
<1>5. \A i \in X : p(i) \in Nat
  BY <1>1, <1>3
<1>6. ASSUME NEW i \in X, NEW j \in X, p(i) = p(j) PROVE i = j
  <2>1. i \in 1 .. N /\ j \in 1 .. N /\ p(i) \in Nat /\ p(j) \in Nat
    BY <1>5
  <2> HIDE DEF p, X
  <2>2. ~(i < j) /\ ~(j < i)
    BY <1>4, <1>6, <2>1
  <2>3. QED
    BY <1>0, <2>1, <2>2
<1>7. IsFiniteSet(X)
  <2>1. IsFiniteSet(1 .. N) /\ X \subseteq 1 .. N
    BY <1>0, FS_Interval
  <2>2. QED
    BY <2>1, FS_Subset
<1>8. ExistsBijection(X, lines)
  <2> HIDE DEF X, p
  <2> DEFINE b == [i \in X |-> p(i)]
  <2>1. b \in Bijection(X, lines)
    <3>1. lines = {p(i) : i \in X}
      BY <1>1
    <3>2. b \in [X -> lines] /\ DOMAIN b = X
      BY <3>1
    <3>3. \A i, j \in X : b[i] = b[j] => i = j
      BY <1>6
    <3>4. \A l \in lines : \E i \in X : b[i] = l
      BY <3>1
    <3> HIDE DEF b
    <3>5. QED
      BY <3>2, <3>3, <3>4 DEF Bijection, Injection, Surjection, IsInjective
  <2>2. QED
    BY <2>1 DEF ExistsBijection
<1>9. QED
  BY <1>0, <1>7, <1>8, FS_Bijection

-----------------------------------------------------------------------------
\* changedLines, row by row.
NewKinds == {"add", "same"}
OldKinds == {"del", "same"}

Starts(R, side) == [i \in {j \in DOMAIN R : R[j].kind = "hunk"} |-> R[i][side]]

NewSide(R, n, h, at, left, lines) ==
    SideRead(R, NewKinds, "add", Starts(R, "new"), Starts(R, "newCount"), n, h, at, left, lines)
OldSide(R, n, h, at, left, lines) ==
    SideRead(R, OldKinds, "del", Starts(R, "old"), Starts(R, "oldCount"), n, h, at, left, lines)

ReadStates ==
    [old : Int, new : Int, oldLeft : Int, newLeft : Int, hunk : BOOLEAN,
     added : SUBSET Int, deleted : SUBSET Int, broken : BOOLEAN]

HasRead(R, n, s) ==
    \/ n = 0 /\ s = Text!Start
    \/ s.broken
    \/ /\ n > 0 /\ s \in ReadStates /\ s.hunk /\ ~s.broken
       /\ \E h \in 1 .. n : /\ NewSide(R, n, h, s.new, s.newLeft, s.added)
                            /\ OldSide(R, n, h, s.old, s.oldLeft, s.deleted)

LEMMA StartsTypes ==
  ASSUME NEW R \in Seq(RowRecords), NEW h \in DOMAIN R, R[h].kind = "hunk"
  PROVE  /\ Starts(R, "new")[h] = R[h].new /\ R[h].new \in Nat
         /\ Starts(R, "newCount")[h] = R[h].newCount /\ R[h].newCount \in Nat
         /\ Starts(R, "old")[h] = R[h].old /\ R[h].old \in Nat
         /\ Starts(R, "oldCount")[h] = R[h].oldCount /\ R[h].oldCount \in Nat
<1>1. R[h] \in [kind : {"hunk"}, old : Nat, oldCount : Nat, new : Nat, newCount : Nat]
  <2>1. R[h] \in RowRecords
    OBVIOUS
  <2>2. QED
    BY <2>1 DEF RowRecords
<1>2. QED
  BY <1>1 DEF Starts

LEMMA RowIsRead ==
  ASSUME NEW R \in Seq(RowRecords), NEW n \in Nat, n + 1 <= Len(R), NEW s, HasRead(R, n, s)
  PROVE  HasRead(R, n + 1, Text!ReadRow(s, R[n + 1]))
<1> DEFINE row == R[n + 1]
           t == Text!ReadRow(s, row)
<1>0. n + 1 \in DOMAIN R /\ row \in RowRecords /\ row.kind \in {"hunk", "add", "del", "same", "mark"}
  <2>1. row \in RowRecords
    OBVIOUS
  <2>2. QED
    BY <2>1 DEF RowRecords
<1>1. CASE s.broken
  <2>1. t = s
    BY <1>1 DEF Text!ReadRow
  <2>2. QED
    BY <1>1, <2>1 DEF HasRead
<1>2. CASE n = 0 /\ s = Text!Start
  <2>1. CASE row.kind # "hunk"
    <3>1. t.broken
      BY <1>2, <2>1 DEF Text!ReadRow, Text!Start
    <3>2. QED
      BY <3>1 DEF HasRead
  <2>2. CASE row.kind = "hunk"
    <3>1. t = [old |-> row.old, new |-> row.new, oldLeft |-> row.oldCount,
               newLeft |-> row.newCount, hunk |-> TRUE, added |-> {}, deleted |-> {},
               broken |-> FALSE]
      BY <1>2, <2>2 DEF Text!ReadRow, Text!Start, Text!HunkFinished
    <3>2. /\ Starts(R, "new")[1] = row.new /\ row.new \in Nat
          /\ Starts(R, "newCount")[1] = row.newCount /\ row.newCount \in Nat
          /\ Starts(R, "old")[1] = row.old /\ row.old \in Nat
          /\ Starts(R, "oldCount")[1] = row.oldCount /\ row.oldCount \in Nat
      BY <1>0, <1>2, <2>2, StartsTypes
    <3>3. NewSide(R, 1, 1, row.new, row.newCount, {}) /\ OldSide(R, 1, 1, row.old, row.oldCount, {})
      <4>1. R[1].kind = "hunk" /\ "add" # "hunk" /\ "del" # "hunk"
        BY <1>2, <2>2
      <4>2. SideRead(R, NewKinds, "add", Starts(R, "new"), Starts(R, "newCount"), 1, 1,
                     Starts(R, "new")[1], Starts(R, "newCount")[1], {})
        BY <3>2, <4>1, FirstHunk
      <4>3. SideRead(R, OldKinds, "del", Starts(R, "old"), Starts(R, "oldCount"), 1, 1,
                     Starts(R, "old")[1], Starts(R, "oldCount")[1], {})
        BY <3>2, <4>1, FirstHunk
      <4>4. QED
        BY <3>2, <4>2, <4>3 DEF NewSide, OldSide
    <3>4. t \in ReadStates /\ t.hunk /\ ~t.broken
      BY <3>1, <3>2 DEF ReadStates
    <3>5. NewSide(R, 1, 1, t.new, t.newLeft, t.added) /\ OldSide(R, 1, 1, t.old, t.oldLeft, t.deleted)
      BY <3>1, <3>3
    <3>6. QED
      BY <1>2, <3>4, <3>5 DEF HasRead
  <2>3. QED
    BY <2>1, <2>2
<1>3. CASE /\ n > 0 /\ s \in ReadStates /\ s.hunk /\ ~s.broken
           /\ \E h \in 1 .. n : /\ NewSide(R, n, h, s.new, s.newLeft, s.added)
                                /\ OldSide(R, n, h, s.old, s.oldLeft, s.deleted)
  <2>1. PICK h \in 1 .. n : /\ NewSide(R, n, h, s.new, s.newLeft, s.added)
                            /\ OldSide(R, n, h, s.old, s.oldLeft, s.deleted)
    BY <1>3
  <2>2. h \in DOMAIN R /\ R[h].kind = "hunk"
    BY <2>1 DEF NewSide, SideRead, HunkAt
  <2>3. /\ Starts(R, "new")[h] \in Nat /\ Starts(R, "newCount")[h] \in Nat
        /\ Starts(R, "old")[h] \in Nat /\ Starts(R, "oldCount")[h] \in Nat
    BY <2>2, StartsTypes
  <2>4. CASE row.kind = "hunk" /\ ~Text!HunkFinished(s)
    <3>1. t.broken
      BY <1>3, <2>4 DEF Text!ReadRow, ReadStates
    <3>2. QED
      BY <3>1 DEF HasRead
  <2>5. CASE row.kind = "hunk" /\ Text!HunkFinished(s)
    <3>1. t = [old |-> row.old, new |-> row.new, oldLeft |-> row.oldCount,
               newLeft |-> row.newCount, hunk |-> TRUE, added |-> s.added,
               deleted |-> s.deleted, broken |-> FALSE]
      BY <1>3, <2>5 DEF Text!ReadRow, ReadStates
    <3>2. s.newLeft = 0 /\ s.oldLeft = 0
      BY <1>3, <2>5 DEF Text!HunkFinished
    <3>3. /\ Starts(R, "new")[n + 1] = row.new /\ row.new \in Nat
          /\ Starts(R, "newCount")[n + 1] = row.newCount /\ row.newCount \in Nat
          /\ Starts(R, "old")[n + 1] = row.old /\ row.old \in Nat
          /\ Starts(R, "oldCount")[n + 1] = row.oldCount /\ row.oldCount \in Nat
      BY <1>0, <2>5, StartsTypes
    <3>4. NewSide(R, n, h, s.new, 0, s.added) /\ OldSide(R, n, h, s.old, 0, s.deleted)
      BY <2>1, <3>2
    <3> HIDE DEF t
    <3>5. NewSide(R, n + 1, n + 1, row.new, row.newCount, s.added)
      <4>1. /\ Starts(R, "new")[n + 1] \in Nat /\ Starts(R, "newCount")[n + 1] \in Nat
            /\ R[n + 1].kind = "hunk" /\ "add" # "hunk"
        BY <2>5, <3>3
      <4>2. SideRead(R, NewKinds, "add", Starts(R, "new"), Starts(R, "newCount"), n, h,
                     s.new, 0, s.added)
        BY <3>4 DEF NewSide
      <4>3. SideRead(R, NewKinds, "add", Starts(R, "new"), Starts(R, "newCount"), n + 1, n + 1,
                     Starts(R, "new")[n + 1], Starts(R, "newCount")[n + 1], s.added)
        BY <2>3, <4>1, <4>2, HunkOpens
      <4>4. QED
        BY <3>3, <4>3 DEF NewSide
    <3>6. OldSide(R, n + 1, n + 1, row.old, row.oldCount, s.deleted)
      <4>1. /\ Starts(R, "old")[n + 1] \in Nat /\ Starts(R, "oldCount")[n + 1] \in Nat
            /\ R[n + 1].kind = "hunk" /\ "del" # "hunk"
        BY <2>5, <3>3
      <4>2. SideRead(R, OldKinds, "del", Starts(R, "old"), Starts(R, "oldCount"), n, h,
                     s.old, 0, s.deleted)
        BY <3>4 DEF OldSide
      <4>3. SideRead(R, OldKinds, "del", Starts(R, "old"), Starts(R, "oldCount"), n + 1, n + 1,
                     Starts(R, "old")[n + 1], Starts(R, "oldCount")[n + 1], s.deleted)
        BY <2>3, <4>1, <4>2, HunkOpens
      <4>4. QED
        BY <3>3, <4>3 DEF OldSide
    <3>7. t \in ReadStates /\ t.hunk /\ ~t.broken
      BY <1>3, <3>1, <3>3 DEF ReadStates
    <3>8. /\ NewSide(R, n + 1, n + 1, t.new, t.newLeft, t.added)
          /\ OldSide(R, n + 1, n + 1, t.old, t.oldLeft, t.deleted)
      BY <3>1, <3>5, <3>6
    <3>9. n + 1 \in 1 .. n + 1 /\ n + 1 > 0
      OBVIOUS
    <3>10. QED
      BY <3>7, <3>8, <3>9 DEF HasRead, t
  <2>6. CASE row.kind # "hunk"
    <3> DEFINE onNew == row.kind \in NewKinds
               onOld == row.kind \in OldKinds
    <3>1. t = [old |-> IF onOld THEN s.old + 1 ELSE s.old,
               new |-> IF onNew THEN s.new + 1 ELSE s.new,
               oldLeft |-> IF onOld THEN s.oldLeft - 1 ELSE s.oldLeft,
               newLeft |-> IF onNew THEN s.newLeft - 1 ELSE s.newLeft, hunk |-> TRUE,
               added |-> IF row.kind = "add" THEN s.added \cup {s.new} ELSE s.added,
               deleted |-> IF row.kind = "del" THEN s.deleted \cup {s.old} ELSE s.deleted,
               broken |-> FALSE]
      <4>1. CASE row.kind = "add"
        BY <1>3, <2>6, <4>1 DEF Text!ReadRow, Text!NewStep, ReadStates, NewKinds, OldKinds
      <4>2. CASE row.kind = "del"
        BY <1>3, <2>6, <4>2 DEF Text!ReadRow, Text!OldStep, ReadStates, NewKinds, OldKinds
      <4>3. CASE row.kind = "same"
        BY <1>3, <2>6, <4>3 DEF Text!ReadRow, Text!NewStep, Text!OldStep, ReadStates, NewKinds, OldKinds
      <4>4. CASE row.kind = "mark"
        BY <1>3, <2>6, <4>4 DEF Text!ReadRow, ReadStates, NewKinds, OldKinds
      <4>5. QED
        BY <1>0, <2>6, <4>1, <4>2, <4>3, <4>4
    <3> HIDE DEF t
    <3>2. NewSide(R, n + 1, h, t.new, t.newLeft, t.added)
      <4>1. SideRead(R, NewKinds, "add", Starts(R, "new"), Starts(R, "newCount"), n, h,
                     s.new, s.newLeft, s.added)
        BY <2>1 DEF NewSide
      <4>2. SideRead(R, NewKinds, "add", Starts(R, "new"), Starts(R, "newCount"), n + 1, h,
                     IF onNew THEN s.new + 1 ELSE s.new,
                     IF onNew THEN s.newLeft - 1 ELSE s.newLeft,
                     IF row.kind = "add" THEN s.added \cup {s.new} ELSE s.added)
        BY <2>3, <2>6, <4>1, RowRead
      <4>3. QED
        BY <3>1, <4>2 DEF NewSide
    <3>3. OldSide(R, n + 1, h, t.old, t.oldLeft, t.deleted)
      <4>1. SideRead(R, OldKinds, "del", Starts(R, "old"), Starts(R, "oldCount"), n, h,
                     s.old, s.oldLeft, s.deleted)
        BY <2>1 DEF OldSide
      <4>2. SideRead(R, OldKinds, "del", Starts(R, "old"), Starts(R, "oldCount"), n + 1, h,
                     IF onOld THEN s.old + 1 ELSE s.old,
                     IF onOld THEN s.oldLeft - 1 ELSE s.oldLeft,
                     IF row.kind = "del" THEN s.deleted \cup {s.old} ELSE s.deleted)
        BY <2>3, <2>6, <4>1, RowRead
      <4>3. QED
        BY <3>1, <4>2 DEF OldSide
    <3>4. t \in ReadStates /\ t.hunk /\ ~t.broken
      BY <1>3, <3>1 DEF ReadStates
    <3>5. h \in 1 .. n + 1 /\ n + 1 > 0
      OBVIOUS
    <3>6. QED
      BY <3>2, <3>3, <3>4, <3>5 DEF HasRead, t
  <2>7. QED
    BY <2>4, <2>5, <2>6
<1>4. QED
  BY <1>1, <1>2, <1>3 DEF HasRead

ReadBy(R, N, f) ==
    f = [n \in 0 .. N |-> IF n = 0 THEN Text!Start ELSE Text!ReadRow(f[n - 1], R[n])]

LEMMA ReadingExists ==
  ASSUME NEW R PROVE \A N \in Nat : \E f : ReadBy(R, N, f)
<1> DEFINE T == {N \in Nat : \E f : ReadBy(R, N, f)}
<1>1. 0 \in T
  <2> DEFINE f == [n \in 0 .. 0 |-> Text!Start]
  <2>1. ReadBy(R, 0, f)
    BY DEF ReadBy
  <2>2. QED
    BY <2>1
<1>2. ASSUME NEW N \in Nat, N \in T PROVE N + 1 \in T
  <2>1. PICK f : ReadBy(R, N, f)
    BY <1>2
  <2> DEFINE g == [n \in 0 .. N + 1 |->
                     IF n = N + 1 THEN Text!ReadRow(f[N], R[n]) ELSE f[n]]
             h == [n \in 0 .. N + 1 |->
                     IF n = 0 THEN Text!Start ELSE Text!ReadRow(g[n - 1], R[n])]
  <2>2. ASSUME NEW n \in 0 .. N + 1 PROVE g[n] = h[n]
    <3>1. CASE n = N + 1
      BY <3>1
    <3>2. CASE n # N + 1
      <4>1. n \in 0 .. N /\ g[n] = f[n] /\ (n # 0 => g[n - 1] = f[n - 1])
        BY <3>2
      <4>2. QED
        BY <2>1, <4>1 DEF ReadBy
    <3>3. QED
      BY <3>1, <3>2
  <2>3. g = h
    BY <2>2
  <2>4. ReadBy(R, N + 1, g)
    BY <2>3 DEF ReadBy
  <2>5. QED
    BY <2>4
<1> HIDE DEF T
<1>3. \A N \in Nat : N \in T
  BY <1>1, <1>2, Induction
<1>4. QED
  BY <1>3 DEF T

LEMMA AllIsRead ==
  ASSUME NEW R \in Seq(RowRecords), NEW f, ReadBy(R, Len(R), f)
  PROVE  HasRead(R, Len(R), f[Len(R)])
<1> DEFINE N == Len(R)
           T == {n \in Nat : n <= N => HasRead(R, n, f[n])}
<1>0. N \in Nat
  OBVIOUS
<1>1. 0 \in T
  <2>1. f[0] = Text!Start
    BY <1>0 DEF ReadBy
  <2>2. QED
    BY <2>1 DEF HasRead
<1>2. ASSUME NEW n \in Nat, n \in T PROVE n + 1 \in T
  <2>1. SUFFICES ASSUME n + 1 <= N PROVE HasRead(R, n + 1, f[n + 1])
    OBVIOUS
  <2>2. HasRead(R, n, f[n])
    BY <1>0, <1>2, <2>1
  <2>3. f[n + 1] = Text!ReadRow(f[n], R[n + 1])
    BY <1>0, <2>1 DEF ReadBy
  <2>4. QED
    BY <2>1, <2>2, <2>3, RowIsRead
<1>3. N \in T
  <2> HIDE DEF T
  <2>1. QED
    BY <1>0, <1>1, <1>2, Induction
<1>4. QED
  BY <1>0, <1>3

-----------------------------------------------------------------------------
\* No hunk starts before the end of one above it, in either file.
Apart(R) ==
    \A g, j \in DOMAIN R : R[g].kind = "hunk" /\ R[j].kind = "hunk" /\ g < j =>
        /\ R[g].new + R[g].newCount <= R[j].new
        /\ R[g].old + R[g].oldCount <= R[j].old

PatchRecords ==
    [rows : Seq(RowRecords), renamed : BOOLEAN, counted : BOOLEAN, additions : Nat, deletions : Nat]

PatchInv == patch \in PatchRecords /\ Apart(patch.rows) /\ truth \in Scripts

LEMMA TextCardinality == ASSUME NEW S PROVE Text!Cardinality(S) = Cardinality(S)
BY DEF Text!Cardinality, Cardinality

LEMMA OnlyChangesOffered == ASSUME PatchInv PROVE Text!OffersOnlyChanges
<1> DEFINE R == patch.rows
           N == Len(R)
           f == CHOOSE f : ReadBy(R, N, f)
           s == f[N]
<1>0. R \in Seq(RowRecords) /\ N \in Nat /\ DOMAIN R = 1 .. N
  BY DEF PatchInv, PatchRecords
<1>1. Text!ChangedLines(patch) =
        IF /\ ~patch.renamed /\ patch.counted /\ R # <<>>
           /\ ~s.broken /\ s.hunk /\ Text!HunkFinished(s)
           /\ Cardinality(s.added) = patch.additions
           /\ Cardinality(s.deleted) = patch.deletions
        THEN [added |-> s.added, deleted |-> s.deleted, trusted |-> TRUE]
        ELSE Text!NoLines
  BY TextCardinality DEF Text!ChangedLines, ReadBy
<1>2. HasRead(R, N, s)
  <2>1. ReadBy(R, N, f)
    BY <1>0, ReadingExists
  <2> HIDE DEF f
  <2>2. QED
    BY <1>0, <2>1, AllIsRead
<1> HIDE DEF s, f
<1> DEFINE Rows(kind) == {i \in DOMAIN R : R[i].kind = kind}
           Rest(h) == {i \in DOMAIN R : i > h /\ \A k \in h + 1 .. i : R[k].kind # "hunk"}
           Exact(lines) ==
             /\ lines.added = {Text!LineOf(R, i, {"add", "same"}, Text!NewStarts) : i \in Rows("add")}
             /\ lines.deleted = {Text!LineOf(R, i, {"del", "same"}, Text!OldStarts) : i \in Rows("del")}
             /\ Text!Cardinality(Rows("add")) = patch.additions
             /\ Text!Cardinality(Rows("del")) = patch.deletions
             /\ \A h \in DOMAIN Text!NewStarts :
                  /\ Text!Cardinality({i \in Rest(h) : R[i].kind \in {"add", "same"}}) = R[h].newCount
                  /\ Text!Cardinality({i \in Rest(h) : R[i].kind \in {"del", "same"}}) = R[h].oldCount
<1>2a. (Text!ChangedLines(patch).trusted => Exact(Text!ChangedLines(patch))) => Text!OffersOnlyChanges
  BY DEF Text!OffersOnlyChanges
<1> HIDE DEF Exact
<1>3. SUFFICES ASSUME /\ ~patch.renamed /\ patch.counted /\ R # <<>>
                      /\ ~s.broken /\ s.hunk /\ Text!HunkFinished(s)
                      /\ Cardinality(s.added) = patch.additions
                      /\ Cardinality(s.deleted) = patch.deletions
               PROVE  Text!OffersOnlyChanges
  <2>1. CASE /\ ~patch.renamed /\ patch.counted /\ R # <<>>
             /\ ~s.broken /\ s.hunk /\ Text!HunkFinished(s)
             /\ Cardinality(s.added) = patch.additions
             /\ Cardinality(s.deleted) = patch.deletions
    BY <2>1
  <2>2. CASE ~(/\ ~patch.renamed /\ patch.counted /\ R # <<>>
               /\ ~s.broken /\ s.hunk /\ Text!HunkFinished(s)
               /\ Cardinality(s.added) = patch.additions
               /\ Cardinality(s.deleted) = patch.deletions)
    <3>1. Text!ChangedLines(patch) = Text!NoLines
      BY <1>1, <2>2
    <3>2. ~Text!ChangedLines(patch).trusted
      BY <3>1 DEF Text!NoLines
    <3>3. QED
      BY <1>2a, <3>2
  <2>3. QED
    BY <2>1, <2>2
<1>4. PICK h \in 1 .. N : NewSide(R, N, h, s.new, 0, s.added) /\ OldSide(R, N, h, s.old, 0, s.deleted)
  BY <1>2, <1>3 DEF HasRead, Text!Start, Text!HunkFinished
<1>5. /\ Text!NewStarts = Starts(R, "new") /\ Text!OldStarts = Starts(R, "old")
      /\ DOMAIN Text!NewStarts = {j \in DOMAIN R : R[j].kind = "hunk"}
  BY DEF Text!NewStarts, Text!OldStarts, Starts
<1>6. /\ \A g \in DOMAIN R : R[g].kind = "hunk" =>
           /\ Starts(R, "new")[g] \in Nat /\ Starts(R, "newCount")[g] \in Nat
           /\ Starts(R, "old")[g] \in Nat /\ Starts(R, "oldCount")[g] \in Nat
           /\ Starts(R, "newCount")[g] = R[g].newCount /\ Starts(R, "oldCount")[g] = R[g].oldCount
      /\ \A g, j \in DOMAIN R : R[g].kind = "hunk" /\ R[j].kind = "hunk" /\ g < j =>
           /\ Starts(R, "new")[g] + Starts(R, "newCount")[g] <= Starts(R, "new")[j]
           /\ Starts(R, "old")[g] + Starts(R, "oldCount")[g] <= Starts(R, "old")[j]
  <2>1. \A g \in DOMAIN R : R[g].kind = "hunk" =>
          /\ Starts(R, "new")[g] = R[g].new /\ Starts(R, "old")[g] = R[g].old
          /\ Starts(R, "newCount")[g] = R[g].newCount /\ Starts(R, "oldCount")[g] = R[g].oldCount
          /\ R[g].new \in Nat /\ R[g].newCount \in Nat /\ R[g].old \in Nat /\ R[g].oldCount \in Nat
    BY <1>0, StartsTypes
  <2>2. Apart(R)
    BY DEF PatchInv
  <2> HIDE DEF R
  <2>3. QED
    BY <2>1, <2>2 DEF Apart
<1>7. h \in DOMAIN R /\ R[h].kind = "hunk"
  BY <1>0, <1>4 DEF NewSide, SideRead, HunkAt
<1>8. /\ s.added = Lines(R, NewKinds, "add", Starts(R, "new"), N)
      /\ s.deleted = Lines(R, OldKinds, "del", Starts(R, "old"), N)
  BY <1>4 DEF NewSide, OldSide, SideRead
<1>9. /\ Complete(R, NewKinds, Starts(R, "newCount")) /\ Complete(R, OldKinds, Starts(R, "oldCount"))
      /\ Cardinality(s.added) = Cardinality({i \in DOMAIN R : R[i].kind = "add"})
      /\ Cardinality(s.deleted) = Cardinality({i \in DOMAIN R : R[i].kind = "del"})
  <2> HIDE DEF R
  <2>1. /\ "hunk" \notin NewKinds /\ "hunk" \notin OldKinds
        /\ "add" \in NewKinds /\ "del" \in OldKinds
    BY DEF NewKinds, OldKinds
  <2>2. /\ SideRead(R, NewKinds, "add", Starts(R, "new"), Starts(R, "newCount"), Len(R), h, s.new, 0, s.added)
        /\ SideRead(R, OldKinds, "del", Starts(R, "old"), Starts(R, "oldCount"), Len(R), h, s.old, 0, s.deleted)
    BY <1>4 DEF NewSide, OldSide
  <2>3. Complete(R, NewKinds, Starts(R, "newCount"))
    BY <1>0, <1>6, <1>7, <2>1, <2>2, AllComplete
  <2>4. Complete(R, OldKinds, Starts(R, "oldCount"))
    BY <1>0, <1>6, <1>7, <2>1, <2>2, AllComplete
  <2>5. Cardinality(s.added) = Cardinality({i \in DOMAIN R : R[i].kind = "add"})
    <3>1. \A g \in DOMAIN R : R[g].kind = "hunk" =>
            Starts(R, "new")[g] \in Nat /\ Starts(R, "newCount")[g] \in Nat
      BY <1>6
    <3>2. \A g, j \in DOMAIN R : R[g].kind = "hunk" /\ R[j].kind = "hunk" /\ g < j =>
            Starts(R, "new")[g] + Starts(R, "newCount")[g] <= Starts(R, "new")[j]
      BY <1>6
    <3>3. "hunk" \notin NewKinds /\ "add" \in NewKinds /\ R \in Seq(RowRecords)
      BY <1>0, <2>1
    <3>4. SideRead(R, NewKinds, "add", Starts(R, "new"), Starts(R, "newCount"), Len(R), h, s.new, 0, s.added)
      BY <2>2
    <3>5. QED
      BY <3>1, <3>2, <3>3, <3>4, LinesAreOwn
  <2>6. Cardinality(s.deleted) = Cardinality({i \in DOMAIN R : R[i].kind = "del"})
    <3>1. \A g \in DOMAIN R : R[g].kind = "hunk" =>
            Starts(R, "old")[g] \in Nat /\ Starts(R, "oldCount")[g] \in Nat
      BY <1>6
    <3>2. \A g, j \in DOMAIN R : R[g].kind = "hunk" /\ R[j].kind = "hunk" /\ g < j =>
            Starts(R, "old")[g] + Starts(R, "oldCount")[g] <= Starts(R, "old")[j]
      BY <1>6
    <3>3. "hunk" \notin OldKinds /\ "del" \in OldKinds /\ R \in Seq(RowRecords)
      BY <1>0, <2>1
    <3>4. SideRead(R, OldKinds, "del", Starts(R, "old"), Starts(R, "oldCount"), Len(R), h, s.old, 0, s.deleted)
      BY <2>2
    <3>5. QED
      BY <3>1, <3>2, <3>3, <3>4, LinesAreOwn
  <2>7. QED
    BY <2>3, <2>4, <2>5, <2>6
<1>10. /\ s.added = {Text!LineOf(R, i, {"add", "same"}, Text!NewStarts) :
                       i \in {j \in DOMAIN R : R[j].kind = "add"}}
       /\ s.deleted = {Text!LineOf(R, i, {"del", "same"}, Text!OldStarts) :
                       i \in {j \in DOMAIN R : R[j].kind = "del"}}
  <2> HIDE DEF R
  <2>1. QED
    BY <1>0, <1>5, <1>8 DEF Lines, NewKinds, OldKinds
<1>11. ASSUME NEW g \in DOMAIN Text!NewStarts
       PROVE  /\ Cardinality({i \in Rest(g) : R[i].kind \in {"add", "same"}}) = R[g].newCount
              /\ Cardinality({i \in Rest(g) : R[i].kind \in {"del", "same"}}) = R[g].oldCount
  <2> HIDE DEF R
  <2>1. g \in DOMAIN R /\ R[g].kind = "hunk"
    BY <1>5, <1>11
  <2>2. QED
    BY <1>6, <1>9, <2>1 DEF Complete, NewKinds, OldKinds
<1>12. Text!ChangedLines(patch) = [added |-> s.added, deleted |-> s.deleted, trusted |-> TRUE]
  BY <1>1, <1>3
<1>13. Exact(Text!ChangedLines(patch))
  <2>1. /\ Text!Cardinality(Rows("add")) = patch.additions
        /\ Text!Cardinality(Rows("del")) = patch.deletions
    BY <1>3, <1>9, TextCardinality
  <2>2. \A g \in DOMAIN Text!NewStarts :
          /\ Text!Cardinality({i \in Rest(g) : R[i].kind \in {"add", "same"}}) = R[g].newCount
          /\ Text!Cardinality({i \in Rest(g) : R[i].kind \in {"del", "same"}}) = R[g].oldCount
    <3> HIDE DEF R, Rest
    <3>1. QED
      BY <1>11, TextCardinality
  <2>3. /\ Text!ChangedLines(patch).added = s.added
        /\ Text!ChangedLines(patch).deleted = s.deleted
    BY <1>12
  <2>4. QED
    BY <1>10, <2>1, <2>2, <2>3 DEF Exact
<1>14. QED
  BY <1>2a, <1>13

LEMMA ThreeParts ==
  ASSUME NEW S, NEW a \in Seq(S), NEW b \in Seq(S), NEW c \in Seq(S), Len(b) = 1
  PROVE  /\ a \o b \o c \in Seq(S) /\ Len(a \o b \o c) = Len(a) + 1 + Len(c)
         /\ \A i \in 1 .. Len(a) : (a \o b \o c)[i] = a[i]
         /\ (a \o b \o c)[Len(a) + 1] = b[1]
         /\ \A i \in 1 .. Len(c) : (a \o b \o c)[Len(a) + 1 + i] = c[i]
<1> DEFINE d == a \o b
<1>1. /\ d \in Seq(S) /\ Len(d) = Len(a) + Len(b)
      /\ \A i \in 1 .. Len(a) + Len(b) : d[i] = IF i <= Len(a) THEN a[i] ELSE b[i - Len(a)]
  BY ConcatProperties
<1>2. Len(a) \in Nat /\ Len(c) \in Nat
  OBVIOUS
<1> HIDE DEF d
<1>3. d[Len(a) + 1] = b[1] /\ \A i \in 1 .. Len(a) : d[i] = a[i]
  BY <1>1, <1>2
<1>4. /\ d \o c \in Seq(S) /\ Len(d \o c) = Len(d) + Len(c)
      /\ \A i \in 1 .. Len(d) + Len(c) : (d \o c)[i] = IF i <= Len(d) THEN d[i] ELSE c[i - Len(d)]
  <2>1. d \in Seq(S)
    BY <1>1
  <2>2. QED
    BY <2>1, ConcatProperties
<1>5. d \o c \in Seq(S) /\ Len(d \o c) = Len(a) + 1 + Len(c)
  BY <1>1, <1>4
<1>6. \A i \in 1 .. Len(a) : (d \o c)[i] = a[i]
  BY <1>1, <1>2, <1>3, <1>4
<1>7. (d \o c)[Len(a) + 1] = b[1]
  BY <1>1, <1>2, <1>3, <1>4
<1>8. \A i \in 1 .. Len(c) : (d \o c)[Len(a) + 1 + i] = c[i]
  BY <1>1, <1>2, <1>4
<1>9. QED
  BY <1>5, <1>6, <1>7, <1>8 DEF d

LEMMA KindsCounted ==
  ASSUME NEW script \in Seq({"add", "del", "same"}), NEW kind
  PROVE  Text!Kinds(script, kind) \in Nat /\ Text!Kinds(script, kind) <= Len(script)
<1> DEFINE X == {i \in DOMAIN script : script[i] = kind}
           N == Len(script)
<1>1. N \in Nat /\ X \subseteq 1 .. N
  OBVIOUS
<1>2. Text!Kinds(script, kind) = Cardinality(X)
  BY TextCardinality DEF Text!Kinds
<1> HIDE DEF X, N
<1>3. IsFiniteSet(1 .. N) /\ Cardinality(1 .. N) = N
  BY <1>1, FS_Interval
<1>4. IsFiniteSet(X) /\ Cardinality(X) <= N
  BY <1>1, <1>3, FS_Subset
<1>5. QED
  BY <1>2, <1>4, FS_CardinalityType DEF N

LEMMA HunkShape ==
  ASSUME NEW script \in Seq({"add", "del", "same"}), NEW line \in Nat
  PROVE  LET H == Text!HunkOf(script, line)
         IN  /\ H \in Seq(RowRecords) /\ Len(H) = Len(script) + 1
             /\ H[1].kind = "hunk" /\ H[1].new = line /\ H[1].old = line
             /\ H[1].newCount <= Len(script) /\ H[1].oldCount <= Len(script)
             /\ H[1].newCount \in Nat /\ H[1].oldCount \in Nat
             /\ \A i \in 2 .. Len(H) : H[i].kind # "hunk"
<1> DEFINE opening == [kind |-> "hunk",
                       old |-> line, oldCount |-> Len(script) - Text!Kinds(script, "add"),
                       new |-> line, newCount |-> Len(script) - Text!Kinds(script, "del")]
           body == [i \in DOMAIN script |-> [kind |-> script[i]]]
<1>1. Text!HunkOf(script, line) = <<opening>> \o body
  BY DEF Text!HunkOf
<1>2. /\ opening \in RowRecords /\ opening.kind = "hunk" /\ opening.new = line /\ opening.old = line
      /\ opening.newCount <= Len(script) /\ opening.oldCount <= Len(script)
      /\ opening.newCount \in Nat /\ opening.oldCount \in Nat
  <2>1. /\ Text!Kinds(script, "add") \in Nat /\ Text!Kinds(script, "add") <= Len(script)
        /\ Text!Kinds(script, "del") \in Nat /\ Text!Kinds(script, "del") <= Len(script)
    BY KindsCounted
  <2>2. Len(script) \in Nat
    OBVIOUS
  <2>3. QED
    BY <2>1, <2>2 DEF RowRecords
<1>3. /\ body \in Seq(RowRecords) /\ Len(body) = Len(script)
      /\ \A i \in 1 .. Len(script) : body[i].kind # "hunk"
  <2>1. \A i \in DOMAIN script : script[i] \in {"add", "del", "same"}
    OBVIOUS
  <2>2. \A i \in DOMAIN script : body[i] \in RowRecords /\ body[i].kind # "hunk"
    BY <2>1 DEF RowRecords
  <2>3. Len(script) \in Nat /\ DOMAIN script = 1 .. Len(script)
    OBVIOUS
  <2>4. QED
    BY <2>2, <2>3
<1> HIDE DEF opening, body
<1>4. /\ <<opening>> \o body \in Seq(RowRecords) /\ Len(<<opening>> \o body) = Len(script) + 1
      /\ (<<opening>> \o body)[1] = opening
      /\ \A i \in 2 .. Len(script) + 1 : (<<opening>> \o body)[i] = body[i - 1]
  BY <1>2, <1>3
<1>5. QED
  BY <1>1, <1>2, <1>3, <1>4

\* Of a patch that was cut anywhere, either no line is offered for an inline
\* finding or exactly the changed lines of the whole file are
\* (ci-report.mts:97-138).
THEOREM ChangedLinesOffered == ReportRunSpec => []OnlyChangedLinesOffered
<1>1. ReportRunInit => PatchInv
  <2> SUFFICES ASSUME ReportRunInit PROVE PatchInv
    OBVIOUS
  <2>1. PICK script \in Scripts : truth = script /\ patch = Text!FileOf(script)
    BY DEF ReportRunInit, Text!Init
  <2>2. script \in Seq({"add", "del", "same"})
    BY ScriptsAssumption
  <2>3. /\ Text!HunkOf(script, 1) \in Seq(RowRecords)
        /\ \A i \in 2 .. Len(Text!HunkOf(script, 1)) : Text!HunkOf(script, 1)[i].kind # "hunk"
    BY <2>2, HunkShape
  <2>4. patch \in PatchRecords /\ patch.rows = Text!HunkOf(script, 1)
    BY <2>1, <2>2, <2>3, KindsCounted DEF Text!FileOf, PatchRecords
  <2>5. Apart(patch.rows)
    BY <2>3, <2>4 DEF Apart
  <2>6. QED
    BY <2>1, <2>4, <2>5 DEF PatchInv
<1>2. PatchInv /\ [ReportRunNext]_<<vars, matter, text>> => PatchInv'
  <2> SUFFICES ASSUME PatchInv, [ReportRunNext]_<<vars, matter, text>> PROVE PatchInv'
    OBVIOUS
  <2>1. CASE UNCHANGED <<patch, truth>>
    BY <2>1 DEF PatchInv
  <2>2. CASE Text!CutPatch
    <3> DEFINE R == patch.rows
    <3>1. R \in Seq(RowRecords) /\ R # <<>> /\ Apart(R) /\ patch \in PatchRecords
      BY <2>2 DEF PatchInv, PatchRecords, Text!CutPatch
    <3>2. patch' = [patch EXCEPT !.rows = SubSeq(R, 1, Len(R) - 1)] /\ truth' = truth
      BY <2>2 DEF Text!CutPatch, Text!Front
    <3> DEFINE Q == SubSeq(R, 1, Len(R) - 1)
    <3>3. Q \in Seq(RowRecords) /\ DOMAIN Q \subseteq DOMAIN R /\ \A i \in DOMAIN Q : Q[i] = R[i]
      <4> HIDE DEF R
      <4>1. QED
        BY <3>1
    <3>4. patch' \in PatchRecords /\ patch'.rows = Q
      BY <3>1, <3>2, <3>3 DEF PatchRecords
    <3>5. Apart(Q)
      <4> HIDE DEF R, Q
      <4>1. QED
        BY <3>1, <3>3 DEF Apart
    <3>6. QED
      BY <3>2, <3>4, <3>5 DEF PatchInv
  <2>3. CASE Text!AppendHunk
    <3>1. PICK script \in Scripts :
             patch' = [patch EXCEPT
                !.rows = @ \o <<[kind |-> "mark"]>> \o Text!HunkOf(script, 100),
                !.additions = @ + Text!Kinds(script, "add"),
                !.deletions = @ + Text!Kinds(script, "del")]
      BY <2>3 DEF Text!AppendHunk
    <3>2. patch = Text!FileOf(truth) /\ truth' = truth /\ patch \in PatchRecords
      BY <2>3 DEF Text!AppendHunk, PatchInv
    <3>3. /\ script \in Seq({"add", "del", "same"})
          /\ truth \in Seq({"add", "del", "same"}) /\ Len(truth) \in Nat /\ Len(truth) < 99
      <4>1. truth \in Scripts
        BY DEF PatchInv
      <4>2. QED
        BY <4>1, ScriptsAssumption
    <3> DEFINE H == Text!HunkOf(truth, 1)
               J == Text!HunkOf(script, 100)
               M == <<[kind |-> "mark"]>>
               Q == H \o M \o J
    <3>4. /\ H \in Seq(RowRecords) /\ Len(H) = Len(truth) + 1
          /\ H[1].kind = "hunk" /\ H[1].new = 1 /\ H[1].old = 1
          /\ H[1].newCount <= Len(truth) /\ H[1].oldCount <= Len(truth)
          /\ H[1].newCount \in Nat /\ H[1].oldCount \in Nat
          /\ \A i \in 2 .. Len(H) : H[i].kind # "hunk"
      BY <3>3, HunkShape
    <3>5. /\ J \in Seq(RowRecords) /\ Len(J) \in Nat /\ Len(J) # 0
          /\ J[1].new = 100 /\ J[1].old = 100
          /\ \A i \in 2 .. Len(J) : J[i].kind # "hunk"
      <4>1. Len(script) \in Nat
        BY <3>3
      <4>2. QED
        BY <3>3, <4>1, HunkShape
    <3>6. patch.rows = H
      BY <3>2 DEF Text!FileOf
    <3>7. M \in Seq(RowRecords) /\ Len(M) = 1 /\ M[1].kind # "hunk"
      BY DEF RowRecords
    <3> HIDE DEF H, J, M
    <3>8. /\ Q \in Seq(RowRecords) /\ Len(Q) = Len(H) + 1 + Len(J) /\ DOMAIN Q = 1 .. Len(Q)
          /\ \A i \in 1 .. Len(H) : Q[i] = H[i]
          /\ Q[Len(H) + 1] = M[1]
          /\ \A i \in 1 .. Len(J) : Q[Len(H) + 1 + i] = J[i]
      <4>1. H \in Seq(RowRecords) /\ M \in Seq(RowRecords) /\ J \in Seq(RowRecords) /\ Len(M) = 1
        BY <3>4, <3>5, <3>7
      <4>2. /\ Q \in Seq(RowRecords) /\ Len(Q) = Len(H) + 1 + Len(J)
            /\ \A i \in 1 .. Len(H) : Q[i] = H[i]
            /\ Q[Len(H) + 1] = M[1]
            /\ \A i \in 1 .. Len(J) : Q[Len(H) + 1 + i] = J[i]
        BY <4>1, ThreeParts
      <4> HIDE DEF Q
      <4>3. QED
        BY <4>2
    <3>9. patch' \in PatchRecords /\ patch'.rows = Q
      <4>1. Text!Kinds(script, "add") \in Nat /\ Text!Kinds(script, "del") \in Nat
        BY <3>3, KindsCounted
      <4>2. patch' = [patch EXCEPT !.rows = Q, !.additions = @ + Text!Kinds(script, "add"),
                                   !.deletions = @ + Text!Kinds(script, "del")]
        BY <3>1, <3>6 DEF J, M
      <4> HIDE DEF Q
      <4>3. /\ patch.additions + Text!Kinds(script, "add") \in Nat
            /\ patch.deletions + Text!Kinds(script, "del") \in Nat
        BY <3>2, <4>1 DEF PatchRecords
      <4>4. patch' = [patch EXCEPT !.rows = Q,
                                   !.additions = patch.additions + Text!Kinds(script, "add"),
                                   !.deletions = patch.deletions + Text!Kinds(script, "del")]
        BY <4>2
      <4>5. Q \in Seq(RowRecords)
        BY <3>8
      <4>6. QED
        BY <3>2, <4>3, <4>4, <4>5 DEF PatchRecords
    <3> HIDE DEF Q
    <3>10. \A i \in DOMAIN Q : Q[i].kind = "hunk" => i = 1 \/ i = Len(H) + 2
      <4> TAKE i \in DOMAIN Q
      <4>1. CASE i \in 2 .. Len(H)
        BY <3>3, <3>4, <3>8, <4>1
      <4>2. CASE i = Len(H) + 1
        BY <3>7, <3>8, <4>2
      <4>3. CASE i > Len(H) + 2
        <5>1. /\ i - (Len(H) + 1) \in 2 .. Len(J) /\ i = Len(H) + 1 + (i - (Len(H) + 1))
          BY <3>3, <3>4, <3>5, <3>8, <4>3
        <5>2. QED
          BY <3>5, <3>8, <5>1
      <4>4. QED
        BY <3>3, <3>4, <3>8, <4>1, <4>2, <4>3
    <3>11. /\ Q[1] = H[1] /\ Q[Len(H) + 2] = J[1]
      <4>1. 1 \in 1 .. Len(H) /\ 1 \in 1 .. Len(J) /\ Len(H) + 2 = Len(H) + 1 + 1
        BY <3>3, <3>4, <3>5
      <4>2. QED
        BY <3>8, <4>1
    <3>12. Apart(Q)
      <4> SUFFICES ASSUME NEW g \in DOMAIN Q, NEW j \in DOMAIN Q,
                          Q[g].kind = "hunk", Q[j].kind = "hunk", g < j
                   PROVE  /\ Q[g].new + Q[g].newCount <= Q[j].new
                          /\ Q[g].old + Q[g].oldCount <= Q[j].old
        BY DEF Apart
      <4>1. g = 1 /\ j = Len(H) + 2
        BY <3>3, <3>4, <3>8, <3>10
      <4>2. QED
        BY <3>3, <3>4, <3>5, <3>11, <4>1
    <3>13. QED
      BY <3>2, <3>9, <3>12 DEF PatchInv
  <2>4. QED
    BY <2>1, <2>2, <2>3 DEF ReportRunNext, text, Text!AddFinding
<1>3. PatchInv => OnlyChangedLinesOffered
  BY OnlyChangesOffered DEF OnlyChangedLinesOffered
<1>4. QED
  BY <1>1, <1>2, <1>3, PTL DEF ReportRunSpec
=============================================================================
