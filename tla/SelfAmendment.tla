---------------------------- MODULE SelfAmendment ----------------------------
(***************************************************************************)
(* The amendment of Authority in the repository itself: the revision the   *)
(* review job resolved, the preparation and completion of the eligibility  *)
(* review, and the verification by accept, which reads main and the pull   *)
(* request before and after it reads the test merge                        *)
(* (src/scripts/self-amendment-pr.mjs, src/src/ci-review/                  *)
(* self-amendment-pr.mts, src/src/github/self-pr-context.mts). Commits are *)
(* immutable, so what Git says of them is a constant; the five reads of    *)
(* the pull request go to a GitHub that moves between any two of them.     *)
(***************************************************************************)
EXTENDS PullRequest

CONSTANTS
    AuthorityOnly,  \* the heads that only modify Authority the base selects
    Contains        \* the revision of main each head was branched from

ASSUME CommitsAssumption ==
    /\ AuthorityOnly \subseteq Heads
    /\ Contains \in [Heads -> 1 .. LastMain]

VARIABLES
    step,       \* what the amendment does next
    reviewed,   \* the merge the review job resolved: a set of at most one
    decision,   \* the eligibility decision: a set of at most one
    seen,       \* what each of the five reads returned: sets of at most one
    then        \* main and pull request at the moment the merge was read

amendment == <<step, reviewed, decision, seen, then>>

Reads == {"main", "pull", "merge", "mainAgain", "pullAgain"}

\* A decision names the complete Set or not, and says for each check whether
\* it holds: here, for all of them.
Decisions == [bound : BOOLEAN, eligible : BOOLEAN, checks : BOOLEAN]

InitAmendment ==
    /\ step = "resolve"
    /\ reviewed = {} /\ decision = {} /\ then = {}
    /\ seen = [r \in Reads |-> {}]

GoTo(s) == step' = s

-----------------------------------------------------------------------------
\* The review job checks the merge of the event and, if its parents are
\* stale, the merge the ref names now.
Resolve ==
    /\ step = "resolve"
    /\ LET candidate == IF MergesEvent(event.merge) THEN event.merge ELSE mergeRef
       IN  /\ MergesEvent(candidate)
           /\ reviewed' = {candidate}
    /\ GoTo("prepare")
    /\ UNCHANGED <<decision, seen, then>>

\* The same content: the head already has what main brings to the merge.
SameTree(m) == m.base <= Contains[m.head]

\* What prepare requires of the run and of its commits; all modes prepare
\* anew from the same immutable inputs, so they prepare the same.
Preparable ==
    /\ event.workflow = event.base
    /\ event.head \in AuthorityOnly
    /\ \A m \in reviewed : SameTree(m)

Prepare ==
    /\ step = "prepare" /\ Preparable
    /\ GoTo("review")
    /\ UNCHANGED <<reviewed, decision, seen, then>>

ReviewEligibility ==
    /\ step = "review"
    /\ \E d \in Decisions : decision' = {d}
    /\ GoTo("complete")
    /\ UNCHANGED <<reviewed, seen, then>>

\* A decision counts when it is bound to the Set and agrees with its checks.
ValidDecision(d) == d.bound /\ (d.eligible <=> d.checks)

\* The job publishes the eligibility, the context and the decision; verify
\* takes only an eligible one.
Complete ==
    /\ step = "complete"
    /\ \A d \in decision : ValidDecision(d) /\ d.eligible
    /\ GoTo("first")
    /\ UNCHANGED <<reviewed, decision, seen, then>>

-----------------------------------------------------------------------------
\* The reads of selectSelfPrContext: two, one, and the same two again.
Due ==
    CASE step = "first" -> {"main", "pull"}
      [] step = "merge" -> {"merge"}
      [] step = "final" -> {"mainAgain", "pullAgain"}
      [] OTHER          -> {}

\* What GitHub shows of the pull request; the number of edits is not shown.
Shown == [pull |-> pull, base |-> record.base, merge |-> record.merge, edits |-> edits]

\* One bounded request of get; those of a pair are answered in either order.
Get(r) ==
    /\ r \in Due /\ seen[r] = {}
    /\ seen' = [seen EXCEPT ![r] =
                   CASE r \in {"main", "mainAgain"} -> {main}
                     [] r \in {"pull", "pullAgain"} -> {Shown}
                     [] r = "merge"                 -> {mergeRef}]
    /\ then' = IF r = "merge" THEN {[main |-> main, pull |-> pull]} ELSE then
    /\ UNCHANGED <<step, reviewed, decision>>

Answered == Due # {} /\ \A r \in Due : seen[r] # {}

\* The pull request the event spoke of: open, with its head and its purpose.
OfEvent(p) == p.open /\ p.head = event.head /\ p.purpose = event.purpose

FirstPair ==
    /\ seen["main"] = {event.base}
    /\ \A s \in seen["pull"] : OfEvent(s.pull) /\ s.base = event.base

MergeOfPair ==
    \A m \in seen["merge"] :
        MergesEvent(m) /\ \A s \in seen["pull"] : m = s.merge

\* Mutant: main is not read again.
FinalPull ==
    \A s \in seen["pullAgain"] :
        OfEvent(s.pull) /\ s.base = event.base /\ seen["merge"] = {s.merge}

FinalPair ==
    /\ seen["mainAgain"] = seen["main"]
    /\ \A s \in seen["pullAgain"] :
          OfEvent(s.pull) /\ s.base = event.base /\ seen["merge"] = {s.merge}

Agreed ==
    CASE step = "first" -> FirstPair
      [] step = "merge" -> MergeOfPair
      [] step = "final" -> FinalPair

\* What was read is compared; the selected subject must be the reviewed one.
Compare ==
    /\ Answered /\ Agreed
    /\ step = "final" => seen["merge"] = reviewed
    /\ GoTo(CASE step = "first" -> "merge" [] step = "merge" -> "final" [] step = "final" -> "verified")
    /\ UNCHANGED <<reviewed, decision, seen, then>>

\* Any check that does not hold, a read that fails or is not answered within
\* 10 seconds, all reads not within 25, a job that fails: no amendment.
GiveUp ==
    /\ step \notin {"verified", "failed"}
    /\ GoTo("failed")
    /\ UNCHANGED <<reviewed, decision, seen, then>>

Amend ==
    \/ Resolve \/ Prepare \/ ReviewEligibility \/ Complete
    \/ \E r \in Reads : Get(r)
    \/ Compare \/ GiveUp

-----------------------------------------------------------------------------
\* An amendment that accept verified stood on the live pull request at one
\* moment: when its test merge was read, main was the base it was judged
\* against, the merge was the reviewed commit, and the pull request was the
\* one of the event, unless its author had changed it away and back
\* (self-pr-context.mts:114-152).
VerifiedOnLiveMerge ==
    step = "verified" =>
        /\ \A m \in reviewed : MergesEvent(m) /\ SameTree(m) /\ seen["merge"] = {m}
        /\ \A t \in then :
              /\ t.main = event.base
              /\ \/ OfEvent(t.pull)
                 \/ \A s \in seen["pull"], f \in seen["pullAgain"] : f.edits >= s.edits + 2
        /\ \A d \in decision : d.eligible /\ d.bound /\ d.checks
=============================================================================
