----------------------------- MODULE PullRequest -----------------------------
(***************************************************************************)
(* A pull request as a run of the gate meets it. GitHub keeps the tip of   *)
(* main, the pull request, its test merge under refs/pull/N/merge, and a   *)
(* record with the base revision and the merge commit, which it brings up  *)
(* to date in its own time. None of this is code of the repository: it is  *)
(* what self-pr-context.mts, self-amendment-pr.mjs and                     *)
(* ordinary-gemini-ci-workflow.mts read, next to the event of the run.     *)
(***************************************************************************)
EXTENDS Naturals

CONSTANTS
    Heads,      \* the commits the author pushes
    Purposes,   \* the texts of title and description
    LastMain,   \* bound on the revisions of main: 1 .. LastMain
    MaxEdits    \* bound on what the author changes during the run

ASSUME PullRequestAssumption ==
    /\ Heads # {} /\ Purposes # {}
    /\ LastMain \in Nat \ {0} /\ MaxEdits \in Nat

VARIABLES
    main,       \* the tip of main, which is protected: it only moves forward
    pull,       \* the pull request: its head, its purpose, and whether it is open for review
    edits,      \* how often the author has changed it
    mergeRef,   \* the test merge the ref names
    record,     \* base revision and merge commit GitHub shows for the pull request
    event       \* the payload of the event that started the run, and the revision of its workflow

world == <<main, pull, edits, mergeRef, record>>

\* A test merge is a commit of its own: the same parents may be merged anew.
Merges == [base : 1 .. LastMain, head : Heads, made : {1, 2}]

Pulls == [head : Heads, purpose : Purposes, open : BOOLEAN]

\* What the event says, whatever happens to the pull request afterwards.
Event == [base : 1 .. LastMain, head : Heads, merge : Merges, purpose : Purposes,
          workflow : 1 .. LastMain]

-----------------------------------------------------------------------------
\* The run starts at any moment of an open pull request whose record and merge
\* may be those of an earlier base or head.
InitPullRequest ==
    /\ main \in 1 .. LastMain
    /\ pull \in {p \in Pulls : p.open}
    /\ edits = 0
    /\ mergeRef \in {m \in Merges : m.base <= main}
    /\ record \in {r \in [base : 1 .. main, merge : Merges] :
                      r.merge.base <= r.base /\ r.merge.base <= mergeRef.base}
    /\ event = [base |-> record.base, head |-> pull.head, merge |-> record.merge,
                purpose |-> pull.purpose, workflow |-> main]

\* Another pull request is merged.
Advance ==
    /\ main < LastMain
    /\ main' = main + 1
    /\ UNCHANGED <<pull, edits, mergeRef, record>>

\* The author pushes, also back to what was there before, edits the text,
\* or closes, reopens or drafts.
Edit ==
    /\ edits < MaxEdits
    /\ pull' \in Pulls \ {pull}
    /\ edits' = edits + 1
    /\ UNCHANGED <<main, mergeRef, record>>

\* GitHub makes a test merge, and shows it with the pull request.
Remerge ==
    /\ \E n \in {1, 2} : mergeRef' = [base |-> main, head |-> pull.head, made |-> n]
    /\ mergeRef' # mergeRef
    /\ UNCHANGED <<main, pull, edits, record>>

Refresh ==
    /\ record' = [base |-> main, merge |-> mergeRef]
    /\ record' # record
    /\ UNCHANGED <<main, pull, edits, mergeRef>>

GitHub == (Advance \/ Edit \/ Remerge \/ Refresh) /\ UNCHANGED event

-----------------------------------------------------------------------------
\* The ordered parents of a merge are the base and the head of the event
\* (rev-list --parents, or the parents of the commit GitHub returns).
MergesEvent(m) == m.base = event.base /\ m.head = event.head
=============================================================================
