--------------------------- MODULE MCMergeSubject ---------------------------
(***************************************************************************)
(* The two procedures of a run that settle what was reviewed, each on its  *)
(* own beside a GitHub that moves: the amendment of Authority and the      *)
(* ordinary Gemini route.                                                  *)
(***************************************************************************)
EXTENDS SelfAmendment, GeminiCi, TLC

VARIABLE about      \* the procedure this behaviour is about

vars == <<world, event, amendment, gemini, about>>

\* One head only modifies Authority; each was branched from another main.
OnlyFirst == {"h1"}
Branched == [h \in Heads |-> IF h = "h1" THEN 1 ELSE LastMain]

Init ==
    /\ about \in {"amendment", "gemini"}
    /\ InitPullRequest /\ InitAmendment /\ InitGemini

\* What a step of GitHub may still change for the procedure: the amendment
\* reads everything; the other route reads the merge ref, once in an attempt.
Matters ==
    CASE about = "amendment" -> step \notin {"verified", "failed"}
      [] about = "gemini" ->
            /\ record' = record /\ pull'.purpose = pull.purpose /\ pull'.open
            /\ job.at \in {"register", "fetch", "lookup"}

\* The runtime is looked at twice, so it may as well change just before.
LooksAtRuntime == job.at \in {"inspect", "accessToken"}

Purposed == Permutations(Purposes)

Next ==
    \/ GitHub /\ Matters /\ UNCHANGED <<amendment, gemini, about>>
    \/ about = "amendment" /\ Amend /\ UNCHANGED <<world, event, gemini, about>>
    \/ /\ about = "gemini" /\ Gemini
       /\ RuntimeChanges => LooksAtRuntime
       /\ UNCHANGED <<world, event, amendment, about>>

Spec == Init /\ [][Next]_vars
=============================================================================
