-------------------------- MODULE AcceptanceRoutes --------------------------
(***************************************************************************)
(* What the Architecture Gate promises of one run, whatever jobs it has:   *)
(* a run has one verdict; an acceptance rests on a waiver by the protected *)
(* policy, on a PASS that leaves the guarded Authority alone, or on one    *)
(* Owner procedure that qualified before the verdict; neither the decision *)
(* nor the procedure is ever replaced by another.                          *)
(***************************************************************************)
VARIABLES waived,     \* the protected policy waives the review
          guarded,    \* the candidate changes Authority that PASS cannot accept
          decision,   \* what the ordinary reviewer decided
          procedure,  \* the Owner procedure that qualified
          verdict

vars == <<waived, guarded, decision, procedure, verdict>>

Init == /\ waived \in BOOLEAN
        /\ guarded \in BOOLEAN
        /\ decision = "none"
        /\ procedure = "none"
        /\ verdict = "pending"

Review == /\ verdict = "pending"
          /\ decision = "none"
          /\ decision' \in {"PASS", "BLOCK", "OWNER_DECISION", "INVALID"}
          /\ UNCHANGED <<waived, guarded, procedure, verdict>>

\* An addition supplies the decision the reviewer missed; an amendment
\* changes guarded Authority, whatever the reviewer decided.
Qualify == /\ verdict = "pending"
           /\ procedure = "none"
           /\ \/ /\ decision = "OWNER_DECISION"
                 /\ procedure' = "addition"
              \/ /\ guarded /\ decision # "none"
                 /\ procedure' = "amendment"
           /\ UNCHANGED <<waived, guarded, decision, verdict>>

Accept == /\ verdict = "pending"
          /\ \/ waived
             \/ decision = "PASS" /\ ~guarded
             \/ procedure # "none"
          /\ verdict' = "accepted"
          /\ UNCHANGED <<waived, guarded, decision, procedure>>

Refuse == /\ verdict = "pending"
          /\ verdict' = "refused"
          /\ UNCHANGED <<waived, guarded, decision, procedure>>

Next == Review \/ Qualify \/ Accept \/ Refuse

Spec == Init /\ [][Next]_vars
=============================================================================
