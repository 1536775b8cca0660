---------------------------- MODULE BoundedCall ----------------------------
(***************************************************************************)
(* What every bounded call of a review promises its caller: it ends once,  *)
(* with a value or with a refusal; it ends with a value only while its     *)
(* deadline has not passed and nobody cancelled it; and it ends, whatever  *)
(* the provider or the child process does.                                 *)
(***************************************************************************)

VARIABLES open,    \* the deadline has not passed and nobody cancelled the call
          outcome  \* "waiting", then "value" or "refused"

boundedVars == <<open, outcome>>

BoundedInit ==
    /\ open \in BOOLEAN
    /\ outcome = "waiting"

\* The time is up, or the caller cancels: this is never taken back.
Close ==
    /\ open' = FALSE
    /\ UNCHANGED outcome

\* The value is adopted at a moment at which the call is still open.
Adopt ==
    /\ outcome = "waiting"
    /\ outcome' = "value"
    /\ open /\ open'

\* A call may be refused at any moment, an open one too.
Refuse ==
    /\ outcome = "waiting"
    /\ outcome' = "refused"
    /\ open' \in {open, FALSE}

BoundedNext == Close \/ Adopt \/ Refuse

BoundedSafety == BoundedInit /\ [][BoundedNext]_boundedVars

\* Every call ends.
BoundedSpec == BoundedSafety /\ WF_boundedVars(Refuse)
=============================================================================
