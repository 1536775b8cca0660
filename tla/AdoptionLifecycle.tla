-------------------------- MODULE AdoptionLifecycle --------------------------
(***************************************************************************)
(* The facts about one Owner addition as they come in, in any order: its   *)
(* procedure and review, the evidence of its producer, the merge and what  *)
(* the branch holds. AdoptionEvaluation says after each what they amount   *)
(* to.                                                                     *)
(***************************************************************************)
EXTENDS AdoptionEvaluation

VARIABLE facts

\* A fact that comes in is verified or not; what was not verified may be later.
Comes(kind) ==
    /\ facts[kind] \in {"none", "unverified"}
    /\ \E q \in Qualities \ {"none", facts[kind]} : facts' = [facts EXCEPT ![kind] = q]

Unknown(verdict, before) ==
    [procedure |-> "none", ordinary |-> "none", set |-> "none", eligible |-> "none",
     verdict |-> verdict, merge |-> "none", evidence |-> "none", before |-> before,
     readback |-> "none"]

Init == \E v \in {"eligible", "ineligible"}, b \in BOOLEAN : facts = Unknown(v, b)

Learn == \E kind \in {"procedure", "ordinary", "set", "eligible", "evidence"} : Comes(kind)
Merged == Comes("merge")
ReadBack == Comes("readback")

Next == Learn \/ Merged \/ ReadBack
Spec == Init /\ [][Next]_facts
=============================================================================
