-------------------------- MODULE AdoptionEvaluation --------------------------
(***************************************************************************)
(* What the facts about an Owner addition amount to                        *)
(* (src/src/owner-addition/owner-addition-adoption.mts). A fact is absent, *)
(* not verified by its adapter, bound to the candidate, or wrong: it names *)
(* another candidate. Metadata of a merge that is not one yet counts as    *)
(* not verified. The facts are a record.                                   *)
(***************************************************************************)
EXTENDS Integers, Sequences

Qualities == {"none", "unverified", "bound", "wrong"}

\* The facts eligibility rests on, in the order they are judged.
EligibilityFacts == <<"procedure", "ordinary", "set", "eligible">>

\* The position of the first fact that is not bound, if there is one.
FirstFault(f) ==
    {i \in DOMAIN EligibilityFacts :
        /\ f[EligibilityFacts[i]] # "bound"
        /\ \A k \in 1 .. i - 1 : f[EligibilityFacts[k]] = "bound"}

Eligibility(f) ==
    IF FirstFault(f) # {} THEN "incomplete" ELSE f.verdict

\* Mutant: only the procedure may be unverified.
ProcedureUnavailable(f) == f.procedure = "unverified"

\* The first fact at fault was not verified, rather than absent or wrong.
EligibilityUnavailable(f) ==
    \E i \in FirstFault(f) : f[EligibilityFacts[i]] = "unverified"

MergeValid(f) == f.merge = "bound"

\* Evidence that is absent or not verified is incomplete, never wrong. It must
\* end before the merge it is judged with.
EvidenceIncomplete(f) == f.evidence \in {"none", "unverified"}

EvidenceValid(f) ==
    /\ f.evidence = "bound"
    /\ f.merge # "bound" \/ f.before

\* A readback is bound to the merge commit.
Canonical(f) ==
    CASE f.readback = "none"                     -> "pending"
      [] f.readback = "bound" /\ MergeValid(f)   -> "verified"
      [] OTHER                                   -> "invalid"

Adoption(f) ==
    IF Eligibility(f) = "ineligible" THEN "invalid"
    ELSE IF f.merge = "none" /\ f.readback = "none" THEN "pending"
    ELSE IF Eligibility(f) # "eligible"
         THEN IF EligibilityUnavailable(f) THEN "incomplete" ELSE "invalid"
    ELSE IF ~MergeValid(f) THEN "invalid"
    ELSE IF EvidenceIncomplete(f) THEN "incomplete"
    ELSE IF ~EvidenceValid(f) \/ Canonical(f) = "invalid" THEN "invalid"
    ELSE IF Canonical(f) # "verified" THEN "pending"
    ELSE "valid"
=============================================================================
