------------------------- MODULE MCAdditionFinalizer -------------------------
(***************************************************************************)
(* The finalizer in a moving repository, and, on its own, the evaluation   *)
(* it ends with, for facts that come in in any order. A behaviour is about *)
(* one of the two.                                                         *)
(***************************************************************************)
EXTENDS AdditionFinalizer

VARIABLES about, facts

Lifecycle == INSTANCE AdoptionLifecycle

MCInit ==
    /\ about \in {"finalizer", "evaluation"}
    /\ InitAdoption
    /\ Lifecycle!Init
    /\ about = "finalizer" => facts = Lifecycle!Unknown("eligible", TRUE)

MCNext ==
    \/ about = "finalizer" /\ AdoptionNext /\ UNCHANGED <<about, facts>>
    \/ about = "evaluation" /\ Lifecycle!Next /\ UNCHANGED <<about, adoptionVars>>

MCSpec == MCInit /\ [][MCNext]_<<adoptionVars, about, facts>>

\* The facts in the order an addition is judged by them, and what one of them
\* has to be for a verdict that only it can turn around.
Judged == EligibilityFacts \o <<"merge", "evidence", "readback">>

Premature ==
    [procedure |-> {"none"}, ordinary |-> {"none"}, set |-> {"none"}, eligible |-> {"none"},
     merge |-> {"none", "unverified"}, evidence |-> {}, readback |-> {"unverified"}]

\* An addition that is valid stays valid, and one that was found ineligible or
\* at odds with a verified fact stays invalid. The evaluation also calls an
\* addition invalid for a fact of eligibility that is still absent, for a merge
\* that is absent or not verified and for a readback that is not verified; then
\* it is that fact, the first one at fault, which turns the verdict around, and
\* no other (owner-addition-adoption.mts:89,149,227,234-248).
VerdictStands ==
    [][Adoption(facts) \in {"valid", "invalid"} /\ Adoption(facts') # Adoption(facts) =>
         \E i \in DOMAIN Judged :
            /\ \A k \in 1 .. i - 1 : facts[Judged[k]] = "bound"
            /\ facts[Judged[i]] \in Premature[Judged[i]]
            /\ facts'[Judged[i]] # facts[Judged[i]]]_facts

=============================================================================
