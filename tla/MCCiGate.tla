------------------------------ MODULE MCCiGate ------------------------------
(* Instances of CiGate for TLC.                                            *)
EXTENDS CiGate

CONSTANT Consumer

Callers == {Self, Consumer}

Text(k, nested, named) == [kind |-> k, nested |-> nested, named |-> named]

\* Every kind of answer; the fields a procedure looks at vary where they matter:
\* a missing Owner decision that the addition names, and one beside a gate that
\* blocks.
AllAnswers == {Text(k, FALSE, FALSE) : k \in {"PASS", "BLOCK", "INVALID"}}
              \cup {Text("OWNER_DECISION", FALSE, TRUE), Text("OWNER_DECISION", TRUE, TRUE)}

\* An entry that is refused is refused alike whatever is wrong with it: the
\* policy job fails and hands over nothing. One stands for all.
Refused == [version |-> "2", mode |-> "enforced", provider |-> "", manifest |-> FALSE,
            ownerAddition |-> "single", ownerAmendment |-> TRUE]

Considered == ValidBranch(branch) \/ branch = Refused

MCInit == Init /\ Considered
MCSpec == MCInit /\ [][Next]_vars /\ Fairness
=============================================================================
