---------------------------- MODULE CiGateProofs ----------------------------
(***************************************************************************)
(* TLAPS proofs about CiGate, for any repositories and any answers of the  *)
(* reviewers: its types, that an acceptance is justified, that the report  *)
(* keeps the reviewer's decision, and that a run implements                *)
(* AcceptanceRoutes.                                                       *)
(***************************************************************************)
EXTENDS CiGate, TLAPS

Finished == {"success", "failure", "cancelled"}
Begun(j) == job[j] \in Finished \cup {"running"}

\* A job begins after the jobs it needs have ended, and accept always does.
Ordered ==
    /\ \A j \in Jobs : Begun(j) => \A n \in Needs[j] : job[n] \in Ended
    /\ job["accept"] # "skipped"

\* A successful policy job handed over what the base selects.
Settled == job["policy"] = "success" =>
              /\ policy = Resolve(branch)
              /\ ValidBranch(branch)
              /\ branch.ownerAmendment => caller = Self

\* Why a job that began was wanted.
Selected ==
    /\ Begun("review") =>
          /\ job["policy"] = "success"
          /\ policy.provider # "gemini"
    /\ Begun("gemini-review") =>
          /\ job["policy"] = "success"
          /\ policy.provider = "gemini" /\ policy.mode = "enforced"
    /\ Begun("owner-addition") => job["review"] = "success" /\ policy.g0
    /\ Begun("owner-amendment") =>
          /\ job["review"] = "success"
          /\ caller = Self /\ policy.protectedPr

\* What the review job hands over is what the reviewer returned and what the
\* comparison found, or blank.
HandedOver ==
    /\ job["review"] \notin Finished /\ job["gemini-review"] \notin Finished =>
          /\ said = Nothing /\ text = Nothing
          /\ kind = "" /\ display = "" /\ changed = ""
    /\ text # Nothing => text = said
    /\ kind # "" => kind = said.kind
    /\ display # "" => display = said.kind
    /\ changed # "" => changed = Comparison
    /\ job["review"] = "success" =>
          /\ said.kind # ""
          /\ Identifying => kind = said.kind

\* What an Owner procedure that went so far rests on.
Qualified ==
    /\ prepared =>
          /\ Begun("owner-addition")
          /\ candidate = "authority" /\ NamesMissingDecision(text)
    /\ addition = "ELIGIBLE" => prepared /\ job["owner-addition"] \in Finished
    /\ amendment # "" => candidate = "authority" /\ job["owner-amendment"] \in Finished
    /\ verification # "" => Begun("accept")
    /\ verification = "success" => amendment = "ELIGIBLE" /\ addition # "ELIGIBLE"

Reported ==
    /\ conclusion # "" => job["report"] \in Finished
    /\ ReportKeepsDecision
    /\ PassSurvivesSuppression

IInv ==
    /\ TypeOK
    /\ Ordered
    /\ Settled
    /\ Selected
    /\ HandedOver
    /\ Qualified
    /\ Reported
    /\ Justified

-----------------------------------------------------------------------------
(* The job graph.                                                          *)

\* What each job needs.
LEMMA NeedsFacts ==
    /\ Needs["policy"] = {}
    /\ Needs["review"] = {"policy"}
    /\ Needs["gemini-review"] = {"policy"}
    /\ Needs["owner-addition"] = {"policy", "review"}
    /\ Needs["owner-amendment"] = {"policy", "review", "owner-addition"}
    /\ Needs["report"] = {"policy", "review", "gemini-review", "owner-addition"}
    /\ Needs["accept"] = Jobs \ {"accept"}
    /\ \A j \in Jobs : Needs[j] \subseteq Jobs
BY DEF Needs, Jobs

\* While a job has not ended, no job that needs it has begun.
LEMMA Downstream ==
    ASSUME Ordered
    PROVE  /\ job["policy"] \notin Ended => \A j \in Jobs \ {"policy"} : ~Begun(j)
           /\ job["review"] \notin Ended =>
                 ~Begun("owner-addition") /\ ~Begun("owner-amendment")
           /\ job["owner-addition"] \notin Ended => ~Begun("owner-amendment")
           /\ \A j \in {"policy", "review", "gemini-review", "owner-addition"} :
                 job[j] \notin Ended => ~Begun("report")
           /\ \A j \in Jobs \ {"accept"} : job[j] \notin Ended => ~Begun("accept")
BY NeedsFacts DEF Ordered, Jobs

\* A job that ends was running: it had begun, and no job that needs it has.
LEMMA EndingJob ==
    ASSUME TypeOK, Ordered, NEW k \in Jobs, NEW r \in Results, End(k, r)
    PROVE  /\ job' \in [Jobs -> Ended \cup {"waiting", "running"}]
           /\ job[k] = "running" /\ job'[k] = r
           /\ \A j \in Jobs \ {k} : job'[j] = job[j]
           /\ \A j \in Jobs : Begun(j)' <=> Begun(j)
           /\ Ordered'
<1>1. /\ job' \in [Jobs -> Ended \cup {"waiting", "running"}]
      /\ job[k] = "running" /\ job'[k] = r
      /\ \A j \in Jobs \ {k} : job'[j] = job[j]
  BY DEF TypeOK, End, Results, Ended
<1>2. \A j \in Jobs : Begun(j)' <=> Begun(j)
  BY <1>1 DEF Begun, Finished, Results
<1>3. \A j \in Jobs : job[j] \in Ended => job'[j] \in Ended
  BY <1>1 DEF Results, Ended
<1>4. job'["accept"] # "skipped"
  BY <1>1 DEF Ordered, Results, Jobs
<1>5. Ordered'
  BY <1>2, <1>3, <1>4, NeedsFacts DEF Ordered
<1> QED BY <1>1, <1>2, <1>5

\* Why a job is wanted, one by one.
LEMMA WantedFacts ==
    /\ Wanted("review") => job["policy"] = "success" /\ policy.provider # "gemini"
    /\ Wanted("gemini-review") =>
          /\ job["policy"] = "success"
          /\ policy.provider = "gemini" /\ policy.mode = "enforced"
    /\ Wanted("owner-addition") => job["review"] = "success" /\ policy.g0
    /\ Wanted("owner-amendment") =>
          job["review"] = "success" /\ caller = Self /\ policy.protectedPr
BY DEF Wanted, AmendmentDue

\* A job that begins or is skipped was waiting.
LEMMA BeginningJob ==
    ASSUME TypeOK, Ordered, NEW k \in Jobs, Begin(k)
    PROVE  /\ job' \in [Jobs -> Ended \cup {"waiting", "running"}]
           /\ job[k] = "waiting" /\ job'[k] \notin Finished
           /\ \A j \in Jobs \ {k} : job'[j] = job[j]
           /\ \A j \in Jobs : Begun(j) => Begun(j)'
           /\ \A j \in Jobs : Begun(j)' => Begun(j) \/ (j = k /\ Wanted(j))
           /\ Ordered'
<1>1. /\ job' = [job EXCEPT ![k] = IF Wanted(k) THEN "running" ELSE "skipped"]
      /\ job[k] = "waiting"
      /\ \A n \in Needs[k] : job[n] \in Ended
  BY DEF Begin
<1>2. PICK r \in {"running", "skipped"} :
         job' = [job EXCEPT ![k] = r] /\ (r = "running" <=> Wanted(k))
  <2>1. CASE Wanted(k)
    BY <1>1, <2>1
  <2>2. CASE ~Wanted(k)
    BY <1>1, <2>2
  <2> QED BY <2>1, <2>2
<1>3. /\ job' \in [Jobs -> Ended \cup {"waiting", "running"}]
      /\ job'[k] = r
      /\ \A j \in Jobs \ {k} : job'[j] = job[j]
  BY <1>2 DEF TypeOK, Ended
<1>4. \A j \in Jobs : Begun(j)' => Begun(j) \/ (j = k /\ r = "running")
  BY <1>3 DEF Begun, Finished
<1>5. \A j \in Jobs : Begun(j)' => Begun(j) \/ (j = k /\ Wanted(j))
  BY <1>2, <1>4
<1>6. \A j \in Jobs : Begun(j) => Begun(j)'
  BY <1>1, <1>3 DEF Begun, Finished
<1>7. \A j \in Jobs : job[j] \in Ended => job'[j] \in Ended
  BY <1>1, <1>3 DEF Ended
<1>8. job'["accept"] # "skipped"
  BY <1>2, <1>3 DEF Ordered, Wanted, Jobs
<1>9. Ordered'
  BY <1>1, <1>4, <1>7, <1>8, NeedsFacts DEF Ordered
<1> QED BY <1>1, <1>3, <1>5, <1>6, <1>9 DEF Finished

-----------------------------------------------------------------------------
(* What is resolved, compared and decided.                                 *)

\* The outputs of policy are those of an unresolved or of a valid branch.
LEMMA PolicyFacts ==
    ASSUME TypeOK
    PROVE  /\ policy.mode \in {"", "local-only", "enforced", "procedural"}
           /\ policy.g0 \in BOOLEAN /\ policy.protectedPr \in BOOLEAN
           /\ policy.mode # "" => /\ policy = Resolve(branch)
                                  /\ policy.mode = branch.mode
                                  /\ policy.g0 = (branch.ownerAddition # "none")
                                  /\ policy.protectedPr = branch.ownerAmendment
           /\ policy.g0 \/ policy.protectedPr => policy = Resolve(branch)
<1>1. CASE policy = Unresolved
  BY <1>1 DEF Unresolved
<1>2. CASE policy = Resolve(branch)
  <2>1. /\ Resolve(branch).mode = branch.mode
        /\ Resolve(branch).g0 = (branch.ownerAddition # "none")
        /\ Resolve(branch).protectedPr = branch.ownerAmendment
    BY DEF Resolve
  <2>2. branch.mode \in {"local-only", "enforced", "procedural"}
        /\ branch.ownerAmendment \in BOOLEAN
    BY DEF TypeOK, Branches
  <2> QED BY <1>2, <2>1, <2>2
<1> QED BY <1>1, <1>2 DEF TypeOK

\* A procedural branch names a codex reviewer.
LEMMA ProceduralCodex ==
    ASSUME TypeOK, ValidBranch(branch), policy = Resolve(branch),
           policy.mode = "procedural"
    PROVE  policy.provider = "codex"
BY DEF TypeOK, ValidBranch, ValidV6, ValidRoute, Resolve, Branches

\* The initial states satisfy the invariant.
LEMMA InitInv == Init => IInv
<1> SUFFICES ASSUME Init PROVE IInv
  OBVIOUS
<1>1. TypeOK
  BY DEF Init, TypeOK, Ended, Texts, Nothing, Optional
<1>2. \A j \in Jobs : ~Begun(j) /\ job[j] = "waiting"
  BY DEF Init, Begun, Finished
<1>3. Ordered /\ Settled /\ Selected
  BY <1>2 DEF Ordered, Settled, Selected, Jobs
<1>4. HandedOver /\ Qualified /\ Reported /\ Justified
  BY <1>2 DEF Init, HandedOver, Qualified, Reported, ReportKeepsDecision,
     PassSurvivesSuppression, Justified, Jobs, Nothing, Decisions
<1> QED BY <1>1, <1>3, <1>4 DEF IInv

-----------------------------------------------------------------------------
(* Every step keeps the invariant.                                         *)

LEMMA BeginInv ==
    ASSUME IInv, NEW k \in Jobs, Begin(k)
    PROVE  IInv'
<1>1. TypeOK /\ Ordered
  BY DEF IInv
<1>2. /\ job' \in [Jobs -> Ended \cup {"waiting", "running"}]
      /\ job[k] = "waiting" /\ job'[k] \notin Finished
      /\ \A j \in Jobs \ {k} : job'[j] = job[j]
  BY <1>1, BeginningJob
<1>3. /\ \A j \in Jobs : Begun(j) => Begun(j)'
      /\ \A j \in Jobs : Begun(j)' => Begun(j) \/ (j = k /\ Wanted(j))
      /\ Ordered'
  BY <1>1, BeginningJob
<1>4. UNCHANGED <<subject, live, cancelled, policy, review, procedures,
                  conclusion, verification>>
  BY DEF Begin
<1>5. \A j \in Jobs : job'[j] \in Finished <=> job[j] \in Finished
  BY <1>2 DEF Finished
<1>6. TypeOK'
  <2>1. policy' \in {Unresolved, Resolve(branch')}
    BY <1>1, <1>4 DEF TypeOK, subject
  <2>2. live' \in BOOLEAN /\ cancelled' \in BOOLEAN /\ prepared' \in BOOLEAN
    BY <1>1, <1>4 DEF TypeOK, procedures
  <2> QED BY <1>1, <1>2, <1>4, <2>1, <2>2 DEF TypeOK, subject, review, procedures
<1>7. Settled'
  BY <1>2, <1>4, <1>5 DEF IInv, Settled, subject, Jobs, Finished
<1>8. Selected'
  BY <1>2, <1>3, <1>4, WantedFacts DEF IInv, Selected, subject, Jobs
<1>9. HandedOver'
  BY <1>2, <1>4, <1>5 DEF IInv, HandedOver, Identifying, Comparison, subject, review,
     Jobs, Finished
<1>10. Qualified'
  BY <1>2, <1>3, <1>4, <1>5 DEF IInv, Qualified, NamesMissingDecision, subject, review,
     procedures, Jobs
<1>11. Reported'
  BY <1>2, <1>4, <1>5 DEF IInv, Reported, ReportKeepsDecision, PassSurvivesSuppression,
     NamesMissingDecision, ReviewJob, SelfEnforced, Identifying, subject, review,
     procedures, Jobs, Finished
<1>12. Justified'
  BY <1>2, <1>4, <1>5 DEF IInv, Justified, Grounds, Guarded, NamesMissingDecision, subject, review,
     procedures, Jobs, Finished
<1> QED BY <1>3, <1>6, <1>7, <1>8, <1>9, <1>10, <1>11, <1>12 DEF IInv

\* While policy runs nothing was handed over.
LEMMA PolicyInv ==
    ASSUME IInv, PolicyEnds
    PROVE  IInv'
<1>1. TypeOK /\ Ordered
  BY DEF IInv
<1>2. PICK r \in Results, resolved \in BOOLEAN :
         /\ End("policy", r)
         /\ resolved => ValidBranch(branch)
         /\ r = "success" => resolved /\ (branch.ownerAmendment => caller = Self)
         /\ policy' = IF resolved THEN Resolve(branch) ELSE Unresolved
  BY DEF PolicyEnds
<1>3. UNCHANGED <<subject, live, cancelled, review, procedures, conclusion, verification>>
  BY DEF PolicyEnds
<1>4. /\ job' \in [Jobs -> Ended \cup {"waiting", "running"}]
      /\ job["policy"] = "running" /\ job'["policy"] = r
      /\ \A j \in Jobs \ {"policy"} : job'[j] = job[j]
      /\ \A j \in Jobs : Begun(j)' <=> Begun(j)
      /\ Ordered'
  BY <1>1, <1>2, EndingJob DEF Jobs
<1>5. \A j \in Jobs \ {"policy"} : ~Begun(j) /\ job'[j] \notin Finished
  BY <1>1, <1>4, Downstream DEF Ended, Begun
<1>6. TypeOK'
  <2>1. policy' \in {Unresolved, Resolve(branch')}
    BY <1>2, <1>3 DEF subject
  <2>2. live' \in BOOLEAN /\ cancelled' \in BOOLEAN /\ prepared' \in BOOLEAN
    BY <1>1, <1>3 DEF TypeOK, procedures
  <2> QED BY <1>1, <1>3, <1>4, <2>1, <2>2 DEF TypeOK, subject, review, procedures
<1>7. Settled'
  BY <1>2, <1>3, <1>4 DEF Settled, subject
<1>8. Selected'
  BY <1>4, <1>5 DEF Selected, Jobs
<1>9. HandedOver'
  BY <1>3, <1>4, <1>5 DEF IInv, HandedOver, Comparison, subject, review, Jobs, Begun, Finished
<1>10. Qualified'
  BY <1>1, <1>3, <1>4, <1>5 DEF IInv, Qualified, TypeOK, procedures, Jobs, Begun
<1>11. Reported' /\ Justified'
  BY <1>3, <1>4, <1>5 DEF IInv, Reported, ReportKeepsDecision, PassSurvivesSuppression,
     Justified, Jobs, Begun, Finished, Decisions
<1> QED BY <1>4, <1>6, <1>7, <1>8, <1>9, <1>10, <1>11 DEF IInv

LEMMA ReviewInv ==
    ASSUME IInv, ReviewEnds
    PROVE  IInv'
<1>1. TypeOK /\ Ordered
  BY DEF IInv
<1>2. PICK r \in Results, reached \in 0 .. Published, answer \in Answers, hidden \in BOOLEAN :
         /\ End("review", r)
         /\ r = "success" => reached = Published
         /\ reached >= Identified /\ Identifying => answer.kind \in Decisions
         /\ changed' = IF reached >= Compared /\ Comparing THEN Comparison ELSE ""
         /\ said' = IF reached >= Answered THEN answer ELSE said
         /\ kind' = IF reached >= Identified /\ Identifying THEN answer.kind ELSE ""
         /\ display' = IF reached >= Published /\ Shown(kind') THEN kind' ELSE ""
         /\ text' = IF reached >= Answered /\ display' = "" /\ ~hidden THEN answer ELSE Nothing
  BY DEF ReviewEnds
<1>3. UNCHANGED <<subject, live, cancelled, policy, procedures, conclusion, verification>>
  BY DEF ReviewEnds
<1>4. /\ job' \in [Jobs -> Ended \cup {"waiting", "running"}]
      /\ job["review"] = "running" /\ job'["review"] = r
      /\ \A j \in Jobs \ {"review"} : job'[j] = job[j]
      /\ \A j \in Jobs : Begun(j)' <=> Begun(j)
      /\ Ordered'
  BY <1>1, <1>2, EndingJob DEF Jobs
<1>5. ~Begun("owner-addition") /\ ~Begun("owner-amendment") /\ ~Begun("report") /\ ~Begun("accept")
  BY <1>1, <1>4, Downstream DEF Ended, Jobs
<1>6. /\ job["policy"] = "success" /\ policy.provider # "gemini"
      /\ ~Begun("gemini-review")
  BY <1>4 DEF IInv, Selected, Begun, Finished
<1>7. said = Nothing
  BY <1>4, <1>6 DEF IInv, HandedOver, Begun, Finished
<1>8. answer \in Texts /\ answer.kind \in Decisions \cup {"INVALID"}
  BY GateAssumption DEF Texts
<1>9. r \in Finished
  BY DEF Results, Finished
<1>10. kind' \in Optional(Decisions) /\ display' \in Optional(Decisions)
  BY <1>2, <1>8 DEF Optional
<1>11. said' \in Texts /\ text' \in Texts /\ changed' \in {"", "true", "false"}
  BY <1>2, <1>7, <1>8 DEF Texts, Nothing, Comparison
<1>12. TypeOK'
  <2>1. policy' \in {Unresolved, Resolve(branch')}
    BY <1>1, <1>3 DEF TypeOK, subject
  <2>2. live' \in BOOLEAN /\ cancelled' \in BOOLEAN /\ prepared' \in BOOLEAN
    BY <1>1, <1>3 DEF TypeOK, procedures
  <2> QED BY <1>1, <1>3, <1>4, <1>10, <1>11, <2>1, <2>2 DEF TypeOK, subject, procedures
<1>13. Settled'
  BY <1>3, <1>4 DEF IInv, Settled, subject, Jobs
<1>14. Selected'
  BY <1>3, <1>4, <1>5, <1>6 DEF IInv, Selected, subject, Jobs
<1>15. HandedOver'
  <2>1. text' # Nothing => text' = said'
    BY <1>2
  <2>2. kind' # "" => kind' = said'.kind
    <3>1. CASE reached >= Answered
      BY <1>2, <3>1
    <3>2. CASE ~(reached >= Answered)
      <4>1. ~(reached >= Identified)
        BY <3>2 DEF Identified, Answered
      <4> QED BY <1>2, <4>1
    <3> QED BY <3>1, <3>2
  <2>3. display' # "" => display' = said'.kind
    BY <1>2, <2>2
  <2>4. changed' # "" => changed' = Comparison'
    BY <1>2, <1>3 DEF Comparison, subject
  <2>5. r = "success" => said'.kind # "" /\ (Identifying => kind' = said'.kind)
    <3> SUFFICES ASSUME r = "success"
                 PROVE  said'.kind # "" /\ (Identifying => kind' = said'.kind)
      OBVIOUS
    <3>1. reached >= Answered /\ reached >= Identified
      <4>1. reached = Published
        BY <1>2
      <4> QED BY <4>1 DEF Identified, Answered, Published
    <3>2. said' = answer
      BY <1>2, <3>1
    <3>3. Identifying => kind' = answer.kind
      BY <1>2, <3>1
    <3>4. answer.kind # ""
      BY <1>8 DEF Decisions
    <3> QED BY <3>2, <3>3, <3>4
  <2>6. Identifying' <=> Identifying
    BY <1>3 DEF Identifying
  <2> QED BY <1>4, <1>9, <2>1, <2>2, <2>3, <2>4, <2>5, <2>6 DEF HandedOver
<1>16. Qualified'
  BY <1>1, <1>3, <1>4, <1>5 DEF IInv, Qualified, TypeOK, procedures, Jobs, Begun
<1>17. Reported' /\ Justified'
  BY <1>3, <1>4, <1>5 DEF IInv, Reported, ReportKeepsDecision, PassSurvivesSuppression,
     Justified, Jobs, Begun, Finished, Decisions
<1> QED BY <1>4, <1>12, <1>13, <1>14, <1>15, <1>16, <1>17 DEF IInv

LEMMA GeminiInv ==
    ASSUME IInv, GeminiEnds
    PROVE  IInv'
<1>1. TypeOK /\ Ordered
  BY DEF IInv
<1>2. PICK r \in Results, reached \in 0 .. 2, answer \in Answers :
         /\ End("gemini-review", r)
         /\ reached >= 1 => answer.kind \in Decisions
         /\ said' = IF reached >= 1 THEN answer ELSE said
         /\ display' = IF reached >= 1 THEN answer.kind ELSE ""
         /\ changed' = IF reached = 2 /\ SelfEnforced THEN Comparison ELSE ""
  BY DEF GeminiEnds
<1>3. UNCHANGED <<subject, live, cancelled, policy, text, kind, procedures,
                  conclusion, verification>>
  BY DEF GeminiEnds
<1>4. /\ job' \in [Jobs -> Ended \cup {"waiting", "running"}]
      /\ job["gemini-review"] = "running" /\ job'["gemini-review"] = r
      /\ \A j \in Jobs \ {"gemini-review"} : job'[j] = job[j]
      /\ \A j \in Jobs : Begun(j)' <=> Begun(j)
      /\ Ordered'
  BY <1>1, <1>2, EndingJob DEF Jobs
<1>5. /\ job["policy"] = "success" /\ policy.provider = "gemini"
      /\ ~Begun("review")
  BY <1>4 DEF IInv, Selected, Begun, Finished
<1>6. ~Begun("owner-addition") /\ ~Begun("owner-amendment")
  BY <1>5 DEF IInv, Selected, Begun, Finished
<1>7. ~Begun("report") /\ ~Begun("accept")
  BY <1>1, <1>4, Downstream DEF Ended, Jobs
<1>8. said = Nothing /\ text = Nothing /\ kind = ""
  BY <1>4, <1>5 DEF IInv, HandedOver, Begun, Finished
<1>9. answer \in Texts
  BY GateAssumption
<1>10. /\ said' \in Texts /\ display' \in Optional(Decisions)
       /\ changed' \in {"", "true", "false"}
  BY <1>2, <1>8, <1>9 DEF Texts, Nothing, Comparison, Optional
<1>11. r \in Finished
  BY DEF Results, Finished
<1>12. TypeOK'
  <2>1. policy' \in {Unresolved, Resolve(branch')}
    BY <1>1, <1>3 DEF TypeOK, subject
  <2>2. live' \in BOOLEAN /\ cancelled' \in BOOLEAN /\ prepared' \in BOOLEAN
    BY <1>1, <1>3 DEF TypeOK, procedures
  <2> QED BY <1>1, <1>3, <1>4, <1>10, <2>1, <2>2 DEF TypeOK, subject, procedures
<1>13. Settled'
  BY <1>3, <1>4 DEF IInv, Settled, subject, Jobs
<1>14. Selected'
  BY <1>3, <1>4, <1>5, <1>6 DEF IInv, Selected, subject, Jobs
<1>15. HandedOver'
  <2>1. display' # "" => display' = said'.kind
    BY <1>2
  <2>2. changed' # "" => changed' = Comparison'
    BY <1>2, <1>3 DEF Comparison, subject
  <2>3. job'["review"] \notin Finished
    BY <1>4, <1>5 DEF Jobs, Begun
  <2>4. text' = Nothing /\ kind' = ""
    BY <1>3, <1>8
  <2> QED BY <1>4, <1>11, <2>1, <2>2, <2>3, <2>4 DEF HandedOver, Finished
<1>16. Qualified'
  BY <1>1, <1>3, <1>4, <1>6, <1>7 DEF IInv, Qualified, TypeOK, procedures, Jobs, Begun
<1>17. Reported' /\ Justified'
  BY <1>3, <1>4, <1>7 DEF IInv, Reported, ReportKeepsDecision, PassSurvivesSuppression,
     Justified, Jobs, Begun, Finished, Decisions
<1> QED BY <1>4, <1>12, <1>13, <1>14, <1>15, <1>16, <1>17 DEF IInv

LEMMA PrepareInv ==
    ASSUME IInv, AdditionPrepares
    PROVE  IInv'
<1>1. TypeOK /\ Ordered
  BY DEF IInv
<1>2. /\ job["owner-addition"] = "running" /\ candidate = "authority"
      /\ NamesMissingDecision(text) /\ prepared' = TRUE
  BY DEF AdditionPrepares
<1>3. UNCHANGED <<subject, live, cancelled, job, policy, review, addition, amendment,
                  conclusion, verification>>
  BY DEF AdditionPrepares
<1>4. TypeOK'
  <2>1. policy' \in {Unresolved, Resolve(branch')}
    BY <1>1, <1>3 DEF TypeOK, subject
  <2>2. live' \in BOOLEAN /\ cancelled' \in BOOLEAN /\ prepared' \in BOOLEAN
    BY <1>1, <1>3, <1>2 DEF TypeOK
  <2> QED BY <1>1, <1>3, <2>1, <2>2 DEF TypeOK, subject, review
<1>5. Ordered' /\ Settled' /\ Selected'
  BY <1>3 DEF IInv, Ordered, Settled, Selected, Begun, subject
<1>6. HandedOver'
  BY <1>3 DEF IInv, HandedOver, Identifying, Comparison, subject, review
<1>7. Qualified'
  BY <1>2, <1>3 DEF IInv, Qualified, NamesMissingDecision, Begun, subject, review
<1>8. Reported' /\ Justified'
  BY <1>3 DEF IInv, Reported, ReportKeepsDecision, PassSurvivesSuppression, Justified,
     Grounds, Guarded, NamesMissingDecision, ReviewJob, SelfEnforced, Identifying, subject, review
<1> QED BY <1>4, <1>5, <1>6, <1>7, <1>8 DEF IInv

LEMMA AdditionInv ==
    ASSUME IInv, AdditionEnds
    PROVE  IInv'
<1>1. TypeOK /\ Ordered
  BY DEF IInv
<1>2. PICK r \in Results, eligible \in BOOLEAN :
         /\ End("owner-addition", r)
         /\ eligible => prepared
         /\ addition' = IF eligible THEN "ELIGIBLE" ELSE ""
  BY DEF AdditionEnds
<1>3. UNCHANGED <<subject, live, cancelled, policy, review, prepared, amendment,
                  conclusion, verification>>
  BY DEF AdditionEnds
<1>4. /\ job' \in [Jobs -> Ended \cup {"waiting", "running"}]
      /\ job["owner-addition"] = "running" /\ job'["owner-addition"] = r
      /\ \A j \in Jobs \ {"owner-addition"} : job'[j] = job[j]
      /\ \A j \in Jobs : Begun(j)' <=> Begun(j)
      /\ Ordered'
  BY <1>1, <1>2, EndingJob DEF Jobs
<1>5. ~Begun("owner-amendment") /\ ~Begun("report") /\ ~Begun("accept")
  BY <1>1, <1>4, Downstream DEF Ended, Jobs
<1>6. r \in Finished
  BY DEF Results, Finished
<1>7. TypeOK'
  <2>1. policy' \in {Unresolved, Resolve(branch')}
    BY <1>1, <1>3 DEF TypeOK, subject
  <2>2. live' \in BOOLEAN /\ cancelled' \in BOOLEAN /\ prepared' \in BOOLEAN
    BY <1>1, <1>3 DEF TypeOK
  <2> QED BY <1>1, <1>2, <1>3, <1>4, <2>1, <2>2 DEF TypeOK, subject, review
<1>8. Settled'
  BY <1>3, <1>4 DEF IInv, Settled, subject, Jobs
<1>9. Selected'
  BY <1>3, <1>4 DEF IInv, Selected, subject, Jobs
<1>10. HandedOver'
  BY <1>3, <1>4 DEF IInv, HandedOver, Identifying, Comparison, subject, review, Jobs
<1>11. Qualified'
  <2>1. addition' = "ELIGIBLE" => prepared'
    BY <1>2, <1>3
  <2>2. amendment = "" /\ verification = ""
    BY <1>1, <1>5 DEF IInv, Qualified, TypeOK, Begun
  <2> QED BY <1>3, <1>4, <1>6, <2>1, <2>2 DEF IInv, Qualified, NamesMissingDecision,
          subject, review, Jobs
<1>12. Reported' /\ Justified'
  BY <1>3, <1>4, <1>5 DEF IInv, Reported, ReportKeepsDecision, PassSurvivesSuppression,
     Justified, Jobs, Begun, Finished, Decisions
<1> QED BY <1>4, <1>7, <1>8, <1>9, <1>10, <1>11, <1>12 DEF IInv

LEMMA AmendmentInv ==
    ASSUME IInv, AmendmentEnds
    PROVE  IInv'
<1>1. TypeOK /\ Ordered
  BY DEF IInv
<1>2. PICK r \in Results, answer \in {"", "ELIGIBLE", "INELIGIBLE"} :
         /\ End("owner-amendment", r)
         /\ answer # "" => candidate = "authority"
         /\ amendment' = answer
  BY DEF AmendmentEnds
<1>3. UNCHANGED <<subject, live, cancelled, policy, review, prepared, addition,
                  conclusion, verification>>
  BY DEF AmendmentEnds
<1>4. /\ job' \in [Jobs -> Ended \cup {"waiting", "running"}]
      /\ job["owner-amendment"] = "running" /\ job'["owner-amendment"] = r
      /\ \A j \in Jobs \ {"owner-amendment"} : job'[j] = job[j]
      /\ \A j \in Jobs : Begun(j)' <=> Begun(j)
      /\ Ordered'
  BY <1>1, <1>2, EndingJob DEF Jobs
<1>5. ~Begun("accept")
  BY <1>1, <1>4, Downstream DEF Ended, Jobs
<1>6. r \in Finished
  BY DEF Results, Finished
<1>7. TypeOK'
  <2>1. policy' \in {Unresolved, Resolve(branch')}
    BY <1>1, <1>3 DEF TypeOK, subject
  <2>2. live' \in BOOLEAN /\ cancelled' \in BOOLEAN /\ prepared' \in BOOLEAN
    BY <1>1, <1>3 DEF TypeOK
  <2> QED BY <1>1, <1>2, <1>3, <1>4, <2>1, <2>2 DEF TypeOK, subject, review
<1>8. Settled'
  BY <1>3, <1>4 DEF IInv, Settled, subject, Jobs
<1>9. Selected'
  BY <1>3, <1>4 DEF IInv, Selected, subject, Jobs
<1>10. HandedOver'
  BY <1>3, <1>4 DEF IInv, HandedOver, Identifying, Comparison, subject, review, Jobs
<1>11. Qualified'
  <2>1. amendment' # "" => candidate' = "authority"
    BY <1>2, <1>3 DEF subject
  <2>2. verification = ""
    BY <1>1, <1>5 DEF IInv, Qualified, TypeOK, Begun
  <2> QED BY <1>3, <1>4, <1>6, <2>1, <2>2 DEF IInv, Qualified, NamesMissingDecision,
          subject, review, Jobs
<1>12. Reported'
  BY <1>3, <1>4 DEF IInv, Reported, ReportKeepsDecision, PassSurvivesSuppression,
     NamesMissingDecision, ReviewJob, SelfEnforced, Identifying, subject, review, Jobs
<1>13. Justified'
  BY <1>4, <1>5 DEF Justified, Jobs, Begun, Finished
<1> QED BY <1>4, <1>7, <1>8, <1>9, <1>10, <1>11, <1>12, <1>13 DEF IInv

\* classifyReview returns a decision only as the reviewer's own.
LEMMA ClassifyFacts ==
    ASSUME NEW t
    PROVE  /\ Classify(t) \in Decisions \cup
                {"ERROR", "WAIVED", "OWNER_ADDITION_G0", "OWNER_ADDITION_G0_PENDING"}
           /\ Classify(t) \in Decisions => job["review"] = "success" /\ t.kind = Classify(t)
           /\ Classify(t) \in {"OWNER_ADDITION_G0", "OWNER_ADDITION_G0_PENDING"} =>
                 NamesMissingDecision(t) /\ addition = "ELIGIBLE"
<1>1. CASE job["policy"] # "success" \/ policy.mode = "local-only"
  BY <1>1 DEF Classify, Decisions
<1>2. CASE ~(job["policy"] # "success" \/ policy.mode = "local-only")
  <2>1. CASE job["review"] # "success" \/ t.kind \notin Decisions
    BY <1>2, <2>1 DEF Classify, Decisions
  <2>2. CASE job["review"] = "success" /\ t.kind \in Decisions /\ ~AdditionCompleted(t)
    BY <1>2, <2>2 DEF Classify, Decisions
  <2>3. CASE job["review"] = "success" /\ t.kind \in Decisions /\ AdditionCompleted(t)
    <3>1. Classify(t) \in {"OWNER_ADDITION_G0", "OWNER_ADDITION_G0_PENDING"}
      BY <1>2, <2>3 DEF Classify
    <3>2. NamesMissingDecision(t) /\ addition = "ELIGIBLE"
      BY <2>3 DEF AdditionCompleted
    <3> QED BY <3>1, <3>2 DEF Decisions
  <2> QED BY <2>1, <2>2, <2>3
<1> QED BY <1>1, <1>2

LEMMA ReportInv ==
    ASSUME IInv, ReportEnds
    PROVE  IInv'
<1>1. TypeOK /\ Ordered
  BY DEF IInv
<1>2. PICK r \in Results, written \in BOOLEAN :
         /\ End("report", r)
         /\ written => Reportable
         /\ r = "success" => written
         /\ conclusion' = IF written THEN Conclusion ELSE ""
  BY DEF ReportEnds
<1>3. UNCHANGED <<subject, live, cancelled, policy, review, procedures, verification>>
  BY DEF ReportEnds
<1>4. /\ job' \in [Jobs -> Ended \cup {"waiting", "running"}]
      /\ job["report"] = "running" /\ job'["report"] = r
      /\ \A j \in Jobs \ {"report"} : job'[j] = job[j]
      /\ \A j \in Jobs : Begun(j)' <=> Begun(j)
      /\ Ordered'
  BY <1>1, <1>2, EndingJob DEF Jobs
<1>5. ~Begun("accept")
  BY <1>1, <1>4, Downstream DEF Ended, Jobs
<1>6. r \in Finished
  BY DEF Results, Finished
<1> DEFINE t == IF DisplaySelected THEN said ELSE text
<1>7. t # Nothing => t = said
  BY DEF IInv, HandedOver
<1>8. /\ policy.provider = "gemini" => Conclusion = display
      /\ policy.provider # "gemini" => Conclusion = Classify(t)
  BY DEF Conclusion
<1>9. /\ conclusion' \in Optional(Decisions) \cup
           {"ERROR", "WAIVED", "OWNER_ADDITION_G0", "OWNER_ADDITION_G0_PENDING"}
  <2>1. CASE policy.provider = "gemini"
    BY <1>1, <1>2, <1>8, <2>1 DEF TypeOK, Optional
  <2>2. CASE policy.provider # "gemini"
    BY <1>2, <1>8, <2>2, ClassifyFacts DEF Optional
  <2> QED BY <2>1, <2>2
<1>10. TypeOK'
  <2>1. policy' \in {Unresolved, Resolve(branch')}
    BY <1>1, <1>3 DEF TypeOK, subject
  <2>2. live' \in BOOLEAN /\ cancelled' \in BOOLEAN /\ prepared' \in BOOLEAN
    BY <1>1, <1>3 DEF TypeOK, procedures
  <2> QED BY <1>1, <1>3, <1>4, <1>9, <2>1, <2>2 DEF TypeOK, subject, review, procedures
<1>11. Settled'
  BY <1>3, <1>4 DEF IInv, Settled, subject, Jobs
<1>12. Selected'
  BY <1>3, <1>4 DEF IInv, Selected, subject, Jobs
<1>13. HandedOver'
  BY <1>3, <1>4 DEF IInv, HandedOver, Identifying, Comparison, subject, review, Jobs
<1>14. Qualified'
  BY <1>3, <1>4 DEF IInv, Qualified, NamesMissingDecision, subject, review, procedures, Jobs
<1>15. ReportKeepsDecision'
  <2>1. CASE ~written
    BY <1>2, <2>1 DEF ReportKeepsDecision, Decisions
  <2>2. CASE written /\ policy.provider = "gemini"
    <3>1. /\ conclusion' = display /\ display \in Decisions
          /\ job["gemini-review"] = "success"
      BY <1>2, <1>8, <2>2 DEF Reportable
    <3>2. display = said.kind
      BY <3>1 DEF IInv, HandedOver, Decisions
    <3>3. said' = said /\ policy' = policy /\ job'["gemini-review"] = "success"
      BY <1>3, <1>4, <3>1 DEF review, Jobs
    <3>4. ReviewJob' = "gemini-review"
      BY <2>2, <3>3 DEF ReviewJob
    <3> QED BY <3>1, <3>2, <3>3, <3>4 DEF ReportKeepsDecision, Decisions
  <2>3. CASE written /\ policy.provider # "gemini"
    <3>1. conclusion' = Classify(t)
      BY <1>2, <1>8, <2>3
    <3>2. said' = said /\ policy' = policy /\ addition' = addition
          /\ job'["review"] = job["review"]
      BY <1>3, <1>4 DEF review, procedures, Jobs
    <3>3. ReviewJob' = "review"
      BY <2>3, <3>2 DEF ReviewJob
    <3>4. t.kind # "" => t = said
      <4> HIDE DEF t
      <4>1. Nothing.kind = ""
        BY DEF Nothing
      <4> QED BY <1>7, <4>1
    <3>5. conclusion' \in Decisions => said.kind = conclusion' /\ job["review"] = "success"
      BY <3>1, <3>4, ClassifyFacts DEF Decisions
    <3>6. conclusion' \in {"OWNER_ADDITION_G0", "OWNER_ADDITION_G0_PENDING"} =>
            NamesMissingDecision(said) /\ addition = "ELIGIBLE"
      <4>1. NamesMissingDecision(t) => t = said
        BY <3>4 DEF NamesMissingDecision
      <4> QED BY <3>1, <4>1, ClassifyFacts
    <3> QED BY <3>2, <3>3, <3>5, <3>6 DEF ReportKeepsDecision, NamesMissingDecision
  <2> QED BY <2>1, <2>2, <2>3
<1>16. PassSurvivesSuppression'
  <2>1. SUFFICES ASSUME job["review"] = "success", r = "success",
                        SelfEnforced, Identifying, said.kind = "PASS"
                 PROVE  conclusion' = "PASS"
    BY <1>3, <1>4 DEF PassSurvivesSuppression, SelfEnforced, Identifying, subject, review, Jobs
  <2>2. kind = "PASS"
    BY <2>1 DEF IInv, HandedOver
  <2>3. job["policy"] = "success" /\ policy.provider # "gemini"
    BY <2>1 DEF IInv, Selected, Begun, Finished
  <2>4. Shown(kind)
    BY <2>1, <2>2 DEF Shown
  <2>5. DisplaySelected
    BY <2>4 DEF DisplaySelected
  <2>6. conclusion' = Classify(said)
    BY <1>2, <1>8, <2>1, <2>3, <2>5
  <2>7. policy.mode = "enforced"
    BY <2>1 DEF SelfEnforced
  <2>8. ~AdditionCompleted(said)
    BY <2>1 DEF AdditionCompleted, NamesMissingDecision
  <2>9. Classify(said) = said.kind
    BY <2>1, <2>3, <2>7, <2>8 DEF Classify, Decisions
  <2> QED BY <2>1, <2>6, <2>9
<1>17. Reported'
  BY <1>4, <1>6, <1>15, <1>16 DEF Reported
<1>18. Justified'
  BY <1>4, <1>5 DEF Justified, Jobs, Begun, Finished
<1> QED BY <1>4, <1>10, <1>11, <1>12, <1>13, <1>14, <1>17, <1>18 DEF IInv

LEMMA DisplacedInv ==
    ASSUME IInv, ReportDisplaced
    PROVE  IInv'
<1>1. TypeOK /\ Ordered
  BY DEF IInv
<1>2. /\ job["report"] = "waiting"
      /\ \A n \in Needs["report"] : job[n] \in Ended
  BY DEF ReportDisplaced
<1>3. UNCHANGED <<subject, live, cancelled, policy, review, procedures,
                  conclusion, verification>>
  BY DEF ReportDisplaced
<1>4. /\ job' \in [Jobs -> Ended \cup {"waiting", "running"}]
      /\ job'["report"] = "cancelled"
      /\ \A j \in Jobs \ {"report"} : job'[j] = job[j]
  BY <1>1 DEF TypeOK, ReportDisplaced, Ended, Jobs
<1>5. \A j \in Jobs \ {"report"} : Begun(j)' <=> Begun(j)
  BY <1>4 DEF Begun
<1>6. Ordered'
  <2>1. \A j \in Jobs : job[j] \in Ended => job'[j] \in Ended
    BY <1>4 DEF Ended
  <2>2. job'["accept"] # "skipped"
    BY <1>1, <1>4 DEF Ordered, Jobs
  <2>3. \A j \in Jobs : Begun(j)' => \A n \in Needs[j] : job[n] \in Ended
    BY <1>1, <1>2, <1>5 DEF Ordered
  <2> QED BY <2>1, <2>2, <2>3, NeedsFacts DEF Ordered
<1>7. ~Begun("accept")
  BY <1>1, <1>2, Downstream DEF Ended, Jobs
<1>8. conclusion = ""
  BY <1>2 DEF IInv, Reported, Finished
<1>10. TypeOK'
  <2>1. policy' \in {Unresolved, Resolve(branch')}
    BY <1>1, <1>3 DEF TypeOK, subject
  <2>2. live' \in BOOLEAN /\ cancelled' \in BOOLEAN /\ prepared' \in BOOLEAN
    BY <1>1, <1>3 DEF TypeOK, procedures
  <2> QED BY <1>1, <1>3, <1>4, <2>1, <2>2 DEF TypeOK, subject, review, procedures
<1>11. Settled'
  BY <1>3, <1>4 DEF IInv, Settled, subject, Jobs
<1>12. Selected'
  BY <1>3, <1>4, <1>5 DEF IInv, Selected, subject, Jobs
<1>13. HandedOver'
  BY <1>3, <1>4 DEF IInv, HandedOver, Identifying, Comparison, subject, review, Jobs
<1>14. Qualified'
  BY <1>3, <1>4, <1>5 DEF IInv, Qualified, NamesMissingDecision, subject, review,
     procedures, Jobs
<1>15. Reported' /\ Justified'
  BY <1>3, <1>4, <1>7, <1>8 DEF Reported, ReportKeepsDecision, PassSurvivesSuppression,
     Justified, Jobs, Begun, Finished, Decisions
<1> QED BY <1>6, <1>10, <1>11, <1>12, <1>13, <1>14, <1>15 DEF IInv

\* The verification re-reads what the amendment rests on.
LEMMA VerifyInv ==
    ASSUME IInv, VerifyAmendment
    PROVE  IInv'
<1>1. TypeOK
  BY DEF IInv
<1>2. /\ job["accept"] = "running" /\ addition # "ELIGIBLE"
      /\ verification' \in {"success", "failure"}
      /\ verification' = "success" => amendment = "ELIGIBLE"
  BY DEF VerifyAmendment, AmendmentDue
<1>3. UNCHANGED <<subject, live, cancelled, job, policy, review, procedures, conclusion>>
  BY DEF VerifyAmendment
<1>4. TypeOK'
  <2>1. policy' \in {Unresolved, Resolve(branch')}
    BY <1>1, <1>3 DEF TypeOK, subject
  <2>2. live' \in BOOLEAN /\ cancelled' \in BOOLEAN /\ prepared' \in BOOLEAN
    BY <1>1, <1>3 DEF TypeOK, procedures
  <2> QED BY <1>1, <1>2, <1>3, <2>1, <2>2 DEF TypeOK, subject, review, procedures
<1>5. Ordered' /\ Settled' /\ Selected'
  BY <1>3 DEF IInv, Ordered, Settled, Selected, Begun, subject
<1>6. HandedOver'
  BY <1>3 DEF IInv, HandedOver, Identifying, Comparison, subject, review
<1>7. Qualified'
  BY <1>2, <1>3 DEF IInv, Qualified, NamesMissingDecision, Begun, subject, review, procedures
<1>8. Reported'
  BY <1>3 DEF IInv, Reported, ReportKeepsDecision, PassSurvivesSuppression,
     NamesMissingDecision, ReviewJob, SelfEnforced, Identifying, subject, review, procedures
<1>9. Justified'
  BY <1>2, <1>3 DEF Justified
<1> QED BY <1>4, <1>5, <1>6, <1>7, <1>8, <1>9 DEF IInv

\* What accept admits has grounds.
LEMMA AcceptableGrounds ==
    ASSUME IInv, Acceptable
    PROVE  Grounds
<1>1. /\ policy.mode \in {"local-only", "enforced", "procedural"}
      /\ job["policy"] = "success"
  BY DEF Acceptable, Admitted
<1>2. /\ policy.mode = branch.mode
      /\ policy.g0 = (branch.ownerAddition # "none")
      /\ policy.protectedPr = branch.ownerAmendment
      /\ branch.ownerAmendment => caller = Self
  BY <1>1, PolicyFacts DEF IInv, Settled
<1>3. changed \in {"true", "false"} => changed = Comparison
  BY DEF IInv, HandedOver
<1>4. AdditionEligible /\ conclusion \in {"OWNER_ADDITION_G0", "OWNER_ADDITION_G0_PENDING"}
      => Grounds
  <2>1. SUFFICES ASSUME AdditionEligible,
                        conclusion \in {"OWNER_ADDITION_G0", "OWNER_ADDITION_G0_PENDING"}
                 PROVE  Grounds
    OBVIOUS
  <2>2. NamesMissingDecision(said) /\ addition = "ELIGIBLE"
    BY <2>1 DEF IInv, Reported, ReportKeepsDecision
  <2>3. candidate = "authority"
    BY <2>2 DEF IInv, Qualified
  <2>4. branch.ownerAddition # "none"
    BY <2>1, <1>2 DEF AdditionEligible
  <2> QED BY <2>2, <2>3, <2>4 DEF Grounds
<1>5. conclusion = "PASS" => said.kind = "PASS"
  BY DEF IInv, Reported, ReportKeepsDecision, Decisions
<1>6. CASE policy.mode = "local-only"
  BY <1>2, <1>6 DEF Grounds
<1>7. CASE policy.mode = "enforced"
  <2> DEFINE compare == caller = Self \/ policy.protectedPr
  <2>1. /\ compare => changed \in {"true", "false"}
        /\ \/ conclusion = "OWNER_ADDITION_G0" /\ AdditionEligible
           \/ policy.protectedPr /\ verification = "success"
           \/ ~(changed = "true" /\ compare) /\ conclusion = "PASS"
    BY <1>7 DEF Acceptable, EnforcedAcceptance
  <2>2. CASE conclusion = "OWNER_ADDITION_G0" /\ AdditionEligible
    BY <1>4, <2>2
  <2>3. CASE policy.protectedPr /\ verification = "success"
    <3>1. amendment = "ELIGIBLE" /\ candidate = "authority"
      BY <2>3 DEF IInv, Qualified
    <3> QED BY <1>2, <2>3, <3>1 DEF Grounds
  <2>4. CASE ~(changed = "true" /\ compare) /\ conclusion = "PASS"
    <3>1. caller = Self => candidate = "code"
      BY <1>3, <2>1, <2>4 DEF Comparison
    <3>2. ~Guarded
      BY <1>2, <1>7, <3>1 DEF Guarded
    <3> QED BY <1>5, <2>4, <3>2 DEF Grounds
  <2> QED BY <2>1, <2>2, <2>3, <2>4
<1>8. CASE policy.mode = "procedural"
  <2>1. \/ changed = "false" /\ conclusion = "PASS"
        \/ conclusion = "OWNER_ADDITION_G0_PENDING" /\ AdditionEligible
    BY <1>8 DEF Acceptable, ProceduralAcceptance
  <2>2. CASE changed = "false" /\ conclusion = "PASS"
    BY <1>3, <1>5, <2>2 DEF Comparison, Guarded, Grounds
  <2> QED BY <1>4, <2>1, <2>2
<1> QED BY <1>1, <1>6, <1>7, <1>8

LEMMA AcceptInv ==
    ASSUME IInv, AcceptEnds
    PROVE  IInv'
<1>1. TypeOK /\ Ordered
  BY DEF IInv
<1>2. PICK r \in Results : End("accept", r) /\ (r = "success" => Acceptable)
  BY DEF AcceptEnds
<1>3. UNCHANGED <<subject, live, cancelled, policy, review, procedures,
                  conclusion, verification>>
  BY DEF AcceptEnds
<1>4. /\ job' \in [Jobs -> Ended \cup {"waiting", "running"}]
      /\ job["accept"] = "running" /\ job'["accept"] = r
      /\ \A j \in Jobs \ {"accept"} : job'[j] = job[j]
      /\ \A j \in Jobs : Begun(j)' <=> Begun(j)
      /\ Ordered'
  BY <1>1, <1>2, EndingJob DEF Jobs
<1>5. TypeOK'
  <2>1. policy' \in {Unresolved, Resolve(branch')}
    BY <1>1, <1>3 DEF TypeOK, subject
  <2>2. live' \in BOOLEAN /\ cancelled' \in BOOLEAN /\ prepared' \in BOOLEAN
    BY <1>1, <1>3 DEF TypeOK, procedures
  <2> QED BY <1>1, <1>3, <1>4, <2>1, <2>2 DEF TypeOK, subject, review, procedures
<1>6. Settled'
  BY <1>3, <1>4 DEF IInv, Settled, subject, Jobs
<1>7. Selected'
  BY <1>3, <1>4 DEF IInv, Selected, subject, Jobs
<1>8. HandedOver'
  BY <1>3, <1>4 DEF IInv, HandedOver, Identifying, Comparison, subject, review, Jobs
<1>9. Qualified'
  BY <1>3, <1>4 DEF IInv, Qualified, NamesMissingDecision, subject, review, procedures, Jobs
<1>10. Reported'
  BY <1>3, <1>4 DEF IInv, Reported, ReportKeepsDecision, PassSurvivesSuppression,
     NamesMissingDecision, ReviewJob, SelfEnforced, Identifying, subject, review,
     procedures, Jobs
<1>11. Justified'
  <2>1. r = "success" => Grounds
    BY <1>2, AcceptableGrounds
  <2>2. Grounds => Grounds'
    BY <1>3 DEF Grounds, Guarded, NamesMissingDecision, subject, review, procedures
  <2> QED BY <1>4, <2>1, <2>2 DEF Justified
<1> QED BY <1>4, <1>5, <1>6, <1>7, <1>8, <1>9, <1>10, <1>11 DEF IInv

\* A push, a cancellation and a stutter touch nothing the invariant reads.
LEMMA HostInv ==
    ASSUME IInv, Push \/ Cancel \/ UNCHANGED vars
    PROVE  IInv'
<1>1. TypeOK
  BY DEF IInv
<1>2. UNCHANGED <<subject, job, policy, review, procedures, conclusion, verification>>
  BY DEF Push, Cancel, vars
<1>3. live' \in BOOLEAN /\ cancelled' \in BOOLEAN /\ prepared' \in BOOLEAN
  BY <1>1, <1>2 DEF TypeOK, Push, Cancel, vars, procedures
<1>4. TypeOK'
  <2>1. policy' \in {Unresolved, Resolve(branch')}
    BY <1>1, <1>2 DEF TypeOK, subject
  <2> QED BY <1>1, <1>2, <1>3, <2>1 DEF TypeOK, subject, review, procedures
<1>5. Ordered' /\ Settled' /\ Selected'
  BY <1>2 DEF IInv, Ordered, Settled, Selected, Begun, subject
<1>6. HandedOver' /\ Qualified'
  BY <1>2 DEF IInv, HandedOver, Qualified, NamesMissingDecision, Identifying, Comparison,
     Begun, subject, review, procedures
<1>7. Reported'
  BY <1>2 DEF IInv, Reported, ReportKeepsDecision, PassSurvivesSuppression,
     NamesMissingDecision, ReviewJob, SelfEnforced, Identifying, subject, review, procedures
<1>8. Justified'
  BY <1>2 DEF IInv, Justified, Grounds, Guarded, NamesMissingDecision, subject, review,
     procedures
<1> QED BY <1>4, <1>5, <1>6, <1>7, <1>8 DEF IInv

\* The inductive invariant holds of every run.
THEOREM Invariance == Spec => []IInv
<1>1. IInv /\ [Next]_vars => IInv'
  BY BeginInv, PolicyInv, ReviewInv, GeminiInv, PrepareInv, AdditionInv, AmendmentInv,
     ReportInv, DisplacedInv, VerifyInv, AcceptInv, HostInv DEF Next, Ending
<1> QED BY <1>1, InitInv, PTL DEF Spec

\* Every job, output and outcome keeps to the values the workflow gives it.
THEOREM TypeCorrect == Spec => []TypeOK
<1>1. IInv => TypeOK
  BY DEF IInv
<1> QED BY <1>1, Invariance, PTL

\* An accepted run has grounds.
THEOREM AcceptanceJustified == Spec => []Justified
<1>1. IInv => Justified
  BY DEF IInv
<1> QED BY <1>1, Invariance, PTL

\* The report shows no decision but the reviewer's.
THEOREM DecisionKept == Spec => []ReportKeepsDecision
<1>1. IInv => ReportKeepsDecision
  BY DEF IInv, Reported
<1> QED BY <1>1, Invariance, PTL

\* An identified PASS of the self reviewer survives the suppression.
THEOREM PassKept == Spec => []PassSurvivesSuppression
<1>1. IInv => PassSurvivesSuppression
  BY DEF IInv, Reported
<1> QED BY <1>1, Invariance, PTL

-----------------------------------------------------------------------------
(* A run implements AcceptanceRoutes.                                      *)

\* The verdict is that of accept alone.
LEMMA VerdictFacts ==
    /\ Verdict = "accepted" <=> job["accept"] = "success"
    /\ job["accept"] \in {"waiting", "running"} => Verdict = "pending"
    /\ job["accept"] \in {"failure", "cancelled"} => Verdict = "refused"
BY DEF Verdict

\* A step that keeps accept, the decision and the procedure is a stutter.
LEMMA RoutesStutter ==
    ASSUME UNCHANGED <<subject, said, addition, verification>>,
           Verdict' = Verdict
    PROVE  UNCHANGED Routes!vars
BY DEF Routes!vars, Guarded, Decision, Procedure, subject

LEMMA RoutesInit == Init => Routes!Init
<1> SUFFICES ASSUME Init PROVE Routes!Init
  OBVIOUS
<1>1. Decision = "none"
  BY DEF Init, Decision, Nothing
<1>2. Procedure = "none" /\ Verdict = "pending"
  BY DEF Init, Procedure, Verdict, Jobs
<1>3. Guarded \in BOOLEAN
  BY DEF Guarded
<1>4. (branch.mode = "local-only") \in BOOLEAN
  OBVIOUS
<1> QED BY <1>1, <1>2, <1>3, <1>4 DEF Routes!Init

\* Before its job ends the ordinary reviewer has returned nothing.
LEMMA ReviewerWasSilent ==
    ASSUME IInv, ReviewEnds \/ GeminiEnds
    PROVE  said = Nothing
<1>1. CASE ReviewEnds
  <2>1. job["review"] = "running"
    BY <1>1 DEF ReviewEnds, End
  <2>2. ~Begun("gemini-review")
    BY <2>1 DEF IInv, Selected, Begun
  <2> QED BY <2>1, <2>2 DEF IInv, HandedOver, Begun, Finished
<1>2. CASE GeminiEnds
  <2>1. job["gemini-review"] = "running"
    BY <1>2 DEF GeminiEnds, End
  <2>2. ~Begun("review")
    BY <2>1 DEF IInv, Selected, Begun
  <2> QED BY <2>1, <2>2 DEF IInv, HandedOver, Begun, Finished
<1> QED BY <1>1, <1>2

\* Every step of a run is a step of the routes or a stutter.
LEMMA RoutesStep == IInv /\ [Next]_vars => [Routes!Next]_(Routes!vars)
<1> SUFFICES ASSUME IInv, [Next]_vars PROVE [Routes!Next]_(Routes!vars)
  OBVIOUS
<1>1. TypeOK /\ Ordered
  BY DEF IInv
<1>2. ASSUME job'["accept"] = job["accept"] PROVE Verdict' = Verdict
  BY <1>2 DEF Verdict
<1>3. CASE \E j \in Jobs : Begin(j)
  <2>1. PICK j \in Jobs : Begin(j)
    BY <1>3
  <2>2. UNCHANGED <<subject, said, addition, verification>>
    BY <2>1 DEF Begin, review, procedures
  <2>3. CASE j = "accept"
    <3>1. job["accept"] = "waiting" /\ job'["accept"] = "running"
      BY <1>1, <2>1, <2>3 DEF TypeOK, Begin, Wanted
    <3>2. Verdict = "pending" /\ Verdict' = "pending"
      BY <3>1 DEF Verdict
    <3> QED BY <2>2, <3>2, RoutesStutter
  <2>4. CASE j # "accept"
    BY <1>1, <1>2, <2>1, <2>2, <2>4, BeginningJob, RoutesStutter DEF Jobs
  <2> QED BY <2>3, <2>4
<1>4. CASE PolicyEnds \/ AmendmentEnds \/ ReportEnds
  <2>1. UNCHANGED <<subject, said, addition, verification>>
    BY <1>4 DEF PolicyEnds, AmendmentEnds, ReportEnds, review, procedures
  <2>2. job'["accept"] = job["accept"]
    BY <1>1, <1>4 DEF TypeOK, PolicyEnds, AmendmentEnds, ReportEnds, End, Jobs
  <2> QED BY <1>2, <2>1, <2>2, RoutesStutter
<1>5. CASE AdditionPrepares \/ ReportDisplaced \/ Push \/ Cancel \/ UNCHANGED vars
  <2>1. UNCHANGED <<subject, said, addition, verification>>
    BY <1>5 DEF AdditionPrepares, ReportDisplaced, Push, Cancel, vars, review, procedures
  <2>2. job'["accept"] = job["accept"]
    BY <1>1, <1>5 DEF TypeOK, AdditionPrepares, ReportDisplaced, Push, Cancel, vars, Jobs
  <2> QED BY <1>2, <2>1, <2>2, RoutesStutter
<1>6. UNCHANGED subject => UNCHANGED <<branch, Guarded>>
  BY DEF subject, Guarded
<1>7. CASE ReviewEnds \/ GeminiEnds
  <2>1. PICK k \in {"review", "gemini-review"}, r \in Results, answer \in Answers :
           End(k, r) /\ (said' = answer \/ said' = said)
    BY <1>7 DEF ReviewEnds, GeminiEnds
  <2>2. UNCHANGED <<subject, addition, verification>>
    BY <1>7 DEF ReviewEnds, GeminiEnds, procedures
  <2>3. job[k] = "running" /\ job'["accept"] = job["accept"]
    BY <1>1, <2>1 DEF TypeOK, End, Jobs
  <2>4. job["accept"] = "waiting"
    <3>1. ~Begun("accept")
      BY <1>1, <2>3, Downstream DEF Ended, Jobs
    <3> QED BY <1>1, <3>1 DEF TypeOK, Ordered, Begun, Finished, Ended, Jobs
  <2>5. said = Nothing
    BY <1>1, <1>7, <2>3, ReviewerWasSilent
  <2>6. Verdict = "pending" /\ Verdict' = Verdict /\ Procedure' = Procedure
    BY <1>2, <2>2, <2>3, <2>4, VerdictFacts DEF Procedure
  <2>7. CASE said' = said
    BY <2>2, <2>6, <2>7, RoutesStutter
  <2>8. CASE said' = answer
    <3>1. answer.kind \in {"PASS", "BLOCK", "OWNER_DECISION", "INVALID"}
      BY GateAssumption DEF Texts, Decisions
    <3>2. Decision = "none" /\ Decision' = answer.kind
      BY <2>5, <2>8, <3>1 DEF Decision, Nothing
    <3> QED BY <1>6, <2>2, <2>6, <3>1, <3>2 DEF Routes!Next, Routes!Review
  <2> QED BY <2>1, <2>7, <2>8
<1>8. CASE AdditionEnds
  <2>1. PICK r \in Results, eligible \in BOOLEAN :
           /\ End("owner-addition", r)
           /\ eligible => prepared
           /\ addition' = IF eligible THEN "ELIGIBLE" ELSE ""
    BY <1>8 DEF AdditionEnds
  <2>2. UNCHANGED <<subject, said, verification>>
    BY <1>8 DEF AdditionEnds, review
  <2>3. job["owner-addition"] = "running" /\ job'["accept"] = job["accept"]
    BY <1>1, <2>1 DEF TypeOK, End, Jobs
  <2>4. ~Begun("accept")
    BY <1>1, <2>3, Downstream DEF Ended, Jobs
  <2>5. job["accept"] = "waiting"
    BY <1>1, <2>4 DEF TypeOK, Ordered, Begun, Finished, Ended, Jobs
  <2>6. addition = "" /\ verification = ""
    BY <1>1, <2>3, <2>4 DEF IInv, Qualified, TypeOK, Finished
  <2>7. /\ Verdict = "pending" /\ Verdict' = Verdict
        /\ Procedure = "none" /\ Decision' = Decision
    BY <1>2, <2>2, <2>3, <2>5, <2>6, VerdictFacts DEF Procedure, Decision
  <2>8. CASE ~eligible
    BY <2>1, <2>2, <2>6, <2>7, <2>8, RoutesStutter
  <2>9. CASE eligible
    <3>1. Procedure' = "addition"
      BY <2>1, <2>9 DEF Procedure
    <3>2. NamesMissingDecision(text)
      BY <2>1, <2>9 DEF IInv, Qualified
    <3>3. text # Nothing
      <4>1. Nothing.kind = "" /\ text.kind = "OWNER_DECISION"
        BY <3>2 DEF NamesMissingDecision, Nothing
      <4> QED BY <4>1
    <3>4. text = said
      BY <3>3 DEF IInv, HandedOver
    <3>5. Decision = "OWNER_DECISION"
      BY <3>2, <3>4 DEF NamesMissingDecision, Decision
    <3> QED BY <1>6, <2>2, <2>7, <3>1, <3>5 DEF Routes!Next, Routes!Qualify
  <2> QED BY <2>8, <2>9
<1>9. CASE VerifyAmendment
  <2>1. /\ job["accept"] = "running" /\ verification = ""
        /\ Admitted /\ AmendmentDue
        /\ verification' \in {"success", "failure"}
        /\ verification' = "success" => amendment = "ELIGIBLE"
    BY <1>9 DEF VerifyAmendment
  <2>2. UNCHANGED <<subject, said, addition, job>>
    BY <1>9 DEF VerifyAmendment, review, procedures
  <2>3. addition # "ELIGIBLE"
    BY <2>1 DEF AmendmentDue
  <2>4. /\ Verdict = "pending" /\ Verdict' = Verdict
        /\ Procedure = "none" /\ Decision' = Decision
    BY <1>2, <2>1, <2>2, <2>3, VerdictFacts DEF Procedure, Decision
  <2>5. CASE verification' = "failure"
    <3>1. Procedure' = "none"
      BY <2>2, <2>3, <2>5 DEF Procedure
    <3>2. UNCHANGED <<branch, Guarded, Decision, Procedure, Verdict>>
      BY <1>6, <2>2, <2>4, <3>1
    <3> QED BY <3>2 DEF Routes!vars
  <2>6. CASE verification' = "success"
    <3>1. Procedure' = "amendment"
      BY <2>2, <2>3, <2>6 DEF Procedure
    <3>2. Guarded
      <4>1. candidate # "code"
        BY <2>1 DEF IInv, HandedOver, AmendmentDue, Comparison
      <4>2. policy.protectedPr = branch.ownerAmendment
        <5>1. policy.mode # ""
          BY <2>1 DEF Admitted
        <5> QED BY <1>1, <5>1, PolicyFacts
      <4>3. caller = Self
        BY <2>1, <4>2 DEF IInv, Settled, Admitted, AmendmentDue
      <4> QED BY <4>1, <4>3 DEF Guarded
    <3>3. Decision # "none"
      <4>1. job["review"] = "success"
        BY <2>1, <2>6 DEF IInv, Qualified, Selected, Begun
      <4>2. said.kind \in Decisions \cup {"INVALID"}
        BY <1>1, <4>1 DEF IInv, HandedOver, TypeOK, Texts
      <4> QED BY <4>2 DEF Decision, Decisions
    <3> QED BY <1>6, <2>2, <2>4, <3>1, <3>2, <3>3 DEF Routes!Next, Routes!Qualify
  <2> QED BY <2>1, <2>5, <2>6
<1>10. CASE AcceptEnds
  <2>1. PICK r \in Results : End("accept", r) /\ (r = "success" => Acceptable)
    BY <1>10 DEF AcceptEnds
  <2>2. UNCHANGED <<subject, said, addition, verification>>
    BY <1>10 DEF AcceptEnds, review, procedures
  <2>3. job["accept"] = "running" /\ job'["accept"] = r
    BY <1>1, <2>1 DEF TypeOK, End, Jobs
  <2>4. /\ Verdict = "pending"
        /\ Decision' = Decision /\ Procedure' = Procedure
    BY <2>2, <2>3, VerdictFacts DEF Procedure, Decision
  <2>5. CASE r = "success"
    <3>1. Verdict' = "accepted"
      BY <2>3, <2>5 DEF Verdict
    <3>2. Grounds
      BY <2>1, <2>5, AcceptableGrounds
    <3>3. \/ branch.mode = "local-only"
          \/ Decision = "PASS" /\ ~Guarded
          \/ Procedure # "none"
      BY <3>2 DEF Grounds, Decision, Procedure
    <3> QED BY <1>6, <2>2, <2>4, <3>1, <3>3 DEF Routes!Next, Routes!Accept
  <2>6. CASE r # "success"
    <3>1. Verdict' = "refused"
      BY <2>3, <2>6 DEF Verdict, Results
    <3> QED BY <1>6, <2>2, <2>4, <3>1 DEF Routes!Next, Routes!Refuse
  <2> QED BY <2>5, <2>6
<1> QED BY <1>3, <1>4, <1>5, <1>7, <1>8, <1>9, <1>10 DEF Next, Ending

\* A run implements the routes to acceptance.
THEOREM RoutesRefined == Spec => OneVerdict
<1> QED BY RoutesInit, RoutesStep, Invariance, PTL DEF Spec, OneVerdict, Routes!Spec
=============================================================================
