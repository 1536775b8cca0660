----------------------------- MODULE ReportText -----------------------------
(***************************************************************************)
(* What src/src/ci-review/ci-report.mts computes before it publishes: the  *)
(* lines of a file an inline finding may name, read from the patch GitHub  *)
(* returns, and the report, whose parts are fitted into a maximum length.  *)
(* A patch is a sequence of rows, a text is its length. The variables let  *)
(* TLC cut a patch where GitHub may cut it and grow a report finding by    *)
(* finding.                                                                *)
(***************************************************************************)
EXTENDS Integers, FiniteSets, Sequences, SequencesExt

CONSTANTS
    Scripts,        \* the edits of a file: sequences of "add", "del", "same"
    Drafts,         \* the parts of a report besides its findings
    FindingTexts    \* lengths of a finding's texts

VARIABLES
    patch,      \* the file as the pull request API returns it
    truth,      \* the file as it really is
    draft       \* the parts of a report and its findings

vars == <<patch, truth, draft>>

-----------------------------------------------------------------------------
\* changedLines

Rows == {"hunk", "add", "del", "same", "mark", "other"}

NoLines == [added |-> {}, deleted |-> {}, trusted |-> FALSE]

Start ==
    [old |-> 0, new |-> 0, oldLeft |-> 0, newLeft |-> 0, hunk |-> FALSE,
     added |-> {}, deleted |-> {}, broken |-> FALSE]

\* Mutant: the rows of a hunk are not counted against its header.
HunkCloses(s) == TRUE

HunkFinished(s) == ~s.hunk \/ (s.oldLeft = 0 /\ s.newLeft = 0)

OldStep(s) == [s EXCEPT !.old = @ + 1, !.oldLeft = @ - 1]
NewStep(s) == [s EXCEPT !.new = @ + 1, !.newLeft = @ - 1]

ReadRow(s, row) ==
    IF s.broken THEN s
    ELSE IF row.kind = "hunk"
    THEN IF HunkFinished(s)
         THEN [s EXCEPT !.hunk = TRUE, !.old = row.old, !.new = row.new,
                        !.oldLeft = row.oldCount, !.newLeft = row.newCount]
         ELSE [s EXCEPT !.broken = TRUE]
    ELSE IF ~s.hunk THEN [s EXCEPT !.broken = TRUE]
    ELSE CASE row.kind = "mark" -> s
           [] row.kind = "add"  -> NewStep([s EXCEPT !.added = @ \cup {s.new}])
           [] row.kind = "del"  -> OldStep([s EXCEPT !.deleted = @ \cup {s.old}])
           [] row.kind = "same" -> OldStep(NewStep(s))
           [] OTHER             -> [s EXCEPT !.broken = TRUE]

ChangedLines(file) ==
    LET after[n \in 0 .. Len(file.rows)] ==
            IF n = 0 THEN Start ELSE ReadRow(after[n - 1], file.rows[n])
        s == after[Len(file.rows)]
    IN  IF /\ ~file.renamed /\ file.counted /\ file.rows # <<>>
           /\ ~s.broken /\ s.hunk /\ HunkFinished(s)
           /\ Cardinality(s.added) = file.additions
           /\ Cardinality(s.deleted) = file.deletions
        THEN [added |-> s.added, deleted |-> s.deleted, trusted |-> TRUE]
        ELSE NoLines

-----------------------------------------------------------------------------
\* renderFindings and renderReport, in characters.

MaxReport == 60000
MaxFindings == 20
Heading == 15
Explanation == 19
Truncation == 24
Ending == 49

Texts(d, part) == [i \in DOMAIN d.findings |-> d.findings[i][part]]
Smaller(m, n) == IF m < n THEN m ELSE n

\* Texts with an empty line between each two.
Joined(lengths) ==
    LET upTo[n \in 0 .. Len(lengths)] ==
            IF n = 0 THEN 0 ELSE upTo[n - 1] + (IF n = 1 THEN 0 ELSE 2) + lengths[n]
    IN  upTo[Len(lengths)]

FullFindings(d) == Heading + Joined(Texts(d, "full")) + d.footer

CoreFindings(d) == Heading + Joined(Texts(d, "core")) + d.compactFooter

Bodies(d) == Cardinality({i \in DOMAIN d.findings : d.findings[i].body > 0})

\* Each explanation takes an equal share of what is left when its turn comes.
GiveShare(s, body) ==
    LET share == Smaller(body, s.left \div s.bodies)
    IN  IF body = 0 THEN s
        ELSE [left |-> s.left - share, bodies |-> s.bodies - 1,
              length |-> s.length + Explanation + share + (IF share < body THEN 1 ELSE 0)]

CompactFindings(d, room) ==
    LET spare == room - CoreFindings(d) - Bodies(d) * (Explanation + 1)
        first == [left |-> IF spare > 0 THEN spare ELSE 0, bodies |-> Bodies(d),
                  length |-> CoreFindings(d)]
        after[n \in 0 .. Len(d.findings)] ==
            IF n = 0 THEN first ELSE GiveShare(after[n - 1], d.findings[n].body)
    IN  after[Len(d.findings)].length

\* No length: the report cannot be rendered.
RenderFindings(d, room) ==
    IF d.findings = <<>> THEN {0}
    ELSE IF FullFindings(d) <= room THEN {FullFindings(d)}
    ELSE IF CoreFindings(d) <= room THEN {CompactFindings(d, room)}
    ELSE {}

FitSection(section, room) == IF section <= room THEN section ELSE IF room <= 0 THEN 0 ELSE room

Mandatory(d) == d.fixed + d.required + Truncation + Ending

\* Mutant: what must be kept is not measured.
RenderUnmeasured(d) ==
    IF d.fixed + d.required + FullFindings(d) + d.optional + Ending <= MaxReport
    THEN {d.fixed + d.required + FullFindings(d) + d.optional + Ending}
    ELSE {Mandatory(d) + CompactFindings(d, MaxReport - Mandatory(d))}

RenderReport(d) ==
    LET full == IF d.findings = <<>> THEN 0 ELSE FullFindings(d)
        room == MaxReport - Mandatory(d)
    IN  IF d.fixed + d.required + full + d.optional + Ending <= MaxReport
        THEN {d.fixed + d.required + full + d.optional + Ending}
        ELSE {Mandatory(d) + n + FitSection(d.optional, room - n) :
                n \in IF room < 0 THEN {} ELSE RenderFindings(d, room)}

-----------------------------------------------------------------------------
Kinds(script, kind) == Cardinality({i \in DOMAIN script : script[i] = kind})

\* The hunk of a script that starts at a line, and the file it belongs to.
HunkOf(script, line) ==
    <<[kind |-> "hunk",
       old |-> line, oldCount |-> Len(script) - Kinds(script, "add"),
       new |-> line, newCount |-> Len(script) - Kinds(script, "del")]>>
    \o [i \in DOMAIN script |-> [kind |-> script[i]]]

FileOf(script) ==
    [rows |-> HunkOf(script, 1), renamed |-> FALSE, counted |-> TRUE,
     additions |-> Kinds(script, "add"), deletions |-> Kinds(script, "del")]

Init ==
    /\ \E script \in Scripts : truth = script /\ patch = FileOf(script)
    /\ draft \in Drafts

\* A patch that is too long ends early, and its counts do not change.
CutPatch ==
    /\ patch.rows # <<>>
    /\ patch' = [patch EXCEPT !.rows = Front(@)]
    /\ UNCHANGED <<truth, draft>>

\* Two changes to one file, the second further down.
AppendHunk ==
    /\ patch = FileOf(truth)
    /\ \E script \in Scripts :
         patch' = [patch EXCEPT
            !.rows = @ \o <<[kind |-> "mark"]>> \o HunkOf(script, 100),
            !.additions = @ + Kinds(script, "add"), !.deletions = @ + Kinds(script, "del")]
    /\ UNCHANGED <<truth, draft>>

\* Findings come in order of length: enough to vary what a report holds.
AddFinding ==
    /\ Len(draft.findings) < MaxFindings
    /\ \E f \in FindingTexts :
         /\ \A i \in DOMAIN draft.findings : draft.findings[i].full <= f.full
         /\ draft' = [draft EXCEPT !.findings = Append(@, f)]
    /\ UNCHANGED <<patch, truth>>

Next == CutPatch \/ AppendHunk \/ AddFinding
Spec == Init /\ [][Next]_vars

-----------------------------------------------------------------------------
\* The line of the new file (of the old file) the i-th row stands for,
\* counted from the header of its hunk.
LineOf(rows, i, kinds, field) ==
    LET h == CHOOSE j \in 1 .. i : rows[j].kind = "hunk" /\ \A k \in j + 1 .. i : rows[k].kind # "hunk"
    IN  field[h] + Cardinality({k \in h + 1 .. i - 1 : rows[k].kind \in kinds})

NewStarts == [i \in {j \in DOMAIN patch.rows : patch.rows[j].kind = "hunk"} |-> patch.rows[i].new]
OldStarts == [i \in {j \in DOMAIN patch.rows : patch.rows[j].kind = "hunk"} |-> patch.rows[i].old]

\* Of a patch that was cut anywhere, either no line is offered for an inline
\* finding or exactly the changed lines of the whole file are
\* (ci-report.mts:97-138).
OffersOnlyChanges ==
    LET lines == ChangedLines(patch)
        rowsOf(kind) == {i \in DOMAIN patch.rows : patch.rows[i].kind = kind}
    IN  lines.trusted =>
          /\ lines.added = {LineOf(patch.rows, i, {"add", "same"}, NewStarts) : i \in rowsOf("add")}
          /\ lines.deleted = {LineOf(patch.rows, i, {"del", "same"}, OldStarts) : i \in rowsOf("del")}
          /\ Cardinality(rowsOf("add")) = patch.additions
          /\ Cardinality(rowsOf("del")) = patch.deletions
          /\ \A h \in DOMAIN NewStarts :
               LET rest == {i \in DOMAIN patch.rows : i > h
                              /\ \A k \in h + 1 .. i : patch.rows[k].kind # "hunk"}
               IN  /\ Cardinality({i \in rest : patch.rows[i].kind \in {"add", "same"}})
                         = patch.rows[h].newCount
                   /\ Cardinality({i \in rest : patch.rows[i].kind \in {"del", "same"}})
                         = patch.rows[h].oldCount

\* A report GitHub accepts, whatever the findings, the gates and the evidence
\* are: at most 65536 characters, with everything that must be kept
\* (ci-report.mts:599-648).
FitsGitHub ==
    \A n \in RenderReport(draft) : n <= 65536 /\ n >= draft.fixed + draft.required + Ending
=============================================================================
