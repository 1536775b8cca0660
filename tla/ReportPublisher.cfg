SPECIFICATION ReportRunSpec
CONSTANT r1 = r1
CONSTANT r2 = r2
CONSTANT Reports <- MCReports
CONSTANT Jobs <- MCJobs
CONSTANT Heads <- MCHeads
CONSTANT Located <- MCLocated
CONSTANT Group <- OneGroup
CONSTANT Scripts <- MCScripts
CONSTANT Drafts <- MCDrafts
CONSTANT FindingTexts <- MCFindings
INVARIANTS PostedOnce LinesOfReviewedDiff ReportedMeansPosted PublishedRestsOnItsHead OnlyChangedLinesOffered WithinGitHubLimit
CHECK_DEADLOCK FALSE
