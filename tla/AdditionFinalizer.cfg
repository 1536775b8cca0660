SPECIFICATION MCSpec
CONSTANT Edits = {"amend", "route", "nothing"}
CONSTANT MaxCommits = 4
CONSTANT MaxAttempts = 1
CONSTANT MaxTime = 2
CONSTANT MaxListed = 0
INVARIANTS RecordBindsTheMerge 
PROPERTIES VerdictStands
CHECK_DEADLOCK FALSE
