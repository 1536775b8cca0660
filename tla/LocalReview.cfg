SPECIFICATION Spec
CONSTANT LastRevision = 4
CONSTANT Ids <- MCIds
CONSTANT Committed <- MCCommitted
CONSTANT Processes <- MCProcesses
CONSTANT Api <- MCApi
CONSTANT Place <- MCPlace
CONSTANT Given <- MCGiven
CONSTANT Together <- MCTogether
INVARIANTS NativeJudgesWhatWasAsked PublishedMeetsItsRevision ContextIsWhole
CHECK_DEADLOCK FALSE
