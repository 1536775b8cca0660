SPECIFICATION FairSpec
CONSTANT Inputs <- AllInputs
INVARIANTS NothingLeftBehind OnlyCleanText NoControlsInReach
PROPERTIES AlwaysEnds
CHECK_DEADLOCK FALSE
