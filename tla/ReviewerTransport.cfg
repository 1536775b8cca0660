SPECIFICATION FairSpec
CONSTANT Calls <- AllCalls
INVARIANTS SettledQuiet RequestEndsWithCall CredentialScope RecordedBudgetApplied
PROPERTIES AlwaysEnds
CHECK_DEADLOCK FALSE
