SPECIFICATION Spec
CONSTANTS
    Heads = {"h1", "h2"}
    Purposes = {p1, p2}
    LastMain = 2
    MaxEdits = 2
    AuthorityOnly <- OnlyFirst
    Contains <- Branched
    MaxAttempts = 2
SYMMETRY Purposed
INVARIANTS
    VerifiedOnLiveMerge
    ReviewedAsPrepared
    DisplayIsThisAttempts
CHECK_DEADLOCK FALSE
