SPECIFICATION LauncherSpec
CONSTANT Sessions <- AllSessions
CONSTANT MaxTimeout = 3
INVARIANTS ZeroMeansPublished NothingSupervisedRemains DeadlineNotExtended
CHECK_DEADLOCK FALSE
