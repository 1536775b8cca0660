SPECIFICATION HistorySpec
CONSTANTS
  Procs = {p1, p2}
  Attempts = {1, 2, 3}
  Requests = {r1, r2}
  MaxFiles = 6
  Foreign = 1
  None = None
SYMMETRY ProcRequestSymmetry
INVARIANTS TypeOK OvershootBounded RoomKeptInTurns
PROPERTIES HistoryKept
CHECK_DEADLOCK FALSE
