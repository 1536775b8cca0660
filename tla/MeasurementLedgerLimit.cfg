SPECIFICATION HistorySpec
CONSTANTS
  Procs = {p1, p2}
  Attempts = {1, 2}
  Requests = {r1, r2}
  MaxFiles = 5
  Foreign = 0
  None = None
SYMMETRY ProcRequestSymmetry
INVARIANTS WithinLimit
CHECK_DEADLOCK FALSE
