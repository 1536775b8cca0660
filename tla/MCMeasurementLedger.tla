------------------------ MODULE MCMeasurementLedger ------------------------
(***************************************************************************)
(* Instances of MeasurementLedger for TLC, with a history variable that    *)
(* tells whether at most one process was ever at work at a time.           *)
(***************************************************************************)
EXTENDS MeasurementLedger, TLC

VARIABLE alone

Working == {p \in Procs : step[p] # "away"}

HistoryInit == Init /\ alone = TRUE
HistoryNext == Next /\ alone' = (alone /\ Cardinality(Working') <= 1)
HistorySpec == HistoryInit /\ [][HistoryNext]_<<vars, alone>>

\* As long as the processes took turns no attempt of theirs is left without the
\* room its admission found (beginMeasurement, recorder): it gets a recorder,
\* and until that has finished there is room for the terminal.
RoomKeptInTurns == alone => RoomKept

ProcRequestSymmetry == Permutations(Procs) \cup Permutations(Requests)
=============================================================================
