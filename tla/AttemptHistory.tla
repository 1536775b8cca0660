--------------------------- MODULE AttemptHistory ---------------------------
(***************************************************************************)
(* What a reader of the measurement directory may see of the attempts, one *)
(* phase after the other: an attempt starts, at most one request is        *)
(* prepared for it, and at most one terminal concludes it.  The terminal   *)
(* repeats the prepared request, or none when nothing was prepared, and    *)
(* nothing is prepared after it.  This is the consistency that             *)
(* validateMeasurementPhases demands of a dataset.                         *)
(***************************************************************************)
CONSTANTS Attempts, Requests, None

VARIABLES
    started,    \* the attempts whose start record can be read
    prepared,   \* the prepared request of each attempt, or None
    concluded,  \* the attempts whose terminal record can be read
    reported    \* the request that terminal repeats, or None

history == <<started, prepared, concluded, reported>>

HistoryInit ==
    /\ started = {}
    /\ prepared = [a \in Attempts |-> None]
    /\ concluded = {}
    /\ reported = [a \in Attempts |-> None]

StartRecorded(a) ==
    /\ a \notin started
    /\ started' = started \cup {a}
    /\ UNCHANGED <<prepared, concluded, reported>>

RequestRecorded(a, r) ==
    /\ a \in started
    /\ a \notin concluded
    /\ prepared[a] = None
    /\ prepared' = [prepared EXCEPT ![a] = r]
    /\ UNCHANGED <<started, concluded, reported>>

TerminalRecorded(a) ==
    /\ a \in started
    /\ a \notin concluded
    /\ concluded' = concluded \cup {a}
    /\ reported' = [reported EXCEPT ![a] = prepared[a]]
    /\ UNCHANGED <<started, prepared>>

HistoryNext ==
    \E a \in Attempts :
        \/ StartRecorded(a)
        \/ \E r \in Requests : RequestRecorded(a, r)
        \/ TerminalRecorded(a)

HistorySpec == HistoryInit /\ [][HistoryNext]_history
=============================================================================
