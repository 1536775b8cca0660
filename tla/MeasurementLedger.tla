------------------------- MODULE MeasurementLedger -------------------------
(***************************************************************************)
(* The private measurement directory (src/src/measurement.mts): several    *)
(* processes record attempts in exclusive files <attempt>.<phase>.json,    *)
(* without a lock.  A process runs one attempt at a time and stays         *)
(* synchronous between two calls, so the steps that interleave are its     *)
(* directory scans, the exclusive creation of a file and the write that    *)
(* fills it.  It may be killed between any two of them.                    *)
(*                                                                         *)
(* A record is abstracted to what the readers compare: the route of a      *)
(* start, the request of a preparation, the request a terminal repeats.    *)
(* The numbers of the attempts order their startedAt.                      *)
(***************************************************************************)
EXTENDS Integers, FiniteSets

CONSTANTS Procs,      \* the processes that may hold a recorder at a time
          Attempts,   \* attempt ids that randomUUID may return
          Requests,   \* the review requests
          MaxFiles,   \* MAX_FILES
          Foreign,    \* entries of the directory that are no records
          None        \* no request

Routes == {"native", "ci"}
Phases == {"start", "prepared", "terminal"}

ASSUME LedgerAssumption ==
    /\ IsFiniteSet(Procs) /\ Procs # {}
    /\ IsFiniteSet(Attempts) /\ Attempts \subseteq Nat
    /\ MaxFiles \in Nat
    /\ Foreign \in 0 .. MaxFiles
    /\ None \notin Attempts
    /\ None \notin Requests \cup Routes \cup {"absent", "torn"}
    /\ Requests \cap (Routes \cup {"absent", "torn"}) = {}

VARIABLES
    file,      \* the record files: "absent", "torn", or what they hold
    drawn,     \* the attempt ids handed out so far
    step,      \* where each process is, see Steps
    on,        \* the attempt of its recorder
    writing,   \* the phase it is putting
    payload,   \* what that record will hold
    request,   \* the request its recorder retains
    flags,     \* the closure flags of its recorder that are set
    seen       \* the candidates resumeNativeMeasurement loaded

handle == <<on, writing, payload, request, flags, seen>>
vars == <<file, drawn, step, handle>>

Steps == {"away", "put", "write", "opening", "open", "selecting"}
Flags == {"preparing", "prepared", "finished"}
Payloads == Routes \cup Requests \cup {None}
Contents == Payloads \cup {"absent", "torn"}

Readable(a, ph) == file[a][ph] \notin {"absent", "torn"}

Entries == {f \in Attempts \X Phases : file[f[1]][f[2]] # "absent"}

\* Mutation of Room: off by one.
RoomPlusOne(k) == Cardinality(Entries) + Foreign <= MaxFiles - k + 1

\* directory(): the scan of all entries that leaves room for k more.
Room(k) == Cardinality(Entries) + Foreign <= MaxFiles - k

\* No recorder, and a resumption or an admission that gave up.
Idle(p) ==
    /\ step' = [step EXCEPT ![p] = "away"]
    /\ on' = [on EXCEPT ![p] = None]
    /\ writing' = [writing EXCEPT ![p] = "start"]
    /\ payload' = [payload EXCEPT ![p] = None]
    /\ request' = [request EXCEPT ![p] = None]
    /\ flags' = [flags EXCEPT ![p] = {}]
    /\ seen' = [seen EXCEPT ![p] = {}]

\* p is about to put phase ph of attempt a with content c.
Put(p, ph, c) ==
    /\ step' = [step EXCEPT ![p] = "put"]
    /\ writing' = [writing EXCEPT ![p] = ph]
    /\ payload' = [payload EXCEPT ![p] = c]

Init ==
    /\ file = [a \in Attempts |-> [ph \in Phases |-> "absent"]]
    /\ drawn = {}
    /\ step = [p \in Procs |-> "away"]
    /\ on = [p \in Procs |-> None]
    /\ writing = [p \in Procs |-> "start"]
    /\ payload = [p \in Procs |-> None]
    /\ request = [p \in Procs |-> None]
    /\ flags = [p \in Procs |-> {}]
    /\ seen = [p \in Procs |-> {}]

-----------------------------------------------------------------------------
(* put(): the exclusive creation, the write, and their failures            *)

\* Mutation of Create: the flag 'w' in place of 'wx'.
CreateOrTruncate(p) ==
    /\ step[p] = "put"
    /\ file' = [file EXCEPT ![on[p]][writing[p]] = "torn"]
    /\ step' = [step EXCEPT ![p] = "write"]
    /\ UNCHANGED <<drawn, handle>>

\* writeFileSync(..., {flag: 'wx'}) opens a new file.
Create(p) ==
    /\ step[p] = "put"
    /\ file[on[p]][writing[p]] = "absent"
    /\ file' = [file EXCEPT ![on[p]][writing[p]] = "torn"]
    /\ step' = [step EXCEPT ![p] = "write"]
    /\ UNCHANGED <<drawn, handle>>

\* The record is complete.  begin goes on to recorder(); request() retains its
\* snapshot; finish() is done.
Write(p) ==
    /\ step[p] = "write"
    /\ file' = [file EXCEPT ![on[p]][writing[p]] = payload[p]]
    /\ step' = [step EXCEPT ![p] = IF writing[p] = "start" THEN "opening"
                                                            ELSE "open"]
    /\ IF writing[p] = "prepared"
         THEN /\ request' = [request EXCEPT ![p] = payload[p]]
              /\ flags' = [flags EXCEPT ![p] =
                             (@ \ {"preparing"}) \cup {"prepared"}]
         ELSE UNCHANGED <<request, flags>>
    /\ UNCHANGED <<drawn, on, writing, payload, seen>>

\* The record is too large, the file exists (EEXIST), or the write fails and
\* leaves a torn file: the catch of the caller warns and goes on.
PutFails(p) ==
    /\ step[p] \in {"put", "write"}
    /\ IF writing[p] = "start"
         THEN Idle(p)
         ELSE /\ step' = [step EXCEPT ![p] = "open"]
              /\ flags' = [flags EXCEPT ![p] =
                             IF writing[p] = "prepared" THEN @ \ {"preparing"} ELSE @]
              /\ UNCHANGED <<on, writing, payload, request, seen>>
    /\ UNCHANGED <<file, drawn>>

-----------------------------------------------------------------------------
(* beginMeasurement, the recorder, and its request() and finish()          *)

\* Mutation of beginMeasurement: room for the start and the terminal only.
BeginForTwo(p, a, route) ==
    /\ step[p] = "away"
    /\ Room(2)
    /\ a \notin drawn
    /\ drawn' = drawn \cup {a}
    /\ on' = [on EXCEPT ![p] = a]
    /\ Put(p, "start", route)
    /\ UNCHANGED <<file, request, flags, seen>>

beginMeasurement(p, a, route) ==
    /\ step[p] = "away"
    /\ Room(3)
    /\ a \notin drawn
    /\ drawn' = drawn \cup {a}
    /\ on' = [on EXCEPT ![p] = a]
    /\ Put(p, "start", route)
    /\ UNCHANGED <<file, request, flags, seen>>

\* recorder(): room for the remaining phases, and a terminal that fits.
recorder(p) ==
    /\ step[p] = "opening"
    /\ \/ /\ Room(IF "prepared" \in flags[p] THEN 1 ELSE 2)
          /\ step' = [step EXCEPT ![p] = "open"]
          /\ UNCHANGED handle
       \/ Idle(p)
    /\ UNCHANGED <<file, drawn>>

\* request() up to the evaluation of the caller's value, whose getters may call
\* finish() before it goes on.  Only the process that began an attempt calls it.
Request(p, r) ==
    /\ step[p] = "open"
    /\ flags[p] = {}
    /\ flags' = [flags EXCEPT ![p] = {"preparing"}]
    /\ payload' = [payload EXCEPT ![p] = r]
    /\ UNCHANGED <<file, drawn, step, on, writing, request, seen>>

\* Mutation of Prepare: the second test of finished is missing.
PrepareFinished(p) ==
    /\ step[p] = "open"
    /\ "preparing" \in flags[p]
    /\ Room(2)
    /\ \E r \in Requests : Put(p, "prepared", r)
    /\ UNCHANGED <<file, drawn, on, request, flags, seen>>

\* The rest of request().
Prepare(p) ==
    /\ step[p] = "open"
    /\ "preparing" \in flags[p]
    /\ "finished" \notin flags[p]
    /\ Room(2)
    /\ Put(p, "prepared", payload[p])
    /\ UNCHANGED <<file, drawn, on, request, flags, seen>>

\* request() gives up: finish() ran meanwhile, there is no room, or the value
\* was refused (another repository, a getter that throws).
PrepareGivesUp(p) ==
    /\ step[p] = "open"
    /\ "preparing" \in flags[p]
    /\ flags' = [flags EXCEPT ![p] = @ \ {"preparing"}]
    /\ UNCHANGED <<file, drawn, step, on, writing, payload, request, seen>>

\* finish(): finished is set before the scan and the put, so a terminal that
\* cannot be put is not tried again.
Finish(p) ==
    /\ step[p] = "open"
    /\ "finished" \notin flags[p]
    /\ flags' = [flags EXCEPT ![p] = @ \cup {"finished"}]
    /\ IF Room(1)
         THEN Put(p, "terminal", request[p])
         ELSE UNCHANGED <<step, writing, payload>>
    /\ UNCHANGED <<file, drawn, on, request, seen>>

\* The process of a measurement returns, exits or is killed, wherever it is: a
\* step of the CI job (measurement-ci.mts), a hook or a native command.
End(p) ==
    /\ step[p] # "away"
    /\ Idle(p)
    /\ UNCHANGED <<file, drawn>>

-----------------------------------------------------------------------------
(* Resumption                                                              *)

\* Mutation of resumeMeasurement: a torn preparation is taken for a record.
ResumeTorn(p, a) ==
    /\ step[p] = "away"
    /\ Room(1)
    /\ \A q \in Procs : on[q] # a
    /\ file[a]["terminal"] = "absent"
    /\ file[a]["start"] = "ci"
    /\ file[a]["prepared"] # "absent"
    /\ step' = [step EXCEPT ![p] = "opening"]
    /\ on' = [on EXCEPT ![p] = a]
    /\ request' = [request EXCEPT ![p] = file[a]["prepared"]]
    /\ flags' = [flags EXCEPT ![p] = {"prepared"}]
    /\ UNCHANGED <<file, drawn, writing, payload, seen>>

\* resumeMeasurement, by the attempt id an earlier step of a CI job published:
\* no other process holds that attempt.
resumeMeasurement(p, a) ==
    /\ step[p] = "away"
    /\ Room(1)
    /\ \A q \in Procs : on[q] # a
    /\ file[a]["terminal"] = "absent"
    /\ file[a]["start"] = "ci"
    /\ file[a]["prepared"] # "torn"
    /\ step' = [step EXCEPT ![p] = "opening"]
    /\ on' = [on EXCEPT ![p] = a]
    /\ IF file[a]["prepared"] = "absent"
         THEN UNCHANGED <<request, flags>>
         ELSE /\ request' = [request EXCEPT ![p] = file[a]["prepared"]]
              /\ flags' = [flags EXCEPT ![p] = {"prepared"}]
    /\ UNCHANGED <<file, drawn, writing, payload, seen>>

\* resumeNativeMeasurement loads the directory: the native attempts prepared for
\* request r.  Any process may validate r, even one that runs while the process
\* that prepared it still does.
LoadNative(p, r) ==
    /\ step[p] = "away"
    /\ Room(1)
    /\ step' = [step EXCEPT ![p] = "selecting"]
    /\ payload' = [payload EXCEPT ![p] = r]
    /\ seen' = [seen EXCEPT ![p] =
                  {a \in Attempts : /\ file[a]["start"] = "native"
                                    /\ file[a]["prepared"] = r}]
    /\ UNCHANGED <<file, drawn, on, writing, request, flags>>

\* Mutation of SelectNative: the recorder continues the start record.
SelectFromStart(p) ==
    /\ step[p] = "selecting"
    /\ \E a \in seen[p] :
          /\ file[a]["terminal"] = "absent"
          /\ on' = [on EXCEPT ![p] = a]
    /\ step' = [step EXCEPT ![p] = "opening"]
    /\ seen' = [seen EXCEPT ![p] = {}]
    /\ UNCHANGED <<file, drawn, writing, payload, request, flags>>

\* Then it takes the newest of those that have no terminal file.
SelectNative(p) ==
    LET unfinished == {a \in seen[p] : file[a]["terminal"] = "absent"}
    IN /\ step[p] = "selecting"
       /\ \/ unfinished = {} /\ Idle(p)
          \/ \E a \in unfinished :
                /\ \A b \in unfinished : b <= a
                /\ step' = [step EXCEPT ![p] = "opening"]
                /\ on' = [on EXCEPT ![p] = a]
                /\ request' = [request EXCEPT ![p] = payload[p]]
                /\ flags' = [flags EXCEPT ![p] = {"prepared"}]
                /\ seen' = [seen EXCEPT ![p] = {}]
                /\ UNCHANGED <<writing, payload>>
       /\ UNCHANGED <<file, drawn>>

\* What a process does with the attempt it holds, in whatever order: request and
\* finish may be called at any time and more than once.
Next ==
    \E p \in Procs :
        \/ Create(p) \/ Write(p) \/ PutFails(p)
        \/ recorder(p) \/ Prepare(p) \/ PrepareGivesUp(p) \/ Finish(p)
        \/ End(p) \/ SelectNative(p)
        \/ \E r \in Requests : Request(p, r) \/ LoadNative(p, r)
        \/ \E a \in Attempts :
              \/ resumeMeasurement(p, a)
              \/ \E route \in Routes : beginMeasurement(p, a, route)

Spec == Init /\ [][Next]_vars

-----------------------------------------------------------------------------
(* Properties                                                              *)

TypeOK ==
    /\ file \in [Attempts -> [Phases -> Contents]]
    /\ \A a \in Attempts : file[a]["prepared"] \in Requests \cup {"absent", "torn"}
    /\ drawn \subseteq Attempts
    /\ step \in [Procs -> Steps]
    /\ on \in [Procs -> Attempts \cup {None}]
    /\ writing \in [Procs -> Phases]
    /\ payload \in [Procs -> Payloads]
    /\ request \in [Procs -> Requests \cup {None}]
    /\ flags \in [Procs -> SUBSET Flags]
    /\ seen \in [Procs -> SUBSET Attempts]

\* No reader ever finds a terminal that contradicts the preparation of its
\* attempt, although two processes may hold recorders of that attempt and a
\* request() can be overtaken by the finish() its own value calls.
PhasesConsistent ==
    \A a \in Attempts :
        Readable(a, "prepared") /\ Readable(a, "terminal")
            => file[a]["terminal"] = file[a]["prepared"]

\* A file that exists is only ever completed: no writer replaces, truncates or
\* removes what another one, or an earlier process, recorded.
Immutable ==
    [][\A a \in Attempts, ph \in Phases :
          file[a][ph] # "absent" /\ file'[a][ph] # file[a][ph]
              => file[a][ph] = "torn"
                 /\ \E p \in Procs : /\ step[p] = "write"
                                     /\ on[p] = a /\ writing[p] = ph]_vars

\* The scans are no reservation, so writers that overlap exceed the limit, but
\* by less than their number.
OvershootBounded ==
    Cardinality(Entries) + Foreign <= MaxFiles - 1 + Cardinality(Procs)

\* With one process at a time the scan of the admission is a reservation: no
\* attempt is left with its start record for want of room.  It gets a recorder,
\* and until that has finished there is room for the terminal.
RoomKept ==
    \A p \in Procs :
        /\ step[p] = "opening" /\ payload[p] \in Routes => Room(2)
        /\ step[p] = "open" /\ "finished" \notin flags[p] => Room(1)

\* docs: "At the directory limit logging warns and stops".
WithinLimit == Cardinality(Entries) + Foreign <= MaxFiles

\* The readable records are those of an attempt history.
History == INSTANCE AttemptHistory WITH
    started <- {a \in Attempts : Readable(a, "start")},
    prepared <- [a \in Attempts |->
                   IF Readable(a, "prepared") THEN file[a]["prepared"] ELSE None],
    concluded <- {a \in Attempts : Readable(a, "terminal")},
    reported <- [a \in Attempts |->
                   IF Readable(a, "terminal") THEN file[a]["terminal"] ELSE None]

\* The directory implements AttemptHistory, whatever its writers do.
HistoryKept == History!HistorySpec
=============================================================================
