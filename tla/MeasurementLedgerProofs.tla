----------------------- MODULE MeasurementLedgerProofs -----------------------
(***************************************************************************)
(* TLAPS proofs about MeasurementLedger, for any number of processes,      *)
(* attempts and requests and any size of the directory: its types, that    *)
(* preparation and terminal agree, that files are never rewritten, by how  *)
(* much overlapping writers exceed the limit, that processes that take     *)
(* turns never want for room, and that the directory implements            *)
(* AttemptHistory.                                                         *)
(***************************************************************************)
EXTENDS MCMeasurementLedger, FiniteSetTheorems, TLAPS

Prepared(p) == "prepared" \in flags[p]
Finished(p) == "finished" \in flags[p]

\* A process holds a recorder exactly when it names an attempt, one that was
\* drawn; every file belongs to a drawn attempt.
Holding ==
    /\ \A p \in Procs :
          /\ on[p] = None <=> step[p] \in {"away", "selecting"}
          /\ on[p] # None => on[p] \in drawn
          /\ on[p] = None => flags[p] = {}
          /\ step[p] = "opening" => flags[p] \subseteq {"prepared"}
    /\ \A a \in Attempts, ph \in Phases : file[a][ph] # "absent" => a \in drawn

\* A recorder that is prepared retains the request on record.
Retaining ==
    \A p \in Procs :
        IF Prepared(p)
          THEN request[p] \in Requests /\ file[on[p]]["prepared"] = request[p]
          ELSE request[p] = None

\* A recorder that is not prepared is the only one of its attempt, there is
\* nothing to read of a preparation, and no terminal before it finishes.
Sole ==
    \A p \in Procs :
        on[p] # None /\ ~Prepared(p) =>
            /\ \A q \in Procs : on[q] = on[p] => q = p
            /\ ~Readable(on[p], "prepared")
            /\ ~Finished(p) => file[on[p]]["terminal"] = "absent"

\* What a process is putting, by phase.
PuttingOf(p) ==
    /\ step[p] \in {"put", "write"} =>
          /\ writing[p] = "start" => flags[p] = {} /\ payload[p] \in Routes
          /\ writing[p] = "prepared" =>
                flags[p] = {"preparing"} /\ payload[p] \in Requests
          /\ writing[p] = "terminal" =>
                Finished(p) /\ payload[p] = request[p]
    /\ step[p] = "write" => file[on[p]][writing[p]] = "torn"
    /\ "preparing" \in flags[p] =>
          ~Prepared(p) /\ (Finished(p) \/ payload[p] \in Requests)

Putting == \A p \in Procs : PuttingOf(p)

\* One writer per file.
Exclusive ==
    \A p, q \in Procs :
        step[p] = "write" /\ step[q] = "write" /\ on[p] = on[q]
            /\ writing[p] = writing[q] => p = q

\* What a recorder or a candidate of a resumption has behind it.
StartedOf(p) ==
    /\ on[p] # None /\ ~(step[p] \in {"put", "write"} /\ writing[p] = "start")
          => Readable(on[p], "start")
    /\ \A a \in seen[p] : /\ Readable(a, "start")
                          /\ file[a]["prepared"] = payload[p]
    /\ seen[p] # {} => step[p] = "selecting"
    /\ step[p] = "selecting" => payload[p] \in Requests

Started == \A p \in Procs : StartedOf(p)

IInv ==
    /\ TypeOK
    /\ Holding
    /\ Retaining
    /\ Sole
    /\ Putting
    /\ Exclusive
    /\ Started
    /\ PhasesConsistent

-----------------------------------------------------------------------------
LEMMA IInvInit == Init => IInv
<1> SUFFICES ASSUME Init PROVE IInv
  OBVIOUS
<1> USE LedgerAssumption DEF Init
<1>1. TypeOK
  BY DEF TypeOK, Phases, Steps, Payloads, Contents, Flags
<1>2. Holding /\ Retaining /\ Sole
  BY DEF Holding, Retaining, Sole, Prepared, Finished, Readable, Phases
<1>3. Putting /\ Exclusive /\ Started /\ PhasesConsistent
  BY DEF Putting, PuttingOf, Exclusive, Started, StartedOf, PhasesConsistent, Prepared, Readable, Phases
<1>4. QED
  BY <1>1, <1>2, <1>3 DEF IInv


\* The only file a put touches is its own.
LEMMA CreatedFile ==
    ASSUME TypeOK, Holding, NEW p \in Procs, Create(p)
    PROVE  \A a \in Attempts, ph \in Phases :
              file'[a][ph] = IF a = on[p] /\ ph = writing[p]
                               THEN "torn" ELSE file[a][ph]
<1> DEFINE x == on[p]
           y == writing[p]
<1>1. x \in Attempts /\ y \in Phases
  BY DEF Create, Holding, TypeOK
<1>2. file' = [file EXCEPT ![x][y] = "torn"]
  BY DEF Create
<1> HIDE DEF x, y
<1>3. file'[x] = [file[x] EXCEPT ![y] = "torn"]
  BY <1>1, <1>2 DEF TypeOK
<1>4. \A a \in Attempts : a # x => file'[a] = file[a]
  BY <1>1, <1>2 DEF TypeOK
<1>5. file[x] \in [Phases -> Contents]
  BY <1>1 DEF TypeOK
<1>6. \A ph \in Phases : file'[x][ph] = IF ph = y THEN "torn" ELSE file[x][ph]
  BY <1>1, <1>3, <1>5
<1>7. \A a \in Attempts, ph \in Phases :
         file'[a][ph] = IF a = x /\ ph = y THEN "torn" ELSE file[a][ph]
  BY <1>4, <1>6
<1>8. QED
  BY <1>7 DEF x, y

LEMMA WrittenFile ==
    ASSUME TypeOK, Holding, NEW p \in Procs, Write(p)
    PROVE  \A a \in Attempts, ph \in Phases :
              file'[a][ph] = IF a = on[p] /\ ph = writing[p]
                               THEN payload[p] ELSE file[a][ph]
<1> DEFINE x == on[p]
           y == writing[p]
<1>1. x \in Attempts /\ y \in Phases
  BY DEF Write, Holding, TypeOK
<1>2. file' = [file EXCEPT ![x][y] = payload[p]]
  BY DEF Write
<1> HIDE DEF x, y
<1>3. file'[x] = [file[x] EXCEPT ![y] = payload[p]]
  BY <1>1, <1>2 DEF TypeOK
<1>4. \A a \in Attempts : a # x => file'[a] = file[a]
  BY <1>1, <1>2 DEF TypeOK
<1>5. file[x] \in [Phases -> Contents]
  BY <1>1 DEF TypeOK
<1>6. \A ph \in Phases : file'[x][ph] = IF ph = y THEN payload[p] ELSE file[x][ph]
  BY <1>1, <1>3, <1>5
<1>7. \A a \in Attempts, ph \in Phases :
         file'[a][ph] = IF a = x /\ ph = y THEN payload[p] ELSE file[a][ph]
  BY <1>4, <1>6
<1>8. QED
  BY <1>7 DEF x, y

LEMMA CreateStep ==
    ASSUME IInv, NEW p \in Procs, Create(p)
    PROVE  IInv'
<1> USE LedgerAssumption DEF IInv
<1>1. TypeOK'
  <2>1. file' \in [Attempts -> [Phases -> Contents]] /\ step' \in [Procs -> Steps]
    BY DEF Create, TypeOK, Contents, Steps
  <2>2. \A a \in Attempts : file'[a]["prepared"] \in {file[a]["prepared"], "torn"}
    BY DEF Create, TypeOK, Phases
  <2>3. \A a \in Attempts : file'[a]["prepared"] \in Requests \cup {"absent", "torn"}
    BY <2>2 DEF TypeOK
  <2>4. QED
    BY <2>1, <2>3 DEF Create, handle, TypeOK
<1>2. Holding'
  BY DEF Create, Idle, Put, handle, TypeOK, Holding, Phases, Flags, Readable, Started, StartedOf
<1>3. Retaining'
  BY DEF Create, Idle, Put, handle, TypeOK, Holding, Retaining, Prepared, Phases, Sole, Putting, PuttingOf, Exclusive, Readable, Started, StartedOf, Flags
<1>4. Sole'
  BY DEF Create, Idle, Put, handle, TypeOK, Holding, Retaining, Sole, Prepared, Finished, Readable, Phases, Putting, PuttingOf, Started, StartedOf, Flags
<1>5. Putting'
  <2>1. ASSUME NEW q \in Procs, q # p PROVE PuttingOf(q)'
    <3>1. step'[q] = step[q] /\ UNCHANGED <<on, writing, payload, request, flags>>
      BY <2>1 DEF Create, handle, TypeOK
    <3>2. step[q] = "write" => on[q] \in Attempts /\ writing[q] \in Phases
      BY DEF Holding, TypeOK
    <3>3. \A a \in Attempts, ph \in Phases :
             file[a][ph] = "torn" => file'[a][ph] = "torn"
      BY DEF Create, TypeOK
    <3>4. QED
      BY <3>1, <3>2, <3>3 DEF Putting, PuttingOf, Prepared, Finished
  <2>2. PuttingOf(p)'
    <3>1. step[p] = "put" /\ UNCHANGED <<on, writing, payload, request, flags>>
      BY DEF Create, handle
    <3>2. file'[on[p]][writing[p]] = "torn"
      <4>1. on[p] \in Attempts /\ writing[p] \in Phases
        BY <3>1 DEF Holding, TypeOK
      <4>2. QED
        BY <4>1, CreatedFile
    <3>3. QED
      BY <3>1, <3>2 DEF Putting, PuttingOf, Prepared, Finished
  <2>3. QED
    BY <2>1, <2>2 DEF Putting
<1>6. Exclusive'
  BY DEF Create, Idle, Put, handle, TypeOK, Holding, Exclusive, Putting, PuttingOf, Phases
<1>7. Started'
  BY DEF Create, Idle, Put, handle, TypeOK, Holding, Started, StartedOf, Readable, Phases, Putting, PuttingOf, Contents, Payloads, Routes
<1>8. PhasesConsistent'
  BY DEF Create, Idle, Put, handle, TypeOK, Holding, Sole, Putting, PuttingOf, Retaining, PhasesConsistent, Readable, Phases, Prepared, Finished
<1>9. QED
  BY <1>1, <1>2, <1>3, <1>4, <1>5, <1>6, <1>7, <1>8


LEMMA WriteStep ==
    ASSUME IInv, NEW p \in Procs, Write(p)
    PROVE  IInv'
<1> USE LedgerAssumption DEF IInv
<1>1. TypeOK'
  <2>1. on[p] \in Attempts /\ payload[p] \in Contents
    BY DEF Write, Holding, TypeOK, Contents
  <2>2. file' \in [Attempts -> [Phases -> Contents]]
    BY <2>1 DEF Write, TypeOK
  <2>3. request' \in [Procs -> Requests \cup {None}]
    BY DEF Write, TypeOK, Putting, PuttingOf
  <2>4. flags' \in [Procs -> SUBSET Flags] /\ step' \in [Procs -> Steps]
    BY DEF Write, TypeOK, Flags, Steps
  <2>5. \A a \in Attempts : file'[a]["prepared"] \in Requests \cup {"absent", "torn"}
    <3>1. writing[p] = "prepared" => payload[p] \in Requests
      BY DEF Write, Putting, PuttingOf
    <3>2. on[p] \in Attempts /\ writing[p] \in Phases /\ "prepared" \in Phases
      BY DEF Write, Holding, TypeOK, Phases
    <3>3. ASSUME NEW a \in Attempts
          PROVE  file'[a]["prepared"] \in Requests \cup {"absent", "torn"}
      <4>1. CASE a = on[p] /\ "prepared" = writing[p]
        BY <3>1, <3>2, <4>1, WrittenFile
      <4>2. CASE ~(a = on[p] /\ "prepared" = writing[p])
        <5>1. file'[a]["prepared"] =
                 IF a = on[p] /\ "prepared" = writing[p] THEN payload[p] ELSE file[a]["prepared"]
          BY <3>2, WrittenFile
        <5>2. file'[a]["prepared"] = file[a]["prepared"]
          BY <4>2, <5>1
        <5>3. QED
          BY <5>2 DEF TypeOK
      <4>3. QED
        BY <4>1, <4>2
    <3>4. QED
      BY <3>3
  <2>6. QED
    BY <2>2, <2>3, <2>4, <2>5 DEF Write, TypeOK
<1>2. Holding'
  <2>1. \A q \in Procs : q # p => flags'[q] = flags[q] /\ step'[q] = step[q]
    BY DEF Write, TypeOK
  <2>2. on[p] # None /\ on[p] \in drawn
    BY DEF Write, Holding
  <2>3. step'[p] \in {"opening", "open"} /\ (step'[p] = "opening" => flags'[p] = {})
    BY DEF Write, TypeOK, Putting, PuttingOf
  <2>4. \A a \in Attempts, ph \in Phases : file'[a][ph] # "absent" => a \in drawn
    BY <2>2 DEF Write, TypeOK, Holding
  <2>5. QED
    BY <2>1, <2>2, <2>3, <2>4 DEF Write, Holding
<1>3. Retaining'
  <2>1. CASE writing[p] = "prepared"
    <3>1. ASSUME NEW q \in Procs, on[q] = on[p] PROVE q = p
      BY <3>1, <2>1 DEF Write, Holding, Sole, Putting, PuttingOf, Prepared
    <3>2. file'[on[p]]["prepared"] = payload[p] /\ payload[p] \in Requests
      <4>1. on[p] \in Attempts /\ "prepared" \in Phases
        BY DEF Write, TypeOK, Holding, Phases
      <4>2. payload[p] \in Requests
        BY <2>1 DEF Write, Putting, PuttingOf
      <4>3. QED
        BY <2>1, <4>1, <4>2 DEF Write, TypeOK
    <3>3. \A q \in Procs : on[q] # on[p] =>
            file'[on[q]] = file[on[q]] \/ on[q] = None
      BY DEF Write, TypeOK, Holding
    <3>4. \A q \in Procs : q # p => request'[q] = request[q] /\ flags'[q] = flags[q]
      BY DEF Write, TypeOK
    <3>5. request'[p] = payload[p] /\ "prepared" \in flags'[p]
      BY <2>1 DEF Write, TypeOK
    <3>6. QED
      BY <3>1, <3>2, <3>3, <3>4, <3>5 DEF Write, Retaining, Prepared, Holding
  <2>2. CASE writing[p] # "prepared"
    <3>1. \A a \in Attempts : file'[a]["prepared"] = file[a]["prepared"]
      BY <2>2 DEF Write, TypeOK, Phases
    <3>2. QED
      BY <2>2, <3>1 DEF Write, Retaining, Prepared, Holding, TypeOK
  <2>3. QED
    BY <2>1, <2>2
<1>4. Sole'
  BY DEF Write, Idle, Put, handle, TypeOK, Holding, Retaining, Sole, Prepared, Finished, Readable, Phases, Putting, PuttingOf, Started, StartedOf, Flags
<1>5. Putting'
  BY DEF Write, Idle, Put, handle, TypeOK, Holding, Retaining, Putting, PuttingOf, Prepared, Finished, Phases, Flags, Exclusive, Started, StartedOf, Sole
<1>6. Exclusive'
  BY DEF Write, Idle, Put, handle, TypeOK, Holding, Exclusive, Putting, PuttingOf, Phases
<1>7. Started'
  <2>1. payload[p] \notin {"absent", "torn"}
    BY DEF Write, TypeOK, Payloads, Routes
  <2>2. \A a \in Attempts : Readable(a, "start") => Readable(a, "start")'
    BY <2>1 DEF Write, TypeOK, Readable, Phases
  <2>3. ASSUME NEW q \in Procs, NEW a \in seen[q]
        PROVE  file'[a]["prepared"] = file[a]["prepared"]
    BY <2>3 DEF Write, TypeOK, Started, StartedOf, Putting, PuttingOf, Phases
  <2>4. ASSUME NEW q \in Procs, q # p PROVE StartedOf(q)'
    <3>1. step'[q] = step[q] /\ UNCHANGED <<on, writing, payload, seen>>
      BY <2>4 DEF Write, TypeOK
    <3>2. on[q] # None => on[q] \in Attempts
      BY DEF TypeOK
    <3>3. seen[q] \subseteq Attempts /\ StartedOf(q)
      BY DEF TypeOK, Started
    <3>4. \A a \in seen[q] : file'[a]["prepared"] = file[a]["prepared"]
      BY <2>3
    <3>5. QED
      BY <2>2, <3>1, <3>2, <3>3, <3>4 DEF StartedOf
  <2>5. StartedOf(p)'
    <3>1. Readable(on[p], "start")'
      <4>1. on[p] \in Attempts /\ on' = on /\ writing[p] \in Phases
        BY DEF Write, TypeOK, Holding
      <4>2. CASE writing[p] = "start"
        <5>1. file'[on[p]]["start"] = payload[p]
          BY <4>1, <4>2, WrittenFile
        <5>2. QED
          BY <2>1, <4>1, <5>1 DEF Readable
      <4>3. CASE writing[p] # "start"
        BY <2>2, <4>1, <4>3 DEF Started, StartedOf
      <4>4. QED
        BY <4>2, <4>3
    <3>2. seen'[p] = {}
      BY DEF Write, TypeOK, Started, StartedOf
    <3>3. step'[p] # "selecting"
      BY DEF Write, TypeOK
    <3>4. QED
      BY <3>1, <3>2, <3>3 DEF StartedOf, Write
  <2>6. QED
    BY <2>4, <2>5 DEF Started
<1>8. PhasesConsistent'
  BY DEF Write, Idle, Put, handle, TypeOK, Holding, Sole, Putting, PuttingOf, Retaining, PhasesConsistent, Readable, Phases, Prepared, Finished
<1>9. QED
  BY <1>1, <1>2, <1>3, <1>4, <1>5, <1>6, <1>7, <1>8


LEMMA PutFailsStep ==
    ASSUME IInv, NEW p \in Procs, PutFails(p)
    PROVE  IInv'
<1> USE LedgerAssumption DEF IInv
<1>1. TypeOK'
  BY DEF PutFails, Idle, Put, handle, TypeOK, Phases, Steps, Payloads, Contents, Flags, Routes
<1>2. Holding'
  BY DEF PutFails, Idle, Put, handle, TypeOK, Holding, Phases, Flags, Readable, Started, StartedOf
<1>3. Retaining'
  BY DEF PutFails, Idle, Put, handle, TypeOK, Holding, Retaining, Prepared, Phases, Sole, Putting, PuttingOf, Exclusive, Readable, Started, StartedOf, Flags
<1>4. Sole'
  BY DEF PutFails, Idle, Put, handle, TypeOK, Holding, Retaining, Sole, Prepared, Finished, Readable, Phases, Putting, PuttingOf, Started, StartedOf, Flags
<1>5. Putting'
  BY DEF PutFails, Idle, Put, handle, TypeOK, Holding, Retaining, Putting, PuttingOf, Prepared, Finished, Phases, Flags, Exclusive, Started, StartedOf, Sole
<1>6. Exclusive'
  BY DEF PutFails, Idle, Put, handle, TypeOK, Holding, Exclusive, Putting, PuttingOf, Phases
<1>7. Started'
  <2>1. ASSUME NEW q \in Procs, q # p PROVE StartedOf(q)'
    BY <2>1 DEF PutFails, Idle, handle, TypeOK, Started, StartedOf, Readable
  <2>2. StartedOf(p)'
    BY DEF PutFails, Idle, handle, TypeOK, Started, StartedOf, Readable, Holding
  <2>3. QED
    BY <2>1, <2>2 DEF Started
<1>8. PhasesConsistent'
  BY DEF PutFails, Idle, Put, handle, TypeOK, Holding, Sole, Putting, PuttingOf, Retaining, PhasesConsistent, Readable, Phases, Prepared, Finished
<1>9. QED
  BY <1>1, <1>2, <1>3, <1>4, <1>5, <1>6, <1>7, <1>8


LEMMA recorderStep ==
    ASSUME IInv, NEW p \in Procs, recorder(p)
    PROVE  IInv'
<1> USE LedgerAssumption DEF IInv
<1>1. TypeOK'
  BY DEF recorder, Idle, Put, handle, TypeOK, Phases, Steps, Payloads, Contents, Flags, Routes
<1>2. Holding'
  BY DEF recorder, Idle, Put, handle, TypeOK, Holding, Phases, Flags, Readable, Started, StartedOf
<1>3. Retaining'
  BY DEF recorder, Idle, Put, handle, TypeOK, Holding, Retaining, Prepared, Phases, Sole, Putting, PuttingOf, Exclusive, Readable, Started, StartedOf, Flags
<1>4. Sole'
  BY DEF recorder, Idle, Put, handle, TypeOK, Holding, Retaining, Sole, Prepared, Finished, Readable, Phases, Putting, PuttingOf, Started, StartedOf, Flags
<1>5. Putting'
  BY DEF recorder, Idle, Put, handle, TypeOK, Holding, Retaining, Putting, PuttingOf, Prepared, Finished, Phases, Flags, Exclusive, Started, StartedOf, Sole
<1>6. Exclusive'
  BY DEF recorder, Idle, Put, handle, TypeOK, Holding, Exclusive, Putting, PuttingOf, Phases
<1>7. Started'
  <2>1. ASSUME NEW q \in Procs, q # p PROVE StartedOf(q)'
    BY <2>1 DEF recorder, Idle, handle, TypeOK, Started, StartedOf, Readable
  <2>2. StartedOf(p)'
    BY DEF recorder, Idle, handle, TypeOK, Started, StartedOf, Readable, Holding
  <2>3. QED
    BY <2>1, <2>2 DEF Started
<1>8. PhasesConsistent'
  BY DEF recorder, Idle, Put, handle, TypeOK, Holding, Sole, Putting, PuttingOf, Retaining, PhasesConsistent, Readable, Phases, Prepared, Finished
<1>9. QED
  BY <1>1, <1>2, <1>3, <1>4, <1>5, <1>6, <1>7, <1>8


LEMMA PrepareStep ==
    ASSUME IInv, NEW p \in Procs, Prepare(p)
    PROVE  IInv'
<1> USE LedgerAssumption DEF IInv
<1>1. TypeOK'
  BY DEF Prepare, Idle, Put, handle, TypeOK, Phases, Steps, Payloads, Contents, Flags, Routes
<1>2. Holding'
  BY DEF Prepare, Idle, Put, handle, TypeOK, Holding, Phases, Flags, Readable, Started, StartedOf
<1>3. Retaining'
  BY DEF Prepare, Idle, Put, handle, TypeOK, Holding, Retaining, Prepared, Phases, Sole, Putting, PuttingOf, Exclusive, Readable, Started, StartedOf, Flags
<1>4. Sole'
  BY DEF Prepare, Idle, Put, handle, TypeOK, Holding, Retaining, Sole, Prepared, Finished, Readable, Phases, Putting, PuttingOf, Started, StartedOf, Flags
<1>5. Putting'
  BY DEF Prepare, Idle, Put, handle, TypeOK, Holding, Retaining, Putting, PuttingOf, Prepared, Finished, Phases, Flags, Exclusive, Started, StartedOf, Sole
<1>6. Exclusive'
  BY DEF Prepare, Idle, Put, handle, TypeOK, Holding, Exclusive, Putting, PuttingOf, Phases
<1>7. Started'
  BY DEF Prepare, Idle, Put, handle, TypeOK, Holding, Started, StartedOf, Readable, Phases, Putting, PuttingOf, Contents, Payloads, Routes
<1>8. PhasesConsistent'
  BY DEF Prepare, Idle, Put, handle, TypeOK, Holding, Sole, Putting, PuttingOf, Retaining, PhasesConsistent, Readable, Phases, Prepared, Finished
<1>9. QED
  BY <1>1, <1>2, <1>3, <1>4, <1>5, <1>6, <1>7, <1>8


LEMMA PrepareGivesUpStep ==
    ASSUME IInv, NEW p \in Procs, PrepareGivesUp(p)
    PROVE  IInv'
<1> USE LedgerAssumption DEF IInv
<1>1. TypeOK'
  BY DEF PrepareGivesUp, Idle, Put, handle, TypeOK, Phases, Steps, Payloads, Contents, Flags, Routes
<1>2. Holding'
  BY DEF PrepareGivesUp, Idle, Put, handle, TypeOK, Holding, Phases, Flags, Readable, Started, StartedOf
<1>3. Retaining'
  BY DEF PrepareGivesUp, Idle, Put, handle, TypeOK, Holding, Retaining, Prepared, Phases, Sole, Putting, PuttingOf, Exclusive, Readable, Started, StartedOf, Flags
<1>4. Sole'
  BY DEF PrepareGivesUp, Idle, Put, handle, TypeOK, Holding, Retaining, Sole, Prepared, Finished, Readable, Phases, Putting, PuttingOf, Started, StartedOf, Flags
<1>5. Putting'
  BY DEF PrepareGivesUp, Idle, Put, handle, TypeOK, Holding, Retaining, Putting, PuttingOf, Prepared, Finished, Phases, Flags, Exclusive, Started, StartedOf, Sole
<1>6. Exclusive'
  BY DEF PrepareGivesUp, Idle, Put, handle, TypeOK, Holding, Exclusive, Putting, PuttingOf, Phases
<1>7. Started'
  BY DEF PrepareGivesUp, Idle, Put, handle, TypeOK, Holding, Started, StartedOf, Readable, Phases, Putting, PuttingOf, Contents, Payloads, Routes
<1>8. PhasesConsistent'
  BY DEF PrepareGivesUp, Idle, Put, handle, TypeOK, Holding, Sole, Putting, PuttingOf, Retaining, PhasesConsistent, Readable, Phases, Prepared, Finished
<1>9. QED
  BY <1>1, <1>2, <1>3, <1>4, <1>5, <1>6, <1>7, <1>8


LEMMA FinishStep ==
    ASSUME IInv, NEW p \in Procs, Finish(p)
    PROVE  IInv'
<1> USE LedgerAssumption DEF IInv
<1>1. TypeOK'
  BY DEF Finish, Idle, Put, handle, TypeOK, Phases, Steps, Payloads, Contents, Flags, Routes
<1>2. Holding'
  BY DEF Finish, Idle, Put, handle, TypeOK, Holding, Phases, Flags, Readable, Started, StartedOf
<1>3. Retaining'
  BY DEF Finish, Idle, Put, handle, TypeOK, Holding, Retaining, Prepared, Phases, Sole, Putting, PuttingOf, Exclusive, Readable, Started, StartedOf, Flags
<1>4. Sole'
  BY DEF Finish, Idle, Put, handle, TypeOK, Holding, Retaining, Sole, Prepared, Finished, Readable, Phases, Putting, PuttingOf, Started, StartedOf, Flags
<1>5. Putting'
  BY DEF Finish, Idle, Put, handle, TypeOK, Holding, Retaining, Putting, PuttingOf, Prepared, Finished, Phases, Flags, Exclusive, Started, StartedOf, Sole
<1>6. Exclusive'
  BY DEF Finish, Idle, Put, handle, TypeOK, Holding, Exclusive, Putting, PuttingOf, Phases
<1>7. Started'
  BY DEF Finish, Idle, Put, handle, TypeOK, Holding, Started, StartedOf, Readable, Phases, Putting, PuttingOf, Contents, Payloads, Routes
<1>8. PhasesConsistent'
  BY DEF Finish, Idle, Put, handle, TypeOK, Holding, Sole, Putting, PuttingOf, Retaining, PhasesConsistent, Readable, Phases, Prepared, Finished
<1>9. QED
  BY <1>1, <1>2, <1>3, <1>4, <1>5, <1>6, <1>7, <1>8


LEMMA EndStep ==
    ASSUME IInv, NEW p \in Procs, End(p)
    PROVE  IInv'
<1> USE LedgerAssumption DEF IInv
<1>1. TypeOK'
  BY DEF End, Idle, Put, handle, TypeOK, Phases, Steps, Payloads, Contents, Flags, Routes
<1>2. Holding'
  BY DEF End, Idle, Put, handle, TypeOK, Holding, Phases, Flags, Readable, Started, StartedOf
<1>3. Retaining'
  BY DEF End, Idle, Put, handle, TypeOK, Holding, Retaining, Prepared, Phases, Sole, Putting, PuttingOf, Exclusive, Readable, Started, StartedOf, Flags
<1>4. Sole'
  BY DEF End, Idle, Put, handle, TypeOK, Holding, Retaining, Sole, Prepared, Finished, Readable, Phases, Putting, PuttingOf, Started, StartedOf, Flags
<1>5. Putting'
  BY DEF End, Idle, Put, handle, TypeOK, Holding, Retaining, Putting, PuttingOf, Prepared, Finished, Phases, Flags, Exclusive, Started, StartedOf, Sole
<1>6. Exclusive'
  BY DEF End, Idle, Put, handle, TypeOK, Holding, Exclusive, Putting, PuttingOf, Phases
<1>7. Started'
  BY DEF End, Idle, Put, handle, TypeOK, Holding, Started, StartedOf, Readable, Phases, Putting, PuttingOf, Contents, Payloads, Routes
<1>8. PhasesConsistent'
  BY DEF End, Idle, Put, handle, TypeOK, Holding, Sole, Putting, PuttingOf, Retaining, PhasesConsistent, Readable, Phases, Prepared, Finished
<1>9. QED
  BY <1>1, <1>2, <1>3, <1>4, <1>5, <1>6, <1>7, <1>8


LEMMA SelectNativeStep ==
    ASSUME IInv, NEW p \in Procs, SelectNative(p)
    PROVE  IInv'
<1> USE LedgerAssumption DEF IInv
<1>1. TypeOK'
  <2>1. CASE Idle(p)
    BY <2>1 DEF SelectNative, Idle, TypeOK, Steps, Flags, Payloads, Phases
  <2>2. ASSUME NEW a \in seen[p], on' = [on EXCEPT ![p] = a],
               request' = [request EXCEPT ![p] = payload[p]],
               flags' = [flags EXCEPT ![p] = {"prepared"}],
               step' = [step EXCEPT ![p] = "opening"],
               seen' = [seen EXCEPT ![p] = {}],
               UNCHANGED <<writing, payload>>
        PROVE  TypeOK'
    <3>1. a \in Attempts /\ payload[p] \in Requests
      BY DEF SelectNative, TypeOK, Started, StartedOf
    <3>2. on' \in [Procs -> Attempts \cup {None}]
          /\ request' \in [Procs -> Requests \cup {None}]
      BY <2>2, <3>1 DEF TypeOK
    <3>3. flags' \in [Procs -> SUBSET Flags] /\ step' \in [Procs -> Steps]
          /\ seen' \in [Procs -> SUBSET Attempts]
      BY <2>2 DEF TypeOK, Flags, Steps
    <3>4. UNCHANGED <<file, drawn>>
      BY DEF SelectNative
    <3>5. QED
      BY <2>2, <3>2, <3>3, <3>4 DEF TypeOK
  <2>3. QED
    BY <2>1, <2>2 DEF SelectNative
<1>2. Holding'
  BY DEF SelectNative, Idle, Put, handle, TypeOK, Holding, Phases, Flags, Readable, Started, StartedOf
<1>3. Retaining'
  BY DEF SelectNative, Idle, Put, handle, TypeOK, Holding, Retaining, Prepared, Phases, Sole, Putting, PuttingOf, Exclusive, Readable, Started, StartedOf, Flags
<1>4. Sole'
  BY DEF SelectNative, Idle, Put, handle, TypeOK, Holding, Retaining, Sole, Prepared, Finished, Readable, Phases, Putting, PuttingOf, Started, StartedOf, Flags
<1>5. Putting'
  BY DEF SelectNative, Idle, Put, handle, TypeOK, Holding, Retaining, Putting, PuttingOf, Prepared, Finished, Phases, Flags, Exclusive, Started, StartedOf, Sole
<1>6. Exclusive'
  BY DEF SelectNative, Idle, Put, handle, TypeOK, Holding, Exclusive, Putting, PuttingOf, Phases
<1>7. Started'
  <2>1. ASSUME NEW q \in Procs, q # p PROVE StartedOf(q)'
    BY <2>1 DEF SelectNative, Idle, TypeOK, Started, StartedOf, Readable
  <2>2. StartedOf(p)'
    BY DEF SelectNative, Idle, TypeOK, Started, StartedOf, Readable, Holding
  <2>3. QED
    BY <2>1, <2>2 DEF Started
<1>8. PhasesConsistent'
  BY DEF SelectNative, Idle, Put, handle, TypeOK, Holding, Sole, Putting, PuttingOf, Retaining, PhasesConsistent, Readable, Phases, Prepared, Finished
<1>9. QED
  BY <1>1, <1>2, <1>3, <1>4, <1>5, <1>6, <1>7, <1>8


LEMMA RequestStep ==
    ASSUME IInv, NEW p \in Procs, NEW r \in Requests, Request(p, r)
    PROVE  IInv'
<1> USE LedgerAssumption DEF IInv
<1>1. TypeOK'
  BY DEF Request, Idle, Put, handle, TypeOK, Phases, Steps, Payloads, Contents, Flags, Routes
<1>2. Holding'
  BY DEF Request, Idle, Put, handle, TypeOK, Holding, Phases, Flags, Readable, Started, StartedOf
<1>3. Retaining'
  BY DEF Request, Idle, Put, handle, TypeOK, Holding, Retaining, Prepared, Phases, Sole, Putting, PuttingOf, Exclusive, Readable, Started, StartedOf, Flags
<1>4. Sole'
  BY DEF Request, Idle, Put, handle, TypeOK, Holding, Retaining, Sole, Prepared, Finished, Readable, Phases, Putting, PuttingOf, Started, StartedOf, Flags
<1>5. Putting'
  BY DEF Request, Idle, Put, handle, TypeOK, Holding, Retaining, Putting, PuttingOf, Prepared, Finished, Phases, Flags, Exclusive, Started, StartedOf, Sole
<1>6. Exclusive'
  BY DEF Request, Idle, Put, handle, TypeOK, Holding, Exclusive, Putting, PuttingOf, Phases
<1>7. Started'
  BY DEF Request, Idle, Put, handle, TypeOK, Holding, Started, StartedOf, Readable, Phases, Putting, PuttingOf, Contents, Payloads, Routes
<1>8. PhasesConsistent'
  BY DEF Request, Idle, Put, handle, TypeOK, Holding, Sole, Putting, PuttingOf, Retaining, PhasesConsistent, Readable, Phases, Prepared, Finished
<1>9. QED
  BY <1>1, <1>2, <1>3, <1>4, <1>5, <1>6, <1>7, <1>8


LEMMA LoadNativeStep ==
    ASSUME IInv, NEW p \in Procs, NEW r \in Requests, LoadNative(p, r)
    PROVE  IInv'
<1> USE LedgerAssumption DEF IInv
<1>1. TypeOK'
  BY DEF LoadNative, Idle, Put, handle, TypeOK, Phases, Steps, Payloads, Contents, Flags, Routes
<1>2. Holding'
  BY DEF LoadNative, Idle, Put, handle, TypeOK, Holding, Phases, Flags, Readable, Started, StartedOf
<1>3. Retaining'
  BY DEF LoadNative, Idle, Put, handle, TypeOK, Holding, Retaining, Prepared, Phases, Sole, Putting, PuttingOf, Exclusive, Readable, Started, StartedOf, Flags
<1>4. Sole'
  BY DEF LoadNative, Idle, Put, handle, TypeOK, Holding, Retaining, Sole, Prepared, Finished, Readable, Phases, Putting, PuttingOf, Started, StartedOf, Flags
<1>5. Putting'
  BY DEF LoadNative, Idle, Put, handle, TypeOK, Holding, Retaining, Putting, PuttingOf, Prepared, Finished, Phases, Flags, Exclusive, Started, StartedOf, Sole
<1>6. Exclusive'
  BY DEF LoadNative, Idle, Put, handle, TypeOK, Holding, Exclusive, Putting, PuttingOf, Phases
<1>7. Started'
  BY DEF LoadNative, Idle, Put, handle, TypeOK, Holding, Started, StartedOf, Readable, Phases, Putting, PuttingOf, Contents, Payloads, Routes
<1>8. PhasesConsistent'
  BY DEF LoadNative, Idle, Put, handle, TypeOK, Holding, Sole, Putting, PuttingOf, Retaining, PhasesConsistent, Readable, Phases, Prepared, Finished
<1>9. QED
  BY <1>1, <1>2, <1>3, <1>4, <1>5, <1>6, <1>7, <1>8


LEMMA resumeMeasurementStep ==
    ASSUME IInv, NEW p \in Procs, NEW a \in Attempts, resumeMeasurement(p, a)
    PROVE  IInv'
<1> USE LedgerAssumption DEF IInv
<1>1. TypeOK'
  <2>1. file[a]["prepared"] \in Requests \/ file[a]["prepared"] = "absent"
    BY DEF resumeMeasurement, TypeOK
  <2>2. request' \in [Procs -> Requests \cup {None}]
    BY <2>1 DEF resumeMeasurement, TypeOK
  <2>3. flags' \in [Procs -> SUBSET Flags] /\ step' \in [Procs -> Steps]
        /\ on' \in [Procs -> Attempts \cup {None}]
    BY DEF resumeMeasurement, TypeOK, Flags, Steps
  <2>4. QED
    BY <2>2, <2>3 DEF resumeMeasurement, TypeOK
<1>2. Holding'
  BY DEF resumeMeasurement, Idle, Put, handle, TypeOK, Holding, Phases, Flags, Readable, Started, StartedOf
<1>3. Retaining'
  <2>1. \A q \in Procs : q # p => request'[q] = request[q] /\ flags'[q] = flags[q]
                                   /\ on'[q] = on[q]
    BY DEF resumeMeasurement, TypeOK
  <2>2. flags[p] = {} /\ request[p] = None
    BY DEF resumeMeasurement, Holding, Retaining, Prepared
  <2>3. CASE file[a]["prepared"] = "absent"
    BY <2>1, <2>2, <2>3 DEF resumeMeasurement, Retaining, Prepared
  <2>4. CASE file[a]["prepared"] # "absent"
    <3>1. file[a]["prepared"] \in Requests
      BY <2>4 DEF resumeMeasurement, TypeOK
    <3>2. request'[p] = file[a]["prepared"] /\ on'[p] = a /\ "prepared" \in flags'[p]
      BY <2>4 DEF resumeMeasurement, TypeOK
    <3>3. QED
      BY <2>1, <3>1, <3>2 DEF resumeMeasurement, Retaining, Prepared
  <2>5. QED
    BY <2>3, <2>4
<1>4. Sole'
  BY DEF resumeMeasurement, Idle, Put, handle, TypeOK, Holding, Retaining, Sole, Prepared, Finished, Readable, Phases, Putting, PuttingOf, Started, StartedOf, Flags
<1>5. Putting'
  BY DEF resumeMeasurement, Idle, Put, handle, TypeOK, Holding, Retaining, Putting, PuttingOf, Prepared, Finished, Phases, Flags, Exclusive, Started, StartedOf, Sole
<1>6. Exclusive'
  BY DEF resumeMeasurement, Idle, Put, handle, TypeOK, Holding, Exclusive, Putting, PuttingOf, Phases
<1>7. Started'
  BY DEF resumeMeasurement, Idle, Put, handle, TypeOK, Holding, Started, StartedOf, Readable, Phases, Putting, PuttingOf, Contents, Payloads, Routes
<1>8. PhasesConsistent'
  BY DEF resumeMeasurement, Idle, Put, handle, TypeOK, Holding, Sole, Putting, PuttingOf, Retaining, PhasesConsistent, Readable, Phases, Prepared, Finished
<1>9. QED
  BY <1>1, <1>2, <1>3, <1>4, <1>5, <1>6, <1>7, <1>8


LEMMA beginMeasurementStep ==
    ASSUME IInv, NEW p \in Procs, NEW a \in Attempts, NEW route \in Routes, beginMeasurement(p, a, route)
    PROVE  IInv'
<1> USE LedgerAssumption DEF IInv
<1>1. TypeOK'
  BY DEF beginMeasurement, Idle, Put, handle, TypeOK, Phases, Steps, Payloads, Contents, Flags, Routes
<1>2. Holding'
  BY DEF beginMeasurement, Idle, Put, handle, TypeOK, Holding, Phases, Flags, Readable, Started, StartedOf
<1>3. Retaining'
  BY DEF beginMeasurement, Idle, Put, handle, TypeOK, Holding, Retaining, Prepared, Phases, Sole, Putting, PuttingOf, Exclusive, Readable, Started, StartedOf, Flags
<1>4. Sole'
  BY DEF beginMeasurement, Idle, Put, handle, TypeOK, Holding, Retaining, Sole, Prepared, Finished, Readable, Phases, Putting, PuttingOf, Started, StartedOf, Flags
<1>5. Putting'
  BY DEF beginMeasurement, Idle, Put, handle, TypeOK, Holding, Retaining, Putting, PuttingOf, Prepared, Finished, Phases, Flags, Exclusive, Started, StartedOf, Sole
<1>6. Exclusive'
  BY DEF beginMeasurement, Idle, Put, handle, TypeOK, Holding, Exclusive, Putting, PuttingOf, Phases
<1>7. Started'
  BY DEF beginMeasurement, Idle, Put, handle, TypeOK, Holding, Started, StartedOf, Readable, Phases, Putting, PuttingOf, Contents, Payloads, Routes
<1>8. PhasesConsistent'
  BY DEF beginMeasurement, Idle, Put, handle, TypeOK, Holding, Sole, Putting, PuttingOf, Retaining, PhasesConsistent, Readable, Phases, Prepared, Finished
<1>9. QED
  BY <1>1, <1>2, <1>3, <1>4, <1>5, <1>6, <1>7, <1>8

LEMMA IInvNext == IInv /\ [Next]_vars => IInv'
<1> SUFFICES ASSUME IInv, [Next]_vars PROVE IInv'
  OBVIOUS
<1>1. ASSUME NEW p \in Procs,
             \/ Create(p) \/ Write(p) \/ PutFails(p) \/ recorder(p)
             \/ Prepare(p) \/ PrepareGivesUp(p) \/ Finish(p) \/ End(p)
             \/ SelectNative(p)
      PROVE  IInv'
  BY <1>1, CreateStep, WriteStep, PutFailsStep, recorderStep, PrepareStep,
     PrepareGivesUpStep, FinishStep, EndStep, SelectNativeStep
<1>2. ASSUME NEW p \in Procs, NEW r \in Requests, Request(p, r) \/ LoadNative(p, r)
      PROVE  IInv'
  BY <1>2, RequestStep, LoadNativeStep
<1>3. ASSUME NEW p \in Procs, NEW a \in Attempts,
             \/ resumeMeasurement(p, a)
             \/ \E route \in Routes : beginMeasurement(p, a, route)
      PROVE  IInv'
  BY <1>3, resumeMeasurementStep, beginMeasurementStep
<1>4. CASE UNCHANGED vars
  BY <1>4 DEF vars, handle, IInv, TypeOK, Holding, Retaining, Sole, Putting,
     PuttingOf, Exclusive, Started, StartedOf, PhasesConsistent, Prepared,
     Finished, Readable
<1>5. QED
  BY <1>1, <1>2, <1>3, <1>4 DEF Next

\* The inductive invariant of the ledger.
THEOREM Invariance == Spec => []IInv
<1>1. QED
  BY IInvInit, IInvNext, PTL DEF Spec

\* Every state of the ledger has its types.
THEOREM Typing == Spec => []TypeOK
<1>1. IInv => TypeOK
  BY DEF IInv
<1>2. QED
  BY <1>1, Invariance, PTL

\* Whatever the processes do, preparation and terminal of an attempt agree.
THEOREM Consistency == Spec => []PhasesConsistent
<1>1. IInv => PhasesConsistent
  BY DEF IInv
<1>2. QED
  BY <1>1, Invariance, PTL

-----------------------------------------------------------------------------
\* Files are never rewritten.  Only Create and Write change a file.
LEMMA FilesKept ==
    ASSUME Next
    PROVE  \/ \E p \in Procs : Create(p) \/ Write(p)
           \/ file' = file
  BY DEF Next, PutFails, recorder, Prepare, PrepareGivesUp, Finish, End,
     SelectNative, Request, LoadNative, resumeMeasurement, beginMeasurement

\* A record that exists is only completed, and only by the process that
\* created its file.
THEOREM NeverRewritten == Spec => Immutable
<1> DEFINE Kept == \A a \in Attempts, ph \in Phases :
                      file[a][ph] # "absent" /\ file'[a][ph] # file[a][ph]
                          => file[a][ph] = "torn"
                             /\ \E p \in Procs : /\ step[p] = "write"
                                                 /\ on[p] = a /\ writing[p] = ph
<1>1. ASSUME IInv, NEW p \in Procs, Create(p) PROVE Kept
  <2>1. file[on[p]][writing[p]] = "absent"
    BY <1>1 DEF Create
  <2>2. QED
    BY <1>1, <2>1, CreatedFile DEF IInv
<1>2. ASSUME IInv, NEW p \in Procs, Write(p) PROVE Kept
  <2>1. file[on[p]][writing[p]] = "torn" /\ step[p] = "write"
    BY <1>2 DEF Write, IInv, Putting, PuttingOf
  <2>2. QED
    BY <1>2, <2>1, WrittenFile DEF IInv
<1>3. IInv /\ [Next]_vars => [Kept]_vars
  BY <1>1, <1>2, FilesKept DEF vars
<1>4. QED
  BY <1>3, Invariance, PTL DEF Spec, Immutable

-----------------------------------------------------------------------------
\* How far overlapping writers exceed the limit.  The strengthening counts the
\* processes that have scanned the directory and not yet created their file.
Scanned == {p \in Procs : step[p] = "put"}

Load == Cardinality(Entries) + Cardinality(Scanned) + Foreign

BoundInv == TypeOK /\ Holding /\ Load <= MaxFiles - 1 + Cardinality(Procs)

LEMMA SetsFinite ==
    /\ IsFiniteSet(Entries) /\ Cardinality(Entries) \in Nat
    /\ IsFiniteSet(Scanned) /\ Cardinality(Scanned) \in Nat
    /\ Cardinality(Scanned) <= Cardinality(Procs)
    /\ Cardinality(Procs) \in Nat /\ Cardinality(Procs) >= 1
<1>1. IsFiniteSet(Attempts \X Phases)
  <2>1. IsFiniteSet(Phases)
    <3>1. Phases = ({"start"} \cup {"prepared"}) \cup {"terminal"}
      BY DEF Phases
    <3>2. QED
      BY <3>1, FS_Singleton, FS_Union
  <2>2. QED
    BY <2>1, LedgerAssumption, FS_Product
<1>2. IsFiniteSet(Entries)
  BY <1>1, FS_Subset DEF Entries
<1>3. IsFiniteSet(Scanned) /\ Cardinality(Scanned) <= Cardinality(Procs)
  BY LedgerAssumption, FS_Subset DEF Scanned
<1>4. Cardinality(Procs) \in Nat /\ Cardinality(Procs) # 0
  BY LedgerAssumption, FS_CardinalityType, FS_EmptySet
<1>5. QED
  BY <1>2, <1>3, <1>4, FS_CardinalityType

\* A scan that leaves room for one more keeps the bound, whatever the others do.
LEMMA ScanKeepsBound ==
    ASSUME TypeOK, TypeOK', NEW k \in 1 .. 3, Room(k), file' = file
    PROVE  Load' <= MaxFiles - 1 + Cardinality(Procs)
<1>1. Entries' = Entries
  BY DEF Entries
<1>2. Cardinality(Scanned)' <= Cardinality(Procs) /\ Cardinality(Scanned)' \in Nat
  BY SetsFinite, LedgerAssumption, FS_Subset, FS_CardinalityType DEF Scanned
<1>3. Cardinality(Entries) + Foreign <= MaxFiles - 1
  BY SetsFinite, LedgerAssumption DEF Room
<1>4. QED
  BY <1>1, <1>2, <1>3, SetsFinite, LedgerAssumption DEF Load

\* A process that no longer is about to create a file lowers the load.
LEMMA LeavingKeepsBound ==
    ASSUME BoundInv, file' = file, Scanned' \subseteq Scanned
    PROVE  Load' <= MaxFiles - 1 + Cardinality(Procs)
<1>1. Entries' = Entries
  BY DEF Entries
<1>2. Cardinality(Scanned)' <= Cardinality(Scanned) /\ Cardinality(Scanned)' \in Nat
  BY SetsFinite, FS_Subset, FS_CardinalityType
<1>3. QED
  BY <1>1, <1>2, SetsFinite, LedgerAssumption DEF Load, BoundInv

LEMMA CreateKeepsBound ==
    ASSUME BoundInv, NEW p \in Procs, Create(p)
    PROVE  Load' <= MaxFiles - 1 + Cardinality(Procs)
<1>1. on[p] \in Attempts /\ writing[p] \in Phases
  BY DEF Create, BoundInv, TypeOK, Holding
<1>2. Entries' = Entries \cup {<<on[p], writing[p]>>}
  BY <1>1, CreatedFile DEF Entries, BoundInv
<1>3. <<on[p], writing[p]>> \notin Entries
  BY DEF Entries, Create
<1>4. Cardinality(Entries') = Cardinality(Entries) + 1
  BY <1>2, <1>3, SetsFinite, FS_AddElement
<1>5. Scanned' = Scanned \ {p} /\ p \in Scanned
  BY DEF Scanned, Create, BoundInv, TypeOK
<1>6. Cardinality(Scanned') = Cardinality(Scanned) - 1
  BY <1>5, SetsFinite, FS_RemoveElement
<1>7. QED
  BY <1>4, <1>6, SetsFinite, LedgerAssumption DEF Load, BoundInv

LEMMA WriteKeepsBound ==
    ASSUME BoundInv, NEW p \in Procs, Write(p), payload[p] # "absent",
           file[on[p]][writing[p]] = "torn"
    PROVE  Load' <= MaxFiles - 1 + Cardinality(Procs)
<1>1. on[p] \in Attempts /\ writing[p] \in Phases
  BY DEF Write, BoundInv, TypeOK, Holding
<1>2. Entries' = Entries
  BY <1>1, WrittenFile DEF Entries, BoundInv
<1>3. Scanned' = Scanned
  BY DEF Scanned, Write, BoundInv, TypeOK
<1>4. QED
  BY <1>2, <1>3 DEF Load, BoundInv

\* Writers that overlap exceed the limit of the directory by less than their
\* number: the scans are no reservation, but each writer adds one file.
THEOREM Overshoot == Spec => []OvershootBounded
<1> DEFINE Bound == Load <= MaxFiles - 1 + Cardinality(Procs)
<1>1. Init => Bound
  <2> SUFFICES ASSUME Init PROVE Bound
    OBVIOUS
  <2>1. Entries = {} /\ Scanned = {}
    BY DEF Init, Entries, Scanned
  <2>2. Cardinality(Entries) = 0 /\ Cardinality(Scanned) = 0
    BY <2>1, FS_EmptySet
  <2>3. QED
    BY <2>2, SetsFinite, LedgerAssumption DEF Load
<1>2. IInv /\ IInv' /\ Bound /\ [Next]_vars => Bound'
  <2> SUFFICES ASSUME IInv, IInv', Bound, [Next]_vars PROVE Bound'
    OBVIOUS
  <2>0. BoundInv /\ TypeOK /\ TypeOK'
    BY DEF IInv, BoundInv
  <2>1. Cardinality(Procs)' = Cardinality(Procs)
    OBVIOUS
  <2>2. ASSUME NEW p \in Procs, Create(p) PROVE Bound'
    BY <2>0, <2>1, <2>2, CreateKeepsBound
  <2>3. ASSUME NEW p \in Procs, Write(p) PROVE Bound'
    <3>1. payload[p] # "absent"
      BY LedgerAssumption DEF IInv, TypeOK, Payloads, Routes
    <3>2. file[on[p]][writing[p]] = "torn"
      BY <2>3 DEF IInv, Putting, PuttingOf, Write
    <3>3. QED
      BY <2>0, <2>3, <3>1, <3>2, WriteKeepsBound
  <2>4. ASSUME NEW p \in Procs, Prepare(p) PROVE Bound'
    <3>1. Room(2) /\ file' = file
      BY <2>4 DEF Prepare
    <3>2. QED
      BY <2>0, <3>1, ScanKeepsBound
  <2>5. ASSUME NEW p \in Procs, Finish(p) PROVE Bound'
    <3>1. file' = file /\ (Room(1) \/ step' = step)
      BY <2>5 DEF Finish
    <3>2. CASE Room(1)
      BY <2>0, <3>1, <3>2, ScanKeepsBound
    <3>3. CASE step' = step
      BY <2>0, <3>1, <3>3, LeavingKeepsBound DEF Scanned
    <3>4. QED
      BY <3>1, <3>2, <3>3
  <2>6. ASSUME NEW p \in Procs, NEW a \in Attempts, NEW route \in Routes,
               beginMeasurement(p, a, route)
        PROVE  Bound'
    <3>1. Room(3) /\ file' = file
      BY <2>6 DEF beginMeasurement
    <3>2. QED
      BY <2>0, <3>1, ScanKeepsBound
  <2>7. ASSUME NEW p \in Procs,
               \/ PutFails(p) \/ recorder(p) \/ PrepareGivesUp(p) \/ End(p)
               \/ SelectNative(p)
               \/ \E r \in Requests : Request(p, r) \/ LoadNative(p, r)
               \/ \E a \in Attempts : resumeMeasurement(p, a)
        PROVE  Bound'
    <3>1. file' = file
      BY <2>7 DEF PutFails, recorder, PrepareGivesUp, End, SelectNative,
         Request, LoadNative, resumeMeasurement
    <3>2. Scanned' \subseteq Scanned
      BY <2>0, <2>7 DEF Scanned, PutFails, recorder, PrepareGivesUp, End, Idle,
         SelectNative, Request, LoadNative, resumeMeasurement, TypeOK
    <3>3. QED
      BY <2>0, <3>1, <3>2, LeavingKeepsBound
  <2>8. CASE UNCHANGED vars
    BY <2>0, <2>8, LeavingKeepsBound DEF vars, Scanned
  <2>9. QED
    BY <2>2, <2>3, <2>4, <2>5, <2>6, <2>7, <2>8 DEF Next
<1>3. Bound => OvershootBounded
  BY SetsFinite, LedgerAssumption DEF Load, OvershootBounded
<1>4. QED
  BY <1>1, <1>2, <1>3, Invariance, PTL DEF Spec

-----------------------------------------------------------------------------
\* Room in turns.  Between its scan and its last file a process that is alone
\* counts down the room its scan found, one entry for each file it creates.
RoomOf(p) ==
    /\ step[p] = "put" /\ writing[p] = "start" => Room(3)
    /\ step[p] = "put" /\ writing[p] = "prepared" => Room(2)
    /\ step[p] = "write" /\ writing[p] = "start" => Room(2)
    /\ step[p] = "write" /\ writing[p] = "prepared" => Room(1)
    /\ step[p] = "opening" /\ payload[p] \in Routes => Room(2)
    /\ step[p] = "open" /\ ~Finished(p) => Room(1)

Rested == \A p \in Procs : step[p] = "away" => payload[p] = None

TurnsInv == Rested /\ (alone => \A p \in Procs : RoomOf(p))

\* Less room is there when more is.
LEMMA RoomWeakens ==
    ASSUME NEW k \in 1 .. 3, NEW n \in 1 .. 3, n <= k, Room(k)
    PROVE  Room(n)
  BY SetsFinite, LedgerAssumption DEF Room

\* A step of one process leaves what the others are doing.
LEMMA OthersKept ==
    ASSUME TypeOK, NEW p \in Procs,
           \/ Create(p) \/ Write(p) \/ PutFails(p) \/ recorder(p)
           \/ Prepare(p) \/ PrepareGivesUp(p) \/ Finish(p) \/ End(p) \/ SelectNative(p)
           \/ \E r \in Requests : Request(p, r) \/ LoadNative(p, r)
           \/ \E a \in Attempts :
                 \/ resumeMeasurement(p, a)
                 \/ \E route \in Routes : beginMeasurement(p, a, route)
    PROVE  \A q \in Procs : q # p =>
              /\ step'[q] = step[q] /\ writing'[q] = writing[q]
              /\ payload'[q] = payload[q] /\ flags'[q] = flags[q]
<1>1. CASE Create(p) \/ Write(p) \/ PutFails(p)
  BY <1>1 DEF Create, Write, PutFails, Idle, handle, TypeOK
<1>2. CASE recorder(p) \/ End(p) \/ SelectNative(p)
  BY <1>2 DEF recorder, End, SelectNative, Idle, handle, TypeOK
<1>3. CASE Prepare(p) \/ PrepareGivesUp(p) \/ Finish(p)
  BY <1>3 DEF Prepare, PrepareGivesUp, Finish, Put, TypeOK
<1>4. ASSUME NEW r \in Requests, Request(p, r) \/ LoadNative(p, r)
      PROVE  \A q \in Procs : q # p =>
                /\ step'[q] = step[q] /\ writing'[q] = writing[q]
                /\ payload'[q] = payload[q] /\ flags'[q] = flags[q]
  BY <1>4 DEF Request, LoadNative, TypeOK
<1>5. ASSUME NEW a \in Attempts,
             \/ resumeMeasurement(p, a)
             \/ \E route \in Routes : beginMeasurement(p, a, route)
      PROVE  \A q \in Procs : q # p =>
                /\ step'[q] = step[q] /\ writing'[q] = writing[q]
                /\ payload'[q] = payload[q] /\ flags'[q] = flags[q]
  BY <1>5 DEF resumeMeasurement, beginMeasurement, Put, TypeOK
<1>6. QED
  BY <1>1, <1>2, <1>3, <1>4, <1>5

\* The entries change by a file that is created and by nothing else.
LEMMA EntriesGrow ==
    ASSUME IInv, NEW p \in Procs, Create(p)
    PROVE  \A k \in 2 .. 3 : Room(k) => Room(k - 1)'
<1>0. TypeOK /\ Holding
  BY DEF IInv
<1>1. on[p] \in Attempts /\ writing[p] \in Phases
  BY <1>0 DEF Create, TypeOK, Holding
<1>2. Entries' = Entries \cup {<<on[p], writing[p]>>} /\ <<on[p], writing[p]>> \notin Entries
  <2>1. Entries' = Entries \cup {<<on[p], writing[p]>>}
    BY <1>0, <1>1, CreatedFile DEF Entries
  <2>2. QED
    BY <2>1 DEF Entries, Create
<1>3. Cardinality(Entries') = Cardinality(Entries) + 1
  BY <1>2, SetsFinite, FS_AddElement
<1>4. QED
  BY <1>3, SetsFinite, LedgerAssumption DEF Room

LEMMA EntriesKept ==
    ASSUME IInv, Next, \A p \in Procs : ~Create(p)
    PROVE  \A k \in 1 .. 3 : Room(k)' = Room(k)
<1>1. Entries' = Entries
  <2>1. ASSUME NEW p \in Procs, Write(p) PROVE Entries' = Entries
    <3>1. /\ on[p] \in Attempts /\ writing[p] \in Phases
          /\ file[on[p]][writing[p]] = "torn" /\ payload[p] # "absent"
      BY <2>1, LedgerAssumption
      DEF Write, IInv, TypeOK, Holding, Putting, PuttingOf, Payloads, Routes
    <3>2. QED
      BY <2>1, <3>1, WrittenFile DEF Entries, IInv
  <2>2. QED
    BY <2>1, FilesKept DEF Entries
<1>2. QED
  BY <1>1 DEF Room

LEMMA RoomOfInit == HistoryInit => TurnsInv
  BY DEF HistoryInit, Init, TurnsInv, Rested, RoomOf

LEMMA RestedNext == ASSUME IInv, Rested, Next PROVE Rested'
<1> SUFFICES ASSUME NEW q \in Procs, step'[q] = "away" PROVE payload'[q] = None
  BY DEF Rested
<1>1. PICK p \in Procs :
        \/ Create(p) \/ Write(p) \/ PutFails(p) \/ recorder(p)
        \/ Prepare(p) \/ PrepareGivesUp(p) \/ Finish(p) \/ End(p) \/ SelectNative(p)
        \/ \E r \in Requests : Request(p, r) \/ LoadNative(p, r)
        \/ \E a \in Attempts :
              \/ resumeMeasurement(p, a)
              \/ \E route \in Routes : beginMeasurement(p, a, route)
  BY DEF Next
<1>2. CASE q # p
  BY <1>1, <1>2, OthersKept DEF IInv, Rested
<1>3. CASE q = p
  <2>1. step'[p] = "away"
    BY <1>3
  <2>2. Idle(p) \/ step'[p] # "away"
    <3>1. CASE Create(p) \/ Write(p) \/ PutFails(p)
      BY <3>1 DEF Create, Write, PutFails, IInv, TypeOK
    <3>2. CASE recorder(p) \/ End(p) \/ SelectNative(p)
      BY <3>2 DEF recorder, End, SelectNative, IInv, TypeOK
    <3>3. CASE Prepare(p) \/ PrepareGivesUp(p) \/ Finish(p)
      BY <3>3 DEF Prepare, PrepareGivesUp, Finish, Put, IInv, TypeOK
    <3>4. ASSUME NEW r \in Requests, Request(p, r) \/ LoadNative(p, r) PROVE step'[p] # "away"
      BY <3>4 DEF Request, LoadNative, IInv, TypeOK
    <3>5. ASSUME NEW a \in Attempts,
                 \/ resumeMeasurement(p, a)
                 \/ \E route \in Routes : beginMeasurement(p, a, route)
          PROVE  step'[p] # "away"
      BY <3>5 DEF resumeMeasurement, beginMeasurement, Put, IInv, TypeOK
    <3>6. QED
      BY <1>1, <3>1, <3>2, <3>3, <3>4, <3>5
  <2>3. Idle(p)
    BY <2>1, <2>2
  <2>4. QED
    BY <1>3, <2>3 DEF Idle, IInv, TypeOK
<1>4. QED
  BY <1>2, <1>3

\* Nobody else is at work when a process that takes turns creates a file.
LEMMA CreateInTurn ==
    ASSUME IInv, IInv', \A q \in Procs : RoomOf(q), NEW p \in Procs, Create(p),
           Cardinality(Working') <= 1
    PROVE  \A q \in Procs : RoomOf(q)'
<1>1. /\ step[p] = "put" /\ step'[p] = "write"
      /\ writing'[p] = writing[p]
  BY DEF Create, handle, IInv, TypeOK
<1>2. ASSUME NEW q \in Procs, q # p PROVE RoomOf(q)'
  <2>1. step'[q] = "away"
    <3>1. IsFiniteSet(Working') /\ p \in Working'
      BY <1>1, LedgerAssumption, FS_Subset DEF Working
    <3>2. SUFFICES ASSUME q \in Working' PROVE FALSE
      BY DEF Working
    <3>3. {p, q} \subseteq Working' /\ Cardinality({p, q}) = 2
      <4>1. IsFiniteSet({p}) /\ Cardinality({p}) = 1 /\ q \notin {p} /\ {p} \cup {q} = {p, q}
        BY <1>2, FS_Singleton
      <4>2. Cardinality({p} \cup {q}) = Cardinality({p}) + 1
        BY <4>1, FS_AddElement
      <4>3. QED
        BY <3>1, <3>2, <4>1, <4>2
    <3>4. Cardinality({p, q}) <= Cardinality(Working')
      BY <3>1, <3>3, FS_Subset
    <3>5. Cardinality(Working') \in Nat
      BY <3>1, FS_CardinalityType
    <3>6. QED
      BY <3>3, <3>4, <3>5
  <2>2. QED
    BY <2>1 DEF RoomOf
<1>3. RoomOf(p)'
  <2>1. writing[p] = "start" => Room(2)'
    BY <1>1, EntriesGrow DEF RoomOf
  <2>2. writing[p] = "prepared" => Room(1)'
    BY <1>1, EntriesGrow DEF RoomOf
  <2>3. QED
    BY <1>1, <2>1, <2>2 DEF RoomOf
<1>4. QED
  BY <1>2, <1>3

\* A process keeps its room as long as no file is created.
LEMMA RoomOfNext ==
    ASSUME IInv, IInv', Rested, \A q \in Procs : RoomOf(q), Next, \A q \in Procs : ~Create(q)
    PROVE  \A q \in Procs : RoomOf(q)'
<1>1. PICK p \in Procs :
        \/ Create(p) \/ Write(p) \/ PutFails(p) \/ recorder(p)
        \/ Prepare(p) \/ PrepareGivesUp(p) \/ Finish(p) \/ End(p) \/ SelectNative(p)
        \/ \E r \in Requests : Request(p, r) \/ LoadNative(p, r)
        \/ \E a \in Attempts :
              \/ resumeMeasurement(p, a)
              \/ \E route \in Routes : beginMeasurement(p, a, route)
  BY DEF Next
<1>2. \A k \in 1 .. 3 : Room(k)' = Room(k)
  BY EntriesKept
<1>3. ASSUME NEW q \in Procs, q # p PROVE RoomOf(q)'
  <2>1. /\ step'[q] = step[q] /\ writing'[q] = writing[q]
        /\ payload'[q] = payload[q] /\ flags'[q] = flags[q]
    BY <1>1, <1>3, OthersKept DEF IInv
  <2>2. QED
    BY <1>2, <2>1 DEF RoomOf, Finished
<1>4. RoomOf(p)'
  <2>0. TypeOK
    BY DEF IInv
  <2>1. CASE Write(p)
    <3>1. /\ step[p] = "write" /\ writing'[p] = writing[p]
          /\ step'[p] = IF writing[p] = "start" THEN "opening" ELSE "open"
          /\ writing[p] = "terminal" => Finished(p) /\ flags' = flags
      BY <2>0, <2>1 DEF Write, IInv, Putting, PuttingOf, TypeOK
    <3>2. QED
      BY <1>2, <3>1, <2>0 DEF RoomOf, Finished, TypeOK, Phases
  <2>2. CASE PutFails(p)
    <3>1. CASE writing[p] = "start"
      BY <2>0, <2>2, <3>1 DEF PutFails, Idle, RoomOf, TypeOK
    <3>2. CASE writing[p] # "start"
      <4>1. /\ step'[p] = "open" /\ step[p] \in {"put", "write"}
            /\ writing[p] = "terminal" => Finished(p) /\ flags'[p] = flags[p]
        BY <2>0, <2>2, <3>2 DEF PutFails, IInv, Putting, PuttingOf, TypeOK
      <4>2. writing[p] = "prepared" => Room(1)
        BY <4>1, RoomWeakens DEF RoomOf
      <4>3. writing[p] \in {"prepared", "terminal"}
        BY <2>0, <3>2 DEF TypeOK, Phases
      <4>4. QED
        BY <1>2, <4>1, <4>2, <4>3 DEF RoomOf, Finished
    <3>3. QED
      BY <3>1, <3>2
  <2>3. CASE recorder(p)
    <3>1. CASE Idle(p)
      BY <2>0, <3>1 DEF Idle, RoomOf, TypeOK
    <3>2. CASE step' = [step EXCEPT ![p] = "open"] /\ Room(IF "prepared" \in flags[p] THEN 1 ELSE 2)
      <4>1. Room(1)
        BY <3>2, RoomWeakens
      <4>2. QED
        BY <1>2, <2>0, <3>2, <4>1 DEF RoomOf, TypeOK
    <3>3. QED
      BY <2>3, <3>1, <3>2 DEF recorder
  <2>4. CASE Prepare(p)
    BY <1>2, <2>0, <2>4 DEF Prepare, Put, RoomOf, TypeOK
  <2>5. CASE PrepareGivesUp(p)
    BY <1>2, <2>0, <2>5 DEF PrepareGivesUp, RoomOf, Finished, TypeOK
  <2>6. CASE Finish(p)
    <3>1. /\ Finished(p)'
          /\ (step'[p] = "put" /\ writing'[p] = "terminal") \/ step'[p] = "open"
      BY <2>0, <2>6 DEF Finish, Put, Finished, TypeOK
    <3>2. QED
      BY <3>1 DEF RoomOf
  <2>7. CASE End(p)
    BY <2>0, <2>7 DEF End, Idle, RoomOf, TypeOK
  <2>8. CASE SelectNative(p)
    <3>1. CASE Idle(p)
      BY <2>0, <3>1 DEF Idle, RoomOf, TypeOK
    <3>2. CASE ~Idle(p)
      <4>1. /\ step[p] = "selecting" /\ step'[p] = "opening" /\ payload'[p] = payload[p]
        BY <2>0, <2>8, <3>2 DEF SelectNative, TypeOK
      <4>2. payload[p] \notin Routes
        BY <4>1, LedgerAssumption DEF IInv, Started, StartedOf
      <4>3. QED
        BY <4>1, <4>2 DEF RoomOf
    <3>3. QED
      BY <3>1, <3>2
  <2>9. ASSUME NEW r \in Requests, Request(p, r) PROVE RoomOf(p)'
    <3>1. step[p] = "open" /\ step'[p] = "open" /\ ~Finished(p)
      BY <2>9 DEF Request, Finished
    <3>2. QED
      BY <1>2, <3>1 DEF RoomOf
  <2>10. ASSUME NEW r \in Requests, LoadNative(p, r) PROVE RoomOf(p)'
    BY <2>0, <2>10 DEF LoadNative, RoomOf, TypeOK
  <2>11. ASSUME NEW a \in Attempts, resumeMeasurement(p, a) PROVE RoomOf(p)'
    <3>1. step'[p] = "opening" /\ payload'[p] = None
      BY <2>0, <2>11 DEF resumeMeasurement, Rested, TypeOK
    <3>2. QED
      BY <3>1, LedgerAssumption DEF RoomOf
  <2>12. ASSUME NEW a \in Attempts, NEW route \in Routes, beginMeasurement(p, a, route)
         PROVE  RoomOf(p)'
    BY <1>2, <2>0, <2>12 DEF beginMeasurement, Put, RoomOf, TypeOK
  <2>13. QED
    BY <1>1, <2>1, <2>2, <2>3, <2>4, <2>5, <2>6, <2>7, <2>8, <2>9, <2>10, <2>11, <2>12
<1>5. QED
  BY <1>3, <1>4

\* As long as the processes of the directory take turns, the scan of the
\* admission is a reservation: every attempt it admits gets its recorder and
\* keeps the room for its terminal, whatever fails or is killed on the way.
THEOREM TurnsKeepRoom == HistorySpec => []RoomKeptInTurns
<1>1. IInv /\ IInv' /\ TurnsInv /\ [HistoryNext]_<<vars, alone>> => TurnsInv'
  <2> SUFFICES ASSUME IInv, IInv', TurnsInv, [HistoryNext]_<<vars, alone>> PROVE TurnsInv'
    OBVIOUS
  <2>1. CASE UNCHANGED <<vars, alone>>
    BY <2>1 DEF vars, handle, TurnsInv, Rested, RoomOf, Room, Entries, Finished
  <2>2. CASE HistoryNext
    <3>1. Next /\ (alone' => alone /\ Cardinality(Working') <= 1)
      BY <2>2, Zenon DEF HistoryNext
    <3>2. Rested'
      BY <3>1, RestedNext DEF TurnsInv
    <3>3. alone' => \A q \in Procs : RoomOf(q)'
      BY <3>1, CreateInTurn, RoomOfNext DEF TurnsInv
    <3>4. QED
      BY <3>2, <3>3 DEF TurnsInv
  <2>3. QED
    BY <2>1, <2>2
<1>2. IInv /\ TurnsInv => RoomKeptInTurns
  BY DEF IInv, TurnsInv, RoomOf, RoomKeptInTurns, RoomKept, Finished
<1>3. HistoryInit => Init
  BY DEF HistoryInit
<1>4. [HistoryNext]_<<vars, alone>> => [Next]_vars
  BY DEF HistoryNext, vars
<1>5. HistorySpec => []IInv
  BY <1>3, <1>4, IInvInit, IInvNext, PTL DEF HistorySpec
<1>6. QED
  BY <1>1, <1>2, <1>5, RoomOfInit, PTL DEF HistorySpec

-----------------------------------------------------------------------------
\* The directory implements AttemptHistory: completing a record is the step of
\* the history that its phase names, everything else stutters.
Seen(ph) == {a \in Attempts : Readable(a, ph)}
Recorded(ph) == [a \in Attempts |->
                   IF Readable(a, ph) THEN file[a][ph] ELSE None]

HistoryState == <<Seen("start"), Recorded("prepared"),
                  Seen("terminal"), Recorded("terminal")>>

LEMMA WriteIsAStep ==
    ASSUME IInv, NEW p \in Procs, Write(p), NEW a \in Attempts, a = on[p]
    PROVE  History!HistoryNext
<1>1. a \in Attempts /\ writing[p] \in Phases /\ file[a][writing[p]] = "torn"
  BY DEF Write, IInv, TypeOK, Holding, Putting, PuttingOf
<1>2. payload[p] \notin {"absent", "torn"}
  BY LedgerAssumption DEF IInv, TypeOK, Payloads, Routes
<1>3. \A b \in Attempts, ph \in Phases :
         file'[b][ph] = IF b = a /\ ph = writing[p] THEN payload[p] ELSE file[b][ph]
  BY WrittenFile DEF IInv
<1>4. writing[p] \in {"start", "prepared", "terminal"} /\ Phases = {"start", "prepared", "terminal"}
  BY <1>1 DEF Phases
<1>5. ASSUME NEW ph \in Phases, ph # writing[p]
      PROVE  Seen(ph)' = Seen(ph) /\ Recorded(ph)' = Recorded(ph)
  <2>1. \A b \in Attempts : file'[b][ph] = file[b][ph]
    BY <1>3, <1>5
  <2>2. QED
    BY <2>1 DEF Seen, Recorded, Readable
<1>6. /\ a \notin Seen(writing[p])
      /\ \A b \in Attempts : Readable(b, writing[p])' <=> b = a \/ Readable(b, writing[p])
      /\ file'[a][writing[p]] = payload[p]
      /\ \A b \in Attempts : b # a => file'[b][writing[p]] = file[b][writing[p]]
      /\ writing' = writing
  <2>1. writing' = writing
    BY DEF Write
  <2>2. QED
    BY <1>1, <1>2, <1>3, <2>1 DEF Seen, Readable
<1>7. \A ph \in Phases : ph = writing[p] =>
         /\ Seen(ph)' = Seen(ph) \cup {a}
         /\ Recorded(ph)' = [Recorded(ph) EXCEPT ![a] = payload[p]]
  <2>1. Seen(writing[p])' = Seen(writing[p]) \cup {a}
    BY <1>1, <1>6 DEF Seen
  <2>2. \A b \in Attempts : Recorded(writing[p])'[b] =
           [Recorded(writing[p]) EXCEPT ![a] = payload[p]][b]
    BY <1>1, <1>2, <1>6 DEF Recorded, Readable
  <2>3. Recorded(writing[p])' = [Recorded(writing[p]) EXCEPT ![a] = payload[p]]
    BY <2>2 DEF Recorded
  <2>4. QED
    BY <1>6, <2>1, <2>3
<1>8. CASE writing[p] = "start"
  <2>1. Seen("start")' = Seen("start") \cup {a} /\ a \notin Seen("start")
    BY <1>4, <1>6, <1>7, <1>8
  <2>2. UNCHANGED <<Recorded("prepared"), Seen("terminal"), Recorded("terminal")>>
    BY <1>4, <1>5, <1>8
  <2>3. History!StartRecorded(a)
    BY <2>1, <2>2 DEF History!StartRecorded, Seen, Recorded
  <2>4. QED
    BY <1>1, <2>3 DEF History!HistoryNext
<1>9. CASE writing[p] = "prepared"
  <2>1. Recorded("prepared")' = [Recorded("prepared") EXCEPT ![a] = payload[p]]
    BY <1>4, <1>7, <1>9
  <2>2. UNCHANGED <<Seen("start"), Seen("terminal"), Recorded("terminal")>>
    BY <1>4, <1>5, <1>9
  <2>3. flags[p] = {"preparing"} /\ payload[p] \in Requests /\ on[p] # None
    BY <1>9 DEF Write, IInv, Putting, PuttingOf, Holding
  <2>4. file[a]["terminal"] = "absent" /\ ~Readable(a, "prepared")
    BY <2>3 DEF IInv, Sole, Prepared, Finished
  <2>5. Readable(a, "start")
    BY <1>9, <2>3 DEF IInv, Started, StartedOf
  <2>6. a \in Seen("start") /\ a \notin Seen("terminal") /\ Recorded("prepared")[a] = None
    BY <1>1, <2>4, <2>5 DEF Seen, Recorded, Readable
  <2>7. PICK r \in Requests : r = payload[p]
    BY <2>3
  <2>8. History!RequestRecorded(a, r)
    BY <2>1, <2>2, <2>6, <2>7 DEF History!RequestRecorded, Seen, Recorded
  <2>9. QED
    BY <2>8 DEF History!HistoryNext
<1>10. CASE writing[p] = "terminal"
  <2>1. Seen("terminal")' = Seen("terminal") \cup {a} /\ a \notin Seen("terminal")
        /\ Recorded("terminal")' = [Recorded("terminal") EXCEPT ![a] = payload[p]]
    BY <1>4, <1>6, <1>7, <1>10
  <2>2. UNCHANGED <<Seen("start"), Recorded("prepared")>>
    BY <1>4, <1>5, <1>10
  <2>3. payload[p] = request[p] /\ on[p] # None
    BY <1>10 DEF Write, IInv, Putting, PuttingOf, Holding
  <2>4. Recorded("prepared")[a] = payload[p]
    <3>1. CASE Prepared(p)
      BY <1>1, <2>3, <3>1, LedgerAssumption DEF IInv, Retaining, Recorded, Readable
    <3>2. CASE ~Prepared(p)
      BY <1>1, <2>3, <3>2 DEF IInv, Retaining, Sole, Recorded
    <3>3. QED
      BY <3>1, <3>2
  <2>5. a \in Seen("start")
    BY <1>1, <1>10, <2>3 DEF IInv, Started, StartedOf, Seen
  <2>6. History!TerminalRecorded(a)
    BY <2>1, <2>2, <2>4, <2>5 DEF History!TerminalRecorded, Seen, Recorded
  <2>7. \E b \in Attempts : History!TerminalRecorded(b)
    BY <2>6
  <2>8. QED
    BY <2>7 DEF History!HistoryNext
<1>11. QED
  BY <1>4, <1>8, <1>9, <1>10

LEMMA OtherFilesStutter ==
    ASSUME IInv, file' = file \/ \E p \in Procs : Create(p)
    PROVE  UNCHANGED HistoryState
<1>1. \A a \in Attempts, ph \in Phases :
         \/ file'[a][ph] = file[a][ph]
         \/ file[a][ph] = "absent" /\ file'[a][ph] = "torn"
  <2>1. ASSUME NEW p \in Procs, Create(p),
               NEW a \in Attempts, NEW ph \in Phases
        PROVE  \/ file'[a][ph] = file[a][ph]
               \/ file[a][ph] = "absent" /\ file'[a][ph] = "torn"
    <3>1. TypeOK /\ Holding /\ file[on[p]][writing[p]] = "absent"
      BY <2>1 DEF IInv, Create
    <3>2. file'[a][ph] = IF a = on[p] /\ ph = writing[p] THEN "torn" ELSE file[a][ph]
      BY <2>1, <3>1, CreatedFile
    <3>3. QED
      BY <3>1, <3>2
  <2>2. CASE file' = file
    BY <2>2
  <2>3. QED
    BY <2>1, <2>2
<1>2. \A ph \in Phases : Seen(ph)' = Seen(ph) /\ Recorded(ph)' = Recorded(ph)
  BY <1>1 DEF Seen, Recorded, Readable
<1>3. QED
  BY <1>2 DEF HistoryState, Phases

\* The readable records of the directory are those of an attempt history,
\* whichever processes write them and wherever they are killed.
THEOREM HistoryRefined == Spec => HistoryKept
<1>1. Init => History!HistoryInit
  BY LedgerAssumption DEF Init, History!HistoryInit, Readable, Phases
<1>2. IInv /\ [Next]_vars => [History!HistoryNext]_(History!history)
  <2> SUFFICES ASSUME IInv, [Next]_vars
               PROVE  History!HistoryNext \/ UNCHANGED History!history
    OBVIOUS
  <2>1. UNCHANGED HistoryState => UNCHANGED History!history
    BY DEF HistoryState, History!history, Seen, Recorded
  <2>2. CASE \E p \in Procs : Write(p)
    <3>1. PICK p \in Procs : Write(p)
      BY <2>2
    <3>2. on[p] \in Attempts
      BY <3>1 DEF Write, IInv, Holding, TypeOK
    <3>3. QED
      BY <3>1, <3>2, WriteIsAStep
  <2>3. CASE file' = file \/ \E p \in Procs : Create(p)
    BY <2>1, <2>3, OtherFilesStutter
  <2>4. QED
    BY <2>2, <2>3, FilesKept DEF vars
<1>3. QED
  BY <1>1, <1>2, Invariance, PTL DEF Spec, HistoryKept, History!HistorySpec
=============================================================================
