---------------------------- MODULE IntakeProofs ----------------------------
(***************************************************************************)
(* What holds of Intake for every number of clients, polls, watchers,      *)
(* files, rows and faults: a key names one execution, the folders tell the *)
(* truth, and every start of a file beyond the first is accounted for.     *)
(***************************************************************************)
EXTENDS Intake, FiniteSetTheorems, SequenceTheorems, WellFoundedInduction, TLAPS

-----------------------------------------------------------------------------
(* Rows.                                                                   *)

\* A step that inserts nothing: no row changes its key or its cause, no task is
\* taken back and no deleted row returns.
SameRows ==
    /\ rows' \in Seq(RowType) /\ Len(rows') = Len(rows)
    /\ DOMAIN rows' = DOMAIN rows
    /\ \A i \in DOMAIN rows :
        /\ rows'[i].key = rows[i].key /\ rows'[i].cause = rows[i].cause
        /\ rows[i].task => rows'[i].task
        /\ rows[i].status = "deleted" => rows'[i].status = "deleted"

\* A step that inserts one row.
OneMore(key, cause) ==
    /\ rows' \in Seq(RowType) /\ Len(rows') = Len(rows) + 1
    /\ DOMAIN rows' = DOMAIN rows \cup {Len(rows) + 1}
    /\ \A i \in DOMAIN rows : rows'[i] = rows[i]
    /\ rows'[Len(rows) + 1].key = key
    /\ rows'[Len(rows) + 1].cause = cause
    /\ Len(rows) + 1 \notin DOMAIN rows

\* What both have in common.
RowsKept ==
    /\ DOMAIN rows \subseteq DOMAIN rows'
    /\ \A i \in DOMAIN rows :
        /\ rows'[i].key = rows[i].key /\ rows'[i].cause = rows[i].cause
        /\ rows[i].task => rows'[i].task
        /\ rows[i].status = "deleted" => rows'[i].status = "deleted"

LEMMA SameIsKept == SameRows => RowsKept
  BY DEF SameRows, RowsKept

LEMMA MoreIsKept ==
    ASSUME NEW key, NEW cause, OneMore(key, cause)
    PROVE  RowsKept
  BY DEF OneMore, RowsKept

LEMMA SameLength ==
    ASSUME TypeOK, rows' \in [1..Len(rows) -> RowType]
    PROVE  rows' \in Seq(RowType) /\ Len(rows') = Len(rows)
  <1>1. Len(rows) \in Nat
    BY DEF TypeOK
  <1>2. rows' \in Seq(RowType)
    BY <1>1, SeqDef
  <1>3. DOMAIN rows' = 1..Len(rows') /\ Len(rows') \in Nat
    BY <1>2, LenProperties
  <1>4. DOMAIN rows' = 1..Len(rows)
    OBVIOUS
  <1> QED
    BY <1>1, <1>2, <1>3, <1>4

LEMMA RowsUntouched ==
    ASSUME TypeOK, UNCHANGED rows
    PROVE  SameRows
  BY DEF TypeOK, SameRows

LEMMA TaskIsSet ==
    ASSUME TypeOK, NEW i \in DOMAIN rows, rows' = [rows EXCEPT ![i].task = TRUE]
    PROVE  SameRows /\ rows'[i].task = TRUE
  <1>1. \A j \in 1..Len(rows) : rows[j] \in RowType
    BY DEF TypeOK
  <1>2. DOMAIN rows = 1..Len(rows) /\ Len(rows) \in Nat
    BY DEF TypeOK
  <1>3. DOMAIN rows' = DOMAIN rows
    OBVIOUS
  <1>4. \A j \in DOMAIN rows : rows'[j] \in RowType
    BY <1>1, <1>2 DEF RowType
  <1>5. rows' \in Seq(RowType) /\ Len(rows') = Len(rows)
    <2>1. rows' \in [1..Len(rows) -> RowType]
      BY <1>2, <1>3, <1>4
    <2> QED
      BY <2>1, SameLength
  <1>6. \A j \in DOMAIN rows :
           /\ rows'[j].key = rows[j].key /\ rows'[j].cause = rows[j].cause
           /\ rows'[j].status = rows[j].status
           /\ rows[j].task => rows'[j].task
    BY <1>1, <1>2 DEF RowType
  <1>7. rows'[i].task = TRUE
    BY <1>1, <1>2 DEF RowType
  <1> QED
    BY <1>3, <1>5, <1>6, <1>7 DEF SameRows

LEMMA RowIsAbandoned ==
    ASSUME TypeOK, NEW i \in DOMAIN rows, rows' = Abandon(i)
    PROVE  SameRows
  <1>1. \A j \in 1..Len(rows) : rows[j] \in RowType
    BY DEF TypeOK
  <1>2. DOMAIN rows = 1..Len(rows) /\ Len(rows) \in Nat
    BY DEF TypeOK
  <1>3. DOMAIN rows' = DOMAIN rows
    BY DEF Abandon
  <1>4. \A j \in DOMAIN rows : rows'[j] \in RowType
    BY <1>1, <1>2 DEF RowType, Abandon
  <1>5. rows' \in Seq(RowType) /\ Len(rows') = Len(rows)
    <2>1. rows' \in [1..Len(rows) -> RowType]
      BY <1>2, <1>3, <1>4 DEF Abandon
    <2> QED
      BY <2>1, SameLength
  <1>6. \A j \in DOMAIN rows :
           /\ rows'[j].key = rows[j].key /\ rows'[j].cause = rows[j].cause
           /\ rows'[j].status = rows[j].status
           /\ rows[j].task => rows'[j].task
    BY <1>1, <1>2 DEF RowType, Abandon
  <1> QED
    BY <1>3, <1>5, <1>6 DEF SameRows

LEMMA TaskIsUncertain ==
    ASSUME TypeOK, NEW i \in DOMAIN rows, NEW a \in BOOLEAN, MayBeTasked(i, a)
    PROVE  SameRows
  <1>1. \A j \in 1..Len(rows) : rows[j] \in RowType
    BY DEF TypeOK
  <1>2. DOMAIN rows = 1..Len(rows) /\ Len(rows) \in Nat
    BY DEF TypeOK
  <1>3. PICK t \in {rows[i].task, TRUE} :
          rows' = [rows EXCEPT ![i].task = t, ![i].abandoned = a]
    BY DEF MayBeTasked
  <1>4. PICK r : r = [rows[i] EXCEPT !.task = t, !.abandoned = a]
    OBVIOUS
  <1>5. rows[i] \in RowType /\ t \in BOOLEAN /\ (rows[i].task => t)
    BY <1>1, <1>2 DEF RowType
  <1>6. /\ r \in RowType /\ r.key = rows[i].key /\ r.cause = rows[i].cause
        /\ r.status = rows[i].status /\ r.task = t
    BY <1>4, <1>5 DEF RowType
  <1>7. rows' = [rows EXCEPT ![i] = r]
    BY <1>3, <1>4
  <1>8. DOMAIN rows' = DOMAIN rows
    BY <1>7
  <1>9. \A j \in DOMAIN rows : rows'[j] = IF j = i THEN r ELSE rows[j]
    BY <1>7
  <1>10. rows' \in Seq(RowType) /\ Len(rows') = Len(rows)
    <2>1. rows' \in [1..Len(rows) -> RowType]
      BY <1>1, <1>2, <1>6, <1>7
    <2> QED
      BY <2>1, SameLength
  <1> QED
    BY <1>5, <1>6, <1>8, <1>9, <1>10 DEF SameRows

LEMMA StatusIsSet ==
    ASSUME TypeOK, NEW i \in DOMAIN rows, NEW s \in Statuses,
           rows' = [rows EXCEPT ![i].status = s],
           rows[i].status = "deleted" => s = "deleted"
    PROVE  SameRows
  <1>1. \A j \in 1..Len(rows) : rows[j] \in RowType
    BY DEF TypeOK
  <1>2. DOMAIN rows = 1..Len(rows) /\ Len(rows) \in Nat
    BY DEF TypeOK
  <1>3. DOMAIN rows' = DOMAIN rows
    OBVIOUS
  <1>4. \A j \in DOMAIN rows : rows'[j] \in RowType
    BY <1>1, <1>2 DEF RowType
  <1>5. rows' \in Seq(RowType) /\ Len(rows') = Len(rows)
    <2>1. rows' \in [1..Len(rows) -> RowType]
      BY <1>2, <1>3, <1>4
    <2> QED
      BY <2>1, SameLength
  <1>6. \A j \in DOMAIN rows :
           /\ rows'[j].key = rows[j].key /\ rows'[j].cause = rows[j].cause
           /\ rows[j].task => rows'[j].task
    BY <1>1, <1>2 DEF RowType
  <1>7. \A j \in DOMAIN rows : rows[j].status = "deleted" => rows'[j].status = "deleted"
    BY <1>1, <1>2 DEF RowType
  <1> QED
    BY <1>3, <1>5, <1>6, <1>7 DEF SameRows

LEMMA RowIsInserted ==
    ASSUME TypeOK, NEW key \in Keys \cup {NoKey}, NEW cause \in Causes,
           rows' = NewRow(key, cause)
    PROVE  OneMore(key, cause)
  <1> DEFINE row == [key |-> key, cause |-> cause, status |-> "queued", task |-> FALSE,
                     abandoned |-> FALSE]
  <1>1. row \in RowType
    BY DEF RowType, Statuses
  <1>2. rows \in Seq(RowType) /\ rows' = Append(rows, row)
    BY DEF TypeOK, NewRow
  <1>3. rows' \in Seq(RowType) /\ Len(rows') = Len(rows) + 1 /\ Len(rows) \in Nat
    BY <1>1, <1>2
  <1>4. DOMAIN rows' = 1..(Len(rows) + 1) /\ DOMAIN rows = 1..Len(rows)
    BY <1>2, <1>3
  <1>5. DOMAIN rows' = DOMAIN rows \cup {Len(rows) + 1} /\ Len(rows) + 1 \notin DOMAIN rows
    BY <1>3, <1>4
  <1>6. \A i \in DOMAIN rows : rows'[i] = rows[i]
    BY <1>1, <1>2, <1>4
  <1>7. rows'[Len(rows) + 1] = row
    BY <1>1, <1>2
  <1>8. rows'[Len(rows) + 1].key = key /\ rows'[Len(rows) + 1].cause = cause
    BY <1>7
  <1> QED
    BY <1>3, <1>5, <1>6, <1>8 DEF OneMore

-----------------------------------------------------------------------------
(* Who knows which row.                                                    *)

\* A request past its lookup knows a row of its key (run.py:142-171).
RequestsKnowTheirRow ==
    \A h \in Handlers : req[h].pc \in {"enqueue", "marking", "poll", "answered"} =>
        /\ req[h].row \in DOMAIN rows
        /\ rows[req[h].row].key = req[h].key

\* A poll has files before it, and knows the row it has started.
PollsKnowTheirRow ==
    \A p \in Pollers :
        /\ poll[p].pc # "idle" => poll[p].refs # {}
        /\ poll[p].pc = "idle" => poll[p].refs = {}
        /\ poll[p].pc \in {"enqueue", "mark"} => poll[p].row \in DOMAIN rows

\* What a watcher posts, and the file it is busy with.
WatchersKnowTheirFile ==
    \A w \in Watchers :
        /\ watch[w].pc \in {"wait", "dest", "error"} => watch[w].file \in LocalFiles
        /\ watch[w].pc = "idle" => watch[w].refs = {}

Known == TypeOK /\ RequestsKnowTheirRow /\ PollsKnowTheirRow /\ WatchersKnowTheirFile

LEMMA KnownInit == Init => Known
  <1> SUFFICES ASSUME Init PROVE Known
    OBVIOUS
  <1> USE IntakeAssumption
  <1>1. NoCause \in Causes
    BY DEF NoCause, Causes, NoFile
  <1>2. Idle \in RequestType
    BY <1>1 DEF Idle, RequestType
  <1>3. Unseen \in [LocalFiles -> 0..MaxVersions]
    BY DEF Unseen
  <1>4. rows \in Seq(RowType) /\ Len(rows) <= MaxRows
    BY DEF Init
  <1>5. TypeOK
    <2>1. req \in [Handlers -> RequestType]
      BY <1>2 DEF Init
    <2>2. drive \in [DriveFiles -> MarkType]
      BY DEF Init, MarkType
    <2>3. poll \in [Pollers -> PollType]
      BY DEF Init, PollType
    <2>4. watch \in [Watchers -> WatchType]
      BY <1>3 DEF Init, WatchType
    <2>5. /\ disk \in [LocalFiles -> 0..MaxVersions] /\ writes \in [LocalFiles -> 0..MaxVersions]
          /\ moved \subseteq LocalFiles \X (0..MaxVersions)
      BY <1>3 DEF Init
    <2>6. faults \in 0..MaxFaults /\ slips \in [Files -> Nat]
      BY DEF Init
    <2>7. cast \in Casts /\ linked \in BOOLEAN /\ overtaken \in BOOLEAN
      BY DEF Init
    <2> QED
      BY <1>4, <2>1, <2>2, <2>3, <2>4, <2>5, <2>6, <2>7 DEF TypeOK
  <1>6. RequestsKnowTheirRow
    BY DEF Init, RequestsKnowTheirRow, Idle
  <1>7. PollsKnowTheirRow /\ WatchersKnowTheirFile
    BY DEF Init, PollsKnowTheirRow, WatchersKnowTheirFile
  <1> QED
    BY <1>5, <1>6, <1>7 DEF Known

-----------------------------------------------------------------------------
(* A handler's steps, in four kinds.                                       *)

\* The row is inserted: no other row has the key.
Inserted(h) ==
    /\ req[h].pc = "insert" /\ req'[h].pc = "enqueue"
    /\ OneMore(req[h].key, req[h].cause) /\ req'[h].row = Len(rows) + 1
    /\ Len(rows) < MaxRows
    /\ req[h].key = NoKey \/ RowsOf(req[h].key) = {}

\* A row of the key is there and is answered with.
Replayed(h) ==
    /\ (req[h].pc = "lookup" /\ req[h].key # NoKey) \/ req[h].pc = "collided"
    /\ req'[h].pc \in {"poll", "answered"}
    /\ SameRows /\ req'[h].row \in RowsOf(req[h].key)

\* The task is handed to the queue.
Enqueued(h) ==
    /\ req[h].pc = "enqueue"
    /\ req'[h].pc = AfterReplay(h)
    /\ SameRows /\ req'[h].row = req[h].row
    /\ rows'[req[h].row].task = TRUE

\* Anything else.
GoesOn(h) ==
    /\ SameRows /\ req'[h].row = req[h].row
    /\ \/ req'[h].pc = "error"
       \/ req[h].pc = "lookup" /\ req'[h].pc = "insert"
       \/ req[h].pc = "insert" /\ req'[h].pc = "collided" /\ req[h].key # NoKey
       \/ req[h].pc = "enqueue" /\ req'[h].pc = "marking" /\ req[h].via = "create"
       \/ req[h].pc = "poll" /\ req'[h].pc = "answered"

\* Only the request of h is touched, and neither its key nor its cause.
OnlyRequest(h) ==
    /\ req' \in [Handlers -> RequestType]
    /\ \A g \in Handlers \ {h} : req'[g] = req[g]
    /\ req'[h].key = req[h].key /\ req'[h].via = req[h].via /\ req'[h].cause = req[h].cause

HandlerPcs == {"idle", "lookup", "insert", "collided", "enqueue", "marking", "poll", "answered",
               "error"}

LEMMA Advanced ==
    ASSUME TypeOK, NEW h \in Handlers, NEW pc \in HandlerPcs, Advance(h, pc)
    PROVE  OnlyRequest(h) /\ req'[h].pc = pc /\ req'[h].row = req[h].row
  <1>1. req \in [Handlers -> RequestType]
    BY DEF TypeOK
  <1>2. req[h] \in RequestType
    BY <1>1
  <1>3. /\ req'[h].pc = pc /\ req'[h].row = req[h].row /\ req'[h].key = req[h].key
        /\ req'[h].via = req[h].via /\ req'[h].cause = req[h].cause
    BY <1>1, <1>2 DEF Advance, RequestType
  <1>4. \A g \in Handlers \ {h} : req'[g] = req[g]
    BY <1>1 DEF Advance
  <1>5. req' \in [Handlers -> RequestType]
    BY <1>1, <1>2 DEF Advance, RequestType, HandlerPcs
  <1> QED
    BY <1>3, <1>4, <1>5 DEF OnlyRequest

LEMMA Directed ==
    ASSUME TypeOK, NEW h \in Handlers, NEW pc \in HandlerPcs, NEW row \in 0..MaxRows,
           req' = [req EXCEPT ![h].pc = pc, ![h].row = row]
    PROVE  OnlyRequest(h) /\ req'[h].pc = pc /\ req'[h].row = row
  <1>1. req \in [Handlers -> RequestType]
    BY DEF TypeOK
  <1>2. req[h] \in RequestType
    BY <1>1
  <1>3. /\ req'[h].pc = pc /\ req'[h].row = row /\ req'[h].key = req[h].key
        /\ req'[h].via = req[h].via /\ req'[h].cause = req[h].cause
    BY <1>1, <1>2 DEF RequestType
  <1>4. \A g \in Handlers \ {h} : req'[g] = req[g]
    BY <1>1
  <1>5. req' \in [Handlers -> RequestType]
    BY <1>1, <1>2 DEF RequestType, HandlerPcs
  <1> QED
    BY <1>3, <1>4, <1>5 DEF OnlyRequest

LEMMA Faulted ==
    ASSUME TypeOK, Fault
    PROVE  faults' \in 0..MaxFaults
  BY IntakeAssumption DEF TypeOK, Fault

LEMMA SlipCounts ==
    ASSUME TypeOK, NEW f \in Files, Slip(f)
    PROVE  /\ slips' \in [Files -> Nat] /\ slips'[f] = slips[f] + 1
           /\ \A g \in Files \ {f} : slips'[g] = slips[g]
  <1>1. slips \in [Files -> Nat] /\ slips[f] + 1 \in Nat
    BY DEF TypeOK
  <1> QED
    BY <1>1 DEF Slip

HandlerMoves(h) == HandlerStep(h) \/ EnqueueRaises(h) \/ HandlerDies(h)

LEMMA HandlerEffect ==
    ASSUME Known, NEW h \in Handlers, HandlerMoves(h)
    PROVE  /\ UNCHANGED Others /\ faults' \in 0..MaxFaults
           /\ OnlyRequest(h)
           /\ Inserted(h) \/ Replayed(h) \/ Enqueued(h) \/ GoesOn(h)
  <1> USE DEF HandlerPcs
  <1>t. TypeOK /\ faults \in 0..MaxFaults /\ req[h] \in RequestType
    BY DEF Known, TypeOK
  <1>k. req[h].pc \in {"enqueue", "marking"} => req[h].row \in DOMAIN rows
    BY DEF Known, RequestsKnowTheirRow
  <1>d. DOMAIN rows = 1..Len(rows) /\ Len(rows) \in Nat /\ Len(rows) <= MaxRows /\ MaxRows \in Nat
    BY IntakeAssumption DEF Known, TypeOK
  <1>a. AfterReplay(h) \in {"poll", "answered"}
    BY DEF AfterReplay
  <1>r. ASSUME RowsOf(req[h].key) # {}
        PROVE  RowOf(req[h].key) \in RowsOf(req[h].key) /\ RowOf(req[h].key) \in 0..MaxRows
    <2>1. RowOf(req[h].key) \in RowsOf(req[h].key)
      BY <1>r DEF RowOf
    <2>2. RowsOf(req[h].key) \subseteq DOMAIN rows
      BY DEF RowsOf
    <2> QED
      BY <2>1, <2>2, <1>d
  <1>1. CASE Refuse(h)
    <2>1. Advance(h, "error") /\ UNCHANGED Others /\ UNCHANGED faults /\ SameRows
      BY <1>1, <1>t, RowsUntouched DEF Refuse
    <2>2. OnlyRequest(h) /\ req'[h].pc = "error" /\ req'[h].row = req[h].row
      BY <2>1, <1>t, Advanced
    <2> QED
      BY <2>1, <2>2, <1>t DEF GoesOn
  <1>2. CASE Lookup(h)
    <2>0. req[h].pc = "lookup" /\ UNCHANGED Others /\ UNCHANGED faults /\ SameRows
      BY <1>2, <1>t, RowsUntouched DEF Lookup
    <2>1. CASE req[h].key # NoKey /\ RowsOf(req[h].key) # {}
      <3>1. req' = [req EXCEPT ![h].pc = AfterReplay(h), ![h].row = RowOf(req[h].key)]
        BY <1>2, <2>1 DEF Lookup
      <3>2. OnlyRequest(h) /\ req'[h].pc = AfterReplay(h) /\ req'[h].row = RowOf(req[h].key)
        BY <3>1, <1>t, <1>a, <1>r, <2>1, Directed
      <3> QED
        BY <2>0, <2>1, <3>2, <1>t, <1>a, <1>r DEF Replayed
    <2>2. CASE ~(req[h].key # NoKey /\ RowsOf(req[h].key) # {})
      <3>1. Advance(h, "insert")
        BY <1>2, <2>2 DEF Lookup
      <3>2. OnlyRequest(h) /\ req'[h].pc = "insert" /\ req'[h].row = req[h].row
        BY <3>1, <1>t, Advanced
      <3> QED
        BY <2>0, <3>2, <1>t DEF GoesOn
    <2> QED
      BY <2>1, <2>2
  <1>3. CASE Insert(h)
    <2>0. req[h].pc = "insert" /\ UNCHANGED Others /\ UNCHANGED faults
      BY <1>3 DEF Insert
    <2>1. CASE req[h].key # NoKey /\ RowsOf(req[h].key) # {}
      <3>1. Advance(h, "collided") /\ SameRows
        BY <1>3, <2>1, <1>t, RowsUntouched DEF Insert
      <3>2. OnlyRequest(h) /\ req'[h].pc = "collided" /\ req'[h].row = req[h].row
        BY <3>1, <1>t, Advanced
      <3> QED
        BY <2>0, <2>1, <3>1, <3>2, <1>t DEF GoesOn
    <2>2. CASE ~(req[h].key # NoKey /\ RowsOf(req[h].key) # {})
      <3>1. /\ Len(rows) < MaxRows /\ rows' = NewRow(req[h].key, req[h].cause)
            /\ req' = [req EXCEPT ![h].pc = "enqueue", ![h].row = Len(rows) + 1]
        BY <1>3, <2>2 DEF Insert
      <3>2. req[h].key \in Keys \cup {NoKey} /\ req[h].cause \in Causes
        BY <1>t DEF RequestType
      <3>3. OneMore(req[h].key, req[h].cause)
        BY <3>1, <3>2, <1>t, RowIsInserted
      <3>4. Len(rows) + 1 \in 0..MaxRows
        BY <3>1, <1>d
      <3>5. OnlyRequest(h) /\ req'[h].pc = "enqueue" /\ req'[h].row = Len(rows) + 1
        BY <3>1, <3>4, <1>t, Directed
      <3> QED
        BY <2>0, <2>2, <3>1, <3>3, <3>5, <1>t DEF Inserted
    <2> QED
      BY <2>1, <2>2
  <1>4. CASE LookupAgain(h)
    <2>0. req[h].pc = "collided" /\ UNCHANGED Others /\ UNCHANGED faults /\ SameRows
      BY <1>4, <1>t, RowsUntouched DEF LookupAgain
    <2>1. CASE RowsOf(req[h].key) # {}
      <3>1. req' = [req EXCEPT ![h].pc = AfterReplay(h), ![h].row = RowOf(req[h].key)]
        BY <1>4, <2>1 DEF LookupAgain
      <3>2. OnlyRequest(h) /\ req'[h].pc = AfterReplay(h) /\ req'[h].row = RowOf(req[h].key)
        BY <3>1, <1>t, <1>a, <1>r, <2>1, Directed
      <3> QED
        BY <2>0, <2>1, <3>2, <1>t, <1>a, <1>r DEF Replayed
    <2>2. CASE RowsOf(req[h].key) = {}
      <3>1. Advance(h, "error")
        BY <1>4, <2>2 DEF LookupAgain
      <3>2. OnlyRequest(h) /\ req'[h].pc = "error" /\ req'[h].row = req[h].row
        BY <3>1, <1>t, Advanced
      <3> QED
        BY <2>0, <3>2, <1>t DEF GoesOn
    <2> QED
      BY <2>1, <2>2
  <1>5. CASE Enqueue(h)
    <2>0. /\ req[h].pc = "enqueue" /\ UNCHANGED Others /\ UNCHANGED faults
          /\ rows' = [rows EXCEPT ![req[h].row].task = TRUE] /\ Advance(h, AfterReplay(h))
      BY <1>5 DEF Enqueue
    <2>1. SameRows /\ rows'[req[h].row].task = TRUE
      BY <2>0, <1>t, <1>k, TaskIsSet
    <2>2. OnlyRequest(h) /\ req'[h].pc = AfterReplay(h) /\ req'[h].row = req[h].row
      BY <2>0, <1>t, <1>a, Advanced
    <2> QED
      BY <2>0, <2>1, <2>2, <1>t DEF Enqueued
  <1>6. CASE EnqueueRaises(h)
    <2>0. req[h].pc = "enqueue" /\ UNCHANGED Others /\ faults' \in 0..MaxFaults
      BY <1>6, <1>t, Faulted DEF EnqueueRaises
    <2>r. rows[req[h].row].abandoned \in BOOLEAN
      <3>1. rows \in Seq(RowType) /\ req[h].row \in DOMAIN rows
        BY <2>0, <1>t, <1>k DEF TypeOK
      <3>2. rows[req[h].row] \in RowType
        BY <3>1
      <3> QED
        BY <3>2 DEF RowType
    <2>1. CASE /\ req[h].via = "create" /\ Advance(h, "marking")
               /\ MayBeTasked(req[h].row, rows[req[h].row].abandoned)
      <3>1. OnlyRequest(h) /\ req'[h].pc = "marking" /\ req'[h].row = req[h].row
        BY <2>1, <1>t, Advanced
      <3>2. SameRows
        BY <2>0, <2>1, <2>r, <1>t, <1>k, TaskIsUncertain
      <3> QED
        BY <2>0, <2>1, <3>1, <3>2 DEF GoesOn
    <2>2. CASE Advance(h, "error") /\ MayBeTasked(req[h].row, TRUE)
      <3>1. OnlyRequest(h) /\ req'[h].pc = "error" /\ req'[h].row = req[h].row
        BY <2>2, <1>t, Advanced
      <3>2. SameRows
        BY <2>0, <2>2, <1>t, <1>k, TaskIsUncertain
      <3> QED
        BY <2>0, <3>1, <3>2 DEF GoesOn
    <2> QED
      BY <1>6, <2>1, <2>2 DEF EnqueueRaises
  <1>7. CASE MarkEnqueueFailed(h)
    <2>0. /\ req[h].pc = "marking" /\ UNCHANGED Others /\ UNCHANGED faults /\ Advance(h, "error")
          /\ req[h].row \in DOMAIN rows
      BY <1>7, <1>k DEF MarkEnqueueFailed
    <2>1. PICK s : s = (IF rows[req[h].row].status = "queued" THEN "failed"
                        ELSE rows[req[h].row].status)
      OBVIOUS
    <2>2. rows' = [rows EXCEPT ![req[h].row].status = s]
      BY <1>7, <2>1 DEF MarkEnqueueFailed
    <2>3. rows[req[h].row] \in RowType
      BY <2>0, <1>t DEF TypeOK
    <2>4. s \in Statuses /\ (rows[req[h].row].status = "deleted" => s = "deleted")
      BY <2>1, <2>3 DEF RowType, Statuses
    <2>5. SameRows
      BY <2>0, <2>2, <2>4, <1>t, StatusIsSet
    <2>6. OnlyRequest(h) /\ req'[h].pc = "error" /\ req'[h].row = req[h].row
      BY <2>0, <1>t, Advanced
    <2> QED
      BY <2>0, <2>5, <2>6, <1>t DEF GoesOn
  <1>8. CASE HandlerDies(h)
    <2>0. UNCHANGED Others /\ faults' \in 0..MaxFaults /\ Advance(h, "error")
      BY <1>8, <1>t, Faulted DEF HandlerDies
    <2>1. OnlyRequest(h) /\ req'[h].pc = "error" /\ req'[h].row = req[h].row
      BY <2>0, <1>t, Advanced
    <2>2. SameRows
      <3>1. CASE req[h].pc \in {"enqueue", "marking"}
        BY <1>8, <3>1, <1>t, <1>k, RowIsAbandoned DEF HandlerDies
      <3>2. CASE req[h].pc \notin {"enqueue", "marking"}
        BY <1>8, <3>2, <1>t, RowsUntouched DEF HandlerDies
      <3> QED
        BY <3>1, <3>2
    <2> QED
      BY <2>0, <2>1, <2>2 DEF GoesOn
  <1>9. CASE PollSeesEnd(h) \/ PollTimesOut(h)
    <2>0. /\ req[h].pc = "poll" /\ UNCHANGED Others /\ UNCHANGED faults /\ Advance(h, "answered")
          /\ SameRows
      BY <1>9, <1>t, RowsUntouched DEF PollSeesEnd, PollTimesOut
    <2>1. OnlyRequest(h) /\ req'[h].pc = "answered" /\ req'[h].row = req[h].row
      BY <2>0, <1>t, Advanced
    <2> QED
      BY <2>0, <2>1, <1>t DEF GoesOn
  <1> QED
    BY <1>1, <1>2, <1>3, <1>4, <1>5, <1>6, <1>7, <1>8, <1>9 DEF HandlerMoves, HandlerStep

-----------------------------------------------------------------------------
(* A poll's steps.                                                         *)

\* The file a poll is at is one of those before it.
LEMMA CurrentIsListed ==
    ASSUME Known, NEW p \in Pollers, poll[p].refs # {}
    PROVE  Current(p) \in poll[p].refs /\ Current(p) \in DriveFiles
  <1>1. poll[p].refs \subseteq DriveFiles
    BY DEF Known, TypeOK, PollType
  <1>2. poll[p].refs \subseteq Nat
    BY <1>1, IntakeAssumption
  <1>3. PICK f \in poll[p].refs :
            \A g \in poll[p].refs : ~ (<<g, f>> \in OpToRel(<, Nat))
    BY <1>2, WFMin, NatLessThanWellFounded
  <1>4. ASSUME NEW g \in poll[p].refs PROVE f <= g
    <2>1. f \in Nat /\ g \in Nat
      BY <1>2, <1>3
    <2>2. ~ (<<g, f>> \in OpToRel(<, Nat))
      BY <1>3
    <2>3. ~ (g < f)
      BY <2>1, <2>2, Zenon DEF OpToRel
    <2> QED
      BY <2>1, <2>3
  <1> QED
    BY <1>1, <1>4 DEF Current

LEMMA CurrentStays ==
    ASSUME NEW p, poll'[p].refs = poll[p].refs
    PROVE  Current(p)' = Current(p)
  BY DEF Current

\* Only poll p is touched.
OnlyPoll(p) ==
    /\ poll' \in [Pollers -> PollType]
    /\ \A q \in Pollers \ {p} : poll'[q] = poll[q]

PollPcs == {"idle", "next", "enqueue", "mark", "error", "move"}

LEMMA PollAt ==
    ASSUME Known, NEW p \in Pollers, NEW pc \in PollPcs, At(p, pc)
    PROVE  /\ OnlyPoll(p) /\ poll'[p].pc = pc /\ poll'[p].row = poll[p].row
           /\ poll'[p].refs = poll[p].refs
  <1>1. poll \in [Pollers -> PollType] /\ poll[p] \in PollType
    BY DEF Known, TypeOK
  <1> QED
    BY <1>1 DEF At, OnlyPoll, PollType, PollPcs

LEMMA PollGoesOn ==
    ASSUME Known, NEW p \in Pollers, poll[p].refs # {}, PassOn(p)
    PROVE  /\ OnlyPoll(p) /\ poll'[p].pc \in {"idle", "next"}
           /\ poll'[p].pc # "idle" => poll'[p].refs # {}
           /\ poll'[p].pc = "idle" => poll'[p].refs = {}
           /\ poll'[p].refs = poll[p].refs \ {Current(p)}
  <1>1. poll \in [Pollers -> PollType] /\ poll[p] \in PollType
    BY DEF Known, TypeOK
  <1>2. PICK f : f = Current(p)
    OBVIOUS
  <1>3. f \in poll[p].refs
    BY <1>2, CurrentIsListed
  <1>4. PICK pc \in {"idle", "next"} : pc = IF poll[p].refs = {f} THEN "idle" ELSE "next"
    OBVIOUS
  <1>5. poll' = [poll EXCEPT ![p].refs = @ \ {f}, ![p].pc = pc]
    BY <1>2, <1>4 DEF PassOn
  <1>6. poll'[p].pc = pc /\ poll'[p].refs = poll[p].refs \ {f}
    BY <1>1, <1>5 DEF PollType
  <1>7. OnlyPoll(p)
    BY <1>1, <1>5 DEF PollType, OnlyPoll
  <1>8. (pc # "idle" => poll[p].refs \ {f} # {}) /\ (pc = "idle" => poll[p].refs \ {f} = {})
    BY <1>3, <1>4
  <1> QED
    BY <1>2, <1>4, <1>6, <1>7, <1>8

\* Only the marker and the folder of f may change.
OnlyFile(f) ==
    /\ drive' \in [DriveFiles -> MarkType]
    /\ \A g \in DriveFiles \ {f} : drive'[g] = drive[g]

\* The steps of a poll, by what they do to its file.
Lists(p) ==
    /\ poll[p].pc = "idle" /\ poll'[p].pc = "next"
    /\ poll'[p].refs = ListNewFiles /\ ListNewFiles # {}
    /\ SameRows /\ UNCHANGED drive
    /\ slips' = [f \in Files |->
                    IF f \in ListNewFiles /\ \E q \in Pollers : f \in poll[q].refs
                    THEN slips[f] + 1 ELSE slips[f]]

Begins(p) ==
    /\ poll[p].pc = "next" /\ poll'[p].pc = "enqueue"
    /\ poll'[p].refs = poll[p].refs /\ poll'[p].row = Len(rows) + 1
    /\ Len(rows) < MaxRows
    /\ OneMore(NoKey, DriveCause(Current(p))) /\ UNCHANGED <<drive, slips>>

Errs(p) ==
    /\ poll[p].pc \in {"next", "enqueue"} /\ poll'[p].pc = "error"
    /\ poll'[p].refs = poll[p].refs
    /\ SameRows /\ UNCHANGED <<drive, slips>>

HandsOver(p) ==
    /\ poll[p].pc = "enqueue" /\ poll'[p].pc = "mark"
    /\ poll'[p].refs = poll[p].refs /\ poll'[p].row = poll[p].row
    /\ SameRows /\ rows'[poll[p].row].task = TRUE /\ UNCHANGED <<drive, slips>>

Marks(p) ==
    /\ poll[p].pc \in {"mark", "error"} /\ poll'[p].pc = "move"
    /\ poll'[p].refs = poll[p].refs
    /\ OnlyFile(Current(p)) /\ drive'[Current(p)].folder = drive[Current(p)].folder
    /\ drive'[Current(p)].mark = IF poll[p].pc = "mark" THEN "processed" ELSE "error"
    /\ SameRows /\ UNCHANGED slips

LeavesUnmarked(p) ==
    /\ poll[p].pc \in {"mark", "error"} /\ poll'[p].pc \in {"idle", "next"}
    /\ poll'[p].pc # "idle" => poll'[p].refs # {}
    /\ poll'[p].pc = "idle" => poll'[p].refs = {}
    /\ poll'[p].refs = poll[p].refs \ {Current(p)}
    /\ SameRows /\ UNCHANGED drive /\ Slip(Current(p))

Moves(p) ==
    /\ poll[p].pc = "move" /\ poll'[p].pc \in {"idle", "next"}
    /\ poll'[p].pc # "idle" => poll'[p].refs # {}
    /\ poll'[p].pc = "idle" => poll'[p].refs = {}
    /\ poll'[p].refs = poll[p].refs \ {Current(p)}
    /\ OnlyFile(Current(p)) /\ drive'[Current(p)].mark = drive[Current(p)].mark
    /\ SameRows /\ UNCHANGED slips

Dies(p) ==
    /\ poll[p].pc # "idle" /\ poll'[p].pc = "idle" /\ poll'[p].refs = {}
    /\ SameRows /\ UNCHANGED drive /\ Slip(Current(p))

PollMoves(p) == PollStep(p) \/ PollFault(p)

LEMMA PollEffect ==
    ASSUME Known, NEW p \in Pollers, PollMoves(p)
    PROVE  /\ UNCHANGED DriveOthers /\ faults' \in 0..MaxFaults
           /\ OnlyPoll(p)
           /\ \/ Lists(p) \/ Begins(p) \/ Errs(p) \/ HandsOver(p) \/ Marks(p)
              \/ LeavesUnmarked(p) \/ Moves(p) \/ Dies(p)
  <1> USE DEF PollPcs
  <1>t. TypeOK /\ faults \in 0..MaxFaults /\ poll \in [Pollers -> PollType] /\ poll[p] \in PollType
    BY DEF Known, TypeOK
  <1>k. /\ poll[p].pc # "idle" => poll[p].refs # {}
        /\ poll[p].pc = "enqueue" => poll[p].row \in DOMAIN rows
    BY DEF Known, PollsKnowTheirRow
  <1>d. Len(rows) \in Nat /\ Len(rows) <= MaxRows /\ MaxRows \in Nat /\ MaxVersions \in Nat
    BY IntakeAssumption DEF Known, TypeOK
  <1>c. poll[p].pc # "idle" => Current(p) \in DriveFiles
    BY <1>k, CurrentIsListed
  <1>1. CASE PollList(p)
    <2>1. /\ poll[p].pc = "idle" /\ ListNewFiles # {}
          /\ poll' = [poll EXCEPT ![p].refs = ListNewFiles, ![p].pc = "next"]
          /\ UNCHANGED <<DriveOthers, rows, drive, faults>>
      BY <1>1 DEF PollList
    <2>2. ListNewFiles \in SUBSET DriveFiles
      BY DEF ListNewFiles
    <2>3. OnlyPoll(p) /\ poll'[p].refs = ListNewFiles /\ poll'[p].pc = "next"
      BY <1>t, <2>1, <2>2 DEF OnlyPoll, PollType
    <2>4. SameRows
      BY <1>t, <2>1, RowsUntouched
    <2>5. Lists(p)
      BY <1>1, <2>1, <2>3, <2>4 DEF PollList, Lists
    <2> QED
      BY <1>t, <2>1, <2>3, <2>5
  <1>2. CASE PollStart(p)
    <2>1. /\ poll[p].pc = "next" /\ Len(rows) < MaxRows
          /\ rows' = NewRow(NoKey, DriveCause(Current(p)))
          /\ poll' = [poll EXCEPT ![p].pc = "enqueue", ![p].row = Len(rows) + 1]
          /\ UNCHANGED <<DriveOthers, drive, faults, slips>>
      BY <1>2 DEF PollStart
    <2>2. DriveCause(Current(p)) \in Causes
      BY <1>c, <1>d, <2>1 DEF DriveCause, Causes, Files
    <2>3. OneMore(NoKey, DriveCause(Current(p)))
      BY <2>1, <2>2, <1>t, RowIsInserted
    <2>4. Len(rows) + 1 \in 0..MaxRows
      BY <2>1, <1>d
    <2>5. /\ OnlyPoll(p) /\ poll'[p].pc = "enqueue" /\ poll'[p].row = Len(rows) + 1
          /\ poll'[p].refs = poll[p].refs
      BY <1>t, <2>1, <2>4 DEF OnlyPoll, PollType
    <2> QED
      BY <1>t, <2>1, <2>3, <2>5 DEF Begins
  <1>3. CASE PollFileRaises(p)
    <2>1. /\ poll[p].pc = "next" /\ At(p, "error") /\ UNCHANGED <<DriveOthers, drive, slips>>
          /\ SameRows /\ faults' \in 0..MaxFaults
      BY <1>3, <1>t, RowsUntouched, Faulted DEF PollFileRaises
    <2> QED
      BY <2>1, PollAt DEF Errs
  <1>4. CASE PollEnqueue(p)
    <2>1. /\ poll[p].pc = "enqueue" /\ At(p, "mark")
          /\ UNCHANGED <<DriveOthers, drive, faults, slips>>
          /\ rows' = [rows EXCEPT ![poll[p].row].task = TRUE]
      BY <1>4 DEF PollEnqueue
    <2>2. SameRows /\ rows'[poll[p].row].task = TRUE
      BY <2>1, <1>t, <1>k, TaskIsSet
    <2> QED
      BY <1>t, <2>1, <2>2, PollAt DEF HandsOver
  <1>5. CASE PollEnqueueRaises(p)
    <2>1. /\ poll[p].pc = "enqueue" /\ At(p, "error") /\ UNCHANGED <<DriveOthers, drive, slips>>
          /\ MayBeTasked(poll[p].row, TRUE) /\ faults' \in 0..MaxFaults
      BY <1>5, <1>t, Faulted DEF PollEnqueueRaises
    <2>2. SameRows
      BY <2>1, <1>t, <1>k, TaskIsUncertain
    <2> QED
      BY <2>1, <2>2, PollAt DEF Errs
  <1>6. CASE PollMark(p)
    <2>1. /\ poll[p].pc \in {"mark", "error"} /\ At(p, "move")
          /\ UNCHANGED <<DriveOthers, faults, slips>> /\ SameRows
      BY <1>6, <1>t, RowsUntouched DEF PollMark
    <2>2. PICK f \in DriveFiles : f = Current(p)
      BY <1>c, <2>1
    <2>3. PICK m \in {"processed", "error"} : m = IF poll[p].pc = "mark" THEN "processed" ELSE "error"
      OBVIOUS
    <2>4. drive' = [drive EXCEPT ![f].mark = m]
      BY <1>6, <2>2, <2>3 DEF PollMark
    <2>5. OnlyFile(f) /\ drive'[f].folder = drive[f].folder /\ drive'[f].mark = m
      BY <1>t, <2>2, <2>3, <2>4 DEF TypeOK, MarkType, OnlyFile
    <2> QED
      BY <1>t, <2>1, <2>2, <2>3, <2>5, PollAt DEF Marks
  <1>7. CASE PollMarkRaises(p)
    <2>1. /\ poll[p].pc \in {"mark", "error"} /\ PassOn(p) /\ Slip(Current(p))
          /\ UNCHANGED <<DriveOthers, drive>> /\ SameRows /\ faults' \in 0..MaxFaults
      BY <1>7, <1>t, RowsUntouched, Faulted DEF PollMarkRaises
    <2> QED
      BY <1>k, <2>1, PollGoesOn DEF LeavesUnmarked
  <1>8. CASE PollMove(p)
    <2>1. /\ poll[p].pc = "move" /\ PassOn(p)
          /\ UNCHANGED <<DriveOthers, faults, slips>> /\ SameRows
      BY <1>8, <1>t, RowsUntouched DEF PollMove
    <2>2. PICK f \in DriveFiles : f = Current(p)
      BY <1>c, <2>1
    <2>3. PICK to \in {drive[f].folder, "moved"} : drive' = [drive EXCEPT ![f].folder = to]
      BY <1>8, <2>2 DEF PollMove
    <2>4. OnlyFile(f) /\ drive'[f].mark = drive[f].mark
      BY <1>t, <2>2, <2>3 DEF TypeOK, MarkType, OnlyFile
    <2> QED
      BY <1>t, <1>k, <2>1, <2>2, <2>4, PollGoesOn DEF Moves
  <1>9. CASE PollDies(p)
    <2>1. /\ poll[p].pc # "idle" /\ Slip(Current(p)) /\ UNCHANGED <<DriveOthers, drive>>
          /\ poll' = [poll EXCEPT ![p].pc = "idle", ![p].refs = {}]
          /\ faults' \in 0..MaxFaults
      BY <1>9, <1>t, Faulted DEF PollDies
    <2>2. OnlyPoll(p) /\ poll'[p].pc = "idle" /\ poll'[p].refs = {}
      BY <1>t, <2>1 DEF OnlyPoll, PollType
    <2>3. SameRows
      <3>1. CASE poll[p].pc = "enqueue"
        BY <1>9, <3>1, <1>t, <1>k, RowIsAbandoned DEF PollDies
      <3>2. CASE poll[p].pc # "enqueue"
        BY <1>9, <3>2, <1>t, RowsUntouched DEF PollDies
      <3> QED
        BY <3>1, <3>2
    <2> QED
      BY <2>1, <2>2, <2>3 DEF Dies
  <1> QED
    BY <1>1, <1>2, <1>3, <1>4, <1>5, <1>6, <1>7, <1>8, <1>9 DEF PollMoves, PollStep, PollFault

-----------------------------------------------------------------------------
(* A watcher's steps.                                                      *)

\* Only watcher w is touched.
OnlyWatch(w) ==
    /\ watch' \in [Watchers -> WatchType]
    /\ \A v \in Watchers \ {w} : watch'[v] = watch[v]

Snaps(w) ==
    /\ watch[w].pc = "idle" /\ watch'[w].pc = "next" /\ watch'[w].refs = Stable(w)
    /\ slips' = [f \in Files |->
                    IF f \in Stable(w) /\ \E v \in Watchers \ {w} : InHand(v, f)
                    THEN slips[f] + 1 ELSE slips[f]]
    /\ UNCHANGED <<req, disk, moved>>

Rests(w) ==
    /\ watch[w].pc = "next" /\ watch'[w].pc = "idle"
    /\ watch[w].refs = {} /\ watch'[w].refs = {}
    /\ UNCHANGED <<req, disk, moved, slips>>

Reads(w, f) ==
    /\ watch[w].pc = "next" /\ watch'[w].pc = "wait"
    /\ f \in watch[w].refs /\ disk[f] # 0
    /\ watch'[w].refs = watch[w].refs \ {f} /\ watch'[w].file = f
    /\ req[w].pc \in {"idle", "answered", "error"}
    /\ req' \in [Handlers -> RequestType] /\ \A h \in Handlers \ {w} : req'[h] = req[h]
    /\ req'[w].pc = "lookup" /\ req'[w].key = NoKey /\ req'[w].via = "run"
    /\ req'[w].cause = <<f, disk[f]>>
    /\ UNCHANGED <<disk, moved, slips>>

CannotRead(w, f) ==
    /\ watch[w].pc = "next" /\ watch'[w].pc = "error"
    /\ f \in watch[w].refs
    /\ watch'[w].refs = watch[w].refs \ {f} /\ watch'[w].file = f
    /\ UNCHANGED <<req, disk, moved, slips>>

Learns(w) ==
    /\ watch[w].pc = "wait" /\ watch'[w].pc \in {"dest", "error"}
    /\ watch'[w].pc = "dest" => req[w].pc = "answered"
    /\ watch'[w].refs = watch[w].refs /\ watch'[w].file = watch[w].file
    /\ UNCHANGED <<req, disk, moved, slips>>

PutsAway(w) ==
    /\ watch[w].pc \in {"dest", "error"} /\ watch'[w].pc = "next"
    /\ watch'[w].refs = watch[w].refs
    /\ disk[watch[w].file] # 0 /\ disk' = [disk EXCEPT ![watch[w].file] = 0]
    /\ moved' = IF watch[w].pc = "dest" THEN moved \cup {<<watch[w].file, disk[watch[w].file]>>}
                ELSE moved
    /\ UNCHANGED <<req, slips>>

GivesUp(w) ==
    /\ watch[w].pc \in {"wait", "dest", "error"} /\ watch'[w].pc = "idle"
    /\ watch'[w].refs = {}
    /\ Slip(watch[w].file)
    /\ UNCHANGED <<req, disk, moved>>

WatchMoves(w) == WatchStep(w) \/ WatchFault(w)

LEMMA WatchEffect ==
    ASSUME Known, NEW w \in Watchers, WatchMoves(w)
    PROVE  /\ UNCHANGED <<cast, rows, driveVars, writes, overtaken>> /\ faults' \in 0..MaxFaults
           /\ OnlyWatch(w)
           /\ \/ Snaps(w) \/ Rests(w) \/ Learns(w) \/ PutsAway(w) \/ GivesUp(w)
              \/ \E f \in LocalFiles : Reads(w, f) \/ CannotRead(w, f)
  <1>t. /\ TypeOK /\ faults \in 0..MaxFaults
        /\ watch \in [Watchers -> WatchType] /\ watch[w] \in WatchType
        /\ disk \in [LocalFiles -> 0..MaxVersions]
    BY DEF Known, TypeOK
  <1>d. MaxRows \in Nat /\ MaxVersions \in Nat
    BY IntakeAssumption
  <1>k. watch[w].pc \in {"wait", "dest", "error"} => watch[w].file \in LocalFiles
    BY DEF Known, WatchersKnowTheirFile
  <1>1. CASE WatchList(w)
    <2>1. Stable(w) \in SUBSET LocalFiles
      BY DEF Stable
    <2>2. /\ watch[w].pc = "idle"
          /\ watch' = [watch EXCEPT ![w].refs = Stable(w), ![w].seen = disk, ![w].pc = "next"]
          /\ UNCHANGED <<cast, rows, driveVars, req, disk, writes, moved, overtaken, faults>>
      BY <1>1 DEF WatchList, WatchOthers
    <2>3. OnlyWatch(w) /\ watch'[w].pc = "next" /\ watch'[w].refs = Stable(w)
      BY <1>t, <2>1, <2>2 DEF OnlyWatch, WatchType
    <2>4. Snaps(w)
      BY <1>1, <2>2, <2>3 DEF WatchList, Snaps
    <2> QED
      BY <1>t, <2>2, <2>3, <2>4
  <1>2. CASE WatchListed(w)
    <2>2. /\ watch[w].pc = "next" /\ watch[w].refs = {}
          /\ watch' = [watch EXCEPT ![w].pc = "idle"]
          /\ UNCHANGED <<cast, rows, driveVars, req, disk, writes, moved, overtaken, faults, slips>>
      BY <1>2 DEF WatchListed, WatchOthers
    <2>3. OnlyWatch(w) /\ watch'[w].pc = "idle" /\ watch'[w].refs = watch[w].refs
      BY <1>t, <2>2 DEF OnlyWatch, WatchType
    <2> QED
      BY <1>t, <2>2, <2>3 DEF Rests
  <1>3. ASSUME NEW f \in LocalFiles, WatchRead(w, f)
        PROVE  /\ UNCHANGED <<cast, rows, driveVars, writes, overtaken>>
               /\ faults' \in 0..MaxFaults /\ OnlyWatch(w) /\ Reads(w, f)
    <2>1. /\ watch[w].pc = "next" /\ f \in watch[w].refs /\ disk[f] # 0
          /\ req[w].pc \in {"idle", "answered", "error"}
          /\ watch' = [watch EXCEPT ![w].pc = "wait", ![w].file = f, ![w].refs = @ \ {f}]
          /\ req' = [req EXCEPT ![w] = [Idle EXCEPT !.pc = "lookup", !.cause = <<f, disk[f]>>]]
          /\ UNCHANGED <<cast, rows, driveVars, disk, writes, moved, overtaken, faults, slips>>
      BY <1>3 DEF WatchRead, WatchOthers
    <2>2. /\ OnlyWatch(w) /\ watch'[w].pc = "wait" /\ watch'[w].file = f
          /\ watch'[w].refs = watch[w].refs \ {f}
      BY <1>t, <2>1 DEF OnlyWatch, WatchType
    <2>3. PICK c \in Causes : c = <<f, disk[f]>>
      BY <1>t DEF Causes, Files
    <2>i. Idle \in RequestType /\ Idle.key = NoKey /\ Idle.via = "run"
      BY <1>d DEF RequestType, Idle, NoCause, Causes
    <2>r. PICK r : r = [Idle EXCEPT !.pc = "lookup", !.cause = c]
      OBVIOUS
    <2>4. /\ r \in RequestType
          /\ r.pc = "lookup" /\ r.key = NoKey /\ r.via = "run" /\ r.cause = c
      BY <2>i, <2>r DEF RequestType
    <2>5. w \in Handlers /\ req \in [Handlers -> RequestType]
      BY <1>t DEF Handlers, TypeOK
    <2>6. /\ req' \in [Handlers -> RequestType] /\ \A h \in Handlers \ {w} : req'[h] = req[h]
          /\ req'[w] = r
      BY <2>1, <2>3, <2>r, <2>4, <2>5
    <2> QED
      BY <1>t, <2>1, <2>2, <2>3, <2>4, <2>6 DEF Reads
  <1>4. ASSUME NEW f \in LocalFiles, WatchReadRaises(w, f)
        PROVE  /\ UNCHANGED <<cast, rows, driveVars, writes, overtaken>>
               /\ faults' \in 0..MaxFaults /\ OnlyWatch(w) /\ CannotRead(w, f)
    <2>1. /\ watch[w].pc = "next" /\ f \in watch[w].refs
          /\ watch' = [watch EXCEPT ![w].pc = "error", ![w].file = f, ![w].refs = @ \ {f}]
          /\ UNCHANGED <<cast, rows, driveVars, req, disk, writes, moved, overtaken, slips>>
      BY <1>4 DEF WatchReadRaises, WatchOthers
    <2>2. faults' \in 0..MaxFaults
      BY <1>4, <1>t, Faulted DEF WatchReadRaises
    <2>3. /\ OnlyWatch(w) /\ watch'[w].pc = "error" /\ watch'[w].file = f
          /\ watch'[w].refs = watch[w].refs \ {f}
      BY <1>t, <2>1 DEF OnlyWatch, WatchType
    <2> QED
      BY <2>1, <2>2, <2>3 DEF CannotRead
  <1>5. CASE WatchAnswered(w) \/ WatchTimesOut(w)
    <2>1. PICK pc \in {"dest", "error"} : /\ watch' = [watch EXCEPT ![w].pc = pc]
                                          /\ pc = "dest" => req[w].pc = "answered"
      BY <1>5 DEF WatchAnswered, WatchTimesOut
    <2>2. /\ watch[w].pc = "wait"
          /\ UNCHANGED <<cast, rows, driveVars, req, disk, writes, moved, overtaken, slips>>
      BY <1>5 DEF WatchAnswered, WatchTimesOut, WatchOthers
    <2>3. faults' \in 0..MaxFaults
      BY <1>5, <1>t, Faulted DEF WatchAnswered, WatchTimesOut
    <2>4. /\ OnlyWatch(w) /\ watch'[w].pc = pc /\ watch'[w].file = watch[w].file
          /\ watch'[w].refs = watch[w].refs
      BY <1>t, <2>1 DEF OnlyWatch, WatchType
    <2> QED
      BY <2>1, <2>2, <2>3, <2>4 DEF Learns
  <1>6. CASE WatchMove(w)
    <2>1. PICK f \in LocalFiles : f = watch[w].file
      BY <1>6, <1>k DEF WatchMove
    <2>2. /\ watch[w].pc \in {"dest", "error"} /\ disk[f] # 0 /\ disk' = [disk EXCEPT ![f] = 0]
          /\ moved' = IF watch[w].pc = "dest" THEN moved \cup {<<f, disk[f]>>} ELSE moved
          /\ watch' = [watch EXCEPT ![w].pc = "next", ![w].seen[f] = 0]
          /\ UNCHANGED <<cast, rows, driveVars, req, writes, overtaken, faults, slips>>
      BY <1>6, <2>1 DEF WatchMove, WatchOthers
    <2>s. watch[w].seen \in [LocalFiles -> 0..MaxVersions]
      BY <1>t DEF WatchType
    <2>n. PICK seen : seen = [watch[w].seen EXCEPT ![f] = 0]
      OBVIOUS
    <2>m. seen \in [LocalFiles -> 0..MaxVersions]
      BY <1>d, <2>s, <2>n
    <2>w. watch' = [watch EXCEPT ![w].pc = "next", ![w].seen = seen]
      BY <1>t, <2>2, <2>n DEF WatchType
    <2>3. OnlyWatch(w) /\ watch'[w].pc = "next" /\ watch'[w].refs = watch[w].refs
      BY <1>t, <2>m, <2>w DEF OnlyWatch, WatchType
    <2> QED
      BY <1>t, <2>1, <2>2, <2>3 DEF PutsAway
  <1>7. CASE WatchMoveRaises(w) \/ WatchDies(w)
    <2>1. /\ watch[w].pc \in {"wait", "dest", "error"} /\ Slip(watch[w].file)
          /\ UNCHANGED <<cast, rows, driveVars, req, disk, writes, moved, overtaken>>
      BY <1>7 DEF WatchMoveRaises, WatchDies, WatchOthers
    <2>2. faults' \in 0..MaxFaults
      BY <1>7, <1>t, Faulted DEF WatchMoveRaises, WatchDies
    <2>3. Unseen \in [LocalFiles -> 0..MaxVersions]
      BY <1>d DEF Unseen
    <2>4. CASE watch' = [watch EXCEPT ![w].pc = "idle", ![w].refs = {}]
      <3>1. OnlyWatch(w) /\ watch'[w].pc = "idle" /\ watch'[w].refs = {}
        BY <1>t, <2>4 DEF OnlyWatch, WatchType
      <3> QED
        BY <2>1, <2>2, <3>1 DEF GivesUp
    <2>5. CASE watch' = [watch EXCEPT ![w].pc = "idle", ![w].refs = {}, ![w].seen = Unseen]
      <3>1. OnlyWatch(w) /\ watch'[w].pc = "idle" /\ watch'[w].refs = {}
        BY <1>t, <2>3, <2>5 DEF OnlyWatch, WatchType
      <3> QED
        BY <2>1, <2>2, <3>1 DEF GivesUp
    <2> QED
      BY <1>7, <2>4, <2>5 DEF WatchMoveRaises, WatchDies
  <1> QED
    BY <1>1, <1>2, <1>3, <1>4, <1>5, <1>6, <1>7 DEF WatchMoves, WatchStep, WatchFault

-----------------------------------------------------------------------------
(* The remaining steps, and all of them.                                   *)

LEMMA RowsEffect ==
    ASSUME Known, Deliver \/ ClientEnds
    PROVE  SameRows /\ UNCHANGED <<cast, req, driveVars, watchVars, faults, slips>>
  <1>1. UNCHANGED <<cast, req, driveVars, watchVars, faults, slips>>
    BY DEF Deliver, ClientEnds
  <1>2. PICK i \in DOMAIN rows : Claim(i) \/ Settle(i) \/ Cancel(i) \/ Delete(i)
    BY DEF Deliver, ClientEnds
  <1>3. PICK st \in Statuses : rows' = [rows EXCEPT ![i].status = st] /\ rows[i].status # "deleted"
    BY <1>2 DEF Claim, Settle, Cancel, Delete, Statuses
  <1>4. SameRows
    BY <1>3, StatusIsSet DEF Known
  <1> QED
    BY <1>1, <1>4

Sends(h) ==
    /\ req' \in [Handlers -> RequestType] /\ \A g \in Handlers \ {h} : req'[g] = req[g]
    /\ req'[h].pc = "lookup" /\ req'[h].cause = NoCause
    /\ UNCHANGED <<Others, rows, faults>>

LEMMA SendEffect ==
    ASSUME Known, NEW h \in Clients, NEW via \in {"create", "run", "sync"}, NEW key \in Keys,
           Send(h, via, key)
    PROVE  Sends(h)
  <1>1. req \in [Handlers -> RequestType] /\ h \in Handlers
    BY DEF Known, TypeOK, Handlers
  <1>2. Idle \in RequestType /\ Idle.cause = NoCause
    BY IntakeAssumption DEF RequestType, Idle, NoCause, Causes
  <1>3. PICK r : r = [Idle EXCEPT !.pc = "lookup", !.via = via, !.key = key]
    OBVIOUS
  <1>4. r \in RequestType /\ r.pc = "lookup" /\ r.cause = NoCause
    BY <1>2, <1>3 DEF RequestType
  <1>5. /\ req' \in [Handlers -> RequestType] /\ \A g \in Handlers \ {h} : req'[g] = req[g]
        /\ req'[h] = r
    BY <1>1, <1>3, <1>4 DEF Send
  <1>6. UNCHANGED <<Others, rows, faults>>
    BY DEF Send
  <1> QED
    BY <1>4, <1>5, <1>6 DEF Sends

LEMMA UnlinkEffect ==
    ASSUME Known, Unlink
    PROVE  /\ UNCHANGED <<cast, rowVars, drive, poll, watchVars, slips>>
           /\ linked' \in BOOLEAN /\ faults' \in 0..MaxFaults
  BY Faulted DEF Unlink, Known

Writes(f) ==
    /\ writes[f] < MaxVersions
    /\ writes' = [writes EXCEPT ![f] = @ + 1]
    /\ disk' = [disk EXCEPT ![f] = writes[f] + 1]
    /\ overtaken' = (overtaken \/ \E w \in Watchers : InHand(w, f))
    /\ UNCHANGED <<cast, rows, driveVars, req, moved, watch, faults, slips>>

LEMMA WriteEffect ==
    ASSUME Known, NEW f \in LocalFiles, WriteFile(f)
    PROVE  Writes(f)
  BY DEF WriteFile, Writes, WatchOthers

\* Every step is one of these.
Steps ==
    \/ SameRows /\ UNCHANGED <<cast, req, driveVars, watchVars, faults, slips>>
    \/ \E h \in Clients : Sends(h)
    \/ \E h \in Handlers : HandlerMoves(h)
    \/ \E p \in Pollers : PollMoves(p)
    \/ /\ UNCHANGED <<cast, rowVars, drive, poll, watchVars, slips>>
       /\ linked' \in BOOLEAN /\ faults' \in 0..MaxFaults
    \/ \E w \in Watchers : WatchMoves(w)
    \/ \E f \in LocalFiles : Writes(f)

LEMMA EveryStep == Known /\ [Next]_vars => Steps
  <1> SUFFICES ASSUME Known, [Next]_vars PROVE Steps
    OBVIOUS
  <1>1. CASE UNCHANGED vars
    <2>1. SameRows
      BY <1>1, RowsUntouched DEF Known, vars, rowVars
    <2>2. UNCHANGED <<cast, req, driveVars, watchVars, faults, slips>>
      BY <1>1 DEF vars, rowVars
    <2> QED
      BY <2>1, <2>2 DEF Steps
  <1>2. CASE Deliver \/ ClientEnds
    BY <1>2, RowsEffect DEF Steps
  <1>3. ASSUME NEW h \in Clients, NEW via \in {"create", "run", "sync"}, NEW key \in Keys,
               Send(h, via, key)
        PROVE  Steps
    BY <1>3, SendEffect DEF Steps
  <1>4. ASSUME NEW h \in Handlers, HandlerStep(h) \/ EnqueueRaises(h) \/ HandlerDies(h)
        PROVE  Steps
    BY <1>4 DEF Steps, HandlerMoves
  <1>5. ASSUME NEW p \in Pollers, PollStep(p) \/ PollFault(p)
        PROVE  Steps
    BY <1>5 DEF Steps, PollMoves
  <1>6. CASE Unlink
    BY <1>6, UnlinkEffect DEF Steps
  <1>7. ASSUME NEW w \in Watchers, WatchStep(w) \/ WatchFault(w)
        PROVE  Steps
    BY <1>7 DEF Steps, WatchMoves
  <1>8. ASSUME NEW f \in LocalFiles, WriteFile(f)
        PROVE  Steps
    BY <1>8, WriteEffect DEF Steps
  <1> QED
    BY <1>1, <1>2, <1>3, <1>4, <1>5, <1>6, <1>7, <1>8 DEF Next

\* Rows that are kept are still known to whoever did not move.
LEMMA StillKnown ==
    ASSUME Known, RowsKept
    PROVE  /\ \A h \in Handlers :
                 req'[h] = req[h] /\ req'[h].pc \in {"enqueue", "marking", "poll", "answered"} =>
                    req'[h].row \in DOMAIN rows' /\ rows'[req'[h].row].key = req'[h].key
           /\ \A p \in Pollers :
                 poll'[p] = poll[p] =>
                    /\ poll'[p].pc # "idle" => poll'[p].refs # {}
                    /\ poll'[p].pc = "idle" => poll'[p].refs = {}
                    /\ poll'[p].pc \in {"enqueue", "mark"} => poll'[p].row \in DOMAIN rows'
  BY DEF Known, RowsKept, RequestsKnowTheirRow, PollsKnowTheirRow

LEMMA KnownStep == Known /\ Steps => Known'
  <1> SUFFICES ASSUME Known, Steps PROVE Known'
    OBVIOUS
  <1>t. TypeOK
    BY DEF Known
  <1>1. CASE SameRows /\ UNCHANGED <<cast, req, driveVars, watchVars, faults, slips>>
    <2>1. RowsKept
      BY <1>1, SameIsKept
    <2>2. TypeOK'
      BY <1>t, <1>1 DEF TypeOK, SameRows, driveVars, watchVars
    <2>3. RequestsKnowTheirRow' /\ PollsKnowTheirRow'
      BY <1>1, <2>1, StillKnown DEF RequestsKnowTheirRow, PollsKnowTheirRow, driveVars
    <2>4. WatchersKnowTheirFile'
      BY <1>1 DEF Known, WatchersKnowTheirFile, watchVars
    <2> QED
      BY <2>2, <2>3, <2>4 DEF Known
  <1>2. ASSUME NEW h \in Clients, Sends(h)
        PROVE  Known'
    <2>1. RowsKept /\ UNCHANGED rows
      BY <1>2, <1>t, RowsUntouched, SameIsKept DEF Sends
    <2>2. TypeOK'
      BY <1>t, <1>2 DEF TypeOK, Sends, Others, driveVars, watchVars
    <2>3. RequestsKnowTheirRow' /\ PollsKnowTheirRow'
      BY <1>2, <2>1, StillKnown DEF RequestsKnowTheirRow, PollsKnowTheirRow, Sends, Others, driveVars
    <2>4. WatchersKnowTheirFile'
      BY <1>2 DEF Known, WatchersKnowTheirFile, watchVars, Sends, Others
    <2> QED
      BY <2>2, <2>3, <2>4 DEF Known
  <1>3. ASSUME NEW h \in Handlers, HandlerMoves(h)
        PROVE  Known'
    <2>0. /\ UNCHANGED Others /\ faults' \in 0..MaxFaults /\ OnlyRequest(h)
          /\ Inserted(h) \/ Replayed(h) \/ Enqueued(h) \/ GoesOn(h)
      BY <1>3, HandlerEffect
    <2>1. RowsKept
      BY <2>0, SameIsKept, MoreIsKept DEF Inserted, Replayed, Enqueued, GoesOn
    <2>2. rows' \in Seq(RowType) /\ Len(rows') <= MaxRows
      <3>1. CASE Inserted(h)
        BY <3>1, <1>t, IntakeAssumption DEF Inserted, OneMore, TypeOK
      <3>2. CASE SameRows
        BY <3>2, <1>t DEF SameRows, TypeOK
      <3> QED
        BY <2>0, <3>1, <3>2 DEF Replayed, Enqueued, GoesOn
    <2>3. TypeOK'
      BY <1>t, <2>0, <2>2 DEF TypeOK, OnlyRequest, Others, driveVars, watchVars
    <2>4. req'[h].pc \in {"enqueue", "marking", "poll", "answered"} =>
             req'[h].row \in DOMAIN rows' /\ rows'[req'[h].row].key = req'[h].key
      <3>1. CASE Inserted(h)
        BY <2>0, <3>1 DEF Inserted, OneMore, OnlyRequest
      <3>2. CASE Replayed(h)
        BY <2>0, <3>2 DEF Replayed, SameRows, OnlyRequest, RowsOf
      <3>3. CASE Enqueued(h)
        BY <2>0, <3>3 DEF Enqueued, SameRows, OnlyRequest, Known, RequestsKnowTheirRow
      <3>4. CASE GoesOn(h)
        BY <2>0, <3>4 DEF GoesOn, SameRows, OnlyRequest, Known, RequestsKnowTheirRow
      <3> QED
        BY <2>0, <3>1, <3>2, <3>3, <3>4
    <2>5. RequestsKnowTheirRow'
      BY <2>0, <2>1, <2>4, StillKnown DEF RequestsKnowTheirRow, OnlyRequest
    <2>6. PollsKnowTheirRow'
      BY <2>0, <2>1, StillKnown DEF PollsKnowTheirRow, Others, driveVars
    <2>7. WatchersKnowTheirFile'
      BY <2>0 DEF Known, WatchersKnowTheirFile, watchVars, Others
    <2> QED
      BY <2>3, <2>5, <2>6, <2>7 DEF Known
  <1>4. ASSUME NEW p \in Pollers, PollMoves(p)
        PROVE  Known'
    <2>0. /\ UNCHANGED DriveOthers /\ faults' \in 0..MaxFaults /\ OnlyPoll(p)
          /\ \/ Lists(p) \/ Begins(p) \/ Errs(p) \/ HandsOver(p) \/ Marks(p)
             \/ LeavesUnmarked(p) \/ Moves(p) \/ Dies(p)
      BY <1>4, PollEffect
    <2>1. RowsKept
      BY <2>0, SameIsKept, MoreIsKept
         DEF Lists, Begins, Errs, HandsOver, Marks, LeavesUnmarked, Moves, Dies
    <2>2. rows' \in Seq(RowType) /\ Len(rows') <= MaxRows
      <3>1. CASE Begins(p)
        BY <3>1, <1>t, IntakeAssumption DEF Begins, OneMore, TypeOK
      <3>2. CASE SameRows
        BY <3>2, <1>t DEF SameRows, TypeOK
      <3> QED
        BY <2>0, <3>1, <3>2 DEF Lists, Errs, HandsOver, Marks, LeavesUnmarked, Moves, Dies
    <2>3. slips' \in [Files -> Nat]
      <3>0. slips \in [Files -> Nat]
        BY <1>t DEF TypeOK
      <3>1. CASE Lists(p)
        BY <3>0, <3>1 DEF Lists
      <3>2. CASE LeavesUnmarked(p) \/ Dies(p)
        <4>1. poll[p].pc # "idle" /\ Slip(Current(p))
          BY <3>2 DEF LeavesUnmarked, Dies
        <4>2. Current(p) \in Files
          BY <4>1, CurrentIsListed DEF Known, PollsKnowTheirRow, Files
        <4> QED
          BY <1>t, <4>1, <4>2, SlipCounts
      <3>3. CASE UNCHANGED slips
        BY <3>0, <3>3
      <3> QED
        BY <2>0, <3>1, <3>2, <3>3 DEF Begins, Errs, HandsOver, Marks, Moves
    <2>4. drive' \in [DriveFiles -> MarkType]
      <3>0. drive \in [DriveFiles -> MarkType]
        BY <1>t DEF TypeOK
      <3> QED
        BY <2>0, <3>0 DEF Lists, Begins, Errs, HandsOver, Marks, LeavesUnmarked, Moves, Dies, OnlyFile
    <2>5. TypeOK'
      BY <1>t, <2>0, <2>2, <2>3, <2>4 DEF TypeOK, OnlyPoll, DriveOthers, watchVars
    <2>6. RequestsKnowTheirRow'
      BY <2>0, <2>1, StillKnown DEF RequestsKnowTheirRow, DriveOthers
    <2>7. /\ poll'[p].pc # "idle" => poll'[p].refs # {}
          /\ poll'[p].pc = "idle" => poll'[p].refs = {}
          /\ poll'[p].pc \in {"enqueue", "mark"} => poll'[p].row \in DOMAIN rows'
      <3>0. /\ poll[p].pc # "idle" => poll[p].refs # {}
            /\ poll[p].pc = "enqueue" => poll[p].row \in DOMAIN rows
        BY DEF Known, PollsKnowTheirRow
      <3>1. CASE Begins(p)
        BY <3>0, <3>1 DEF Begins, OneMore
      <3>2. CASE HandsOver(p)
        BY <3>0, <3>2 DEF HandsOver, SameRows
      <3>3. CASE Lists(p) \/ Errs(p) \/ Marks(p) \/ LeavesUnmarked(p) \/ Moves(p) \/ Dies(p)
        BY <3>0, <3>3 DEF Lists, Errs, Marks, LeavesUnmarked, Moves, Dies
      <3> QED
        BY <2>0, <3>1, <3>2, <3>3
    <2>8. PollsKnowTheirRow'
      BY <2>0, <2>1, <2>7, StillKnown DEF PollsKnowTheirRow, OnlyPoll
    <2>9. WatchersKnowTheirFile'
      BY <2>0 DEF Known, WatchersKnowTheirFile, watchVars, DriveOthers
    <2> QED
      BY <2>5, <2>6, <2>8, <2>9 DEF Known
  <1>5. CASE /\ UNCHANGED <<cast, rowVars, drive, poll, watchVars, slips>>
             /\ linked' \in BOOLEAN /\ faults' \in 0..MaxFaults
    <2>1. TypeOK'
      BY <1>t, <1>5 DEF TypeOK, rowVars, watchVars
    <2>2. RequestsKnowTheirRow' /\ PollsKnowTheirRow' /\ WatchersKnowTheirFile'
      BY <1>5 DEF Known, RequestsKnowTheirRow, PollsKnowTheirRow, WatchersKnowTheirFile, rowVars,
                  watchVars
    <2> QED
      BY <2>1, <2>2 DEF Known
  <1>6. ASSUME NEW w \in Watchers, WatchMoves(w)
        PROVE  Known'
    <2>0. /\ UNCHANGED <<cast, rows, driveVars, writes, overtaken>> /\ faults' \in 0..MaxFaults
          /\ OnlyWatch(w)
          /\ \/ Snaps(w) \/ Rests(w) \/ Learns(w) \/ PutsAway(w) \/ GivesUp(w)
             \/ \E f \in LocalFiles : Reads(w, f) \/ CannotRead(w, f)
      BY <1>6, WatchEffect
    <2>k. watch[w].pc \in {"wait", "dest", "error"} => watch[w].file \in LocalFiles
      BY DEF Known, WatchersKnowTheirFile
    <2>1. slips' \in [Files -> Nat]
      <3>0. slips \in [Files -> Nat]
        BY <1>t DEF TypeOK
      <3>1. CASE Snaps(w)
        BY <3>0, <3>1 DEF Snaps
      <3>2. CASE GivesUp(w)
        <4>1. watch[w].file \in Files /\ Slip(watch[w].file)
          BY <2>k, <3>2 DEF GivesUp, Files
        <4> QED
          BY <1>t, <4>1, SlipCounts
      <3>3. CASE UNCHANGED slips
        BY <3>0, <3>3
      <3> QED
        BY <2>0, <3>1, <3>2, <3>3 DEF Rests, Learns, PutsAway, Reads, CannotRead
    <2>2. disk' \in [LocalFiles -> 0..MaxVersions] /\ moved' \subseteq LocalFiles \X (0..MaxVersions)
      <3>0. disk \in [LocalFiles -> 0..MaxVersions] /\ moved \subseteq LocalFiles \X (0..MaxVersions)
        BY <1>t DEF TypeOK
      <3>1. CASE PutsAway(w)
        <4>1. PICK f \in LocalFiles : f = watch[w].file
          BY <2>k, <3>1 DEF PutsAway
        <4>2. disk[f] \in 0..MaxVersions /\ 0 \in 0..MaxVersions
          BY <3>0, IntakeAssumption
        <4>3. disk' = [disk EXCEPT ![f] = 0]
          BY <3>1, <4>1 DEF PutsAway
        <4>4. disk' \in [LocalFiles -> 0..MaxVersions]
          BY <3>0, <4>2, <4>3
        <4>5. moved' \subseteq LocalFiles \X (0..MaxVersions)
          BY <3>0, <3>1, <4>1, <4>2 DEF PutsAway
        <4> QED
          BY <4>4, <4>5
      <3>2. CASE UNCHANGED <<disk, moved>>
        BY <3>0, <3>2
      <3> QED
        BY <2>0, <3>1, <3>2 DEF Snaps, Rests, Learns, GivesUp, Reads, CannotRead
    <2>3. req' \in [Handlers -> RequestType]
      <3>0. req \in [Handlers -> RequestType]
        BY <1>t DEF TypeOK
      <3> QED
        BY <2>0, <3>0 DEF Snaps, Rests, Learns, PutsAway, GivesUp, Reads, CannotRead
    <2>4. TypeOK'
      BY <1>t, <2>0, <2>1, <2>2, <2>3 DEF TypeOK, OnlyWatch, driveVars
    <2>5. RequestsKnowTheirRow'
      <3>1. ASSUME NEW h \in Handlers, req'[h].pc \in {"enqueue", "marking", "poll", "answered"}
            PROVE  req'[h] = req[h]
        BY <2>0, <3>1 DEF Snaps, Rests, Learns, PutsAway, GivesUp, Reads, CannotRead
      <3> QED
        BY <2>0, <3>1 DEF Known, RequestsKnowTheirRow
    <2>6. PollsKnowTheirRow'
      BY <2>0 DEF Known, PollsKnowTheirRow, driveVars
    <2>7. /\ watch'[w].pc \in {"wait", "dest", "error"} => watch'[w].file \in LocalFiles
          /\ watch'[w].pc = "idle" => watch'[w].refs = {}
      BY <2>0, <2>k DEF Snaps, Rests, Learns, PutsAway, GivesUp, Reads, CannotRead
    <2>8. WatchersKnowTheirFile'
      BY <2>0, <2>7 DEF Known, WatchersKnowTheirFile, OnlyWatch
    <2> QED
      BY <2>4, <2>5, <2>6, <2>8 DEF Known
  <1>7. ASSUME NEW f \in LocalFiles, Writes(f)
        PROVE  Known'
    <2>1. /\ writes' \in [LocalFiles -> 0..MaxVersions] /\ disk' \in [LocalFiles -> 0..MaxVersions]
      <3>1. writes \in [LocalFiles -> 0..MaxVersions] /\ disk \in [LocalFiles -> 0..MaxVersions]
        BY <1>t DEF TypeOK
      <3>2. writes[f] + 1 \in 0..MaxVersions
        BY <3>1, <1>7, IntakeAssumption DEF Writes
      <3> QED
        BY <3>1, <3>2, <1>7 DEF Writes
    <2>2. overtaken' \in BOOLEAN
      BY <1>7 DEF Writes
    <2>3. TypeOK'
      BY <1>t, <1>7, <2>1, <2>2 DEF TypeOK, Writes, driveVars
    <2>4. RequestsKnowTheirRow' /\ PollsKnowTheirRow' /\ WatchersKnowTheirFile'
      BY <1>7 DEF Known, RequestsKnowTheirRow, PollsKnowTheirRow, WatchersKnowTheirFile, Writes,
                  driveVars
    <2> QED
      BY <2>3, <2>4 DEF Known
  <1> QED
    BY <1>1, <1>2, <1>3, <1>4, <1>5, <1>6, <1>7 DEF Steps

LEMMA KnownAlways == Spec => []Known
  <1>1. Known /\ [Next]_vars => Known'
    BY EveryStep, KnownStep
  <1> QED
    BY KnownInit, <1>1, PTL DEF Spec

\* Every variable of Intake keeps its type: the tables hold rows of their schema
\* and every handler, poll and watcher is at one of its program points.
THEOREM IntakeTypesCorrect == Spec => []TypeOK
  <1>1. Known => TypeOK
    BY DEF Known
  <1> QED
    BY KnownAlways, <1>1, PTL

-----------------------------------------------------------------------------
(* A key names one execution.                                              *)

LEMMA RowsChange ==
    ASSUME Known, Steps
    PROVE  \/ SameRows
           \/ \E key, cause : OneMore(key, cause) /\ (key = NoKey \/ RowsOf(key) = {})
  <1>1. ASSUME UNCHANGED rows PROVE SameRows
    BY <1>1, RowsUntouched DEF Known
  <1>2. ASSUME NEW h \in Clients, Sends(h) PROVE SameRows
    BY <1>1, <1>2 DEF Sends
  <1>3. ASSUME NEW h \in Handlers, HandlerMoves(h)
        PROVE  \/ SameRows
               \/ \E key, cause : OneMore(key, cause) /\ (key = NoKey \/ RowsOf(key) = {})
    BY <1>3, HandlerEffect DEF Inserted, Replayed, Enqueued, GoesOn
  <1>4. ASSUME NEW p \in Pollers, PollMoves(p)
        PROVE  SameRows \/ \E cause : OneMore(NoKey, cause)
    BY <1>4, PollEffect DEF Lists, Begins, Errs, HandsOver, Marks, LeavesUnmarked, Moves, Dies
  <1>5. ASSUME NEW w \in Watchers, WatchMoves(w) PROVE SameRows
    BY <1>1, <1>5, WatchEffect
  <1>6. ASSUME NEW f \in LocalFiles, Writes(f) PROVE SameRows
    BY <1>1, <1>6 DEF Writes
  <1>7. ASSUME UNCHANGED rowVars PROVE SameRows
    BY <1>1, <1>7 DEF rowVars
  <1> QED
    BY <1>2, <1>3, <1>4, <1>5, <1>6, <1>7 DEF Steps

\* The unique constraint on (workflowId, idempotencyKey).
KeysAreUnique ==
    \A i, j \in DOMAIN rows :
        /\ rows[i].key = rows[j].key /\ rows[i].key # NoKey
        /\ rows[i].status # "deleted" /\ rows[j].status # "deleted"
        => i = j

LEMMA KeysStep == Known /\ KeysAreUnique /\ Steps => KeysAreUnique'
  <1> SUFFICES ASSUME Known, KeysAreUnique, Steps PROVE KeysAreUnique'
    OBVIOUS
  <1>1. CASE SameRows
    BY <1>1 DEF SameRows, KeysAreUnique
  <1>2. ASSUME NEW key, NEW cause, OneMore(key, cause), key = NoKey \/ RowsOf(key) = {}
        PROVE  KeysAreUnique'
    <2>1. \A i \in DOMAIN rows : rows[i].key = key /\ key # NoKey => rows[i].status = "deleted"
      BY <1>2 DEF RowsOf
    <2> QED
      BY <1>2, <2>1 DEF OneMore, KeysAreUnique
  <1> QED
    BY <1>1, <1>2, RowsChange

\* For every number of clients and retries: at most one undeleted execution has a
\* given idempotency key, and two requests answered for one key were answered
\* with one execution unless it was deleted in between.
THEOREM OneExecutionPerKey == Spec => []KeysNameOneExecution
  <1>1. Init => KeysAreUnique
    BY DEF Init, KeysAreUnique
  <1>2. Known /\ KeysAreUnique /\ [Next]_vars => KeysAreUnique'
    BY EveryStep, KeysStep
  <1>3. Known /\ KeysAreUnique => KeysNameOneExecution
    <2> SUFFICES ASSUME Known, KeysAreUnique PROVE KeysNameOneExecution
      OBVIOUS
    <2>1. ASSUME NEW key \in Keys PROVE Cardinality(RowsOf(key)) <= 1
      <3>1. key # NoKey
        BY IntakeAssumption
      <3>2. \A i, j \in RowsOf(key) : i = j
        BY <3>1 DEF RowsOf, KeysAreUnique
      <3>3. CASE RowsOf(key) = {}
        BY <3>3, FS_EmptySet
      <3>4. ASSUME NEW i \in RowsOf(key) PROVE Cardinality(RowsOf(key)) <= 1
        <4>1. RowsOf(key) = {i}
          BY <3>2, <3>4
        <4> QED
          BY <4>1, FS_Singleton
      <3> QED
        BY <3>3, <3>4
    <2>2. ASSUME NEW g \in Clients, NEW h \in Clients,
                 req[g].pc = "answered", req[h].pc = "answered",
                 req[g].key = req[h].key, req[g].key # NoKey
          PROVE  \/ req[g].row = req[h].row
                 \/ rows[req[g].row].status = "deleted" \/ rows[req[h].row].status = "deleted"
      <3>1. g \in Handlers /\ h \in Handlers
        BY DEF Handlers
      <3>2. /\ req[g].row \in DOMAIN rows /\ rows[req[g].row].key = req[g].key
            /\ req[h].row \in DOMAIN rows /\ rows[req[h].row].key = req[h].key
        BY <2>2, <3>1 DEF Known, RequestsKnowTheirRow
      <3> QED
        BY <2>2, <3>2 DEF KeysAreUnique
    <2> QED
      BY <2>1, <2>2 DEF KeysNameOneExecution
  <1> QED
    BY KnownAlways, <1>1, <1>2, <1>3, PTL DEF Spec

-----------------------------------------------------------------------------
(* The folders tell the truth.                                             *)

\* A row that was handed to the queue for this cause.
Queued(cause) == \E i \in DOMAIN rows : rows[i].cause = cause /\ rows[i].task

LEMMA QueuedStays ==
    ASSUME RowsKept, NEW cause, Queued(cause)
    PROVE  Queued(cause)'
  BY DEF RowsKept, Queued

\* What a poll knows of its file when it marks it and when it moves it.
PollsKnowTheirFile ==
    \A p \in Pollers :
        /\ poll[p].pc = "enqueue" => rows[poll[p].row].cause = DriveCause(Current(p))
        /\ poll[p].pc = "mark" => Queued(DriveCause(Current(p)))
        /\ poll[p].pc = "move" => drive[Current(p)].mark # "none"

MarksAreTrue ==
    \A f \in DriveFiles :
        /\ drive[f].folder = "moved" => drive[f].mark # "none"
        /\ drive[f].mark = "processed" => Queued(DriveCause(f))

\* A marker once set stays.
MarksStay == \A f \in DriveFiles : drive[f].mark # "none" => drive'[f].mark # "none"

DriveInv == PollsKnowTheirFile /\ MarksAreTrue

LEMMA RowsAreKept ==
    ASSUME Known, Steps
    PROVE  RowsKept
  BY RowsChange, SameIsKept, MoreIsKept

\* A poll that does not move keeps what it knows.
LEMMA IdlePollsKnow ==
    ASSUME Known, DriveInv, RowsKept, MarksStay, NEW q \in Pollers, poll'[q] = poll[q]
    PROVE  /\ poll'[q].pc = "enqueue" => rows'[poll'[q].row].cause = DriveCause(Current(q)')
           /\ poll'[q].pc = "mark" => Queued(DriveCause(Current(q)))'
           /\ poll'[q].pc = "move" => drive'[Current(q)'].mark # "none"
  <1>1. Current(q)' = Current(q)
    BY CurrentStays
  <1>2. CASE poll[q].pc = "enqueue"
    BY <1>1, <1>2 DEF Known, PollsKnowTheirRow, DriveInv, PollsKnowTheirFile, RowsKept
  <1>3. CASE poll[q].pc = "mark"
    <2>1. Queued(DriveCause(Current(q)))
      BY <1>3 DEF DriveInv, PollsKnowTheirFile
    <2>2. PICK c : c = DriveCause(Current(q))
      OBVIOUS
    <2>3. Queued(c)'
      BY <2>1, <2>2, QueuedStays
    <2> QED
      BY <1>1, <1>3, <2>2, <2>3
  <1>4. CASE poll[q].pc = "move"
    <2>1. Current(q) \in DriveFiles
      BY <1>4, CurrentIsListed DEF Known, PollsKnowTheirRow
    <2> QED
      BY <1>1, <1>4, <2>1 DEF DriveInv, PollsKnowTheirFile, MarksStay
  <1> QED
    BY <1>2, <1>3, <1>4

LEMMA DriveStep == Known /\ DriveInv /\ Steps => DriveInv'
  <1> SUFFICES ASSUME Known, DriveInv, Steps PROVE DriveInv'
    OBVIOUS
  <1>k. RowsKept
    BY RowsAreKept
  <1>1. ASSUME UNCHANGED <<drive, poll>> PROVE DriveInv'
    <2>1. MarksStay
      BY <1>1 DEF MarksStay
    <2>2. PollsKnowTheirFile'
      BY <1>1, <1>k, <2>1, IdlePollsKnow DEF PollsKnowTheirFile
    <2>3. ASSUME NEW f \in DriveFiles
          PROVE  /\ drive'[f].folder = "moved" => drive'[f].mark # "none"
                 /\ drive'[f].mark = "processed" => Queued(DriveCause(f))'
      <3>1. PICK c : c = DriveCause(f)
        OBVIOUS
      <3> QED
        BY <1>1, <1>k, <3>1, QueuedStays DEF DriveInv, MarksAreTrue
    <2> QED
      BY <2>2, <2>3 DEF DriveInv, MarksAreTrue
  <1>2. ASSUME NEW p \in Pollers, PollMoves(p) PROVE DriveInv'
    <2>0. /\ OnlyPoll(p)
          /\ \/ Lists(p) \/ Begins(p) \/ Errs(p) \/ HandsOver(p) \/ Marks(p)
             \/ LeavesUnmarked(p) \/ Moves(p) \/ Dies(p)
      BY <1>2, PollEffect
    <2>c. poll[p].pc # "idle" => Current(p) \in DriveFiles
      BY CurrentIsListed DEF Known, PollsKnowTheirRow
    <2>f. PICK f : f = Current(p)
      OBVIOUS
    <2>d. drive \in [DriveFiles -> MarkType]
      BY DEF Known, TypeOK
    <2>q. PICK c : c = DriveCause(f)
      OBVIOUS
    <2>1. MarksStay
      <3>1. CASE Marks(p)
        BY <3>1 DEF Marks, OnlyFile, MarksStay
      <3>2. CASE Moves(p)
        BY <3>2 DEF Moves, OnlyFile, MarksStay
      <3> QED
        BY <2>0, <3>1, <3>2
           DEF Lists, Begins, Errs, HandsOver, LeavesUnmarked, Dies, MarksStay
    <2>2. /\ poll'[p].pc = "enqueue" => rows'[poll'[p].row].cause = DriveCause(Current(p)')
          /\ poll'[p].pc = "mark" => Queued(DriveCause(Current(p)))'
          /\ poll'[p].pc = "move" => drive'[Current(p)'].mark # "none"
      <3>1. CASE Begins(p)
        <4>1. Current(p)' = Current(p)
          BY <3>1, CurrentStays DEF Begins
        <4> QED
          BY <3>1, <4>1 DEF Begins, OneMore
      <3>2. CASE HandsOver(p)
        <4>1. Current(p)' = f
          BY <3>2, <2>f, CurrentStays DEF HandsOver
        <4>2. poll[p].row \in DOMAIN rows /\ rows[poll[p].row].cause = c
          BY <3>2, <2>f, <2>q DEF HandsOver, Known, PollsKnowTheirRow, DriveInv, PollsKnowTheirFile
        <4>3. Queued(c)'
          BY <3>2, <4>2 DEF HandsOver, SameRows, Queued
        <4> QED
          BY <3>2, <4>1, <4>3, <2>q DEF HandsOver
      <3>3. CASE Marks(p)
        <4>1. Current(p)' = Current(p)
          BY <3>3, CurrentStays DEF Marks
        <4> QED
          BY <3>3, <4>1 DEF Marks
      <3> QED
        BY <2>0, <3>1, <3>2, <3>3 DEF Lists, Errs, LeavesUnmarked, Moves, Dies
    <2>3. PollsKnowTheirFile'
      BY <1>k, <2>0, <2>1, <2>2, IdlePollsKnow DEF PollsKnowTheirFile, OnlyPoll
    <2>4. ASSUME NEW g \in DriveFiles
          PROVE  /\ drive'[g].folder = "moved" => drive'[g].mark # "none"
                 /\ drive'[g].mark = "processed" => Queued(DriveCause(g))'
      <3>0. PICK e : e = DriveCause(g)
        OBVIOUS
      <3>1. CASE drive'[g] = drive[g]
        BY <1>k, <3>0, <3>1, QueuedStays DEF DriveInv, MarksAreTrue
      <3>2. CASE Marks(p) /\ g = f
        <4>1. drive'[g].mark # "none"
          BY <3>2, <2>f DEF Marks
        <4>2. CASE poll[p].pc = "mark"
          <5>1. Queued(e)
            BY <3>0, <3>2, <2>f, <4>2 DEF DriveInv, PollsKnowTheirFile
          <5> QED
            BY <1>k, <3>0, <4>1, <5>1, QueuedStays
        <4>3. CASE poll[p].pc # "mark"
          BY <3>2, <2>f, <4>1, <4>3 DEF Marks
        <4> QED
          BY <4>2, <4>3
      <3>3. CASE Moves(p) /\ g = f
        <4>1. drive'[g].mark = drive[g].mark /\ drive[g].mark # "none"
          BY <3>3, <2>f DEF Moves, DriveInv, PollsKnowTheirFile
        <4>2. drive[g].mark = "processed" => Queued(e)
          BY <3>0 DEF DriveInv, MarksAreTrue
        <4> QED
          BY <1>k, <3>0, <4>1, <4>2, QueuedStays
      <3>4. CASE (Marks(p) \/ Moves(p)) /\ g # f
        <4>1. OnlyFile(f)
          BY <3>4, <2>f DEF Marks, Moves
        <4> QED
          BY <3>1, <3>4, <4>1 DEF OnlyFile
      <3>5. CASE UNCHANGED drive
        BY <3>1, <3>5
      <3>6. Marks(p) \/ Moves(p) \/ UNCHANGED drive
        BY <2>0 DEF Lists, Begins, Errs, HandsOver, LeavesUnmarked, Dies
      <3> QED
        BY <3>2, <3>3, <3>4, <3>5, <3>6
    <2> QED
      BY <2>3, <2>4 DEF DriveInv, MarksAreTrue
  <1>3. ASSUME NEW h \in Handlers, HandlerMoves(h) PROVE UNCHANGED <<drive, poll>>
    BY <1>3, HandlerEffect DEF Others, driveVars
  <1>4. ASSUME NEW w \in Watchers, WatchMoves(w) PROVE UNCHANGED <<drive, poll>>
    BY <1>4, WatchEffect DEF driveVars
  <1> QED
    BY <1>1, <1>2, <1>3, <1>4 DEF Steps, Sends, Writes, Others, driveVars

\* A watcher posts without a key and does not wait for the execution; its request
\* is for the file it is busy with, unless that was written meanwhile.
PostIsOfTheFile(w) ==
    watch[w].pc \in {"wait", "dest"} =>
        \/ disk[watch[w].file] = 0
        \/ req[w].cause = <<watch[w].file, disk[watch[w].file]>>

WatchersPost ==
    \A w \in Watchers :
        /\ req[w].key = NoKey /\ req[w].via = "run"
        /\ req[w].pc \notin {"collided", "poll", "marking"}
        /\ req[w].pc = "enqueue" => rows[req[w].row].cause = req[w].cause
        /\ req[w].pc = "answered" => Queued(req[w].cause)
        /\ watch[w].pc = "dest" => req[w].pc = "answered"

LocalInv ==
    /\ WatchersPost
    /\ ~overtaken => \A w \in Watchers : PostIsOfTheFile(w)
    /\ ~overtaken => \A m \in moved : Queued(m)

LEMMA LocalInit == Init => LocalInv
  BY DEF Init, LocalInv, WatchersPost, PostIsOfTheFile, Handlers, Idle

\* A watcher whose request is left alone keeps what it knows of it.
LEMMA IdleWatchersPost ==
    ASSUME Known, LocalInv, RowsKept, NEW w \in Watchers, req'[w] = req[w]
    PROVE  /\ req'[w].key = NoKey /\ req'[w].via = "run"
           /\ req'[w].pc \notin {"collided", "poll", "marking"}
           /\ req'[w].pc = "enqueue" => rows'[req'[w].row].cause = req'[w].cause
           /\ req'[w].pc = "answered" => Queued(req[w].cause)'
  <1>1. w \in Handlers
    BY DEF Handlers
  <1>2. /\ req[w].key = NoKey /\ req[w].via = "run"
        /\ req[w].pc \notin {"collided", "poll", "marking"}
        /\ req[w].pc = "enqueue" => rows[req[w].row].cause = req[w].cause
        /\ req[w].pc = "answered" => Queued(req[w].cause)
    BY DEF LocalInv, WatchersPost
  <1>3. req[w].pc = "enqueue" => req[w].row \in DOMAIN rows
    BY <1>1 DEF Known, RequestsKnowTheirRow
  <1>4. req[w].pc = "enqueue" => rows'[req[w].row].cause = req[w].cause
    BY <1>2, <1>3 DEF RowsKept
  <1>5. PICK c : c = req[w].cause
    OBVIOUS
  <1>6. req[w].pc = "answered" => Queued(c)'
    BY <1>2, <1>5, QueuedStays
  <1>7. Queued(c)' = Queued(req[w].cause)'
    BY <1>5
  <1> QED
    BY <1>2, <1>4, <1>6, <1>7

LEMMA LocalStep == Known /\ LocalInv /\ Steps => LocalInv'
  <1> SUFFICES ASSUME Known, LocalInv, Steps PROVE LocalInv'
    OBVIOUS
  <1>k. RowsKept
    BY RowsAreKept
  <1>m. ASSUME UNCHANGED moved, overtaken => overtaken'
        PROVE  ~overtaken' => \A m \in moved' : Queued(m)'
    <2> SUFFICES ASSUME ~overtaken', NEW m \in moved' PROVE Queued(m)'
      OBVIOUS
    <2>1. Queued(m)
      BY <1>m DEF LocalInv
    <2> QED
      BY <1>k, <2>1, QueuedStays
  <1>1. ASSUME UNCHANGED <<req, watchVars>> PROVE LocalInv'
    <2>0. UNCHANGED <<disk, moved, watch, overtaken>>
      BY <1>1 DEF watchVars
    <2>1. WatchersPost'
      BY <1>1, <1>k, <2>0, IdleWatchersPost DEF WatchersPost, LocalInv
    <2>2. (~overtaken => \A w \in Watchers : PostIsOfTheFile(w))'
      BY <1>1, <2>0 DEF LocalInv, PostIsOfTheFile
    <2> QED
      BY <2>0, <2>1, <2>2, <1>m DEF LocalInv
  <1>2. ASSUME NEW h \in Clients, Sends(h) PROVE LocalInv'
    <2>0. UNCHANGED <<disk, moved, watch, overtaken>>
      BY <1>2 DEF Sends, Others, watchVars
    <2>1. ASSUME NEW w \in Watchers PROVE req'[w] = req[w]
      BY <1>2, IntakeAssumption DEF Sends, Handlers
    <2>2. WatchersPost'
      BY <1>k, <2>0, <2>1, IdleWatchersPost DEF WatchersPost, LocalInv
    <2>3. (~overtaken => \A w \in Watchers : PostIsOfTheFile(w))'
      BY <2>0, <2>1 DEF LocalInv, PostIsOfTheFile
    <2> QED
      BY <2>0, <2>2, <2>3, <1>m DEF LocalInv
  <1>3. ASSUME NEW h \in Handlers, HandlerMoves(h) PROVE LocalInv'
    <2>0. /\ UNCHANGED Others /\ OnlyRequest(h)
          /\ Inserted(h) \/ Replayed(h) \/ Enqueued(h) \/ GoesOn(h)
      BY <1>3, HandlerEffect
    <2>1. UNCHANGED <<disk, moved, watch, overtaken>>
      BY <2>0 DEF Others, watchVars
    <2>2. (~overtaken => \A w \in Watchers : PostIsOfTheFile(w))'
      <3>1. \A w \in Watchers : req'[w].cause = req[w].cause
        BY <2>0 DEF OnlyRequest, Handlers
      <3> QED
        BY <2>1, <3>1 DEF LocalInv, PostIsOfTheFile
    <2>3. ASSUME NEW w \in Watchers
          PROVE  /\ req'[w].key = NoKey /\ req'[w].via = "run"
                 /\ req'[w].pc \notin {"collided", "poll", "marking"}
                 /\ req'[w].pc = "enqueue" => rows'[req'[w].row].cause = req'[w].cause
                 /\ req'[w].pc = "answered" => Queued(req[w].cause)'
                 /\ req'[w].cause = req[w].cause
                 /\ watch'[w].pc = "dest" => req'[w].pc = "answered"
      <3>0. w \in Handlers
        BY DEF Handlers
      <3>p. /\ req[w].key = NoKey /\ req[w].via = "run"
            /\ req[w].pc \notin {"collided", "poll", "marking"}
            /\ req[w].pc = "enqueue" => rows[req[w].row].cause = req[w].cause
            /\ watch[w].pc = "dest" => req[w].pc = "answered"
        BY DEF LocalInv, WatchersPost
      <3>1. CASE w # h
        BY <1>k, <2>0, <2>1, <3>0, <3>p, <3>1, IdleWatchersPost DEF OnlyRequest
      <3>2. CASE w = h /\ Inserted(h)
        BY <2>0, <2>1, <3>p, <3>2 DEF OnlyRequest, Inserted, OneMore
      <3>3. CASE w = h /\ Replayed(h)
        BY <3>p, <3>3 DEF Replayed
      <3>4. CASE w = h /\ Enqueued(h)
        <4>1. req[w].row \in DOMAIN rows /\ rows[req[w].row].cause = req[w].cause
          BY <3>0, <3>p, <3>4 DEF Known, RequestsKnowTheirRow, Enqueued
        <4>2. PICK c : c = req[w].cause
          OBVIOUS
        <4>3. Queued(c)'
          BY <3>4, <4>1, <4>2 DEF Enqueued, SameRows, Queued
        <4>4. req'[w].pc = "answered"
          BY <3>4, <3>p DEF Enqueued, AfterReplay
        <4> QED
          BY <2>0, <2>1, <3>p, <3>4, <4>2, <4>3, <4>4 DEF OnlyRequest
      <3>5. CASE w = h /\ GoesOn(h)
        <4>1. req'[w].pc \in {"error", "insert"}
          BY <3>p, <3>5 DEF GoesOn
        <4>2. watch[w].pc # "dest"
          <5>1. req[w].pc # "answered"
            BY <1>3, <3>5, <3>p
               DEF HandlerMoves, HandlerStep, Refuse, Lookup, Insert, LookupAgain, Enqueue,
                   MarkEnqueueFailed, PollSeesEnd, PollTimesOut, EnqueueRaises, HandlerDies
          <5> QED
            BY <5>1, <3>p
        <4> QED
          BY <2>0, <2>1, <3>p, <3>5, <4>1, <4>2 DEF OnlyRequest
      <3> QED
        BY <2>0, <3>1, <3>2, <3>3, <3>4, <3>5
    <2>4. WatchersPost'
      BY <2>3 DEF WatchersPost
    <2> QED
      BY <2>1, <2>2, <2>4, <1>m DEF LocalInv
  <1>4. ASSUME NEW p \in Pollers, PollMoves(p) PROVE UNCHANGED <<req, watchVars>>
    BY <1>4, PollEffect DEF DriveOthers
  <1>5. ASSUME NEW w \in Watchers, WatchMoves(w) PROVE LocalInv'
    <2>0. /\ UNCHANGED <<rows, overtaken>> /\ OnlyWatch(w)
          /\ \/ Snaps(w) \/ Rests(w) \/ Learns(w) \/ PutsAway(w) \/ GivesUp(w)
             \/ \E f \in LocalFiles : Reads(w, f) \/ CannotRead(w, f)
      BY <1>5, WatchEffect
    <2>k. watch[w].pc \in {"wait", "dest", "error"} => watch[w].file \in LocalFiles
      BY DEF Known, WatchersKnowTheirFile
    <2>v. \A v \in Watchers : watch[v].pc \in {"wait", "dest", "error"} => watch[v].file \in LocalFiles
      BY DEF Known, WatchersKnowTheirFile
    <2>d. disk \in [LocalFiles -> 0..MaxVersions]
      BY DEF Known, TypeOK
    <2>1. ASSUME NEW v \in Watchers
          PROVE  /\ req'[v].key = NoKey /\ req'[v].via = "run"
                 /\ req'[v].pc \notin {"collided", "poll", "marking"}
                 /\ req'[v].pc = "enqueue" => rows'[req'[v].row].cause = req'[v].cause
                 /\ req'[v].pc = "answered" => Queued(req[v].cause)' /\ req'[v].cause = req[v].cause
                 /\ watch'[v].pc = "dest" => req'[v].pc = "answered"
      <3>0. v \in Handlers
        BY DEF Handlers
      <3>p. watch[v].pc = "dest" => req[v].pc = "answered"
        BY DEF LocalInv, WatchersPost
      <3>1. CASE req'[v] = req[v]
        <4>1. watch'[v].pc = "dest" => req'[v].pc = "answered"
          <5>1. CASE v # w
            BY <2>0, <3>1, <3>p, <5>1 DEF OnlyWatch
          <5>2. CASE v = w
            BY <2>0, <3>1, <3>p, <5>2 DEF Snaps, Rests, Learns, PutsAway, GivesUp, Reads, CannotRead
          <5> QED
            BY <5>1, <5>2
        <4> QED
          BY <1>k, <3>1, <4>1, IdleWatchersPost
      <3>2. ASSUME NEW f \in LocalFiles, Reads(w, f), v = w
            PROVE  /\ req'[v].key = NoKey /\ req'[v].via = "run" /\ req'[v].pc = "lookup"
                   /\ watch'[v].pc = "wait"
        BY <3>2 DEF Reads
      <3>3. req'[v] = req[v] \/ \E f \in LocalFiles : Reads(w, f) /\ v = w
        BY <2>0, <3>0 DEF Snaps, Rests, Learns, PutsAway, GivesUp, Reads, CannotRead
      <3> QED
        BY <3>1, <3>2, <3>3
    <2>2. WatchersPost'
      BY <2>1 DEF WatchersPost
    <2>3. ASSUME ~overtaken', NEW v \in Watchers PROVE PostIsOfTheFile(v)'
      <3>0. PostIsOfTheFile(v) /\ v \in Handlers
        BY <2>0, <2>3 DEF LocalInv, Handlers
      <3>1. CASE PutsAway(w)
        <4>1. UNCHANGED req
          BY <3>1 DEF PutsAway
        <4>2. PICK f \in LocalFiles : f = watch[w].file /\ disk' = [disk EXCEPT ![f] = 0]
          BY <2>k, <3>1 DEF PutsAway
        <4>3. v = w => watch'[v].pc = "next"
          BY <3>1 DEF PutsAway
        <4>4. CASE v # w /\ watch[v].pc \in {"wait", "dest"}
          <5>1. watch'[v] = watch[v] /\ watch[v].file \in LocalFiles
            BY <2>0, <2>v, <4>4 DEF OnlyWatch
          <5>2. disk'[watch[v].file] \in {0, disk[watch[v].file]}
            BY <2>d, <4>2, <5>1
          <5> QED
            BY <3>0, <4>1, <4>4, <5>1, <5>2 DEF PostIsOfTheFile
        <4>5. CASE v # w /\ watch[v].pc \notin {"wait", "dest"}
          <5>1. watch'[v] = watch[v]
            BY <2>0, <4>5 DEF OnlyWatch
          <5> QED
            BY <4>5, <5>1 DEF PostIsOfTheFile
        <4> QED
          BY <4>3, <4>4, <4>5 DEF PostIsOfTheFile
      <3>2. CASE Snaps(w) \/ Rests(w) \/ Learns(w) \/ GivesUp(w)
        <4>1. UNCHANGED <<req, disk>>
          BY <3>2 DEF Snaps, Rests, Learns, GivesUp
        <4>2. CASE v # w
          <5>1. watch'[v] = watch[v]
            BY <2>0, <4>2 DEF OnlyWatch
          <5> QED
            BY <3>0, <4>1, <5>1 DEF PostIsOfTheFile
        <4>3. CASE v = w
          <5>1. watch'[w].pc \in {"wait", "dest"} =>
                  watch[w].pc = "wait" /\ watch'[w].file = watch[w].file
            BY <3>2 DEF Snaps, Rests, Learns, GivesUp
          <5> QED
            BY <3>0, <4>1, <4>3, <5>1 DEF PostIsOfTheFile
        <4> QED
          BY <4>2, <4>3
      <3>3. ASSUME NEW f \in LocalFiles, Reads(w, f) \/ CannotRead(w, f)
            PROVE  PostIsOfTheFile(v)'
        <4>1. UNCHANGED disk
          BY <3>3 DEF Reads, CannotRead
        <4>2. CASE v # w
          <5>1. watch'[v] = watch[v] /\ req'[v] = req[v]
            BY <2>0, <3>0, <3>3, <4>2 DEF OnlyWatch, Reads, CannotRead
          <5> QED
            BY <3>0, <4>1, <5>1 DEF PostIsOfTheFile
        <4>3. CASE v = w
          BY <3>3, <4>1, <4>3 DEF PostIsOfTheFile, Reads, CannotRead
        <4> QED
          BY <4>2, <4>3
      <3> QED
        BY <2>0, <3>1, <3>2, <3>3
    <2>4. ASSUME ~overtaken', NEW m \in moved' PROVE Queued(m)'
      <3>1. CASE m \in moved
        <4>1. Queued(m)
          BY <2>0, <2>4, <3>1 DEF LocalInv
        <4> QED
          BY <1>k, <4>1, QueuedStays
      <3>2. CASE m \notin moved
        <4>1. PutsAway(w)
          BY <2>0, <2>4, <3>2 DEF Snaps, Rests, Learns, GivesUp, Reads, CannotRead
        <4>2. /\ watch[w].pc = "dest" /\ disk[watch[w].file] # 0
              /\ m = <<watch[w].file, disk[watch[w].file]>>
          BY <2>4, <3>2, <4>1 DEF PutsAway
        <4>3. req[w].cause = m /\ req[w].pc = "answered"
          BY <2>0, <2>4, <4>2 DEF LocalInv, WatchersPost, PostIsOfTheFile
        <4>4. Queued(m)
          BY <4>3 DEF LocalInv, WatchersPost
        <4> QED
          BY <1>k, <4>4, QueuedStays
      <3> QED
        BY <3>1, <3>2
    <2> QED
      BY <2>2, <2>3, <2>4 DEF LocalInv
  <1>6. ASSUME NEW f \in LocalFiles, Writes(f) PROVE LocalInv'
    <2>0. UNCHANGED <<rows, req, moved, watch>> /\ (overtaken => overtaken')
      BY <1>6 DEF Writes
    <2>1. WatchersPost'
      BY <2>0 DEF LocalInv, WatchersPost, Queued
    <2>2. ASSUME ~overtaken', NEW v \in Watchers PROVE PostIsOfTheFile(v)'
      <3>1. PostIsOfTheFile(v)
        BY <2>0, <2>2 DEF LocalInv
      <3>2. CASE watch[v].pc \in {"wait", "dest"}
        <4>1. watch[v].file # f /\ watch[v].file \in LocalFiles
          BY <1>6, <2>2, <3>2 DEF Writes, InHand, Known, WatchersKnowTheirFile
        <4>2. disk'[watch[v].file] = disk[watch[v].file]
          BY <1>6, <4>1 DEF Writes, Known, TypeOK
        <4> QED
          BY <2>0, <3>1, <4>2 DEF PostIsOfTheFile
      <3>3. CASE watch[v].pc \notin {"wait", "dest"}
        BY <2>0, <3>3 DEF PostIsOfTheFile
      <3> QED
        BY <3>2, <3>3
    <2> QED
      BY <2>0, <2>1, <2>2, <1>m DEF LocalInv
  <1>7. ASSUME UNCHANGED <<rowVars, watchVars>> PROVE UNCHANGED <<req, watchVars>>
    BY <1>7 DEF rowVars
  <1> QED
    BY <1>1, <1>2, <1>3, <1>4, <1>5, <1>6, <1>7 DEF Steps

\* For every number of polls, watchers, files and faults: a Drive file marked as
\* processed and a local file in the dest folder have an execution that was
\* handed to the queue, and no file leaves the Drive folder unmarked.
THEOREM FoldersAreTruthful == Spec => []FoldersTellTheTruth
  <1>1. Init => DriveInv
    BY DEF Init, DriveInv, PollsKnowTheirFile, MarksAreTrue
  <1>2. Known /\ DriveInv /\ LocalInv /\ [Next]_vars => DriveInv' /\ LocalInv'
    BY EveryStep, DriveStep, LocalStep
  <1>3. DriveInv /\ LocalInv => FoldersTellTheTruth
    BY DEF DriveInv, MarksAreTrue, LocalInv, FoldersTellTheTruth, Queued
  <1> QED
    BY KnownAlways, LocalInit, <1>1, <1>2, <1>3, PTL DEF Spec

-----------------------------------------------------------------------------
(* Counting.                                                               *)

LEMMA OneJoins ==
    ASSUME NEW S, IsFiniteSet(S), NEW a, a \notin S, NEW T, T = S \cup {a}
    PROVE  Cardinality(S) \in Nat /\ Cardinality(T) = Cardinality(S) + 1 /\ IsFiniteSet(T)
  BY FS_AddElement, FS_CardinalityType

LEMMA OneLeaves ==
    ASSUME NEW S, IsFiniteSet(S), NEW a \in S, NEW T, T = S \ {a}
    PROVE  /\ Cardinality(S) \in Nat /\ Cardinality(T) \in Nat
           /\ Cardinality(S) = Cardinality(T) + 1
  <1>1. IsFiniteSet(T) /\ Cardinality(T) = Cardinality(S) - 1
    BY FS_RemoveElement
  <1>2. Cardinality(T) \in Nat /\ Cardinality(S) \in Nat
    BY <1>1, FS_CardinalityType
  <1> QED
    BY <1>1, <1>2

LEMMA SomeLeave ==
    ASSUME NEW S, IsFiniteSet(S), NEW T, T \subseteq S
    PROVE  /\ Cardinality(S) \in Nat /\ Cardinality(T) \in Nat
           /\ Cardinality(T) <= Cardinality(S)
  BY FS_Subset, FS_CardinalityType

\* Two sets of actors that agree on all but one.
LEMMA OneChanges ==
    ASSUME NEW A, IsFiniteSet(A), NEW S, NEW T, S \subseteq A, T \subseteq A, NEW a,
           \A x \in A \ {a} : (x \in T) <=> (x \in S)
    PROVE  /\ Cardinality(S) \in Nat /\ Cardinality(T) \in Nat
           /\ a \notin S /\ a \in T => Cardinality(T) = Cardinality(S) + 1
           /\ a \in S /\ a \notin T => Cardinality(S) = Cardinality(T) + 1
           /\ ((a \in S) <=> (a \in T)) => T = S /\ Cardinality(T) = Cardinality(S)
  <1>0. IsFiniteSet(S) /\ IsFiniteSet(T)
    BY FS_Subset
  <1>1. Cardinality(S) \in Nat /\ Cardinality(T) \in Nat
    BY <1>0, FS_CardinalityType
  <1>2. ASSUME a \notin S, a \in T PROVE Cardinality(T) = Cardinality(S) + 1
    <2>1. T = S \cup {a}
      BY <1>2
    <2> QED
      BY <1>0, <1>2, <2>1, OneJoins
  <1>3. ASSUME a \in S, a \notin T PROVE Cardinality(S) = Cardinality(T) + 1
    <2>1. T = S \ {a}
      BY <1>3
    <2> QED
      BY <1>0, <1>3, <2>1, OneLeaves
  <1>4. ASSUME (a \in S) <=> (a \in T) PROVE T = S
    BY <1>4
  <1> QED
    BY <1>1, <1>2, <1>3, <1>4

LEMMA Actors == IsFiniteSet(Pollers) /\ IsFiniteSet(Watchers)
  BY IntakeAssumption, FS_Subset

\* The rows that were started for a cause.
RowsFor(cause) == {i \in DOMAIN rows : rows[i].cause = cause}

LEMMA RowsForIsFinite ==
    ASSUME TypeOK, NEW cause
    PROVE  /\ IsFiniteSet(RowsFor(cause)) /\ Starts(cause) = Cardinality(RowsFor(cause))
           /\ Starts(cause) \in Nat
  <1>1. DOMAIN rows = 1..Len(rows) /\ Len(rows) \in Nat
    BY DEF TypeOK
  <1>2. IsFiniteSet(1..Len(rows))
    BY <1>1, FS_Interval
  <1>3. IsFiniteSet(RowsFor(cause))
    BY <1>1, <1>2, FS_Subset DEF RowsFor
  <1>4. Starts(cause) = Cardinality(RowsFor(cause))
    BY DEF Starts, RowsFor
  <1> QED
    BY <1>3, <1>4, FS_CardinalityType

LEMMA StartsStay ==
    ASSUME SameRows, NEW cause
    PROVE  RowsFor(cause)' = RowsFor(cause) /\ Starts(cause)' = Starts(cause)
  <1>1. RowsFor(cause)' = RowsFor(cause)
    BY DEF SameRows, RowsFor
  <1> QED
    BY <1>1 DEF Starts, RowsFor

LEMMA StartsGrow ==
    ASSUME TypeOK, NEW key, NEW cause, OneMore(key, cause)
    PROVE  /\ Starts(cause)' = Starts(cause) + 1
           /\ \A c : c # cause => RowsFor(c)' = RowsFor(c) /\ Starts(c)' = Starts(c)
  <1>1. RowsFor(cause)' = RowsFor(cause) \cup {Len(rows) + 1} /\ Len(rows) + 1 \notin RowsFor(cause)
    BY DEF OneMore, RowsFor
  <1>2. Cardinality(RowsFor(cause)') = Cardinality(RowsFor(cause)) + 1
    BY <1>1, RowsForIsFinite, OneJoins
  <1>3. ASSUME NEW c, c # cause PROVE RowsFor(c)' = RowsFor(c)
    BY <1>3 DEF OneMore, RowsFor
  <1>4. ASSUME NEW c PROVE Starts(c) = Cardinality(RowsFor(c)) /\ Starts(c)' = Cardinality(RowsFor(c)')
    BY DEF Starts, RowsFor
  <1> QED
    BY <1>2, <1>3, <1>4

-----------------------------------------------------------------------------
(* The starts of a Drive file.                                             *)

\* The polls that have f before them and have not yet started it.
Waiting(f) ==
    {p \in Pollers : f \in poll[p].refs /\ (f = Current(p) => poll[p].pc = "next")}

\* f can be listed and nobody has.
Unclaimed(f) ==
    /\ drive[f].mark = "none" /\ drive[f].folder = "source"
    /\ \A p \in Pollers : f \notin poll[p].refs

\* Executions that were started for f, and those that still may be without a
\* further slip.
DriveAccount ==
    \A f \in DriveFiles :
        Starts(DriveCause(f)) + Cardinality(Waiting(f)) + (IF Unclaimed(f) THEN 1 ELSE 0)
            <= 1 + slips[f]

\* No request is for a Drive file, and a client's is for no file.
PostsAreLocal ==
    /\ \A h \in Handlers : \A f \in DriveFiles : req[h].cause # DriveCause(f)
    /\ \A h \in Clients : req[h].cause = NoCause

LEMMA PostsInit == Init => PostsAreLocal
  BY IntakeAssumption DEF Init, PostsAreLocal, Idle, NoCause, NoFile, DriveCause, Handlers

LEMMA PostsStep == Known /\ PostsAreLocal /\ Steps => PostsAreLocal'
  <1> SUFFICES ASSUME Known, PostsAreLocal, Steps PROVE PostsAreLocal'
    OBVIOUS
  <1>1. ASSUME UNCHANGED req PROVE PostsAreLocal'
    BY <1>1 DEF PostsAreLocal
  <1>2. ASSUME NEW h \in Clients, Sends(h) PROVE PostsAreLocal'
    <2>1. \A f \in DriveFiles : NoCause # DriveCause(f)
      BY IntakeAssumption DEF NoCause, NoFile, DriveCause
    <2> QED
      BY <1>2, <2>1 DEF Sends, PostsAreLocal, Handlers
  <1>3. ASSUME NEW h \in Handlers, HandlerMoves(h) PROVE PostsAreLocal'
    <2>1. OnlyRequest(h)
      BY <1>3, HandlerEffect
    <2> QED
      BY <2>1 DEF OnlyRequest, PostsAreLocal, Handlers
  <1>4. ASSUME NEW p \in Pollers, PollMoves(p) PROVE UNCHANGED req
    BY <1>4, PollEffect DEF DriveOthers
  <1>5. ASSUME NEW w \in Watchers, WatchMoves(w) PROVE PostsAreLocal'
    <2>1. UNCHANGED req \/ \E f \in LocalFiles : Reads(w, f)
      BY <1>5, WatchEffect DEF Snaps, Rests, Learns, PutsAway, GivesUp, CannotRead
    <2>2. ASSUME NEW f \in LocalFiles, Reads(w, f) PROVE PostsAreLocal'
      <3>1. \A g \in DriveFiles : <<f, disk[f]>> # DriveCause(g)
        BY IntakeAssumption DEF DriveCause
      <3>2. w \notin Clients
        BY IntakeAssumption
      <3> QED
        BY <2>2, <3>1, <3>2 DEF Reads, PostsAreLocal, Handlers
    <2> QED
      BY <1>1, <2>1, <2>2
  <1>6. ASSUME NEW f \in LocalFiles, Writes(f) PROVE UNCHANGED req
    BY <1>6 DEF Writes
  <1>7. ASSUME UNCHANGED rowVars PROVE UNCHANGED req
    BY <1>7 DEF rowVars
  <1> QED
    BY <1>1, <1>2, <1>3, <1>4, <1>5, <1>6, <1>7 DEF Steps

LEMMA WaitingIsFinite ==
    ASSUME NEW f
    PROVE  IsFiniteSet(Waiting(f)) /\ Cardinality(Waiting(f)) \in Nat
  <1>1. Waiting(f) \in SUBSET Pollers
    BY DEF Waiting
  <1>2. IsFiniteSet(Waiting(f))
    BY <1>1, Actors, FS_Subset
  <1> QED
    BY <1>2, FS_CardinalityType

\* The other polls wait for what they waited for.
LEMMA OthersWait ==
    ASSUME NEW p \in Pollers, OnlyPoll(p), NEW f, NEW q \in Pollers, q # p
    PROVE  (q \in Waiting(f)') <=> (q \in Waiting(f))
  <1>1. poll'[q] = poll[q]
    BY DEF OnlyPoll
  <1>2. Current(q)' = Current(q)
    BY <1>1, CurrentStays
  <1> QED
    BY <1>1, <1>2 DEF Waiting

\* How a step of poll p changes the number of those that wait for f.
LEMMA WaitingChanges ==
    ASSUME NEW p \in Pollers, OnlyPoll(p), NEW f
    PROVE  /\ Cardinality(Waiting(f)) \in Nat /\ Cardinality(Waiting(f)') \in Nat
           /\ p \notin Waiting(f) /\ p \in Waiting(f)' =>
                Cardinality(Waiting(f)') = Cardinality(Waiting(f)) + 1
           /\ p \in Waiting(f) /\ p \notin Waiting(f)' =>
                Cardinality(Waiting(f)) = Cardinality(Waiting(f)') + 1
           /\ (p \in Waiting(f) /\ p \in Waiting(f)') \/ (p \notin Waiting(f) /\ p \notin Waiting(f)') =>
                Cardinality(Waiting(f)') = Cardinality(Waiting(f))
  <1>1. Waiting(f) \subseteq Pollers /\ Waiting(f)' \subseteq Pollers
    BY DEF Waiting
  <1>2. \A q \in Pollers \ {p} : (q \in Waiting(f)') <=> (q \in Waiting(f))
    BY OthersWait
  <1> QED
    BY <1>1, <1>2, Actors, OneChanges

LEMMA DriveAccountStep ==
    Known /\ DriveInv /\ PostsAreLocal /\ DriveAccount /\ Steps => DriveAccount'
  <1> SUFFICES ASSUME Known, DriveInv, PostsAreLocal, DriveAccount, Steps,
                      NEW f \in DriveFiles
               PROVE  (Starts(DriveCause(f)) + Cardinality(Waiting(f))
                        + (IF Unclaimed(f) THEN 1 ELSE 0) <= 1 + slips[f])'
    BY DEF DriveAccount
  <1>a. /\ Starts(DriveCause(f)) + Cardinality(Waiting(f)) + (IF Unclaimed(f) THEN 1 ELSE 0)
              <= 1 + slips[f]
        /\ slips \in [Files -> Nat] /\ slips[f] \in Nat /\ f \in Files
    BY DEF DriveAccount, Known, TypeOK, Files
  <1>n. /\ Starts(DriveCause(f)) \in Nat /\ Cardinality(Waiting(f)) \in Nat
        /\ TypeOK
    BY RowsForIsFinite, WaitingIsFinite DEF Known
  <1>c. PICK c : c = DriveCause(f)
    OBVIOUS
  <1>1. ASSUME UNCHANGED <<drive, poll>>, Starts(c)' = Starts(c), slips'[f] = slips[f]
        PROVE  (Starts(DriveCause(f)) + Cardinality(Waiting(f))
                  + (IF Unclaimed(f) THEN 1 ELSE 0) <= 1 + slips[f])'
    <2>1. Waiting(f)' = Waiting(f) /\ (Unclaimed(f)' <=> Unclaimed(f))
      BY <1>1 DEF Waiting, Current, Unclaimed
    <2> QED
      BY <1>1, <1>a, <1>c, <2>1
  <1>2. ASSUME NEW p \in Pollers, PollMoves(p)
        PROVE  (Starts(DriveCause(f)) + Cardinality(Waiting(f))
                  + (IF Unclaimed(f) THEN 1 ELSE 0) <= 1 + slips[f])'
    <2>0. /\ OnlyPoll(p)
          /\ \/ Lists(p) \/ Begins(p) \/ Errs(p) \/ HandsOver(p) \/ Marks(p)
             \/ LeavesUnmarked(p) \/ Moves(p) \/ Dies(p)
      BY <1>2, PollEffect
    <2>k. /\ poll[p].pc = "idle" => poll[p].refs = {}
          /\ poll[p].pc # "idle" => Current(p) \in poll[p].refs /\ Current(p) \in DriveFiles
      BY CurrentIsListed DEF Known, PollsKnowTheirRow
    <2>p. /\ (p \in Waiting(f)) <=> f \in poll[p].refs /\ (f = Current(p) => poll[p].pc = "next")
          /\ (p \in Waiting(f)') <=> f \in poll'[p].refs /\ (f = Current(p)' => poll'[p].pc = "next")
      BY DEF Waiting
    <2>s. SameRows => Starts(c)' = Starts(c)
      BY StartsStay
    <2>w. /\ Cardinality(Waiting(f)') \in Nat
          /\ p \notin Waiting(f) /\ p \in Waiting(f)' =>
               Cardinality(Waiting(f)') = Cardinality(Waiting(f)) + 1
          /\ p \in Waiting(f) /\ p \notin Waiting(f)' =>
               Cardinality(Waiting(f)) = Cardinality(Waiting(f)') + 1
          /\ (p \in Waiting(f) /\ p \in Waiting(f)') \/ (p \notin Waiting(f) /\ p \notin Waiting(f)') =>
               Cardinality(Waiting(f)') = Cardinality(Waiting(f))
      BY <2>0, WaitingChanges
    \* f is left as it was in the folder, and p has it or not as before.
    <2>u. ASSUME drive'[f] = drive[f], (f \in poll'[p].refs) <=> (f \in poll[p].refs)
          PROVE  Unclaimed(f)' <=> Unclaimed(f)
      BY <2>0, <2>u DEF Unclaimed, OnlyPoll
    <2>1. CASE Lists(p)
      <3>1. /\ poll[p].refs = {} /\ poll'[p].refs = ListNewFiles /\ poll'[p].pc = "next"
            /\ UNCHANGED drive /\ Starts(c)' = Starts(c)
            /\ slips'[f] = IF f \in ListNewFiles /\ \E q \in Pollers : f \in poll[q].refs
                           THEN slips[f] + 1 ELSE slips[f]
        BY <2>1, <2>k, <2>s, <1>a DEF Lists
      <3>2. f \in ListNewFiles => drive[f].mark = "none" /\ drive[f].folder = "source"
        BY DEF ListNewFiles
      <3>3. CASE f \notin ListNewFiles
        <4>1. p \notin Waiting(f) /\ p \notin Waiting(f)'
          BY <2>p, <3>1, <3>3
        <4>2. Unclaimed(f)' <=> Unclaimed(f)
          BY <2>u, <3>1, <3>3
        <4> QED
          BY <1>a, <1>c, <1>n, <2>w, <3>1, <3>3, <4>1, <4>2
      <3>4. CASE f \in ListNewFiles
        <4>1. p \notin Waiting(f) /\ p \in Waiting(f)'
          BY <2>p, <3>1, <3>4
        <4>2. ~Unclaimed(f)'
          BY <3>1, <3>4 DEF Unclaimed
        <4>3. CASE \E q \in Pollers : f \in poll[q].refs
          <5>1. ~Unclaimed(f) /\ slips'[f] = slips[f] + 1
            BY <3>1, <3>4, <4>3 DEF Unclaimed
          <5> QED
            BY <1>a, <1>c, <1>n, <2>w, <3>1, <4>1, <4>2, <5>1
        <4>4. CASE ~ \E q \in Pollers : f \in poll[q].refs
          <5>1. Unclaimed(f) /\ slips'[f] = slips[f]
            BY <3>1, <3>2, <3>4, <4>4 DEF Unclaimed
          <5> QED
            BY <1>a, <1>c, <1>n, <2>w, <3>1, <4>1, <4>2, <5>1
        <4> QED
          BY <4>3, <4>4
      <3> QED
        BY <3>3, <3>4
    <2>2. CASE Begins(p)
      <3>0. /\ poll[p].pc = "next" /\ poll'[p].pc = "enqueue" /\ poll'[p].refs = poll[p].refs
            /\ UNCHANGED <<drive, slips>> /\ OneMore(NoKey, DriveCause(Current(p)))
        BY <2>2 DEF Begins
      <3>1. Current(p)' = Current(p)
        BY <3>0, CurrentStays
      <3>2. Unclaimed(f)' <=> Unclaimed(f)
        BY <2>u, <3>0
      <3>3. CASE f = Current(p)
        <4>1. p \in Waiting(f) /\ p \notin Waiting(f)'
          BY <2>k, <2>p, <3>0, <3>1, <3>3
        <4>2. Starts(c)' = Starts(c) + 1
          BY <1>c, <1>n, <3>0, <3>3, StartsGrow
        <4> QED
          BY <1>a, <1>c, <1>n, <2>w, <3>0, <3>2, <4>1, <4>2
      <3>4. CASE f # Current(p)
        <4>1. c # DriveCause(Current(p))
          BY <1>c, <3>4 DEF DriveCause
        <4>2. Starts(c)' = Starts(c)
          BY <1>n, <3>0, <4>1, StartsGrow
        <4>3. p \in Waiting(f)' <=> p \in Waiting(f)
          BY <2>p, <3>0, <3>1, <3>4
        <4> QED
          BY <1>a, <1>c, <1>n, <2>w, <3>0, <3>2, <4>2, <4>3
      <3> QED
        BY <3>3, <3>4
    <2>3. CASE Errs(p) \/ HandsOver(p) \/ Marks(p)
      <3>0. /\ poll'[p].pc \in {"error", "mark", "move"} /\ poll'[p].refs = poll[p].refs
            /\ UNCHANGED slips /\ Starts(c)' = Starts(c) /\ poll[p].pc # "idle"
        BY <2>3, <2>s DEF Errs, HandsOver, Marks
      <3>1. Current(p)' = Current(p)
        BY <3>0, CurrentStays
      <3>2. p \in Waiting(f)' => p \in Waiting(f)
        BY <2>p, <3>0, <3>1
      <3>3. Unclaimed(f)' <=> Unclaimed(f)
        <4>1. CASE f = Current(p)
          BY <2>k, <3>0, <4>1 DEF Unclaimed
        <4>2. CASE f # Current(p)
          <5>1. drive'[f] = drive[f]
            BY <2>3, <4>2 DEF Errs, HandsOver, Marks, OnlyFile
          <5> QED
            BY <2>u, <3>0, <5>1
        <4> QED
          BY <4>1, <4>2
      <3> QED
        BY <1>a, <1>c, <1>n, <2>w, <3>0, <3>2, <3>3
    <2>4. CASE LeavesUnmarked(p) \/ Moves(p)
      <3>0. /\ poll[p].pc \in {"mark", "error", "move"} /\ poll'[p].pc \in {"idle", "next"}
            /\ poll'[p].pc = "idle" => poll'[p].refs = {}
            /\ poll'[p].refs = poll[p].refs \ {Current(p)}
            /\ Starts(c)' = Starts(c)
        BY <2>4, <2>s DEF LeavesUnmarked, Moves
      <3>1. p \in Waiting(f)' <=> p \in Waiting(f)
        BY <2>p, <3>0
      <3>2. CASE f # Current(p)
        <4>1. drive'[f] = drive[f]
          BY <2>4, <3>2 DEF LeavesUnmarked, Moves, OnlyFile
        <4>2. Unclaimed(f)' <=> Unclaimed(f)
          BY <2>u, <3>0, <3>2, <4>1
        <4>3. slips'[f] = slips[f]
          <5>1. Current(p) \in Files
            BY <2>k, <3>0 DEF Files
          <5> QED
            BY <2>4, <3>2, <5>1, <1>a, <1>n, SlipCounts DEF LeavesUnmarked, Moves
        <4> QED
          BY <1>a, <1>c, <1>n, <2>w, <3>0, <3>1, <4>2, <4>3
      <3>3. CASE f = Current(p) /\ Moves(p)
        <4>1. drive[f].mark # "none" /\ drive'[f].mark = drive[f].mark /\ UNCHANGED slips
          BY <3>3 DEF Moves, DriveInv, PollsKnowTheirFile
        <4>2. ~Unclaimed(f)'
          BY <4>1 DEF Unclaimed
        <4> QED
          BY <1>a, <1>c, <1>n, <2>w, <3>0, <3>1, <4>1, <4>2
      <3>4. CASE f = Current(p) /\ LeavesUnmarked(p)
        <4>1. slips'[f] = slips[f] + 1
          BY <3>4, <1>a, <1>n, SlipCounts DEF LeavesUnmarked
        <4>2. ~Unclaimed(f)
          BY <2>k, <3>0, <3>4 DEF Unclaimed
        <4> QED
          BY <1>a, <1>c, <1>n, <2>w, <3>0, <3>1, <4>1, <4>2
      <3> QED
        BY <2>4, <3>2, <3>3, <3>4
    <2>5. CASE Dies(p)
      <3>0. /\ poll[p].pc # "idle" /\ poll'[p].refs = {} /\ UNCHANGED drive
            /\ Starts(c)' = Starts(c) /\ Slip(Current(p)) /\ Current(p) \in Files
        BY <2>5, <2>s, <2>k DEF Dies, Files
      <3>1. p \notin Waiting(f)'
        BY <2>p, <3>0
      <3>2. CASE f = Current(p)
        <4>1. slips'[f] = slips[f] + 1
          BY <3>0, <3>2, <1>n, SlipCounts
        <4>2. ~Unclaimed(f)
          BY <2>k, <3>0, <3>2 DEF Unclaimed
        <4> QED
          BY <1>a, <1>c, <1>n, <2>w, <3>0, <3>1, <4>1, <4>2
      <3>3. CASE f # Current(p) /\ f \in poll[p].refs
        <4>1. slips'[f] = slips[f]
          BY <3>0, <3>3, <1>a, <1>n, SlipCounts
        <4>2. ~Unclaimed(f) /\ p \in Waiting(f)
          BY <2>p, <3>3 DEF Unclaimed
        <4> QED
          BY <1>a, <1>c, <1>n, <2>w, <3>0, <3>1, <4>1, <4>2
      <3>4. CASE f # Current(p) /\ f \notin poll[p].refs
        <4>1. slips'[f] = slips[f]
          BY <3>0, <3>4, <1>a, <1>n, SlipCounts
        <4>2. p \notin Waiting(f)
          BY <2>p, <3>4
        <4>3. Unclaimed(f)' <=> Unclaimed(f)
          BY <2>u, <3>0, <3>4
        <4> QED
          BY <1>a, <1>c, <1>n, <2>w, <3>0, <3>1, <4>1, <4>2, <4>3
      <3> QED
        BY <3>2, <3>3, <3>4
    <2> QED
      BY <2>0, <2>1, <2>2, <2>3, <2>4, <2>5
  <1>3. ASSUME NEW h \in Handlers, HandlerMoves(h)
        PROVE  UNCHANGED <<drive, poll>> /\ Starts(c)' = Starts(c) /\ slips'[f] = slips[f]
    <2>0. UNCHANGED Others /\ (Inserted(h) \/ Replayed(h) \/ Enqueued(h) \/ GoesOn(h))
      BY <1>3, HandlerEffect
    <2>1. UNCHANGED <<drive, poll, slips>>
      BY <2>0 DEF Others, driveVars
    <2>2. CASE Inserted(h)
      <3>1. c # req[h].cause
        BY <1>c DEF PostsAreLocal
      <3> QED
        BY <1>n, <2>1, <2>2, <3>1, StartsGrow DEF Inserted
    <2>3. CASE SameRows
      BY <2>1, <2>3, StartsStay
    <2> QED
      BY <2>0, <2>2, <2>3 DEF Replayed, Enqueued, GoesOn
  <1>4. ASSUME NEW w \in Watchers, WatchMoves(w)
        PROVE  UNCHANGED <<drive, poll>> /\ Starts(c)' = Starts(c) /\ slips'[f] = slips[f]
    <2>0. /\ UNCHANGED <<rows, driveVars>>
          /\ \/ Snaps(w) \/ Rests(w) \/ Learns(w) \/ PutsAway(w) \/ GivesUp(w)
             \/ \E g \in LocalFiles : Reads(w, g) \/ CannotRead(w, g)
      BY <1>4, WatchEffect
    <2>1. UNCHANGED <<drive, poll>> /\ Starts(c)' = Starts(c)
      BY <2>0, <1>n, RowsUntouched, StartsStay DEF driveVars
    <2>2. f \notin LocalFiles
      BY IntakeAssumption
    <2>3. CASE Snaps(w)
      <3>1. f \notin Stable(w)
        BY <2>2 DEF Stable
      <3> QED
        BY <1>a, <2>1, <2>3, <3>1 DEF Snaps
    <2>4. CASE GivesUp(w)
      <3>1. watch[w].file \in Files /\ f # watch[w].file
        BY <2>2, <2>4 DEF GivesUp, Known, WatchersKnowTheirFile, Files
      <3> QED
        BY <1>a, <1>n, <2>1, <2>4, <3>1, SlipCounts DEF GivesUp
    <2>5. CASE UNCHANGED slips
      BY <2>1, <2>5
    <2> QED
      BY <2>0, <2>3, <2>4, <2>5 DEF Rests, Learns, PutsAway, Reads, CannotRead
  <1>5. ASSUME SameRows, UNCHANGED <<driveVars, slips>>
        PROVE  UNCHANGED <<drive, poll>> /\ Starts(c)' = Starts(c) /\ slips'[f] = slips[f]
    BY <1>5, StartsStay DEF driveVars
  <1>6. ASSUME NEW h \in Clients, Sends(h)
        PROVE  UNCHANGED <<drive, poll>> /\ Starts(c)' = Starts(c) /\ slips'[f] = slips[f]
    BY <1>5, <1>6, <1>n, RowsUntouched DEF Sends, Others
  <1>7. ASSUME NEW g \in LocalFiles, Writes(g)
        PROVE  UNCHANGED <<drive, poll>> /\ Starts(c)' = Starts(c) /\ slips'[f] = slips[f]
    BY <1>5, <1>7, <1>n, RowsUntouched DEF Writes
  <1>8. ASSUME UNCHANGED <<rowVars, drive, poll, slips>>
        PROVE  UNCHANGED <<drive, poll>> /\ Starts(c)' = Starts(c) /\ slips'[f] = slips[f]
    BY <1>8, <1>n, RowsUntouched, StartsStay DEF rowVars
  <1> QED
    BY <1>1, <1>2, <1>3, <1>4, <1>5, <1>6, <1>7, <1>8 DEF Steps

-----------------------------------------------------------------------------
(* The starts of a version of a local file.                                *)

\* The watchers whose request for this version has not inserted its row.
Posted(cause) ==
    {w \in Watchers : req[w].pc \in {"lookup", "insert", "collided"} /\ req[w].cause = cause}

\* The watchers that have listed f and not read it, and those that have not yet
\* moved it either.
Listed(f) == {w \in Watchers : f \in watch[w].refs}
Holding(f) == {w \in Watchers : InHand(w, f)}

\* What may still be started of the version that is in the folder.
Startable(f) == Cardinality(Listed(f)) + (IF Holding(f) = {} THEN 1 ELSE 0)

HoldersAccount == \A f \in LocalFiles : Cardinality(Holding(f)) <= 1 + slips[f]

LocalAccount ==
    \A f \in LocalFiles : \A v \in 1..MaxVersions :
        Starts(<<f, v>>) + Cardinality(Posted(<<f, v>>))
            + (IF disk[f] = v THEN Startable(f) ELSE 0) <= 1 + slips[f]

\* Nothing is started for a version that is not written yet.
NoFutureVersion ==
    \A f \in LocalFiles :
        /\ disk[f] <= writes[f]
        /\ \A v \in 1..MaxVersions : v > writes[f] =>
            /\ RowsFor(<<f, v>>) = {}
            /\ \A h \in Handlers : req[h].cause # <<f, v>>

LEMMA VersionsInit == Init => NoFutureVersion
  <1> SUFFICES ASSUME Init, NEW f \in LocalFiles
               PROVE  /\ disk[f] <= writes[f]
                      /\ \A v \in 1..MaxVersions : v > writes[f] =>
                          /\ RowsFor(<<f, v>>) = {}
                          /\ \A h \in Handlers : req[h].cause # <<f, v>>
    BY DEF NoFutureVersion
  <1>1. disk[f] <= writes[f]
    BY DEF Init, Unseen
  <1>2. \A v \in 1..MaxVersions : RowsFor(<<f, v>>) = {}
    BY DEF Init, RowsFor
  <1>3. \A v \in 1..MaxVersions : \A h \in Handlers : req[h].cause # <<f, v>>
    BY IntakeAssumption DEF Init, Idle, NoCause, NoFile
  <1> QED
    BY <1>1, <1>2, <1>3

LEMMA VersionsStep == Known /\ PostsAreLocal /\ NoFutureVersion /\ Steps => NoFutureVersion'
  <1> SUFFICES ASSUME Known, PostsAreLocal, NoFutureVersion, Steps, NEW f \in LocalFiles
               PROVE  /\ disk'[f] <= writes'[f]
                      /\ \A v \in 1..MaxVersions : v > writes'[f] =>
                          /\ RowsFor(<<f, v>>)' = {}
                          /\ \A h \in Handlers : req'[h].cause # <<f, v>>
    BY DEF NoFutureVersion
  <1>t. /\ TypeOK /\ writes \in [LocalFiles -> 0..MaxVersions] /\ disk \in [LocalFiles -> 0..MaxVersions]
        /\ writes[f] \in Nat /\ disk[f] \in Nat /\ MaxVersions \in Nat
    BY IntakeAssumption DEF Known, TypeOK
  <1>a. /\ disk[f] <= writes[f]
        /\ \A v \in 1..MaxVersions : v > writes[f] =>
            RowsFor(<<f, v>>) = {} /\ \A h \in Handlers : req[h].cause # <<f, v>>
    BY DEF NoFutureVersion
  <1>r. ASSUME NEW v \in 1..MaxVersions, v > writes[f]
        PROVE  RowsFor(<<f, v>>)' = {}
    <2>c. PICK c : c = <<f, v>>
      OBVIOUS
    <2>0. RowsFor(c) = {} /\ \A h \in Handlers : req[h].cause # c
      BY <1>a, <1>r, <2>c
    <2>1. ASSUME SameRows PROVE RowsFor(c)' = {}
      BY <2>0, <2>1, StartsStay
    <2>2. ASSUME NEW h \in Handlers, HandlerMoves(h) PROVE RowsFor(c)' = {}
      <3>1. Inserted(h) \/ Replayed(h) \/ Enqueued(h) \/ GoesOn(h)
        BY <2>2, HandlerEffect
      <3>2. CASE Inserted(h)
        BY <1>t, <2>0, <3>2, StartsGrow DEF Inserted
      <3> QED
        BY <2>1, <3>1, <3>2 DEF Replayed, Enqueued, GoesOn
    <2>3. ASSUME NEW p \in Pollers, PollMoves(p) PROVE RowsFor(c)' = {}
      <3>1. \/ Lists(p) \/ Begins(p) \/ Errs(p) \/ HandsOver(p) \/ Marks(p)
            \/ LeavesUnmarked(p) \/ Moves(p) \/ Dies(p)
        BY <2>3, PollEffect
      <3>2. CASE Begins(p)
        <4>1. DriveCause(Current(p)) # c
          BY <1>r, <1>t, <2>c DEF DriveCause
        <4> QED
          BY <1>t, <2>0, <3>2, <4>1, StartsGrow DEF Begins
      <3> QED
        BY <2>1, <3>1, <3>2 DEF Lists, Errs, HandsOver, Marks, LeavesUnmarked, Moves, Dies
    <2>4. ASSUME NEW w \in Watchers, WatchMoves(w) PROVE RowsFor(c)' = {}
      BY <1>t, <2>1, <2>4, WatchEffect, RowsUntouched
    <2>5. ASSUME UNCHANGED rows PROVE RowsFor(c)' = {}
      BY <1>t, <2>1, <2>5, RowsUntouched
    <2>6. RowsFor(c)' = {}
      BY <2>1, <2>2, <2>3, <2>4, <2>5 DEF Steps, Sends, Writes, rowVars
    <2> QED
      BY <2>c, <2>6
  <1>1. ASSUME UNCHANGED <<disk, writes>>, \A h \in Handlers : req'[h].cause = req[h].cause
        PROVE  /\ disk'[f] <= writes'[f]
               /\ \A v \in 1..MaxVersions : v > writes'[f] =>
                    RowsFor(<<f, v>>)' = {} /\ \A h \in Handlers : req'[h].cause # <<f, v>>
    BY <1>1, <1>a, <1>r
  <1>2. ASSUME NEW h \in Clients, Sends(h)
        PROVE  /\ disk'[f] <= writes'[f]
               /\ \A v \in 1..MaxVersions : v > writes'[f] =>
                    RowsFor(<<f, v>>)' = {} /\ \A g \in Handlers : req'[g].cause # <<f, v>>
    <2>1. UNCHANGED <<disk, writes>> /\ h \in Handlers
      BY <1>2 DEF Sends, Others, watchVars, Handlers
    <2>2. \A v \in 1..MaxVersions : NoCause # <<f, v>>
      BY IntakeAssumption DEF NoCause, NoFile
    <2>3. ASSUME NEW v \in 1..MaxVersions, v > writes[f], NEW g \in Handlers
          PROVE  req'[g].cause # <<f, v>>
      BY <1>2, <1>a, <2>2, <2>3 DEF Sends
    <2> QED
      BY <1>a, <1>r, <2>1, <2>3
  <1>3. ASSUME NEW h \in Handlers, HandlerMoves(h)
        PROVE  UNCHANGED <<disk, writes>> /\ \A g \in Handlers : req'[g].cause = req[g].cause
    BY <1>3, HandlerEffect DEF Others, watchVars, OnlyRequest
  <1>4. ASSUME NEW p \in Pollers, PollMoves(p)
        PROVE  UNCHANGED <<disk, writes, req>>
    BY <1>4, PollEffect DEF DriveOthers, watchVars
  <1>5. ASSUME NEW w \in Watchers, WatchMoves(w)
        PROVE  /\ disk'[f] <= writes'[f]
               /\ \A v \in 1..MaxVersions : v > writes'[f] =>
                    RowsFor(<<f, v>>)' = {} /\ \A g \in Handlers : req'[g].cause # <<f, v>>
    <2>0. /\ UNCHANGED writes
          /\ \/ Snaps(w) \/ Rests(w) \/ Learns(w) \/ PutsAway(w) \/ GivesUp(w)
             \/ \E g \in LocalFiles : Reads(w, g) \/ CannotRead(w, g)
      BY <1>5, WatchEffect
    <2>1. disk'[f] = disk[f] \/ disk'[f] = 0
      <3>1. CASE PutsAway(w)
        BY <1>t, <3>1 DEF PutsAway
      <3> QED
        BY <2>0, <3>1 DEF Snaps, Rests, Learns, GivesUp, Reads, CannotRead
    <2>2. ASSUME NEW v \in 1..MaxVersions, v > writes[f], NEW g \in Handlers
          PROVE  req'[g].cause # <<f, v>>
      <3>1. CASE req'[g] = req[g]
        BY <1>a, <2>2, <3>1
      <3>2. ASSUME NEW e \in LocalFiles, Reads(w, e), g = w
            PROVE  req'[g].cause # <<f, v>>
        <4>1. req'[g].cause = <<e, disk[e]>>
          BY <3>2 DEF Reads
        <4>2. e = f => disk[e] # v
          BY <1>a, <1>t, <2>2
        <4> QED
          BY <4>1, <4>2
      <3>3. req'[g] = req[g] \/ \E e \in LocalFiles : Reads(w, e) /\ g = w
        BY <2>0 DEF Snaps, Rests, Learns, PutsAway, GivesUp, Reads, CannotRead
      <3> QED
        BY <3>1, <3>2, <3>3
    <2> QED
      BY <1>a, <1>r, <1>t, <2>0, <2>1, <2>2
  <1>6. ASSUME NEW g \in LocalFiles, Writes(g)
        PROVE  /\ disk'[f] <= writes'[f]
               /\ \A v \in 1..MaxVersions : v > writes'[f] =>
                    RowsFor(<<f, v>>)' = {} /\ \A h \in Handlers : req'[h].cause # <<f, v>>
    <2>1. writes[g] \in Nat
      BY <1>t
    <2>2. CASE f = g
      <3>1. writes'[f] = writes[f] + 1 /\ disk'[f] = writes[f] + 1
        BY <1>6, <1>t, <2>2 DEF Writes
      <3>2. UNCHANGED req
        BY <1>6 DEF Writes
      <3>3. \A v \in 1..MaxVersions : v > writes'[f] => v > writes[f]
        BY <1>t, <3>1
      <3> QED
        BY <1>a, <1>r, <1>t, <3>1, <3>2, <3>3
    <2>3. CASE f # g
      BY <1>6, <1>a, <1>r, <1>t, <2>3 DEF Writes
    <2> QED
      BY <2>2, <2>3
  <1>7. ASSUME UNCHANGED <<req, watchVars>>
        PROVE  UNCHANGED <<disk, writes>> /\ \A g \in Handlers : req'[g].cause = req[g].cause
    BY <1>7 DEF watchVars
  <1>8. ASSUME UNCHANGED <<rowVars, watchVars>>
        PROVE  UNCHANGED <<req, watchVars>>
    BY <1>8 DEF rowVars
  <1> QED
    BY <1>1, <1>2, <1>3, <1>4, <1>5, <1>6, <1>7, <1>8 DEF Steps

LEMMA WatchersAreCounted ==
    ASSUME NEW f, NEW cause
    PROVE  /\ Cardinality(Listed(f)) \in Nat /\ Cardinality(Posted(cause)) \in Nat
           /\ Cardinality(Holding(f)) \in Nat
           /\ Cardinality(Listed(f)) <= Cardinality(Holding(f))
           /\ Holding(f) = {} => Cardinality(Listed(f)) = 0
  <1>1. Listed(f) \subseteq Watchers /\ Posted(cause) \subseteq Watchers
    BY DEF Listed, Posted
  <1>2. Listed(f) \subseteq Holding(f) /\ Holding(f) \subseteq Watchers
    BY DEF Listed, Holding, InHand
  <1>3. IsFiniteSet(Holding(f))
    BY <1>2, Actors, FS_Subset
  <1>4. Holding(f) = {} => Listed(f) = {}
    BY <1>2
  <1> QED
    BY <1>1, <1>2, <1>3, <1>4, Actors, SomeLeave, FS_EmptySet

\* How a step of watcher w changes who has f before it and in hand.
LEMMA ListedChanges ==
    ASSUME NEW w \in Watchers, OnlyWatch(w), NEW f
    PROVE  /\ Cardinality(Listed(f)') \in Nat /\ Cardinality(Holding(f)') \in Nat
           /\ w \notin Listed(f) /\ w \in Listed(f)' =>
                Cardinality(Listed(f)') = Cardinality(Listed(f)) + 1
           /\ w \in Listed(f) /\ w \notin Listed(f)' =>
                Cardinality(Listed(f)) = Cardinality(Listed(f)') + 1
           /\ ((w \in Listed(f)) <=> (w \in Listed(f)')) =>
                Cardinality(Listed(f)') = Cardinality(Listed(f))
           /\ w \notin Holding(f) /\ w \in Holding(f)' =>
                Cardinality(Holding(f)') = Cardinality(Holding(f)) + 1
           /\ w \in Holding(f) /\ w \notin Holding(f)' =>
                Cardinality(Holding(f)) = Cardinality(Holding(f)') + 1
           /\ ((w \in Holding(f)) <=> (w \in Holding(f)')) =>
                Holding(f)' = Holding(f)
  <1>1. /\ Listed(f) \subseteq Watchers /\ Listed(f)' \subseteq Watchers
        /\ Holding(f) \subseteq Watchers /\ Holding(f)' \subseteq Watchers
    BY DEF Listed, Holding
  <1>2. \A v \in Watchers \ {w} : (v \in Listed(f)') <=> (v \in Listed(f))
    BY DEF Listed, OnlyWatch
  <1>3. \A v \in Watchers \ {w} : (v \in Holding(f)') <=> (v \in Holding(f))
    BY DEF Holding, InHand, OnlyWatch
  <1>4. /\ Cardinality(Listed(f)') \in Nat
        /\ w \notin Listed(f) /\ w \in Listed(f)' =>
             Cardinality(Listed(f)') = Cardinality(Listed(f)) + 1
        /\ w \in Listed(f) /\ w \notin Listed(f)' =>
             Cardinality(Listed(f)) = Cardinality(Listed(f)') + 1
        /\ ((w \in Listed(f)) <=> (w \in Listed(f)')) =>
             Cardinality(Listed(f)') = Cardinality(Listed(f))
    BY <1>1, <1>2, Actors, OneChanges
  <1>5. /\ Cardinality(Holding(f)') \in Nat
        /\ w \notin Holding(f) /\ w \in Holding(f)' =>
             Cardinality(Holding(f)') = Cardinality(Holding(f)) + 1
        /\ w \in Holding(f) /\ w \notin Holding(f)' =>
             Cardinality(Holding(f)) = Cardinality(Holding(f)') + 1
    BY <1>1, <1>3, Actors, OneChanges
  <1>6. ASSUME (w \in Holding(f)) <=> (w \in Holding(f)') PROVE Holding(f)' = Holding(f)
    BY <1>1, <1>3, <1>6
  <1> QED
    BY <1>4, <1>5, <1>6

\* How a step that touches only the request of w changes who has posted a cause.
LEMMA PostedChanges ==
    ASSUME NEW w \in Handlers, \A h \in Handlers \ {w} : req'[h] = req[h], NEW c
    PROVE  /\ Cardinality(Posted(c)') \in Nat
           /\ w \notin Posted(c) /\ w \in Posted(c)' =>
                Cardinality(Posted(c)') = Cardinality(Posted(c)) + 1
           /\ w \in Posted(c) /\ w \notin Posted(c)' =>
                Cardinality(Posted(c)) = Cardinality(Posted(c)') + 1
           /\ ((w \in Posted(c)) <=> (w \in Posted(c)')) =>
                Cardinality(Posted(c)') = Cardinality(Posted(c))
  <1>1. Posted(c) \subseteq Watchers /\ Posted(c)' \subseteq Watchers
    BY DEF Posted
  <1>2. \A v \in Watchers \ {w} : (v \in Posted(c)') <=> (v \in Posted(c))
    BY DEF Posted, Handlers
  <1> QED
    BY <1>1, <1>2, Actors, OneChanges

LEMMA HoldingIs ==
    ASSUME NEW w \in Watchers, NEW f
    PROVE  /\ (w \in Holding(f)) <=>
                \/ f \in watch[w].refs
                \/ watch[w].pc \in {"wait", "dest", "error"} /\ watch[w].file = f
           /\ (w \in Holding(f)') <=>
                \/ f \in watch'[w].refs
                \/ watch'[w].pc \in {"wait", "dest", "error"} /\ watch'[w].file = f
  <1>1. (w \in Holding(f)) <=> InHand(w, f)
    BY DEF Holding, InHand
  <1>2. (w \in Holding(f)') <=> InHand(w, f)'
    BY DEF Holding, InHand
  <1>3. InHand(w, f) <=> \/ f \in watch[w].refs
                         \/ watch[w].pc \in {"wait", "dest", "error"} /\ watch[w].file = f
    BY DEF InHand
  <1>4. InHand(w, f)' <=> \/ f \in watch'[w].refs
                          \/ watch'[w].pc \in {"wait", "dest", "error"} /\ watch'[w].file = f
    BY DEF InHand
  <1> QED
    BY <1>1, <1>2, <1>3, <1>4

LEMMA HoldersStep == Known /\ HoldersAccount /\ Steps => HoldersAccount'
  <1> SUFFICES ASSUME Known, HoldersAccount, Steps, NEW f \in LocalFiles
               PROVE  Cardinality(Holding(f)') <= 1 + slips'[f]
    BY DEF HoldersAccount
  <1>a. /\ Cardinality(Holding(f)) <= 1 + slips[f] /\ slips[f] \in Nat
        /\ slips \in [Files -> Nat] /\ f \in Files /\ TypeOK
    BY DEF HoldersAccount, Known, TypeOK, Files
  <1>n. Cardinality(Holding(f)) \in Nat
    BY WatchersAreCounted
  <1>1. ASSUME UNCHANGED watch, slips'[f] = slips[f]
        PROVE  Cardinality(Holding(f)') <= 1 + slips'[f]
    <2>1. Holding(f)' = Holding(f)
      BY <1>1 DEF Holding, InHand
    <2> QED
      BY <1>1, <1>a, <2>1
  <1>2. ASSUME NEW w \in Watchers, WatchMoves(w)
        PROVE  Cardinality(Holding(f)') <= 1 + slips'[f]
    <2>0. /\ OnlyWatch(w)
          /\ \/ Snaps(w) \/ Rests(w) \/ Learns(w) \/ PutsAway(w) \/ GivesUp(w)
             \/ \E g \in LocalFiles : Reads(w, g) \/ CannotRead(w, g)
      BY <1>2, WatchEffect
    <2>w. /\ (w \in Holding(f)) <=>
               \/ f \in watch[w].refs
               \/ watch[w].pc \in {"wait", "dest", "error"} /\ watch[w].file = f
          /\ (w \in Holding(f)') <=>
               \/ f \in watch'[w].refs
               \/ watch'[w].pc \in {"wait", "dest", "error"} /\ watch'[w].file = f
      BY HoldingIs
    <2>h. /\ Cardinality(Holding(f)') \in Nat
          /\ w \notin Holding(f) /\ w \in Holding(f)' =>
               Cardinality(Holding(f)') = Cardinality(Holding(f)) + 1
          /\ w \in Holding(f) /\ w \notin Holding(f)' =>
               Cardinality(Holding(f)) = Cardinality(Holding(f)') + 1
          /\ ((w \in Holding(f)) <=> (w \in Holding(f)')) => Holding(f)' = Holding(f)
      BY <2>0, ListedChanges
    <2>1. CASE Snaps(w) /\ f \in Stable(w) /\ \E v \in Watchers \ {w} : InHand(v, f)
      <3>1. slips'[f] = slips[f] + 1
        BY <1>a, <2>1 DEF Snaps
      <3> QED
        BY <1>a, <1>n, <2>h, <3>1
    <2>2. CASE Snaps(w) /\ ~(f \in Stable(w) /\ \E v \in Watchers \ {w} : InHand(v, f))
      <3>1. slips'[f] = slips[f]
        BY <1>a, <2>2 DEF Snaps
      <3>2. CASE w \in Holding(f)'
        <4>1. f \in Stable(w)
          BY <2>w, <2>2, <3>2 DEF Snaps
        <4>2. Holding(f)' \subseteq {w}
          BY <2>0, <2>2, <4>1 DEF Holding, InHand, OnlyWatch
        <4>3. Holding(f)' = {w}
          BY <3>2, <4>2
        <4> QED
          BY <1>a, <3>1, <4>3, FS_Singleton
      <3>3. CASE w \notin Holding(f)'
        BY <1>a, <1>n, <2>h, <3>1, <3>3
      <3> QED
        BY <3>2, <3>3
    <2>3. CASE \/ Rests(w) \/ Learns(w) \/ PutsAway(w)
               \/ \E g \in LocalFiles : Reads(w, g) \/ CannotRead(w, g)
      <3>1. slips'[f] = slips[f]
        BY <2>3 DEF Rests, Learns, PutsAway, Reads, CannotRead
      <3>2. w \in Holding(f)' => w \in Holding(f)
        <4>1. CASE Rests(w) \/ Learns(w) \/ PutsAway(w)
          BY <4>1, <2>w DEF Rests, Learns, PutsAway
        <4>2. ASSUME NEW g \in LocalFiles, Reads(w, g) \/ CannotRead(w, g)
              PROVE  w \in Holding(f)' => w \in Holding(f)
          BY <4>2, <2>w DEF Reads, CannotRead
        <4> QED
          BY <2>3, <4>1, <4>2
      <3> QED
        BY <1>a, <1>n, <2>h, <3>1, <3>2
    <2>4. CASE GivesUp(w)
      <3>1. slips'[f] = slips[f] \/ slips'[f] = slips[f] + 1
        <4>1. watch[w].file \in Files /\ Slip(watch[w].file)
          BY <2>4 DEF GivesUp, Known, WatchersKnowTheirFile, Files
        <4> QED
          BY <1>a, <4>1, SlipCounts
      <3>2. w \notin Holding(f)'
        BY <2>4, <2>w DEF GivesUp
      <3> QED
        BY <1>a, <1>n, <2>h, <3>1, <3>2
    <2> QED
      BY <2>0, <2>1, <2>2, <2>3, <2>4
  <1>3. ASSUME NEW p \in Pollers, PollMoves(p)
        PROVE  UNCHANGED watch /\ slips'[f] = slips[f]
    <2>0. /\ UNCHANGED DriveOthers
          /\ \/ Lists(p) \/ Begins(p) \/ Errs(p) \/ HandsOver(p) \/ Marks(p)
             \/ LeavesUnmarked(p) \/ Moves(p) \/ Dies(p)
      BY <1>3, PollEffect
    <2>1. UNCHANGED watch
      BY <2>0 DEF DriveOthers, watchVars
    <2>2. f \notin DriveFiles
      BY IntakeAssumption
    <2>3. CASE Lists(p)
      <3>1. f \notin ListNewFiles
        BY <2>2 DEF ListNewFiles
      <3> QED
        BY <1>a, <2>1, <2>3, <3>1 DEF Lists
    <2>4. CASE LeavesUnmarked(p) \/ Dies(p)
      <3>1. Current(p) \in DriveFiles /\ Slip(Current(p))
        BY <2>4, CurrentIsListed DEF LeavesUnmarked, Dies, Known, PollsKnowTheirRow
      <3>2. Current(p) \in Files /\ f # Current(p)
        BY <2>2, <3>1 DEF Files
      <3> QED
        BY <1>a, <2>1, <3>1, <3>2, SlipCounts
    <2>5. CASE UNCHANGED slips
      BY <2>1, <2>5
    <2> QED
      BY <2>0, <2>3, <2>4, <2>5 DEF Begins, Errs, HandsOver, Marks, Moves
  <1>4. ASSUME NEW h \in Handlers, HandlerMoves(h)
        PROVE  UNCHANGED watch /\ slips'[f] = slips[f]
    BY <1>4, HandlerEffect DEF Others, watchVars
  <1>5. ASSUME UNCHANGED <<watchVars, slips>>
        PROVE  UNCHANGED watch /\ slips'[f] = slips[f]
    BY <1>5 DEF watchVars
  <1>6. ASSUME NEW h \in Clients, Sends(h)
        PROVE  UNCHANGED watch /\ slips'[f] = slips[f]
    BY <1>6 DEF Sends, Others, watchVars
  <1>7. ASSUME NEW g \in LocalFiles, Writes(g)
        PROVE  UNCHANGED watch /\ slips'[f] = slips[f]
    BY <1>7 DEF Writes
  <1> QED
    BY <1>1, <1>2, <1>3, <1>4, <1>5, <1>6, <1>7 DEF Steps

LEMMA LocalAccountStep ==
    Known /\ PostsAreLocal /\ NoFutureVersion /\ HoldersAccount /\ LocalAccount /\ Steps
        => LocalAccount'
  <1> SUFFICES ASSUME Known, PostsAreLocal, NoFutureVersion, HoldersAccount, LocalAccount, Steps,
                      NEW f \in LocalFiles, NEW v \in 1..MaxVersions
               PROVE  (Starts(<<f, v>>) + Cardinality(Posted(<<f, v>>))
                        + (IF disk[f] = v THEN Startable(f) ELSE 0) <= 1 + slips[f])'
    BY DEF LocalAccount
  <1>c. PICK c : c = <<f, v>>
    OBVIOUS
  <1>q. SUFFICES Starts(c)' + Cardinality(Posted(c)') + (IF disk'[f] = v THEN Startable(f)' ELSE 0) <= 1 + slips'[f]
    BY <1>c
  <1>t. /\ TypeOK /\ slips \in [Files -> Nat] /\ slips[f] \in Nat /\ f \in Files
        /\ disk \in [LocalFiles -> 0..MaxVersions] /\ writes \in [LocalFiles -> 0..MaxVersions]
        /\ MaxVersions \in Nat /\ v \in Nat /\ v # 0 /\ writes[f] \in Nat
    BY IntakeAssumption DEF Known, TypeOK, Files
  <1>a. Starts(c) + Cardinality(Posted(c)) + (IF disk[f] = v THEN Startable(f) ELSE 0) <= 1 + slips[f]
    BY <1>c DEF LocalAccount
  <1>n. /\ Starts(c) \in Nat /\ Cardinality(Posted(c)) \in Nat
        /\ Cardinality(Listed(f)) \in Nat /\ Cardinality(Holding(f)) \in Nat
        /\ Cardinality(Listed(f)) <= Cardinality(Holding(f))
        /\ Holding(f) = {} => Cardinality(Listed(f)) = 0
    BY <1>t, RowsForIsFinite, WatchersAreCounted
  <1>s. /\ Startable(f) = Cardinality(Listed(f)) + (IF Holding(f) = {} THEN 1 ELSE 0)
        /\ Startable(f)' = Cardinality(Listed(f)') + (IF Holding(f)' = {} THEN 1 ELSE 0)
        /\ Startable(f) \in Nat
    BY <1>n DEF Startable
  <1>w. ASSUME UNCHANGED watch PROVE Startable(f)' = Startable(f)
    BY <1>w DEF Startable, Listed, Holding, InHand
  <1>1. ASSUME SameRows, UNCHANGED <<req, disk, watch>>, slips'[f] = slips[f]
        PROVE  Starts(c)' + Cardinality(Posted(c)') + (IF disk'[f] = v THEN Startable(f)' ELSE 0) <= 1 + slips'[f]
    <2>1. Posted(c)' = Posted(c)
      BY <1>1 DEF Posted
    <2> QED
      BY <1>1, <1>a, <1>w, <2>1, StartsStay
  <1>2. ASSUME NEW h \in Clients, Sends(h)
        PROVE  Starts(c)' + Cardinality(Posted(c)') + (IF disk'[f] = v THEN Startable(f)' ELSE 0) <= 1 + slips'[f]
    <2>1. /\ UNCHANGED <<disk, watch, slips>> /\ SameRows /\ h \in Handlers /\ h \notin Watchers
          /\ \A g \in Handlers \ {h} : req'[g] = req[g]
      BY <1>2, <1>t, IntakeAssumption, RowsUntouched DEF Sends, Others, watchVars, Handlers
    <2>2. Posted(c)' = Posted(c)
      BY <2>1 DEF Posted, Handlers
    <2> QED
      BY <1>a, <1>w, <2>1, <2>2, StartsStay
  <1>3. ASSUME NEW h \in Handlers, HandlerMoves(h)
        PROVE  Starts(c)' + Cardinality(Posted(c)') + (IF disk'[f] = v THEN Startable(f)' ELSE 0) <= 1 + slips'[f]
    <2>0. /\ UNCHANGED Others /\ OnlyRequest(h)
          /\ Inserted(h) \/ Replayed(h) \/ Enqueued(h) \/ GoesOn(h)
      BY <1>3, HandlerEffect
    <2>1. UNCHANGED <<disk, watch, slips>> /\ Startable(f)' = Startable(f)
      BY <2>0, <1>w DEF Others, watchVars
    <2>2. /\ Cardinality(Posted(c)') \in Nat
          /\ h \notin Posted(c) /\ h \in Posted(c)' =>
               Cardinality(Posted(c)') = Cardinality(Posted(c)) + 1
          /\ h \in Posted(c) /\ h \notin Posted(c)' =>
               Cardinality(Posted(c)) = Cardinality(Posted(c)') + 1
          /\ ((h \in Posted(c)) <=> (h \in Posted(c)')) =>
               Cardinality(Posted(c)') = Cardinality(Posted(c))
      BY <2>0, PostedChanges DEF OnlyRequest
    <2>3. CASE Inserted(h)
      <3>1. h \notin Posted(c)'
        BY <2>3 DEF Inserted, Posted
      <3>2. CASE req[h].cause = c
        <4>1. h \in Watchers
          <5>1. NoCause # c
            BY <1>c, <1>t DEF NoCause
          <5> QED
            BY <3>2, <5>1 DEF PostsAreLocal, Handlers
        <4>2. h \in Posted(c)
          BY <2>3, <3>2, <4>1 DEF Inserted, Posted
        <4>3. Starts(c)' = Starts(c) + 1
          BY <1>t, <2>3, <3>2, StartsGrow DEF Inserted
        <4> QED
          BY <1>a, <1>n, <1>s, <1>t, <2>1, <2>2, <3>1, <4>2, <4>3
      <3>3. CASE req[h].cause # c
        <4>1. h \notin Posted(c)
          BY <3>3 DEF Posted
        <4>2. Starts(c)' = Starts(c)
          BY <1>t, <2>3, <3>3, StartsGrow DEF Inserted
        <4> QED
          BY <1>a, <2>1, <2>2, <3>1, <4>1, <4>2
      <3> QED
        BY <3>2, <3>3
    <2>4. CASE Replayed(h) \/ Enqueued(h) \/ GoesOn(h)
      <3>1. Starts(c)' = Starts(c)
        BY <2>4, StartsStay DEF Replayed, Enqueued, GoesOn
      <3>2. /\ req'[h].cause = req[h].cause
            /\ req'[h].pc \in {"lookup", "insert", "collided"} =>
                 req[h].pc \in {"lookup", "insert", "collided"}
        BY <2>0, <2>4 DEF OnlyRequest, Replayed, Enqueued, GoesOn, AfterReplay
      <3>3. h \in Posted(c)' => h \in Posted(c)
        BY <3>2 DEF Posted
      <3> QED
        BY <1>a, <1>n, <1>s, <1>t, <2>1, <2>2, <3>1, <3>3
    <2> QED
      BY <2>0, <2>3, <2>4
  <1>4. ASSUME NEW p \in Pollers, PollMoves(p)
        PROVE  Starts(c)' + Cardinality(Posted(c)') + (IF disk'[f] = v THEN Startable(f)' ELSE 0) <= 1 + slips'[f]
    <2>0. /\ UNCHANGED DriveOthers
          /\ \/ Lists(p) \/ Begins(p) \/ Errs(p) \/ HandsOver(p) \/ Marks(p)
             \/ LeavesUnmarked(p) \/ Moves(p) \/ Dies(p)
      BY <1>4, PollEffect
    <2>1. UNCHANGED <<req, disk, watch>>
      BY <2>0 DEF DriveOthers, watchVars
    <2>2. slips'[f] = slips[f]
      <3>1. f \notin DriveFiles
        BY IntakeAssumption
      <3>2. CASE Lists(p)
        <4>1. f \notin ListNewFiles
          BY <3>1 DEF ListNewFiles
        <4> QED
          BY <1>t, <3>2, <4>1 DEF Lists
      <3>3. CASE LeavesUnmarked(p) \/ Dies(p)
        <4>1. Current(p) \in DriveFiles /\ Slip(Current(p))
          BY <3>3, CurrentIsListed DEF LeavesUnmarked, Dies, Known, PollsKnowTheirRow
        <4>2. Current(p) \in Files /\ f # Current(p)
          BY <3>1, <4>1 DEF Files
        <4> QED
          BY <1>t, <4>1, <4>2, SlipCounts
      <3> QED
        BY <2>0, <3>2, <3>3 DEF Begins, Errs, HandsOver, Marks, Moves
    <2>3. CASE Begins(p)
      <3>1. c # DriveCause(Current(p))
        BY <1>c, <1>t DEF DriveCause
      <3>2. Starts(c)' = Starts(c)
        BY <1>t, <2>3, <3>1, StartsGrow DEF Begins
      <3>3. Posted(c)' = Posted(c)
        BY <2>1 DEF Posted
      <3> QED
        BY <1>a, <1>w, <2>1, <2>2, <3>2, <3>3
    <2>4. CASE SameRows
      BY <1>1, <2>1, <2>2, <2>4
    <2> QED
      BY <2>0, <2>3, <2>4 DEF Lists, Errs, HandsOver, Marks, LeavesUnmarked, Moves, Dies
  <1>5. ASSUME NEW w \in Watchers, WatchMoves(w)
        PROVE  Starts(c)' + Cardinality(Posted(c)') + (IF disk'[f] = v THEN Startable(f)' ELSE 0) <= 1 + slips'[f]
    <2>0. /\ UNCHANGED rows /\ OnlyWatch(w)
          /\ \/ Snaps(w) \/ Rests(w) \/ Learns(w) \/ PutsAway(w) \/ GivesUp(w)
             \/ \E g \in LocalFiles : Reads(w, g) \/ CannotRead(w, g)
      BY <1>5, WatchEffect
    <2>r. Starts(c)' = Starts(c)
      BY <1>t, <2>0, RowsUntouched, StartsStay
    <2>p. ASSUME UNCHANGED req PROVE Posted(c)' = Posted(c)
      BY <2>p DEF Posted
    <2>l. (w \in Listed(f) <=> f \in watch[w].refs) /\ (w \in Listed(f)' <=> f \in watch'[w].refs)
      BY DEF Listed
    <2>h. /\ (w \in Holding(f)) <=>
               \/ f \in watch[w].refs
               \/ watch[w].pc \in {"wait", "dest", "error"} /\ watch[w].file = f
          /\ (w \in Holding(f)') <=>
               \/ f \in watch'[w].refs
               \/ watch'[w].pc \in {"wait", "dest", "error"} /\ watch'[w].file = f
      BY HoldingIs
    <2>d. /\ Cardinality(Listed(f)') \in Nat
          /\ w \notin Listed(f) /\ w \in Listed(f)' =>
               Cardinality(Listed(f)') = Cardinality(Listed(f)) + 1
          /\ w \in Listed(f) /\ w \notin Listed(f)' =>
               Cardinality(Listed(f)) = Cardinality(Listed(f)') + 1
          /\ ((w \in Listed(f)) <=> (w \in Listed(f)')) =>
               Cardinality(Listed(f)') = Cardinality(Listed(f))
          /\ ((w \in Holding(f)) <=> (w \in Holding(f)')) => Holding(f)' = Holding(f)
      BY <2>0, ListedChanges
    <2>k. /\ watch[w].pc \in {"wait", "dest", "error"} => watch[w].file \in LocalFiles
          /\ watch[w].pc = "idle" => watch[w].refs = {}
      BY DEF Known, WatchersKnowTheirFile
    \* w has f before it and in hand as before.
    <2>s. ASSUME (w \in Listed(f)) <=> (w \in Listed(f)'), (w \in Holding(f)) <=> (w \in Holding(f)')
          PROVE  Startable(f)' = Startable(f)
      BY <1>s, <2>d, <2>s
    <2>1. CASE Snaps(w)
      <3>0. /\ UNCHANGED <<req, disk>> /\ watch[w].refs = {} /\ watch[w].pc = "idle"
            /\ watch'[w].refs = Stable(w) /\ watch'[w].pc = "next"
            /\ slips'[f] = IF f \in Stable(w) /\ \E u \in Watchers \ {w} : InHand(u, f)
                           THEN slips[f] + 1 ELSE slips[f]
        BY <1>t, <2>1, <2>k DEF Snaps
      <3>1. CASE f \notin Stable(w)
        <4>1. Startable(f)' = Startable(f)
          BY <2>l, <2>h, <2>s, <3>0, <3>1
        <4> QED
          BY <1>a, <2>p, <2>r, <3>0, <3>1, <4>1
      <3>2. CASE f \in Stable(w) /\ \E u \in Watchers \ {w} : InHand(u, f)
        <4>1. w \notin Listed(f) /\ w \in Listed(f)' /\ w \in Holding(f)'
          BY <2>l, <2>h, <3>0, <3>2
        <4>2. Startable(f)' <= Startable(f) + 1
          BY <1>n, <1>s, <2>d, <4>1
        <4>3. slips'[f] = slips[f] + 1 /\ Startable(f)' \in Nat
          BY <1>s, <2>d, <3>0, <3>2
        <4> QED
          BY <1>a, <1>n, <1>s, <1>t, <2>p, <2>r, <3>0, <4>2, <4>3
      <3>3. CASE f \in Stable(w) /\ ~ \E u \in Watchers \ {w} : InHand(u, f)
        <4>1. w \notin Listed(f) /\ w \in Listed(f)' /\ w \in Holding(f)' /\ w \notin Holding(f)
          BY <2>l, <2>h, <3>0, <3>3
        <4>2. Holding(f) = {}
          BY <3>3, <4>1 DEF Holding
        <4>3. Startable(f)' = Startable(f)
          BY <1>n, <1>s, <2>d, <4>1, <4>2
        <4> QED
          BY <1>a, <2>p, <2>r, <3>0, <3>3, <4>3
      <3> QED
        BY <3>1, <3>2, <3>3
    <2>2. CASE Rests(w) \/ Learns(w)
      <3>1. UNCHANGED <<req, disk, slips>>
        BY <2>2 DEF Rests, Learns
      <3>2. Startable(f)' = Startable(f)
        <4>1. CASE Rests(w)
          BY <2>l, <2>h, <2>s, <4>1 DEF Rests
        <4>2. CASE Learns(w)
          BY <2>l, <2>h, <2>s, <4>2 DEF Learns
        <4> QED
          BY <2>2, <4>1, <4>2
      <3> QED
        BY <1>a, <2>p, <2>r, <3>1, <3>2
    <2>3. ASSUME NEW g \in LocalFiles, Reads(w, g)
          PROVE  Starts(c)' + Cardinality(Posted(c)') + (IF disk'[f] = v THEN Startable(f)' ELSE 0) <= 1 + slips'[f]
      <3>0. /\ UNCHANGED <<disk, slips>> /\ w \in Handlers
            /\ watch[w].pc = "next" /\ watch'[w].pc = "wait" /\ watch'[w].file = g
            /\ g \in watch[w].refs /\ watch'[w].refs = watch[w].refs \ {g}
            /\ req[w].pc \in {"idle", "answered", "error"} /\ req'[w].pc = "lookup"
            /\ req'[w].cause = <<g, disk[g]>>
            /\ \A h \in Handlers \ {w} : req'[h] = req[h]
        BY <2>3 DEF Reads, Handlers
      <3>1. /\ Cardinality(Posted(c)') \in Nat
            /\ w \notin Posted(c) /\ w \in Posted(c)' =>
                 Cardinality(Posted(c)') = Cardinality(Posted(c)) + 1
            /\ ((w \in Posted(c)) <=> (w \in Posted(c)')) =>
                 Cardinality(Posted(c)') = Cardinality(Posted(c))
        BY <3>0, PostedChanges
      <3>2. w \notin Posted(c) /\ (w \in Posted(c)' <=> <<g, disk[g]>> = c)
        BY <3>0 DEF Posted
      <3>3. CASE g = f /\ disk[f] = v
        <4>1. w \in Posted(c)'
          BY <1>c, <3>2, <3>3
        <4>2. w \in Listed(f) /\ w \notin Listed(f)' /\ w \in Holding(f) /\ w \in Holding(f)'
          BY <2>l, <2>h, <3>0, <3>3
        <4>3. Startable(f) = Startable(f)' + 1 /\ Startable(f)' \in Nat
          BY <1>n, <1>s, <2>d, <4>2
        <4>5. Cardinality(Posted(c)') = Cardinality(Posted(c)) + 1
          BY <3>1, <3>2, <4>1
        <4>6. disk'[f] = v /\ slips'[f] = slips[f] /\ slips[f] \in Nat
          BY <1>t, <3>0, <3>3
        <4>7. Starts(c) + Cardinality(Posted(c)) + Startable(f) <= 1 + slips[f]
          BY <1>a, <3>3
        <4> QED
          BY <1>n, <1>s, <2>r, <3>1, <4>3, <4>5, <4>6, <4>7
      <3>4. CASE disk[f] # v
        <4>1. w \notin Posted(c)'
          BY <1>c, <3>2, <3>4
        <4> QED
          BY <1>a, <2>r, <3>0, <3>1, <3>2, <3>4, <4>1
      <3>5. CASE g # f
        <4>1. w \notin Posted(c)'
          BY <1>c, <3>2, <3>5
        <4>2. Startable(f)' = Startable(f)
          BY <2>l, <2>h, <2>s, <3>0, <3>5
        <4> QED
          BY <1>a, <2>r, <3>0, <3>1, <3>2, <4>1, <4>2
      <3> QED
        BY <3>3, <3>4, <3>5
    <2>4. ASSUME NEW g \in LocalFiles, CannotRead(w, g)
          PROVE  Starts(c)' + Cardinality(Posted(c)') + (IF disk'[f] = v THEN Startable(f)' ELSE 0) <= 1 + slips'[f]
      <3>0. /\ UNCHANGED <<req, disk, slips>>
            /\ watch[w].pc = "next" /\ watch'[w].pc = "error" /\ watch'[w].file = g
            /\ g \in watch[w].refs /\ watch'[w].refs = watch[w].refs \ {g}
        BY <2>4 DEF CannotRead
      <3>1. (w \in Holding(f)) <=> (w \in Holding(f)')
        BY <2>h, <3>0
      <3>2. w \in Listed(f)' => w \in Listed(f)
        BY <2>l, <3>0
      <3>3. Startable(f)' <= Startable(f) /\ Startable(f)' \in Nat
        BY <1>n, <1>s, <2>d, <3>1, <3>2
      <3> QED
        BY <1>a, <1>n, <1>s, <1>t, <2>p, <2>r, <3>0, <3>3
    <2>5. CASE PutsAway(w)
      <3>0. /\ UNCHANGED <<req, slips>> /\ watch[w].file \in LocalFiles
            /\ disk' = [disk EXCEPT ![watch[w].file] = 0]
            /\ watch[w].pc \in {"dest", "error"} /\ watch'[w].pc = "next"
            /\ watch'[w].refs = watch[w].refs
        BY <2>5, <2>k DEF PutsAway
      <3>1. CASE watch[w].file = f
        <4>1. disk'[f] # v
          BY <1>t, <3>0, <3>1
        <4> QED
          BY <1>a, <1>n, <1>s, <1>t, <2>p, <2>r, <3>0, <4>1
      <3>2. CASE watch[w].file # f
        <4>1. disk'[f] = disk[f]
          BY <1>t, <3>0, <3>2
        <4>2. Startable(f)' = Startable(f)
          BY <2>l, <2>h, <2>s, <3>0, <3>2
        <4> QED
          BY <1>a, <2>p, <2>r, <3>0, <4>1, <4>2
      <3> QED
        BY <3>1, <3>2
    <2>6. CASE GivesUp(w)
      <3>0. /\ UNCHANGED <<req, disk>> /\ watch[w].file \in Files /\ Slip(watch[w].file)
            /\ watch'[w].refs = {} /\ watch'[w].pc = "idle"
        BY <2>6, <2>k DEF GivesUp, Files
      <3>1. w \notin Listed(f)' /\ w \notin Holding(f)'
        BY <2>l, <2>h, <3>0
      <3>2. CASE watch[w].file = f
        <4>1. slips'[f] = slips[f] + 1
          BY <1>t, <3>0, <3>2, SlipCounts
        <4>2. Startable(f)' <= Startable(f) + 1 /\ Startable(f)' \in Nat
          BY <1>n, <1>s, <2>d, <3>1
        <4> QED
          BY <1>a, <1>n, <1>s, <1>t, <2>p, <2>r, <3>0, <4>1, <4>2
      <3>3. CASE watch[w].file # f
        <4>1. slips'[f] = slips[f]
          BY <1>t, <3>0, <3>3, SlipCounts
        <4>2. Startable(f)' <= Startable(f) /\ Startable(f)' \in Nat
          <5>1. CASE w \in Listed(f)
            <6>1. Holding(f) # {}
              BY <2>l, <2>h, <5>1
            <6> QED
              BY <1>n, <1>s, <2>d, <3>1, <5>1, <6>1
          <5>2. CASE w \notin Listed(f)
            <6>1. w \notin Holding(f)
              BY <2>l, <2>h, <3>3, <5>2
            <6> QED
              BY <1>s, <2>s, <3>1, <5>2, <6>1
          <5> QED
            BY <5>1, <5>2
        <4> QED
          BY <1>a, <1>n, <1>s, <1>t, <2>p, <2>r, <3>0, <4>1, <4>2
      <3> QED
        BY <3>2, <3>3
    <2> QED
      BY <2>0, <2>1, <2>2, <2>3, <2>4, <2>5, <2>6
  <1>6. ASSUME NEW g \in LocalFiles, Writes(g)
        PROVE  Starts(c)' + Cardinality(Posted(c)') + (IF disk'[f] = v THEN Startable(f)' ELSE 0) <= 1 + slips'[f]
    <2>0. UNCHANGED <<rows, req, watch, slips>>
      BY <1>6 DEF Writes
    <2>1. Starts(c)' = Starts(c) /\ Posted(c)' = Posted(c) /\ Startable(f)' = Startable(f)
      BY <1>t, <1>w, <2>0, RowsUntouched, StartsStay DEF Posted
    <2>2. CASE g # f
      <3>1. disk'[f] = disk[f]
        BY <1>6, <1>t, <2>2 DEF Writes
      <3> QED
        BY <1>a, <2>0, <2>1, <3>1
    <2>3. CASE g = f /\ v # writes[f] + 1
      <3>1. disk'[f] # v
        BY <1>6, <1>t, <2>3 DEF Writes
      <3> QED
        BY <1>a, <1>n, <1>s, <1>t, <2>0, <2>1, <3>1
    <2>4. CASE g = f /\ v = writes[f] + 1
      <3>1. RowsFor(c) = {} /\ \A h \in Handlers : req[h].cause # c
        BY <1>c, <1>t, <2>4 DEF NoFutureVersion
      <3>2. Starts(c) = 0
        BY <1>t, <3>1, RowsForIsFinite, FS_EmptySet
      <3>3. Posted(c) = {}
        BY <3>1 DEF Posted, Handlers
      <3>4. Cardinality(Posted(c)) = 0
        BY <3>3, FS_EmptySet
      <3>5. Cardinality(Holding(f)) <= 1 + slips[f]
        BY DEF HoldersAccount
      <3>6. Startable(f) <= 1 + slips[f]
        BY <1>n, <1>s, <1>t, <3>5
      <3> QED
        BY <1>n, <1>s, <1>t, <2>0, <2>1, <3>2, <3>4, <3>6
    <2> QED
      BY <2>2, <2>3, <2>4
  <1>7. ASSUME UNCHANGED watchVars PROVE UNCHANGED <<disk, watch>>
    BY <1>7 DEF watchVars
  <1>8. ASSUME UNCHANGED rowVars PROVE SameRows /\ UNCHANGED req
    BY <1>8, <1>t, RowsUntouched DEF rowVars
  <1> QED
    BY <1>1, <1>2, <1>3, <1>4, <1>5, <1>6, <1>7, <1>8 DEF Steps

AccountInv ==
    /\ PostsAreLocal /\ NoFutureVersion /\ DriveInv
    /\ DriveAccount /\ HoldersAccount /\ LocalAccount

LEMMA AccountInit == Init => AccountInv
  <1> SUFFICES ASSUME Init PROVE AccountInv
    OBVIOUS
  <1>t. Known
    BY KnownInit
  <1>1. DriveInv
    BY DEF Init, DriveInv, PollsKnowTheirFile, MarksAreTrue
  <1>2. \A c : RowsFor(c) = {}
    BY DEF Init, RowsFor
  <1>3. \A c : Starts(c) = 0
    BY <1>t, <1>2, RowsForIsFinite, FS_EmptySet DEF Known
  <1>4. slips \in [Files -> Nat] /\ \A f \in Files : slips[f] = 0
    BY DEF Init
  <1>5. \A f : Waiting(f) = {}
    BY DEF Init, Waiting
  <1>6. \A f : Cardinality(Waiting(f)) = 0
    BY <1>5, FS_EmptySet
  <1>7. DriveAccount
    BY <1>3, <1>4, <1>6 DEF DriveAccount, Files
  <1>8. \A f : Holding(f) = {} /\ Listed(f) = {}
    BY DEF Init, Holding, Listed, InHand
  <1>9. \A c : Posted(c) = {}
    BY DEF Init, Posted, Idle, Handlers
  <1>10. \A f : Cardinality(Holding(f)) = 0 /\ Startable(f) = 1
    BY <1>8, FS_EmptySet DEF Startable
  <1>11. \A c : Cardinality(Posted(c)) = 0
    BY <1>9, FS_EmptySet
  <1>12. HoldersAccount
    BY <1>4, <1>10 DEF HoldersAccount, Files
  <1>13. LocalAccount
    BY <1>3, <1>4, <1>10, <1>11 DEF LocalAccount, Files
  <1> QED
    BY <1>1, <1>7, <1>12, <1>13, PostsInit, VersionsInit DEF AccountInv

LEMMA AccountStep == Known /\ AccountInv /\ [Next]_vars => AccountInv'
  <1> SUFFICES ASSUME Known, AccountInv, Steps PROVE AccountInv'
    BY EveryStep
  <1> QED
    BY PostsStep, VersionsStep, DriveStep, DriveAccountStep, HoldersStep, LocalAccountStep DEF AccountInv

\* For every number of polls, watchers, files, versions and faults: a file, or a
\* version of a local file, is started once, and once more at most for each marker
\* or move that failed, each process that died and each overlapping listing.
THEOREM EveryStartIsAccountedFor == Spec => []StartsAreAccountedFor
  <1>1. Known /\ AccountInv => StartsAreAccountedFor
    <2> SUFFICES ASSUME Known, AccountInv PROVE StartsAreAccountedFor
      OBVIOUS
    <2>t. TypeOK /\ slips \in [Files -> Nat]
      BY DEF Known, TypeOK
    <2>1. ASSUME NEW f \in DriveFiles PROVE Starts(DriveCause(f)) <= 1 + slips[f]
      <3>1. Starts(DriveCause(f)) + Cardinality(Waiting(f)) + (IF Unclaimed(f) THEN 1 ELSE 0)
              <= 1 + slips[f]
        BY DEF AccountInv, DriveAccount
      <3>2. /\ Starts(DriveCause(f)) \in Nat /\ Cardinality(Waiting(f)) \in Nat
            /\ slips[f] \in Nat
        BY <2>t, RowsForIsFinite, WaitingIsFinite DEF Files
      <3> QED
        BY <3>1, <3>2
    <2>2. ASSUME NEW f \in LocalFiles, NEW v \in 1..MaxVersions
          PROVE  Starts(<<f, v>>) <= 1 + slips[f]
      <3>1. Starts(<<f, v>>) + Cardinality(Posted(<<f, v>>))
              + (IF disk[f] = v THEN Startable(f) ELSE 0) <= 1 + slips[f]
        BY DEF AccountInv, LocalAccount
      <3>2. /\ Starts(<<f, v>>) \in Nat /\ Cardinality(Posted(<<f, v>>)) \in Nat
            /\ slips[f] \in Nat /\ Cardinality(Listed(f)) \in Nat
        BY <2>t, RowsForIsFinite, WatchersAreCounted DEF Files
      <3>3. Startable(f) \in Nat
        BY <3>2 DEF Startable
      <3> QED
        BY <3>1, <3>2, <3>3
    <2> QED
      BY <2>1, <2>2 DEF StartsAreAccountedFor
  <1> QED
    BY KnownAlways, AccountInit, AccountStep, <1>1, PTL DEF Spec
=============================================================================
