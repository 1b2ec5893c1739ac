-------------------------- MODULE EventLogProofs --------------------------
(* NothingSkipped and ExecutorEventsKept, for any workflow and any number  *)
(* of clients and resumes.                                                 *)
EXTENDS EventLog, FiniteSetTheorems, TLAPS

\* The parts of TypeOK that most steps leave alone, and the parts they change.
EmitterOK ==
    /\ emitter \in [Emitters -> EmitterType]
    /\ \A e \in Emitters : emitter[e].at = "insert" => emitter[e].seq > 0
LogOK ==
    /\ IsFiniteSet(DOMAIN log) /\ DOMAIN log \subseteq Nat \ {0}
    /\ \A s \in DOMAIN log : log[s] \in Events
StreamOK ==
    /\ reader \in [Readers -> ReaderType]
    /\ sent \in [Readers -> SUBSET Events]
RestOK ==
    /\ status \in {"running", "waiting_approval", "deleted"} \cup Terminal
    /\ leg \in 1..MaxLegs
    /\ step \in DOMAIN Supersteps
    /\ asked \subseteq ApprovalNodes
    /\ faults \in 0..MaxFaults
    /\ deleting \in BOOLEAN
    /\ lost \in SUBSET Events
    /\ hurried \in BOOLEAN
    /\ {swept, stray, silent} \subseteq BOOLEAN

LEMMA TypeParts == TypeOK <=> EmitterOK /\ LogOK /\ StreamOK /\ RestOK
BY DEF TypeOK, EmitterOK, LogOK, StreamOK, RestOK

LEMMA TypePartsNext == EmitterOK' /\ LogOK' /\ StreamOK' /\ RestOK' => TypeOK'
BY DEF TypeOK, EmitterOK, LogOK, StreamOK, RestOK

Ats == {"none", "count", "insert", "notify"}
ReaderPcs == {"off", "accepted", "replay", "listen", "live", "closed"}
Snaps == {"running", "waiting_approval"} \cup Terminal

(* Replacing one field of an emitter or of a handler.                      *)
LEMMA EmitterFields ==
    ASSUME NEW v \in EmitterType
    PROVE  /\ v.phase \in Phases /\ v.at \in Ats /\ v.seq \in Nat
           /\ \A x \in Phases : /\ [v EXCEPT !.phase = x] \in EmitterType
                                /\ [v EXCEPT !.phase = x].at = v.at
                                /\ [v EXCEPT !.phase = x].seq = v.seq
           /\ \A x \in Ats : /\ [v EXCEPT !.at = x] \in EmitterType
                             /\ [v EXCEPT !.at = x].at = x
                             /\ [v EXCEPT !.at = x].seq = v.seq
           /\ \A x \in Nat : /\ [v EXCEPT !.seq = x] \in EmitterType
                             /\ [v EXCEPT !.seq = x].at = v.at
                             /\ [v EXCEPT !.seq = x].seq = x
BY DEF EmitterType, Ats

LEMMA ReaderFields ==
    ASSUME NEW v \in ReaderType
    PROVE  /\ v.pc \in ReaderPcs /\ v.snap \in Snaps /\ v.cursor \in Nat /\ v.notified \in BOOLEAN
           /\ \A x \in ReaderPcs : /\ [v EXCEPT !.pc = x] \in ReaderType
                                   /\ [v EXCEPT !.pc = x].cursor = v.cursor
           /\ \A x \in Snaps : /\ [v EXCEPT !.snap = x] \in ReaderType
                               /\ [v EXCEPT !.snap = x].cursor = v.cursor
           /\ \A x \in Nat : /\ [v EXCEPT !.cursor = x] \in ReaderType
                             /\ [v EXCEPT !.cursor = x].cursor = x
           /\ \A x \in BOOLEAN : /\ [v EXCEPT !.notified = x] \in ReaderType
                                 /\ [v EXCEPT !.notified = x].cursor = v.cursor
BY DEF ReaderType, ReaderPcs, Snaps

\* The initial states: a claimed execution without events, and no client.
LEMMA InitTyped == Init => TypeOK
<1> SUFFICES ASSUME Init PROVE EmitterOK /\ LogOK /\ StreamOK /\ RestOK
  BY TypeParts
<1>1. EmitterOK
  BY DEF Init, EmitterOK, EmitterType, Phases
<1>2. LogOK
  <2>1. DOMAIN log = {}
    BY DEF Init
  <2> QED
    BY <2>1, FS_EmptySet DEF LogOK
<1>3. StreamOK
  BY DEF Init, StreamOK, ReaderType
<1>4. RestOK
  <2>1. Len(Supersteps) \in Nat \ {0} /\ DOMAIN Supersteps = 1..Len(Supersteps)
    BY EventLogAssumption
  <2>2. 1 \in DOMAIN Supersteps
    BY <2>1
  <2>3. 1 \in 1..MaxLegs /\ 0 \in 0..MaxFaults
    BY EventLogAssumption
  <2> QED
    BY <2>2, <2>3 DEF Init, RestOK
<1> QED
  BY <1>1, <1>2, <1>3, <1>4

\* An emitter that is given a well-formed record stays well-formed.
LEMMA EmitterChanged ==
    ASSUME EmitterOK, NEW e \in Emitters, NEW v \in EmitterType,
           v.at = "insert" => v.seq > 0,
           emitter' = [emitter EXCEPT ![e] = v]
    PROVE  EmitterOK'
BY DEF EmitterOK

LEMMA EmitsTyped ==
    ASSUME EmitterOK, NEW e \in Emitters, NEW p \in Phases, Emits(e, p)
    PROVE  EmitterOK'
<1>1. Emitting(p) \in EmitterType /\ Emitting(p).at # "insert"
  BY DEF Emitting, EmitterType
<1> QED
  BY <1>1, EmitterChanged DEF Emits

\* Moving an append on to its next statement.
LEMMA AppendsTyped ==
    ASSUME EmitterOK, NEW e \in Emitters, NEW where \in Ats, NEW seq \in Nat,
           where = "insert" => seq > 0, Appends(e, where, seq)
    PROVE  /\ EmitterOK'
           /\ emitter' = [emitter EXCEPT ![e] = emitter'[e]]
           /\ emitter'[e].at = where /\ emitter'[e].seq = seq
<1> DEFINE v == [phase |-> Phase(e), at |-> where, seq |-> seq]
<1>1. v \in EmitterType /\ v.at = where /\ v.seq = seq
  BY DEF EmitterOK, EmitterType, Phase, Ats
<1>2. emitter' = [emitter EXCEPT ![e] = v]
  BY DEF Appends
<1> HIDE DEF v
<1>3. EmitterOK'
  BY <1>1, <1>2, EmitterChanged
<1>4. emitter'[e] = v
  BY <1>2 DEF EmitterOK
<1> QED
  BY <1>1, <1>2, <1>3, <1>4

LEMMA CountTyped ==
    ASSUME EmitterOK, LogOK, NEW e \in Emitters, Count(e)
    PROVE  /\ EmitterOK'
           /\ Cardinality(DOMAIN log) \in Nat
           /\ emitter' = [emitter EXCEPT ![e] = emitter'[e]]
           /\ emitter'[e].seq = Cardinality(DOMAIN log) + 1
<1>1. Cardinality(DOMAIN log) \in Nat
  BY FS_CardinalityType DEF LogOK
<1>2. Appends(e, "insert", Cardinality(DOMAIN log) + 1)
  BY DEF Count
<1> QED
  BY <1>1, <1>2, AppendsTyped DEF Ats

LEMMA InsertTyped ==
    ASSUME EmitterOK, LogOK, RestOK, NEW e \in Emitters, Insert(e)
    PROVE  /\ EmitterOK' /\ LogOK' /\ RestOK'
           /\ IF emitter[e].seq \in DOMAIN log
              THEN log' = log
              ELSE /\ DOMAIN log' = DOMAIN log \cup {emitter[e].seq}
                   /\ \A s \in DOMAIN log : log'[s] = log[s]
                   /\ Cardinality(DOMAIN log') = Cardinality(DOMAIN log) + 1
<1>1. Event(e) \in Events
  BY DEF EmitterOK, EmitterType, RestOK, Event, Phase, Events, Executors
<1>2. emitter[e].seq \in Nat \ {0}
  BY DEF EmitterOK, EmitterType, Insert, At
<1>3. CASE emitter[e].seq \in DOMAIN log
  <2>1. EmitterOK'
    BY <1>3, AppendsTyped DEF Insert, Ats
  <2>2. LogOK' /\ log' = log
    BY <1>3 DEF Insert, LogOK
  <2>3. RestOK'
    BY <1>1, <1>3 DEF Insert, RestOK, worker
  <2> QED
    BY <1>3, <2>1, <2>2, <2>3
<1>4. CASE emitter[e].seq \notin DOMAIN log
  <2>1. EmitterOK'
    BY <1>4, AppendsTyped DEF Insert, Ats
  <2>2. log' = [s \in DOMAIN log \cup {emitter[e].seq} |->
                  IF s = emitter[e].seq THEN Event(e) ELSE log[s]]
    BY <1>4 DEF Insert
  <2>3. DOMAIN log' = DOMAIN log \cup {emitter[e].seq}
    BY <2>2
  <2>4. /\ IsFiniteSet(DOMAIN log')
        /\ Cardinality(DOMAIN log') = Cardinality(DOMAIN log) + 1
    BY <1>4, <2>3, FS_AddElement DEF LogOK
  <2>5. \A s \in DOMAIN log : log'[s] = log[s]
    BY <1>4, <2>2
  <2>6. \A s \in DOMAIN log' : log'[s] \in Events
    BY <1>1, <2>2, <2>3 DEF LogOK
  <2>7. LogOK'
    BY <1>2, <2>3, <2>4, <2>6 DEF LogOK
  <2>8. RestOK'
    BY <1>4 DEF Insert, RestOK, worker
  <2> QED
    BY <1>4, <2>1, <2>3, <2>4, <2>5, <2>7, <2>8
<1> QED
  BY <1>3, <1>4

\* Notifying changes no cursor.
LEMMA NotifyTyped ==
    ASSUME StreamOK, NEW e \in Emitters, Notify(e)
    PROVE  /\ StreamOK'
           /\ \A r \in Readers : reader'[r].cursor = reader[r].cursor
<1>1. \A r \in Readers : reader[r] \in ReaderType
  BY DEF StreamOK
<1>2. \A r \in Readers :
        reader'[r] = [reader[r] EXCEPT !.notified = (reader[r].notified \/ reader[r].pc = "live")]
  BY DEF Notify
<1>3. ASSUME NEW r \in Readers
      PROVE  reader'[r] \in ReaderType /\ reader'[r].cursor = reader[r].cursor
  <2> DEFINE x == reader[r].notified \/ reader[r].pc = "live"
  <2>1. x \in BOOLEAN
    OBVIOUS
  <2>2. reader'[r] = [reader[r] EXCEPT !.notified = x]
    BY <1>2
  <2> HIDE DEF x
  <2> QED
    BY <1>1, <2>1, <2>2, ReaderFields
<1>4. reader' \in [Readers -> ReaderType]
  BY <1>3 DEF Notify
<1> QED
  BY <1>3, <1>4 DEF StreamOK, Notify

(* The handlers: what a client receives is the batch up to its new cursor. *)
LEMMA ReceiveTyped ==
    ASSUME StreamOK, LogOK, NEW r \in Readers, NEW to \in ReaderPcs,
           NEW s \in Batch(r) \cup {reader[r].cursor}, Receive(r, s, to)
    PROVE  /\ StreamOK'
           /\ reader'[r].cursor = s
           /\ \A q \in Readers \ {r} : reader'[q] = reader[q] /\ sent'[q] = sent[q]
           /\ sent'[r] = sent[r] \cup {log[t] : t \in {u \in Batch(r) : u <= s}}
<1>1. Batch(r) \subseteq DOMAIN log
  BY DEF Batch, ListSince
<1>2. reader[r] \in ReaderType
  BY DEF StreamOK
<1>3. s \in Nat
  BY <1>1, <1>2, ReaderFields DEF LogOK
<1> DEFINE a == [reader[r] EXCEPT !.pc = to]
           b == [a EXCEPT !.cursor = s]
           c == [b EXCEPT !.notified = FALSE]
<1>4. a \in ReaderType
  BY <1>2, ReaderFields
<1> HIDE DEF a
<1>5. b \in ReaderType /\ b.cursor = s
  BY <1>3, <1>4, ReaderFields
<1> HIDE DEF b
<1>6. c \in ReaderType /\ c.cursor = s
  BY <1>5, ReaderFields
<1>7. reader' = [reader EXCEPT ![r] = c]
  BY DEF Receive, a, b, c
<1> HIDE DEF c
<1>8. /\ reader' \in [Readers -> ReaderType]
      /\ reader'[r] = c
      /\ \A q \in Readers \ {r} : reader'[q] = reader[q]
  BY <1>6, <1>7 DEF StreamOK
<1>9. {log[t] : t \in {u \in Batch(r) : u <= s}} \subseteq Events
  BY <1>1 DEF LogOK
<1>10. /\ sent' \in [Readers -> SUBSET Events]
       /\ sent'[r] = sent[r] \cup {log[t] : t \in {u \in Batch(r) : u <= s}}
       /\ \A q \in Readers \ {r} : sent'[q] = sent[q]
  BY <1>9 DEF Receive, StreamOK
<1> QED
  BY <1>6, <1>8, <1>10 DEF StreamOK

(* The steps of the worker other than an append leave the log and the      *)
(* clients alone, and begin or give up appends without having numbered one. *)
NoNewNumber ==
    \A e \in Emitters : emitter'[e].at = "insert"
                        => emitter[e].at = "insert" /\ emitter'[e].seq = emitter[e].seq
LogUntouched == UNCHANGED <<log, deleting, reader, sent, swept>>

GraphStep ==
    \/ BeginLeg \/ NextStep \/ MarkCompleted \/ MarkWaitingApproval \/ MarkFailed
    \/ (\E n \in Nodes : StartNode(n) \/ NodeInterrupts(n) \/ NodeEnds(n))
    \/ (\E k \in Executors : NotifyApprover(k) \/ NotifyRaises(k) \/ WorkerDies(k))
    \/ Resume

LEMMA EmitsNoNumber ==
    ASSUME EmitterOK, NEW e \in Emitters, NEW p \in Phases, Emits(e, p)
    PROVE  NoNewNumber
<1>1. Emitting(p).at # "insert"
  BY DEF Emitting
<1> QED
  BY <1>1 DEF Emits, NoNewNumber, EmitterOK

LEMMA PhaseTyped ==
    ASSUME EmitterOK, NEW e \in Emitters, NEW p \in Phases,
           emitter' = [emitter EXCEPT ![e].phase = p]
    PROVE  EmitterOK' /\ NoNewNumber
<1>1. emitter[e] \in EmitterType
  BY DEF EmitterOK
<1> DEFINE v == [emitter[e] EXCEPT !.phase = p]
<1>2. v \in EmitterType /\ v.at = emitter[e].at /\ v.seq = emitter[e].seq
  BY <1>1, EmitterFields
<1>3. emitter' = [emitter EXCEPT ![e] = v]
  OBVIOUS
<1> HIDE DEF v
<1>4. emitter[e].at = "insert" => emitter[e].seq > 0
  BY DEF EmitterOK
<1>5. EmitterOK'
  BY <1>2, <1>3, <1>4, EmitterChanged
<1>6. NoNewNumber
  BY <1>2, <1>3 DEF NoNewNumber, EmitterOK
<1> QED
  BY <1>5, <1>6

\* Every emitter at once, each with a record that numbers nothing new.
LEMMA AllEmittersTyped ==
    ASSUME EmitterOK, NEW f, emitter' = f, f \in [Emitters -> EmitterType],
           \A e \in Emitters : f[e].at = "insert"
                               => emitter[e].at = "insert" /\ f[e].seq = emitter[e].seq
    PROVE  EmitterOK' /\ NoNewNumber
BY DEF EmitterOK, NoNewNumber

LEMMA GraphTyped ==
    ASSUME TypeOK, GraphStep
    PROVE  TypeOK' /\ NoNewNumber /\ LogUntouched
<1> EmitterOK /\ LogOK /\ StreamOK /\ RestOK
  BY TypeParts
<1>0. leg \in Emitters /\ Nodes \subseteq Emitters /\ Executors \subseteq Emitters
  BY DEF Emitters, Executors, RestOK
<1> SUFFICES EmitterOK' /\ NoNewNumber /\ RestOK' /\ LogUntouched
  BY TypePartsNext DEF LogOK, StreamOK, LogUntouched
<1>1. CASE BeginLeg
  <2>1. RestOK' /\ LogUntouched
    BY <1>1 DEF BeginLeg, RestOK, LogUntouched, worker, observed
  <2>2. CASE status = "deleted"
    BY <1>0, <1>1, <2>1, <2>2, PhaseTyped DEF BeginLeg, Phases
  <2>3. CASE status # "deleted"
    BY <1>0, <1>1, <2>1, <2>3, EmitsTyped, EmitsNoNumber DEF BeginLeg, Phases
  <2> QED
    BY <2>2, <2>3
<1>2. CASE NextStep
  <2>1. Len(Supersteps) \in Nat /\ DOMAIN Supersteps = 1..Len(Supersteps)
    BY EventLogAssumption
  <2>2. step' \in DOMAIN Supersteps
    BY <1>2, <2>1 DEF NextStep, RestOK
  <2> QED
    BY <1>2, <2>2 DEF NextStep, RestOK, EmitterOK, NoNewNumber, LogUntouched, observed
<1>3. CASE MarkCompleted
  <2>1. EmitterOK' /\ NoNewNumber
    BY <1>0, <1>3, EmitsTyped, EmitsNoNumber DEF MarkCompleted, Phases
  <2> QED
    BY <1>3, <2>1 DEF MarkCompleted, Mark, RestOK, LogUntouched, worker, observed, Terminal
<1>4. CASE MarkWaitingApproval
  <2>1. EmitterOK' /\ NoNewNumber
    BY <1>0, <1>4, PhaseTyped DEF MarkWaitingApproval, Phases
  <2> QED
    BY <1>4, <2>1 DEF MarkWaitingApproval, Mark, RestOK, LogUntouched, worker, observed
<1>5. CASE MarkFailed
  <2>0. PICK left \in SUBSET {n \in Nodes : At(n, "insert")} :
          /\ emitter' = [e \in Emitters |-> IF e = leg THEN Emitting("workflow_completed")
                                            ELSE IF e \in Nodes \ left THEN Still(e)
                                            ELSE emitter[e]]
          /\ stray' = (stray \/ left # {})
    BY <1>5 DEF MarkFailed
  <2> DEFINE f == [e \in Emitters |-> IF e = leg THEN Emitting("workflow_completed")
                                      ELSE IF e \in Nodes \ left THEN Still(e)
                                      ELSE emitter[e]]
  <2>1. ASSUME NEW e \in Emitters
        PROVE  /\ f[e] \in EmitterType
               /\ f[e].at = "insert" => emitter[e].at = "insert" /\ f[e].seq = emitter[e].seq
    <3>1. emitter[e] \in EmitterType
      BY DEF EmitterOK
    <3>2. Still(e) \in EmitterType /\ Still(e).at = "none"
      BY <3>1 DEF EmitterType, Still, Phase
    <3>3. /\ Emitting("workflow_completed") \in EmitterType
          /\ Emitting("workflow_completed").at = "count"
      BY DEF Emitting, EmitterType, Phases
    <3> QED
      BY <3>1, <3>2, <3>3
  <2>2. f \in [Emitters -> EmitterType]
    BY <2>1
  <2>3. emitter' = f /\ stray' \in BOOLEAN
    BY <2>0 DEF RestOK
  <2> HIDE DEF f
  <2>4. EmitterOK' /\ NoNewNumber
    BY <2>1, <2>2, <2>3, AllEmittersTyped
  <2> QED
    BY <1>5, <2>3, <2>4 DEF MarkFailed, Mark, RestOK, LogUntouched, worker, observed, Terminal
<1>6. ASSUME NEW n \in Nodes, StartNode(n)
      PROVE  EmitterOK' /\ NoNewNumber /\ RestOK' /\ LogUntouched
  BY <1>0, <1>6, EmitsTyped, EmitsNoNumber
     DEF StartNode, RestOK, LogUntouched, worker, observed, Phases
<1>7. ASSUME NEW n \in Nodes, NodeInterrupts(n)
      PROVE  EmitterOK' /\ NoNewNumber /\ RestOK' /\ LogUntouched
  <2>1. EmitterOK' /\ NoNewNumber
    BY <1>0, <1>7, PhaseTyped DEF NodeInterrupts, Phases
  <2> QED
    BY <1>7, <2>1 DEF NodeInterrupts, RestOK, LogUntouched, observed
<1>8. ASSUME NEW n \in Nodes, NodeEnds(n)
      PROVE  EmitterOK' /\ NoNewNumber /\ RestOK' /\ LogUntouched
  <2>1. PICK p \in {"node_completed", "node_failed"} : Emits(n, p)
    BY <1>8 DEF NodeEnds
  <2>2. p \in Phases
    BY DEF Phases
  <2> QED
    BY <1>0, <1>8, <2>1, <2>2, EmitsTyped, EmitsNoNumber
       DEF NodeEnds, RestOK, LogUntouched, worker, observed
<1>9. CASE Resume
  <2> DEFINE f == [e \in Emitters |->
                     [emitter[e] EXCEPT !.phase = IF e = leg + 1 THEN "claimed"
                                                  ELSE IF @ = "interrupted" THEN "queued" ELSE @]]
  <2>1. ASSUME NEW e \in Emitters
        PROVE  f[e] \in EmitterType /\ f[e].at = emitter[e].at /\ f[e].seq = emitter[e].seq
    <3> DEFINE p == IF e = leg + 1 THEN "claimed"
                    ELSE IF emitter[e].phase = "interrupted" THEN "queued" ELSE emitter[e].phase
    <3>1. emitter[e] \in EmitterType
      BY DEF EmitterOK
    <3>2. p \in Phases
      BY <3>1, EmitterFields DEF Phases
    <3>3. f[e] = [emitter[e] EXCEPT !.phase = p]
      OBVIOUS
    <3> HIDE DEF p, f
    <3> QED
      BY <3>1, <3>2, <3>3, EmitterFields
  <2>2. f \in [Emitters -> EmitterType]
    BY <2>1
  <2>3. emitter' = f
    BY <1>9 DEF Resume
  <2> HIDE DEF f
  <2>4. EmitterOK' /\ NoNewNumber
    BY <2>1, <2>2, <2>3, AllEmittersTyped
  <2>5. leg' \in 1..MaxLegs
    BY <1>9, EventLogAssumption DEF Resume, RestOK
  <2> QED
    BY <1>9, <2>4, <2>5 DEF Resume, RestOK, LogUntouched, observed
<1>10. ASSUME NEW k \in Executors, WorkerDies(k)
       PROVE  EmitterOK' /\ NoNewNumber /\ RestOK' /\ LogUntouched
  <2> DEFINE f == [e \in Emitters |->
                     IF e = k THEN [phase |-> "over", at |-> "none", seq |-> 0]
                     ELSE IF k = leg /\ e \in Nodes THEN Still(e)
                     ELSE emitter[e]]
  <2>1. ASSUME NEW e \in Emitters
        PROVE  /\ f[e] \in EmitterType
               /\ f[e].at = "insert" => emitter[e].at = "insert" /\ f[e].seq = emitter[e].seq
    <3>1. emitter[e] \in EmitterType
      BY DEF EmitterOK
    <3>2. Still(e) \in EmitterType /\ Still(e).at = "none"
      BY <3>1 DEF EmitterType, Still, Phase
    <3>3. [phase |-> "over", at |-> "none", seq |-> 0] \in EmitterType
      BY DEF EmitterType, Phases
    <3> QED
      BY <3>1, <3>2, <3>3
  <2>2. f \in [Emitters -> EmitterType]
    BY <2>1
  <2>3. emitter' = f
    BY <1>10 DEF WorkerDies
  <2> HIDE DEF f
  <2>4. EmitterOK' /\ NoNewNumber
    BY <2>1, <2>2, <2>3, AllEmittersTyped
  <2> QED
    BY <1>10, <2>4, EventLogAssumption DEF WorkerDies, Fault, RestOK, LogUntouched, worker, observed
<1>11. ASSUME NEW k \in Executors, NotifyApprover(k)
       PROVE  EmitterOK' /\ NoNewNumber /\ RestOK' /\ LogUntouched
  BY <1>0, <1>11, EmitsTyped, EmitsNoNumber
     DEF NotifyApprover, RestOK, LogUntouched, worker, observed, Phases
<1>12. ASSUME NEW k \in Executors, NotifyRaises(k)
       PROVE  EmitterOK' /\ NoNewNumber /\ RestOK' /\ LogUntouched
  <2>1. EmitterOK' /\ NoNewNumber
    BY <1>0, <1>12, EmitsTyped, EmitsNoNumber DEF NotifyRaises, Phases
  <2> QED
    BY <1>12, <2>1 DEF NotifyRaises, Mark, RestOK, LogUntouched, worker, observed, Terminal
<1> QED
  BY <1>1, <1>2, <1>3, <1>4, <1>5, <1>6, <1>7, <1>8, <1>9, <1>10, <1>11, <1>12 DEF GraphStep

(* The invariant that every step preserves.                                *)
CursorInv == TypeOK /\ Dense /\ CursorsInLog /\ NothingSkipped

LEMMA InitCursors == Init => CursorInv
<1> SUFFICES ASSUME Init PROVE Dense /\ CursorsInLog /\ NothingSkipped
  BY InitTyped DEF CursorInv
<1>1. DOMAIN log = {} /\ Cardinality(DOMAIN log) = 0
  BY FS_EmptySet DEF Init
<1>2. Dense
  BY <1>1 DEF Init, Dense, At
<1>3. CursorsInLog
  BY <1>1 DEF Init, CursorsInLog
<1>4. NothingSkipped
  BY <1>1 DEF NothingSkipped
<1> QED
  BY <1>2, <1>3, <1>4

LEMMA UntouchedCursors ==
    ASSUME CursorInv, TypeOK', NoNewNumber, LogUntouched
    PROVE  CursorInv'
<1>1. Dense'
  BY DEF CursorInv, Dense, NoNewNumber, LogUntouched, At
<1>2. CursorsInLog'
  BY DEF CursorInv, CursorsInLog, LogUntouched
<1>3. NothingSkipped'
  BY DEF CursorInv, NothingSkipped, LogUntouched
<1> QED
  BY <1>1, <1>2, <1>3 DEF CursorInv

LEMMA CountCursors ==
    ASSUME CursorInv, NEW e \in Emitters, Count(e)
    PROVE  CursorInv'
<1> EmitterOK /\ LogOK /\ StreamOK /\ RestOK
  BY TypeParts DEF CursorInv
<1>1. /\ EmitterOK'
      /\ Cardinality(DOMAIN log) \in Nat
      /\ emitter' = [emitter EXCEPT ![e] = emitter'[e]]
      /\ emitter'[e].seq = Cardinality(DOMAIN log) + 1
  BY CountTyped
<1>2. TypeOK'
  BY <1>1, TypePartsNext DEF Count, LogOK, StreamOK, RestOK, worker, observed
<1>3. Dense'
  <2> SUFFICES ASSUME ~swept, ~deleting, NEW d \in Emitters, emitter'[d].at = "insert"
               PROVE  emitter'[d].seq <= Cardinality(DOMAIN log) + 1
    BY DEF CursorInv, Dense, Count, observed, At
  <2>1. CASE d = e
    BY <1>1, <2>1
  <2>2. CASE d # e
    <3>1. emitter'[d] = emitter[d]
      BY <1>1, <2>2 DEF EmitterOK
    <3> QED
      BY <3>1 DEF CursorInv, Dense, At
  <2> QED
    BY <2>1, <2>2
<1>4. CursorsInLog' /\ NothingSkipped'
  BY DEF CursorInv, CursorsInLog, NothingSkipped, Count, observed
<1> QED
  BY <1>2, <1>3, <1>4 DEF CursorInv

\* A free number that is at most one beyond the log is the next one, and it
\* is beyond every cursor.
LEMMA InsertCursors ==
    ASSUME CursorInv, NEW e \in Emitters, Insert(e)
    PROVE  CursorInv'
<1> EmitterOK /\ LogOK /\ StreamOK /\ RestOK
  BY TypeParts DEF CursorInv
<1> DEFINE seq == emitter[e].seq
           n == Cardinality(DOMAIN log)
<1>1. /\ EmitterOK' /\ LogOK' /\ RestOK'
      /\ IF seq \in DOMAIN log
         THEN log' = log
         ELSE /\ DOMAIN log' = DOMAIN log \cup {seq}
              /\ \A s \in DOMAIN log : log'[s] = log[s]
              /\ Cardinality(DOMAIN log') = n + 1
  BY InsertTyped
<1>2. TypeOK'
  BY <1>1, TypePartsNext DEF Insert, StreamOK
<1>3. NoNewNumber
  <2>1. PICK x \in {"none", "notify"} : Appends(e, x, 0)
    BY DEF Insert
  <2>2. emitter' = [emitter EXCEPT ![e] = emitter'[e]] /\ emitter'[e].at = x
    BY <2>1, AppendsTyped DEF Ats
  <2> QED
    BY <2>1, <2>2 DEF NoNewNumber, EmitterOK
<1>4. CASE seq \in DOMAIN log
  BY <1>1, <1>2, <1>3, <1>4, UntouchedCursors DEF Insert, LogUntouched
<1>5. CASE seq \notin DOMAIN log
  <2>1. n \in Nat /\ seq \in Nat \ {0}
    BY FS_CardinalityType DEF LogOK, EmitterOK, EmitterType, Insert, At
  <2>2. swept' = swept /\ deleting' = deleting /\ reader' = reader /\ sent' = sent
    BY DEF Insert
  <2>3. CASE ~swept /\ ~deleting
    <3>1. DOMAIN log = 1..n /\ seq <= n + 1
      BY <2>3 DEF CursorInv, Dense, Insert, At
    <3>2. seq = n + 1
      BY <1>5, <2>1, <3>1
    <3>3. DOMAIN log' = 1..(n + 1) /\ Cardinality(DOMAIN log') = n + 1
      BY <1>1, <1>5, <2>1, <3>1, <3>2
    <3>4. Dense'
      <4> SUFFICES ASSUME NEW d \in Emitters, emitter'[d].at = "insert"
                   PROVE  emitter'[d].seq <= (n + 1) + 1
        BY <3>3 DEF Dense, At
      <4>1. emitter'[d].seq = emitter[d].seq /\ emitter[d].at = "insert"
        BY <1>3 DEF NoNewNumber
      <4>2. emitter[d].seq <= n + 1 /\ emitter[d].seq \in Nat
        BY <2>3, <4>1 DEF CursorInv, Dense, At, EmitterOK, EmitterType
      <4> QED
        BY <2>1, <4>1, <4>2
    <3>5. ASSUME NEW r \in Readers PROVE reader[r].cursor \in Nat /\ reader[r].cursor <= n
      BY <2>3 DEF CursorInv, CursorsInLog, StreamOK, ReaderType
    <3>6. CursorsInLog'
      BY <2>1, <2>2, <3>3, <3>5 DEF CursorsInLog
    <3>7. NothingSkipped'
      <4> SUFFICES ASSUME NEW r \in Readers, NEW s \in DOMAIN log', s <= reader[r].cursor
                   PROVE  log'[s] \in sent[r]
        BY <2>2 DEF NothingSkipped
      <4>1. s \in DOMAIN log
        BY <2>1, <3>1, <3>3, <3>5
      <4> QED
        BY <1>1, <1>5, <2>3, <4>1 DEF CursorInv, NothingSkipped
    <3> QED
      BY <1>2, <3>4, <3>6, <3>7 DEF CursorInv
  <2>4. CASE swept \/ deleting
    BY <1>2, <2>2, <2>4 DEF CursorInv, Dense, CursorsInLog, NothingSkipped
  <2> QED
    BY <2>3, <2>4
<1> QED
  BY <1>4, <1>5

LEMMA EmitCursors ==
    ASSUME CursorInv, NEW e \in Emitters, EmitStep(e)
    PROVE  CursorInv'
<1> EmitterOK /\ LogOK /\ StreamOK /\ RestOK
  BY TypeParts DEF CursorInv
<1>1. ASSUME Appends(e, "none", 0)
      PROVE  EmitterOK' /\ NoNewNumber
  <2>1. EmitterOK' /\ emitter' = [emitter EXCEPT ![e] = emitter'[e]] /\ emitter'[e].at = "none"
    BY <1>1, AppendsTyped DEF Ats
  <2> QED
    BY <2>1 DEF NoNewNumber, EmitterOK
<1>2. CASE Notify(e)
  <2>1. EmitterOK' /\ NoNewNumber
    BY <1>1, <1>2 DEF Notify
  <2>2. StreamOK' /\ \A r \in Readers : reader'[r].cursor = reader[r].cursor
    BY <1>2, NotifyTyped
  <2>3. TypeOK'
    BY <1>2, <2>1, <2>2, TypePartsNext DEF Notify, LogOK, RestOK, worker, observed
  <2>4. Dense'
    BY <1>2, <2>1 DEF CursorInv, Dense, NoNewNumber, Notify, observed, At
  <2>5. CursorsInLog' /\ NothingSkipped'
    BY <1>2, <2>2 DEF CursorInv, CursorsInLog, NothingSkipped, Notify, observed
  <2> QED
    BY <2>3, <2>4, <2>5 DEF CursorInv
<1>3. CASE EmitRaises(e)
  <2>1. EmitterOK' /\ NoNewNumber
    BY <1>1, <1>3 DEF EmitRaises
  <2>2. RestOK'
    BY <1>3, EventLogAssumption DEF EmitRaises, Fault, RestOK
  <2>5. TypeOK'
    BY <1>3, <2>1, <2>2, TypePartsNext DEF EmitRaises, LogOK, StreamOK
  <2> QED
    BY <1>3, <2>1, <2>5, UntouchedCursors DEF EmitRaises, LogUntouched, observed
<1> QED
  BY <1>2, <1>3, CountCursors, InsertCursors DEF EmitStep

(* The writers that append nothing.                                        *)
LEMMA WriterCursors ==
    ASSUME CursorInv, EndElsewhere \/ DeleteEvents \/ DeleteRow \/ SweepOldEvents
    PROVE  CursorInv'
<1> EmitterOK /\ LogOK /\ StreamOK /\ RestOK
  BY TypeParts DEF CursorInv
<1>1. CASE EndElsewhere
  <2>1. TypeOK'
    BY <1>1, TypePartsNext
       DEF EndElsewhere, EmitterOK, LogOK, StreamOK, RestOK, worker, observed, Terminal
  <2> QED
    BY <1>1, <2>1, UntouchedCursors
       DEF EndElsewhere, NoNewNumber, LogUntouched, observed
<1>2. CASE DeleteRow
  <2>1. TypeOK'
    BY <1>2, TypePartsNext
       DEF DeleteRow, EmitterOK, LogOK, StreamOK, RestOK, worker, observed
  <2> QED
    BY <1>2, <2>1, UntouchedCursors DEF DeleteRow, NoNewNumber, LogUntouched, observed
<1>3. CASE DeleteEvents
  <2>1. DOMAIN log' = {}
    BY <1>3 DEF DeleteEvents
  <2>2. LogOK'
    BY <2>1, FS_EmptySet DEF LogOK
  <2>3. TypeOK'
    BY <1>3, <2>2, TypePartsNext
       DEF DeleteEvents, EmitterOK, StreamOK, RestOK, worker, observed
  <2> QED
    BY <1>3, <2>3 DEF DeleteEvents, CursorInv, Dense, CursorsInLog, NothingSkipped
<1>4. CASE SweepOldEvents
  <2>1. PICK last \in 1..(IF status = "waiting_approval" THEN leg - 1 ELSE leg) :
          log' = Restrict(log, {s \in DOMAIN log : log[s].leg > last})
    BY <1>4 DEF SweepOldEvents
  <2>2. /\ DOMAIN log' = {s \in DOMAIN log : log[s].leg > last}
        /\ \A s \in DOMAIN log' : log'[s] = log[s]
    BY <2>1 DEF Restrict
  <2>3. IsFiniteSet(DOMAIN log')
    BY <2>2, FS_Subset DEF LogOK
  <2>4. LogOK'
    BY <2>2, <2>3 DEF LogOK
  <2>5. TypeOK'
    BY <1>4, <2>4, TypePartsNext
       DEF SweepOldEvents, EmitterOK, StreamOK, RestOK, worker
  <2> QED
    BY <1>4, <2>5 DEF SweepOldEvents, CursorInv, Dense, CursorsInLog, NothingSkipped
<1> QED
  BY <1>1, <1>2, <1>3, <1>4

(* The handlers.  A batch is a prefix of what lies beyond the cursor, so    *)
(* what is at or below the new cursor was received now or before.          *)
LEMMA ReceiveCursors ==
    ASSUME CursorInv, NEW r \in Readers, NEW to \in ReaderPcs,
           NEW s \in Batch(r) \cup {reader[r].cursor}, Receive(r, s, to),
           UNCHANGED <<status, worker, emitter, log, deleting, observed>>
    PROVE  CursorInv'
<1> EmitterOK /\ LogOK /\ StreamOK /\ RestOK
  BY TypeParts DEF CursorInv
<1>1. /\ StreamOK'
      /\ reader'[r].cursor = s
      /\ \A q \in Readers \ {r} : reader'[q] = reader[q] /\ sent'[q] = sent[q]
      /\ sent'[r] = sent[r] \cup {log[t] : t \in {u \in Batch(r) : u <= s}}
  BY ReceiveTyped
<1>2. TypeOK'
  BY <1>1, TypePartsNext DEF EmitterOK, LogOK, RestOK, worker, observed
<1>3. Dense'
  BY DEF CursorInv, Dense, observed, At
<1>4. Batch(r) \subseteq DOMAIN log
  BY DEF Batch, ListSince
<1>5. CursorsInLog'
  <2> SUFFICES ASSUME ~swept, ~deleting, NEW q \in Readers
               PROVE  reader'[q].cursor <= Cardinality(DOMAIN log)
    BY DEF CursorsInLog, observed
  <2>1. DOMAIN log = 1..Cardinality(DOMAIN log)
    BY DEF CursorInv, Dense
  <2>2. reader[q].cursor <= Cardinality(DOMAIN log)
    BY DEF CursorInv, CursorsInLog
  <2>3. CASE q # r
    BY <1>1, <2>2, <2>3
  <2>4. CASE q = r /\ s \in Batch(r)
    <3>1. Cardinality(DOMAIN log) \in Nat
      BY FS_CardinalityType DEF LogOK
    <3>2. s \in 1..Cardinality(DOMAIN log)
      BY <1>4, <2>1, <2>4
    <3> QED
      BY <1>1, <2>4, <3>1, <3>2
  <2>5. CASE q = r /\ s = reader[r].cursor
    BY <1>1, <2>2, <2>5
  <2> QED
    BY <2>3, <2>4, <2>5
<1>6. NothingSkipped'
  <2> SUFFICES ASSUME ~swept, ~deleting, NEW q \in Readers, NEW t \in DOMAIN log,
                      t <= reader'[q].cursor
               PROVE  log[t] \in sent'[q]
    BY DEF NothingSkipped, observed
  <2>1. \A x \in DOMAIN log : x <= reader[q].cursor => log[x] \in sent[q]
    BY DEF CursorInv, NothingSkipped
  <2>2. CASE q # r
    BY <1>1, <2>1, <2>2
  <2>3. CASE q = r /\ t <= reader[r].cursor
    BY <1>1, <2>1, <2>3
  <2>4. CASE q = r /\ ~(t <= reader[r].cursor)
    <3>1. reader[r].cursor \in Nat /\ DOMAIN log \subseteq Nat
      BY DEF StreamOK, ReaderType, LogOK
    <3>2. t \in ListSince(r) /\ t <= s
      BY <1>1, <2>4, <3>1 DEF ListSince
    <3>3. s \in Batch(r) /\ s \in Nat /\ t \in Nat
      BY <1>1, <1>4, <2>4, <3>1
    <3>4. t \in Batch(r)
      <4> SUFFICES ASSUME NEW u \in ListSince(r), u < t PROVE ~IsTerminalEvent(log[u])
        BY <3>2 DEF Batch
      <4>1. u \in Nat /\ u < s
        BY <3>1, <3>2, <3>3 DEF ListSince
      <4> QED
        BY <3>3, <4>1 DEF Batch
    <3> QED
      BY <1>1, <2>4, <3>2, <3>4
  <2> QED
    BY <2>2, <2>3, <2>4
<1> QED
  BY <1>2, <1>3, <1>5, <1>6 DEF CursorInv

\* A handler's step that sends nothing.
LEMMA QuietCursors ==
    ASSUME CursorInv, NEW r \in Readers, NEW v \in ReaderType, v.cursor = reader[r].cursor,
           reader' = [reader EXCEPT ![r] = v],
           UNCHANGED <<status, worker, emitter, log, deleting, sent, observed>>
    PROVE  CursorInv'
<1> EmitterOK /\ LogOK /\ StreamOK /\ RestOK
  BY TypeParts DEF CursorInv
<1>4. StreamOK' /\ \A q \in Readers : reader'[q].cursor = reader[q].cursor
  BY DEF StreamOK
<1>5. TypeOK'
  BY <1>4, TypePartsNext DEF EmitterOK, LogOK, RestOK, worker, observed
<1>6. Dense' /\ CursorsInLog' /\ NothingSkipped'
  BY <1>4 DEF CursorInv, Dense, CursorsInLog, NothingSkipped, observed, At
<1> QED
  BY <1>5, <1>6 DEF CursorInv

\* Connecting with the cursor reached so far, or with none.
LEMMA ConnectCursors ==
    ASSUME CursorInv, NEW r \in Readers, Connect(r)
    PROVE  CursorInv'
<1> EmitterOK /\ LogOK /\ StreamOK /\ RestOK
  BY TypeParts DEF CursorInv
<1>1. PICK after \in {0, reader[r].cursor} :
        /\ reader' = [reader EXCEPT ![r] = [pc |-> "accepted", snap |-> status,
                                            cursor |-> after, notified |-> FALSE]]
        /\ sent' = [sent EXCEPT ![r] = IF after = 0 THEN {} ELSE @]
  BY DEF Connect
<1>2. reader[r].cursor \in Nat /\ after \in Nat
  BY DEF StreamOK, ReaderType
<1>3. /\ StreamOK'
      /\ reader'[r].cursor = after
      /\ sent'[r] = sent[r] \/ after = 0
      /\ \A q \in Readers \ {r} : reader'[q] = reader[q] /\ sent'[q] = sent[q]
  BY <1>1, <1>2 DEF StreamOK, ReaderType, RestOK, Connect, Terminal
<1>4. TypeOK'
  BY <1>3, TypePartsNext DEF Connect, EmitterOK, LogOK, RestOK, worker, observed
<1>5. Dense'
  BY DEF CursorInv, Dense, Connect, observed, At
<1>6. \A q \in Readers : reader'[q].cursor \in {0, reader[q].cursor}
  BY <1>3
<1>7. CursorsInLog'
  <2>1. Cardinality(DOMAIN log) \in Nat
    BY FS_CardinalityType DEF LogOK
  <2> QED
    BY <1>6, <2>1 DEF CursorInv, CursorsInLog, Connect, observed
<1>8. NothingSkipped'
  <2> SUFFICES ASSUME ~swept, ~deleting, NEW q \in Readers, NEW s \in DOMAIN log,
                      s <= reader'[q].cursor
               PROVE  log[s] \in sent'[q]
    BY DEF NothingSkipped, Connect, observed
  <2>1. s \in Nat \ {0}
    BY DEF LogOK
  <2>2. reader'[q].cursor = reader[q].cursor /\ sent'[q] = sent[q]
    BY <1>1, <1>2, <1>3, <2>1
  <2> QED
    BY <2>2 DEF CursorInv, NothingSkipped
<1> QED
  BY <1>4, <1>5, <1>7, <1>8 DEF CursorInv

LEMMA HandlerCursors ==
    ASSUME CursorInv, NEW r \in Readers, HandlerStep(r) \/ Disconnect(r)
    PROVE  CursorInv'
<1>0. reader[r] \in ReaderType
  BY TypeParts DEF CursorInv, StreamOK
<1>1. CASE SendSnapshot(r)
  <2> DEFINE to == IF reader[r].snap \in Terminal THEN "closed" ELSE "replay"
             u == [reader[r] EXCEPT !.pc = to]
             v == [u EXCEPT !.snap = "running"]
  <2>1. to \in ReaderPcs
    BY DEF ReaderPcs
  <2>2. reader' = [reader EXCEPT ![r] = v]
    BY <1>1 DEF SendSnapshot
  <2> HIDE DEF to
  <2>3. u \in ReaderType /\ u.cursor = reader[r].cursor
    BY <1>0, <2>1, ReaderFields
  <2> HIDE DEF u
  <2>4. v \in ReaderType /\ v.cursor = reader[r].cursor
    BY <2>3, ReaderFields DEF Snaps
  <2> HIDE DEF v
  <2> QED
    BY <1>1, <2>2, <2>4, QuietCursors DEF SendSnapshot
<1>2. CASE AddListener(r)
  <2> DEFINE v == [reader[r] EXCEPT !.pc = "live"]
  <2>1. v \in ReaderType /\ v.cursor = reader[r].cursor
    BY <1>0, ReaderFields DEF ReaderPcs
  <2>2. reader' = [reader EXCEPT ![r] = v]
    BY <1>2 DEF AddListener
  <2> HIDE DEF v
  <2> QED
    BY <1>2, <2>1, <2>2, QuietCursors DEF AddListener
<1>3. ASSUME NEW goOn \in {"listen", "live"}, Deliver(r, goOn)
      PROVE  CursorInv'
  <2>1. PICK s \in Batch(r) \cup {reader[r].cursor}, to \in ReaderPcs : Receive(r, s, to)
    BY <1>3 DEF Deliver, ReaderPcs
  <2> QED
    BY <1>3, <2>1, ReceiveCursors DEF Deliver
<1>4. CASE Disconnect(r)
  <2>1. PICK s \in Batch(r) \cup {reader[r].cursor} : Receive(r, s, "off")
    BY <1>4 DEF Disconnect
  <2> QED
    BY <1>4, <2>1, ReceiveCursors DEF Disconnect, ReaderPcs
<1> QED
  BY <1>1, <1>2, <1>3, <1>4 DEF HandlerStep, Replay, WakeUp, KeepalivePoll

\* Every step of the system.
LEMMA NextCursors == CursorInv /\ [Next]_vars => CursorInv'
<1> SUFFICES ASSUME CursorInv, [Next]_vars PROVE CursorInv'
  OBVIOUS
<1>1. CASE GraphStep
  BY <1>1, GraphTyped, UntouchedCursors DEF CursorInv
<1>2. CASE UNCHANGED vars
  <2>1. TypeOK'
    BY <1>2 DEF CursorInv, TypeOK, vars, worker, observed
  <2> QED
    BY <1>2, <2>1, UntouchedCursors DEF NoNewNumber, LogUntouched, vars, observed
<1> QED
  BY <1>1, <1>2, EmitCursors, WriterCursors, ConnectCursors, HandlerCursors
     DEF Next, WorkerStep, GraphStep

\* Whatever the interleaving of appends, deletions, sweeps and handlers, the
\* row, the log and every handler stay within the values the code gives them.
THEOREM EventTypesCorrect == Spec => []TypeOK
<1>1. CursorInv => TypeOK
  BY DEF CursorInv
<1> QED
  BY <1>1, InitCursors, NextCursors, PTL DEF Spec

\* For any workflow shape, any concurrency within a superstep, any number of
\* resumes and clients: replaying events_ws.py's log from the cursor a client
\* has reached misses nothing that append persisted, as long as no event of
\* the execution has been removed.
THEOREM CursorSkipsNothing == Spec => []NothingSkipped
<1>1. CursorInv => NothingSkipped
  BY DEF CursorInv
<1> QED
  BY <1>1, InitCursors, NextCursors, PTL DEF Spec


---------------------------------------------------------------------------
(* ExecutorEventsKept.  The executor and the nodes of a superstep take     *)
(* turns: a node appends only while the executor of the current leg waits  *)
(* for the superstep, and the executor of an earlier leg has announced its *)
(* pause, unless a resume overtook it.  So between the count and the       *)
(* insert of an executor nobody else inserts.                              *)
NodesTakeTurns == \A n \in Nodes : ~Idle(n) => Stepping /\ n \in Current
StartedInStep == \A n \in Nodes : Phase(n) = "node_started" => n \in Current
PausedIsBetween == status = "waiting_approval" => Phase(leg) \notin {"claimed", "workflow_started"}
EarlierAnnounced ==
    ~hurried => \A k \in Executors : k # leg => Idle(k) /\ Phase(k) # "notifying"
CountIsFresh ==
    ~swept /\ ~deleting /\ ~hurried /\ At(leg, "insert")
      => emitter[leg].seq = Cardinality(DOMAIN log) + 1
OneWriter ==
    NodesTakeTurns /\ StartedInStep /\ PausedIsBetween /\ EarlierAnnounced /\ CountIsFresh

KeptInv == CursorInv /\ OneWriter /\ ExecutorEventsKept

\* Once the insert of a cancelled node may still land, nobody's turn is claimed.
KeptOrStray == CursorInv /\ (stray \/ KeptInv)

LEMMA InitKept == Init => KeptInv
<1> SUFFICES ASSUME Init PROVE OneWriter /\ ExecutorEventsKept
  BY InitCursors DEF KeptInv
<1>1. 1 \in Executors /\ Executors \subseteq Emitters /\ Nodes \subseteq Emitters
  BY EventLogAssumption DEF Emitters, Executors
<1>2. \A e \in Emitters : /\ emitter[e].at = "none"
                          /\ emitter[e].phase = IF e = 1 THEN "claimed" ELSE "queued"
  BY DEF Init
<1>3. leg = 1 /\ status = "running" /\ lost = {}
  BY DEF Init
<1>4. NodesTakeTurns /\ StartedInStep
  BY <1>1, <1>2 DEF NodesTakeTurns, StartedInStep, Idle, At, Phase
<1>5. PausedIsBetween /\ EarlierAnnounced /\ CountIsFresh
  BY <1>1, <1>2, <1>3 DEF PausedIsBetween, EarlierAnnounced, CountIsFresh, Idle, At, Phase
<1> QED
  BY <1>3, <1>4, <1>5 DEF OneWriter, ExecutorEventsKept

\* What becomes of the emitters when one of them begins an append, moves one
\* on or only changes its phase.
LEMMA OneEmitterMoves ==
    ASSUME EmitterOK, NEW e \in Emitters
    PROVE  /\ \A p : Emits(e, p) =>
                /\ emitter'[e].phase = p /\ emitter'[e].at = "count"
                /\ \A d \in Emitters \ {e} : emitter'[d] = emitter[d]
           /\ \A where, seq : Appends(e, where, seq) =>
                /\ emitter'[e].phase = emitter[e].phase
                /\ emitter'[e].at = where /\ emitter'[e].seq = seq
                /\ \A d \in Emitters \ {e} : emitter'[d] = emitter[d]
           /\ \A p : emitter' = [emitter EXCEPT ![e].phase = p] =>
                /\ emitter'[e].phase = p
                /\ emitter'[e].at = emitter[e].at /\ emitter'[e].seq = emitter[e].seq
                /\ \A d \in Emitters \ {e} : emitter'[d] = emitter[d]
<1>1. emitter[e] \in EmitterType /\ DOMAIN emitter = Emitters
  BY DEF EmitterOK
<1>2. ASSUME NEW p, Emits(e, p)
      PROVE  /\ emitter'[e].phase = p /\ emitter'[e].at = "count"
             /\ \A d \in Emitters \ {e} : emitter'[d] = emitter[d]
  BY <1>1, <1>2 DEF Emits, Emitting
<1>3. ASSUME NEW where, NEW seq, Appends(e, where, seq)
      PROVE  /\ emitter'[e].phase = emitter[e].phase
             /\ emitter'[e].at = where /\ emitter'[e].seq = seq
             /\ \A d \in Emitters \ {e} : emitter'[d] = emitter[d]
  BY <1>1, <1>3 DEF Appends, Phase
<1>4. ASSUME NEW p, emitter' = [emitter EXCEPT ![e].phase = p]
      PROVE  /\ emitter'[e].phase = p
             /\ emitter'[e].at = emitter[e].at /\ emitter'[e].seq = emitter[e].seq
             /\ \A d \in Emitters \ {e} : emitter'[d] = emitter[d]
  BY <1>1, <1>4 DEF EmitterType
<1> QED
  BY <1>2, <1>3, <1>4

\* A step after which every emitter is where it was and the log holds what it
\* held, if it counts at all.
LEMMA QuietKept ==
    ASSUME OneWriter, ExecutorEventsKept,
           UNCHANGED <<leg, step, emitter, lost, hurried, stray>>,
           status' = "waiting_approval" => status = "waiting_approval",
           (~swept /\ ~deleting)' => ~swept /\ ~deleting /\ DOMAIN log' = DOMAIN log
    PROVE  OneWriter' /\ ExecutorEventsKept'
<1>1. NodesTakeTurns' /\ StartedInStep' /\ PausedIsBetween' /\ EarlierAnnounced'
  BY DEF OneWriter, NodesTakeTurns, StartedInStep, PausedIsBetween, EarlierAnnounced,
         Idle, At, Phase, Stepping, Current
<1>2. CountIsFresh'
  BY DEF OneWriter, CountIsFresh, At
<1>3. ExecutorEventsKept'
  BY DEF ExecutorEventsKept
<1> QED
  BY <1>1, <1>2, <1>3 DEF OneWriter

(* The appends themselves.                                                 *)
LEMMA EmitKept ==
    ASSUME KeptInv, NEW e \in Emitters, EmitStep(e)
    PROVE  OneWriter' /\ ExecutorEventsKept'
<1> EmitterOK /\ LogOK /\ RestOK
  BY TypeParts DEF KeptInv, CursorInv
<1> USE DEF Idle, At, Phase
<1>0. leg \in Emitters /\ leg \in Executors /\ Nodes \subseteq Emitters /\ Executors \subseteq Emitters
  BY DEF Emitters, Executors, RestOK
<1>1. PICK where, seq : Appends(e, where, seq)
  BY DEF EmitStep, Count, Insert, Notify, EmitRaises
<1>2. /\ emitter'[e].phase = emitter[e].phase
      /\ emitter'[e].at = where /\ emitter'[e].seq = seq
      /\ \A d \in Emitters \ {e} : emitter'[d] = emitter[d]
  BY <1>1, OneEmitterMoves
<1>3. emitter[e].at # "none"
  BY DEF EmitStep, Count, Insert, Notify, EmitRaises
<1>4. UNCHANGED <<status, leg, step, asked, deleting, hurried, swept, stray>>
  BY DEF EmitStep, Count, Insert, Notify, EmitRaises, worker, observed
<1>5. e # leg \/ \A n \in Nodes : emitter[n].at = "none"
  BY <1>3 DEF KeptInv, OneWriter, NodesTakeTurns, Stepping
<1>6. \A n \in Nodes : n \notin Executors
  BY EventLogAssumption DEF Executors
<1>7. NodesTakeTurns'
  <2> SUFFICES ASSUME NEW n \in Nodes, emitter'[n].at # "none"
               PROVE  Stepping' /\ n \in Current'
    BY DEF NodesTakeTurns
  <2>1. emitter[n].at # "none"
    BY <1>0, <1>2, <1>3
  <2>2. Stepping /\ n \in Current /\ e # leg
    BY <1>5, <2>1 DEF KeptInv, OneWriter, NodesTakeTurns
  <2>3. emitter'[leg] = emitter[leg]
    BY <1>0, <1>2, <2>2
  <2> QED
    BY <1>4, <2>2, <2>3 DEF Stepping, Current
<1>8. \A d \in Emitters : emitter'[d].phase = emitter[d].phase
  BY <1>2
<1>9. StartedInStep' /\ PausedIsBetween'
  BY <1>0, <1>4, <1>8 DEF KeptInv, OneWriter, StartedInStep, PausedIsBetween, Current
<1>10. EarlierAnnounced'
  BY <1>0, <1>2, <1>3, <1>4, <1>8 DEF KeptInv, OneWriter, EarlierAnnounced
<1>11. ASSUME ~hurried, e \notin Nodes PROVE e = leg
  BY <1>3, <1>11 DEF KeptInv, OneWriter, EarlierAnnounced, Emitters
<1>12. ASSUME ~hurried, ~Insert(e), log' = log, lost' = lost
       PROVE  CountIsFresh' /\ ExecutorEventsKept'
  <2>1. ExecutorEventsKept'
    BY <1>4, <1>12 DEF KeptInv, ExecutorEventsKept
  <2>2. CASE e # leg
    <3>1. emitter'[leg] = emitter[leg]
      BY <1>0, <1>2, <2>2
    <3> QED
      BY <1>4, <1>12, <2>1, <3>1 DEF KeptInv, OneWriter, CountIsFresh
  <2>3. CASE e = leg /\ Count(e)
    <3>1. emitter'[e].seq = Cardinality(DOMAIN log) + 1
      BY <2>3, CountTyped
    <3> QED
      BY <1>4, <1>12, <2>1, <2>3, <3>1 DEF CountIsFresh
  <2>4. CASE e = leg /\ ~Count(e)
    <3>1. Appends(e, "none", 0)
      BY <1>12, <2>4 DEF EmitStep, Notify, EmitRaises
    <3>2. emitter'[e].at = "none"
      BY <3>1, OneEmitterMoves
    <3> QED
      BY <1>4, <2>1, <2>4, <3>2 DEF CountIsFresh
  <2> QED
    BY <2>2, <2>3, <2>4
<1>13. ASSUME ~hurried, Insert(e)
       PROVE  CountIsFresh' /\ ExecutorEventsKept'
  <2>1. emitter'[leg].at # "insert"
    <3>1. CASE e = leg
      <4>1. Appends(e, "none", 0) \/ Appends(e, "notify", 0)
        BY <1>13 DEF Insert
      <4> QED
        BY <3>1, <4>1, OneEmitterMoves
    <3>2. CASE e # leg
      <4>1. e \in Nodes
        BY <1>11, <1>13, <3>2
      <4>2. emitter[leg].at = "none"
        BY <1>3, <4>1 DEF KeptInv, OneWriter, NodesTakeTurns, Stepping
      <4> QED
        BY <1>0, <1>2, <3>2, <4>2
    <3> QED
      BY <3>1, <3>2
  <2>2. CountIsFresh'
    BY <1>4, <2>1 DEF CountIsFresh
  <2>3. ExecutorEventsKept'
    <3> SUFFICES ASSUME ~swept, ~deleting, ~stray, NEW ev \in lost' PROVE ev.of \in Nodes
      BY <1>4 DEF ExecutorEventsKept
    <3>1. CASE ev \in lost
      BY <1>13, <3>1 DEF KeptInv, ExecutorEventsKept
    <3>2. CASE ev \notin lost
      <4>1. emitter[e].seq \in DOMAIN log /\ ev = Event(e)
        BY <1>13, <3>2 DEF Insert
      <4>2. ev.of = e
        BY <4>1 DEF Event
      <4>3. e # leg
        <5> SUFFICES ASSUME e = leg PROVE FALSE
          OBVIOUS
        <5>1. emitter[e].seq = Cardinality(DOMAIN log) + 1
          BY <1>13 DEF KeptInv, OneWriter, CountIsFresh, Insert
        <5>2. Cardinality(DOMAIN log) \in Nat /\ DOMAIN log = 1..Cardinality(DOMAIN log)
          BY FS_CardinalityType DEF LogOK, KeptInv, CursorInv, Dense
        <5> QED
          BY <4>1, <5>1, <5>2
      <4> QED
        BY <1>11, <1>13, <4>2, <4>3
    <3> QED
      BY <3>1, <3>2
  <2> QED
    BY <2>2, <2>3
<1>14. hurried => CountIsFresh' /\ ExecutorEventsKept'
  BY <1>4 DEF CountIsFresh, ExecutorEventsKept
<1>15. ~Insert(e) => log' = log /\ lost' = lost
  BY DEF EmitStep, Count, Notify, EmitRaises, observed
<1> QED
  BY <1>7, <1>9, <1>10, <1>12, <1>13, <1>14, <1>15 DEF OneWriter

(* The graph: what a step other than an append does to the turns.          *)
LEMMA GraphKept ==
    ASSUME KeptInv, GraphStep, ~Resume, ~stray, ~stray'
    PROVE  OneWriter' /\ ExecutorEventsKept'
<1> EmitterOK /\ LogOK /\ RestOK
  BY TypeParts DEF KeptInv, CursorInv
<1> USE DEF Idle, At, Phase
<1>0. leg \in Emitters /\ leg \in Executors /\ Nodes \subseteq Emitters /\ Executors \subseteq Emitters
  BY DEF Emitters, Executors, RestOK
<1>1. \A n \in Nodes : n \notin Executors
  BY EventLogAssumption DEF Executors
<1>2. NodesTakeTurns /\ StartedInStep /\ PausedIsBetween /\ EarlierAnnounced /\ CountIsFresh
  BY DEF KeptInv, OneWriter
<1>3. NoNewNumber /\ LogUntouched
  BY GraphTyped DEF KeptInv, CursorInv
<1>4. UNCHANGED <<leg, lost, hurried>>
  BY DEF GraphStep, BeginLeg, NextStep, MarkCompleted, MarkWaitingApproval, MarkFailed, StartNode,
         NodeInterrupts, NodeEnds, NotifyApprover, NotifyRaises, WorkerDies, worker, observed
<1>5. ExecutorEventsKept' /\ CountIsFresh'
  BY <1>0, <1>2, <1>3, <1>4
     DEF KeptInv, ExecutorEventsKept, CountIsFresh, NoNewNumber, LogUntouched
<1> SUFFICES NodesTakeTurns' /\ StartedInStep' /\ PausedIsBetween' /\ EarlierAnnounced'
  BY <1>5 DEF OneWriter
<1> USE DEF NodesTakeTurns, StartedInStep, PausedIsBetween, EarlierAnnounced, Stepping, Current
<1>6. CASE BeginLeg
  <2>1. /\ emitter'[leg].phase \in {"over", "workflow_started"}
        /\ status' = "waiting_approval" => emitter'[leg].phase = "over"
        /\ \A d \in Emitters \ {leg} : emitter'[d] = emitter[d]
    <3>1. status' # "waiting_approval"
      BY <1>2, <1>6 DEF BeginLeg
    <3>2. CASE status = "deleted"
      <4>1. emitter' = [emitter EXCEPT ![leg].phase = "over"]
        BY <1>6, <3>2 DEF BeginLeg
      <4> QED
        BY <1>0, <3>1, <4>1, OneEmitterMoves
    <3>3. CASE status # "deleted"
      <4>1. Emits(leg, "workflow_started")
        BY <1>6, <3>3 DEF BeginLeg
      <4> QED
        BY <1>0, <3>1, <4>1, OneEmitterMoves
    <3> QED
      BY <3>2, <3>3
  <2> QED
    BY <1>0, <1>1, <1>2, <1>4, <1>6, <2>1 DEF BeginLeg, worker
<1>7. CASE NextStep
  BY <1>0, <1>2, <1>4, <1>7 DEF NextStep, StepOver
<1>8. CASE MarkCompleted
  <2>1. /\ emitter'[leg].phase = "workflow_completed"
        /\ \A d \in Emitters \ {leg} : emitter'[d] = emitter[d]
    BY <1>0, <1>8, OneEmitterMoves DEF MarkCompleted
  <2> QED
    BY <1>0, <1>1, <1>2, <1>4, <1>8, <2>1 DEF MarkCompleted, StepOver, worker
<1>9. CASE MarkWaitingApproval
  <2>1. /\ emitter'[leg].phase = "notifying"
        /\ \A d \in Emitters \ {leg} : emitter'[d] = emitter[d]
    BY <1>0, <1>9, OneEmitterMoves DEF MarkWaitingApproval
  <2> QED
    BY <1>0, <1>1, <1>2, <1>4, <1>9, <2>1 DEF MarkWaitingApproval, StepOver, worker
<1>10. CASE MarkFailed
  <2>0. PICK left \in SUBSET {n \in Nodes : At(n, "insert")} :
          /\ emitter' = [e \in Emitters |-> IF e = leg THEN Emitting("workflow_completed")
                                            ELSE IF e \in Nodes \ left THEN Still(e)
                                            ELSE emitter[e]]
          /\ stray' = (stray \/ left # {})
    BY <1>10 DEF MarkFailed
  <2>1. ASSUME NEW e \in Emitters
        PROVE  /\ e = leg => emitter'[e].phase = "workflow_completed"
               /\ e # leg => emitter'[e].phase = emitter[e].phase
               /\ e # leg /\ e \in Nodes => emitter'[e].at = "none"
               /\ e # leg /\ e \notin Nodes => emitter'[e] = emitter[e]
    BY <2>0 DEF Still, Emitting
  <2> QED
    BY <1>0, <1>1, <1>2, <1>4, <1>10, <2>1 DEF MarkFailed, worker
<1>11. ASSUME NEW n \in Nodes, StartNode(n) \/ NodeInterrupts(n) \/ NodeEnds(n)
       PROVE  NodesTakeTurns' /\ StartedInStep' /\ PausedIsBetween' /\ EarlierAnnounced'
  <2>1. \A d \in Emitters \ {n} : emitter'[d] = emitter[d]
    <3>1. PICK p : Emits(n, p) \/ emitter' = [emitter EXCEPT ![n].phase = p]
      BY <1>11 DEF StartNode, NodeInterrupts, NodeEnds
    <3> QED
      BY <1>0, <3>1, OneEmitterMoves
  <2>2. Stepping /\ n \in Current /\ status' = status /\ step' = step
    BY <1>2, <1>11 DEF StartNode, NodeInterrupts, NodeEnds, worker
  <2>3. emitter'[leg] = emitter[leg]
    BY <1>0, <1>1, <2>1
  <2> QED
    BY <1>0, <1>1, <1>2, <1>4, <2>1, <2>2, <2>3
<1>12. ASSUME NEW k \in Executors, NotifyApprover(k) \/ NotifyRaises(k)
       PROVE  NodesTakeTurns' /\ StartedInStep' /\ PausedIsBetween' /\ EarlierAnnounced'
  <2>1. PICK p \in {"approval_required", "workflow_completed"} : Emits(k, p)
    BY <1>12 DEF NotifyApprover, NotifyRaises
  <2>2. /\ emitter'[k].phase = p
        /\ \A d \in Emitters \ {k} : emitter'[d] = emitter[d]
    BY <1>0, <2>1, OneEmitterMoves
  <2>3. emitter[k].phase = "notifying" /\ step' = step
    BY <1>12 DEF NotifyApprover, NotifyRaises, worker
  <2>4. status' = "waiting_approval" => status = "waiting_approval"
    BY <1>12 DEF NotifyApprover, NotifyRaises, Mark
  <2> QED
    BY <1>0, <1>1, <1>2, <1>4, <2>2, <2>3, <2>4
<1>13. ASSUME NEW k \in Executors, WorkerDies(k)
       PROVE  NodesTakeTurns' /\ StartedInStep' /\ PausedIsBetween' /\ EarlierAnnounced'
  <2>1. ASSUME NEW e \in Emitters
        PROVE  /\ e = k => emitter'[e].phase = "over" /\ emitter'[e].at = "none"
               /\ e # k => emitter'[e].phase = emitter[e].phase
               /\ e # k /\ k = leg /\ e \in Nodes => emitter'[e].at = "none"
               /\ e # k /\ ~(k = leg /\ e \in Nodes) => emitter'[e] = emitter[e]
    BY <1>13 DEF WorkerDies, Still
  <2>2. status' = status /\ step' = step
    BY <1>13 DEF WorkerDies, worker
  <2> QED
    BY <1>0, <1>1, <1>2, <1>4, <2>1, <2>2
<1> QED
  BY <1>6, <1>7, <1>8, <1>9, <1>10, <1>11, <1>12, <1>13 DEF GraphStep

\* A resume of an execution whose pause has been announced hands the turn to
\* an executor that has appended nothing.
LEMMA ResumeKept ==
    ASSUME KeptInv, Resume
    PROVE  OneWriter' /\ ExecutorEventsKept'
<1> EmitterOK /\ LogOK /\ RestOK
  BY TypeParts DEF KeptInv, CursorInv
<1> USE DEF Idle, At, Phase
<1>0. /\ leg \in Executors /\ leg' \in Executors /\ leg' # leg
      /\ Nodes \subseteq Emitters /\ Executors \subseteq Emitters
  BY EventLogAssumption DEF Emitters, Executors, RestOK, Resume
<1>1. ASSUME NEW e \in Emitters
      PROVE  /\ emitter'[e].at = emitter[e].at
             /\ emitter'[e].seq = emitter[e].seq
             /\ e = leg' => emitter'[e].phase = "claimed"
             /\ e # leg' => \/ emitter'[e].phase = emitter[e].phase
                            \/ emitter'[e].phase = "queued"
  <2>1. emitter[e] \in EmitterType
    BY DEF EmitterOK
  <2>2. PICK p : /\ emitter'[e] = [emitter[e] EXCEPT !.phase = p]
                 /\ e = leg + 1 => p = "claimed"
                 /\ e # leg + 1 => p = emitter[e].phase \/ p = "queued"
    BY DEF Resume
  <2> QED
    BY <2>1, <2>2 DEF EmitterType, Resume
<1>2. \A n \in Nodes : n \notin Executors
  BY EventLogAssumption DEF Executors
<1>3. \A n \in Nodes : emitter[n].at = "none"
  BY DEF KeptInv, OneWriter, NodesTakeTurns, PausedIsBetween, Stepping, Resume
<1>4. NodesTakeTurns' /\ StartedInStep'
  BY <1>0, <1>1, <1>2, <1>3
     DEF KeptInv, OneWriter, NodesTakeTurns, StartedInStep, Current, Resume
<1>5. PausedIsBetween'
  BY DEF PausedIsBetween, Resume
<1>6. CASE hurried'
  BY <1>4, <1>5, <1>6 DEF OneWriter, EarlierAnnounced, CountIsFresh, ExecutorEventsKept
<1>7. CASE ~hurried'
  <2>1. ~hurried /\ emitter[leg].phase # "notifying" /\ emitter[leg].at = "none"
    BY <1>7 DEF Resume
  <2>2. \A k \in Executors : emitter[k].at = "none" /\ (k # leg => emitter[k].phase # "notifying")
    BY <2>1 DEF KeptInv, OneWriter, EarlierAnnounced
  <2>3. EarlierAnnounced'
    BY <1>0, <1>1, <2>1, <2>2 DEF EarlierAnnounced
  <2>4. CountIsFresh'
    BY <1>0, <1>1, <2>2 DEF CountIsFresh
  <2>5. ExecutorEventsKept'
    BY <2>1 DEF KeptInv, ExecutorEventsKept, Resume
  <2> QED
    BY <1>4, <1>5, <2>3, <2>4, <2>5 DEF OneWriter
<1> QED
  BY <1>6, <1>7

LEMMA NextKept == KeptOrStray /\ [Next]_vars => KeptOrStray'
<1> SUFFICES ASSUME KeptOrStray, [Next]_vars, ~stray' PROVE OneWriter' /\ ExecutorEventsKept'
  BY NextCursors DEF KeptOrStray, KeptInv
<1>0. KeptInv /\ ~stray
  <2>1. stray => stray'
    BY DEF Next, WorkerStep, EmitStep, HandlerStep, Count, Insert, Notify, EmitRaises, BeginLeg,
           NextStep, MarkCompleted, MarkWaitingApproval, MarkFailed, StartNode, NodeInterrupts,
           NodeEnds, NotifyApprover, NotifyRaises, Resume, WorkerDies, EndElsewhere, DeleteEvents,
           DeleteRow, SweepOldEvents, Connect, SendSnapshot, Replay, AddListener, WakeUp,
           KeepalivePoll, Deliver, Disconnect, vars, observed
  <2> QED
    BY <2>1 DEF KeptOrStray
<1>1. CASE GraphStep
  BY <1>0, <1>1, GraphKept, ResumeKept
<1>2. CASE EndElsewhere \/ DeleteEvents \/ DeleteRow \/ SweepOldEvents
  BY <1>0, <1>2, QuietKept
     DEF KeptInv, EndElsewhere, DeleteEvents, DeleteRow, SweepOldEvents, worker, observed
<1>3. ASSUME NEW r \in Readers, Connect(r) \/ HandlerStep(r) \/ Disconnect(r)
      PROVE  OneWriter' /\ ExecutorEventsKept'
  <2>1. UNCHANGED <<status, worker, emitter, log, deleting, observed>>
    BY <1>3 DEF Connect, HandlerStep, Disconnect, SendSnapshot, Replay, AddListener, WakeUp,
                KeepalivePoll, Deliver
  <2> QED
    BY <1>0, <2>1, QuietKept DEF KeptInv, worker, observed
<1>4. CASE UNCHANGED vars
  BY <1>0, <1>4, QuietKept DEF KeptInv, vars, worker, observed
<1> QED
  BY <1>0, <1>1, <1>2, <1>3, <1>4, EmitKept DEF Next, WorkerStep, GraphStep

\* For any workflow and any number of resumes: an event that append drops
\* because its number was taken comes from a node, never from run or resume
\* themselves: no count they make, that of workflow_completed among them, is
\* stale, as long as no event was removed, no resume overtook the pause and no
\* insert of a cancelled node was still on its way.
THEOREM ExecutorKeepsItsEvents == Spec => []ExecutorEventsKept
<1>1. KeptOrStray => ExecutorEventsKept
  BY DEF KeptOrStray, KeptInv, ExecutorEventsKept
<1>2. Init => KeptOrStray
  BY InitKept DEF KeptOrStray, KeptInv
<1> QED
  BY <1>1, <1>2, NextKept, PTL DEF Spec
===========================================================================
