----------------------------- MODULE EventLog -----------------------------
(***************************************************************************)
(* The event stream of one execution: the worker that runs the graph and   *)
(* its nodes, which append events to execution_events and NOTIFY, and the  *)
(* WebSocket handlers that replay and follow the log from a cursor.  An    *)
(* append is two statements, a count and an insert guarded by the unique   *)
(* key (executionId, seq); nodes of one superstep run concurrently, so     *)
(* their appends interleave.  That one worker at a time drives the graph   *)
(* is taken from ExecutionLifecycle; the worker of an earlier leg may      *)
(* still have to announce the pause it ended in.                           *)
(***************************************************************************)
EXTENDS Naturals, Sequences, FiniteSets, Functions

CONSTANTS
    Nodes,         \* the nodes of the workflow
    Supersteps,    \* the sets of nodes LangGraph runs together, in order
    ApprovalNodes, \* the nodes that interrupt the first time they run
    Readers,       \* WebSocket clients
    MaxLegs,       \* bound: one run and the resumes that are explored
    MaxFaults,     \* bound: appends that raise and workers that die
    EndsElsewhere, \* cancel_execution and the sweeps may end the row
    Deletes,       \* delete_execution may remove the events and the row
    Retention      \* the execution may be older than the retention period

ASSUME EventLogAssumption ==
    /\ Nodes \cap 1..MaxLegs = {}
    /\ Supersteps \in Seq(SUBSET Nodes) /\ Supersteps # <<>>
    /\ \A i, j \in DOMAIN Supersteps : i # j => Supersteps[i] \cap Supersteps[j] = {}
    /\ ApprovalNodes \subseteq Nodes
    /\ MaxLegs \in Nat \ {0}
    /\ MaxFaults \in Nat
    /\ {EndsElsewhere, Deletes, Retention} \subseteq BOOLEAN

VARIABLES
    status,   \* the status column of the row
    leg,      \* 1 for the run, one more for each resume
    step,     \* the superstep the graph is at
    asked,    \* approval nodes that have interrupted already
    faults,   \* how many appends have raised and workers died
    emitter,  \* the executor of each leg and each node, and their appends
    log,      \* execution_events: seq -> event
    deleting, \* delete_execution has removed the events
    reader,   \* the WebSocket handlers
    \* What follows is only observed: no guard reads it.
    sent,     \* the events each client has received
    lost,     \* events whose sequence number was taken when they were inserted
    hurried,  \* a resume began before the pause had been announced
    swept,    \* the retention sweep has removed events of this execution
    stray,    \* a node was cancelled while its insert was on its way
    silent    \* workflow_completed was due and its append failed or never began

worker == <<leg, step, asked, faults>>
observed == <<lost, hurried, swept, stray, silent>>
vars == <<status, worker, emitter, log, deleting, reader, sent, observed>>

Terminal == {"completed", "failed", "canceled"}
Executors == 1..MaxLegs
Emitters == Nodes \cup Executors
Phases == {"claimed", "workflow_started", "notifying", "approval_required",
           "workflow_completed", "over",
           "queued", "node_started", "node_completed", "node_failed", "interrupted"}
Events == [type : Phases, of : Emitters, leg : 1..MaxLegs]

EmitterType == [phase : Phases, at : {"none", "count", "insert", "notify"}, seq : Nat]
ReaderType == [pc : {"off", "accepted", "replay", "listen", "live", "closed"},
               snap : {"running", "waiting_approval"} \cup Terminal,
               cursor : Nat, notified : BOOLEAN]

TypeOK ==
    /\ status \in {"running", "waiting_approval", "deleted"} \cup Terminal
    /\ leg \in 1..MaxLegs
    /\ step \in DOMAIN Supersteps
    /\ asked \subseteq ApprovalNodes
    /\ faults \in 0..MaxFaults
    /\ emitter \in [Emitters -> EmitterType]
    /\ \A e \in Emitters : emitter[e].at = "insert" => emitter[e].seq > 0
    /\ IsFiniteSet(DOMAIN log) /\ DOMAIN log \subseteq Nat \ {0}
    /\ \A s \in DOMAIN log : log[s] \in Events
    /\ deleting \in BOOLEAN
    /\ reader \in [Readers -> ReaderType]
    /\ sent \in [Readers -> SUBSET Events]
    /\ lost \in SUBSET Events
    /\ hurried \in BOOLEAN
    /\ {swept, stray, silent} \subseteq BOOLEAN

Init ==
    /\ status = "running"
    /\ leg = 1
    /\ step = 1
    /\ asked = {}
    /\ faults = 0
    /\ emitter = [e \in Emitters |-> [phase |-> IF e = 1 THEN "claimed" ELSE "queued",
                                      at |-> "none", seq |-> 0]]
    /\ log = <<>>
    /\ deleting = FALSE
    /\ reader = [r \in Readers |->
                   [pc |-> "off", snap |-> "running", cursor |-> 0, notified |-> FALSE]]
    /\ sent = [r \in Readers |-> {}]
    /\ lost = {}
    /\ hurried = FALSE
    /\ swept = FALSE
    /\ stray = FALSE
    /\ silent = FALSE

---------------------------------------------------------------------------
(* PostgresEventStore.append and notify_execution_event, as _emit and      *)
(* _persist_and_notify call them: whatever they raise is swallowed.        *)

At(e, where) == emitter[e].at = where
Idle(e) == At(e, "none")
Phase(e) == emitter[e].phase
Event(e) == [type |-> Phase(e), of |-> e, leg |-> IF e \in Executors THEN e ELSE leg]

Emitting(p) == [phase |-> p, at |-> "count", seq |-> 0]
Fault == faults < MaxFaults /\ faults' = faults + 1
Still(e) == [phase |-> Phase(e), at |-> "none", seq |-> 0]
Appends(e, where, seq) ==
    emitter' = [emitter EXCEPT ![e] = [phase |-> Phase(e), at |-> where, seq |-> seq]]
Emits(e, p) == emitter' = [emitter EXCEPT ![e] = Emitting(p)]

Count(e) ==
    /\ At(e, "count")
    /\ Appends(e, "insert", Cardinality(DOMAIN log) + 1)
    /\ UNCHANGED <<status, worker, log, deleting, reader, sent, observed>>

\* A second row with the same (executionId, seq) violates the unique key.
Insert(e) ==
    /\ At(e, "insert")
    /\ LET seq == emitter[e].seq
       IN  IF seq \in DOMAIN log
           THEN /\ lost' = lost \cup {Event(e)}
                /\ Appends(e, "none", 0)
                /\ UNCHANGED log
           ELSE /\ log' = [s \in DOMAIN log \cup {seq} |-> IF s = seq THEN Event(e) ELSE log[s]]
                /\ Appends(e, "notify", 0)
                /\ UNCHANGED lost
    /\ UNCHANGED <<status, worker, deleting, reader, sent, hurried, swept, stray, silent>>

\* A notification reaches the handlers that are listening, and no one else.
Notify(e) ==
    /\ At(e, "notify")
    /\ reader' = [r \in Readers |-> [reader[r] EXCEPT !.notified = @ \/ reader[r].pc = "live"]]
    /\ Appends(e, "none", 0)
    /\ UNCHANGED <<status, worker, log, deleting, sent, observed>>

\* For the last event of a request this is also the worker dying on the way:
\* after the row was marked and before, in or after the append.
EmitRaises(e) ==
    /\ ~Idle(e)
    /\ IF At(e, "notify") THEN UNCHANGED faults ELSE Fault
    /\ Appends(e, "none", 0)
    /\ silent' = (silent \/ (Phase(e) = "workflow_completed" /\ ~At(e, "notify")))
    /\ UNCHANGED <<status, leg, step, asked, log, deleting, reader, sent, lost, hurried, swept, stray>>

---------------------------------------------------------------------------
(* LangGraphExecutor.run and resume, and wrap_executor_with_events.        *)

Current == Supersteps[step]
Stepping == Phase(leg) = "workflow_started" /\ Idle(leg)

\* An update by id: it changes nothing when the row has been deleted.
Mark(s) == status' = IF status = "deleted" THEN status ELSE s

\* The row is loaded first: nothing happens when it is gone.
BeginLeg ==
    /\ Phase(leg) = "claimed"
    /\ IF status = "deleted"
       THEN emitter' = [emitter EXCEPT ![leg].phase = "over"]
       ELSE Emits(leg, "workflow_started")
    /\ UNCHANGED <<status, worker, log, deleting, reader, sent, observed>>

StartNode(n) ==
    /\ Stepping
    /\ n \in Current
    /\ Phase(n) = "queued"
    /\ Emits(n, "node_started")
    /\ UNCHANGED <<status, worker, log, deleting, reader, sent, observed>>

\* GraphBubbleUp passes through the wrapper without an event.
NodeInterrupts(n) ==
    /\ Stepping
    /\ Phase(n) = "node_started" /\ Idle(n)
    /\ n \in ApprovalNodes \ asked
    /\ emitter' = [emitter EXCEPT ![n].phase = "interrupted"]
    /\ asked' = asked \cup {n}
    /\ UNCHANGED <<status, leg, step, faults, log, deleting, reader, sent, observed>>

NodeEnds(n) ==
    /\ Stepping
    /\ Phase(n) = "node_started" /\ Idle(n)
    /\ n \notin ApprovalNodes \ asked
    /\ \E p \in {"node_completed", "node_failed"} : Emits(n, p)
    /\ UNCHANGED <<status, worker, log, deleting, reader, sent, observed>>

\* The superstep is over when every node of it has returned or interrupted;
\* the wrapper returns only after its last event.
StepOver == \A n \in Current : Idle(n) /\ Phase(n) \in {"node_completed", "interrupted"}
Interrupted == \E n \in Current : Phase(n) = "interrupted"

NextStep ==
    /\ Stepping /\ StepOver /\ ~Interrupted
    /\ step < Len(Supersteps)
    /\ step' = step + 1
    /\ UNCHANGED <<status, leg, asked, faults, emitter, log, deleting, reader, sent, observed>>

MarkCompletedSilently ==
    /\ Stepping /\ StepOver /\ ~Interrupted
    /\ step = Len(Supersteps)
    /\ Mark("completed")
    /\ emitter' = [emitter EXCEPT ![leg].phase = "over"]
    /\ UNCHANGED <<worker, log, deleting, reader, sent, observed>>

\* _mark_completed commits before workflow_completed is emitted.
MarkCompleted ==
    /\ Stepping /\ StepOver /\ ~Interrupted
    /\ step = Len(Supersteps)
    /\ Mark("completed")
    /\ Emits(leg, "workflow_completed")
    /\ UNCHANGED <<worker, log, deleting, reader, sent, observed>>

MarkWaitingApproval ==
    /\ Stepping /\ StepOver /\ Interrupted
    /\ Mark("waiting_approval")
    /\ emitter' = [emitter EXCEPT ![leg].phase = "notifying"]
    /\ UNCHANGED <<worker, log, deleting, reader, sent, observed>>

\* The pause is committed; the approver is mailed before the event is emitted.
NotifyApprover(k) ==
    /\ Phase(k) = "notifying"
    /\ Emits(k, "approval_required")
    /\ UNCHANGED <<status, worker, log, deleting, reader, sent, observed>>

\* What send_approval_email raises fails the execution, whatever it does by now.
NotifyRaises(k) ==
    /\ Phase(k) = "notifying"
    /\ Mark("failed")
    /\ Emits(k, "workflow_completed")
    /\ UNCHANGED <<worker, log, deleting, reader, sent, observed>>

\* The graph cannot be built, or a node has raised.
GraphRaises ==
    \/ \A n \in Current : Phase(n) \in {"queued", "interrupted"}
    \/ \E n \in Current : Phase(n) = "node_failed" /\ Idle(n)

MarkFailedSiblingsGoOn ==
    /\ Stepping /\ GraphRaises
    /\ Mark("failed")
    /\ Emits(leg, "workflow_completed")
    /\ UNCHANGED <<worker, log, deleting, reader, sent, observed>>

\* LangGraph cancels the other nodes of the superstep before ainvoke raises.  An
\* insert that has been sent when its task is cancelled may be committed all the
\* same, however late (the NOTIFY the model then allows only wakes handlers up).
MarkFailed ==
    /\ Stepping /\ GraphRaises
    /\ Mark("failed")
    /\ \E left \in SUBSET {n \in Nodes : At(n, "insert")} :
         /\ emitter' = [e \in Emitters |-> IF e = leg THEN Emitting("workflow_completed")
                                           ELSE IF e \in Nodes \ left THEN Still(e)
                                           ELSE emitter[e]]
         /\ stray' = (stray \/ left # {})
    /\ UNCHANGED <<worker, log, deleting, reader, sent, lost, hurried, swept, silent>>

\* The approval is given and a worker claims the resume; only the row says that
\* the execution is paused.
Resume ==
    /\ status = "waiting_approval"
    /\ leg < MaxLegs
    /\ status' = "running"
    /\ leg' = leg + 1
    /\ emitter' = [e \in Emitters |->
                     [emitter[e] EXCEPT !.phase = IF e = leg + 1 THEN "claimed"
                                                  ELSE IF @ = "interrupted" THEN "queued" ELSE @]]
    /\ hurried' = (hurried \/ Phase(leg) = "notifying" \/ ~Idle(leg))
    /\ UNCHANGED <<step, asked, faults, log, deleting, reader, sent, lost, swept, stray, silent>>

\* The nodes run in the request of the current leg; with it no one is left who
\* would append, so an insert that lands late is one that landed before.
WorkerDies(k) ==
    /\ Fault
    /\ Phase(k) \notin {"queued", "over", "approval_required", "workflow_completed"}
    /\ emitter' = [e \in Emitters |->
                     IF e = k THEN [phase |-> "over", at |-> "none", seq |-> 0]
                     ELSE IF k = leg /\ e \in Nodes THEN Still(e)
                     ELSE emitter[e]]
    /\ UNCHANGED <<status, leg, step, asked, log, deleting, reader, sent, observed>>

---------------------------------------------------------------------------
(* What else writes the row or the log.  None of it appends an event.      *)

\* cancel_execution and the sweeps that fail an execution.
EndElsewhere ==
    /\ EndsElsewhere
    /\ status \in {"running", "waiting_approval"}
    /\ status' \in {"canceled", "failed"}
    /\ UNCHANGED <<worker, emitter, log, deleting, reader, sent, observed>>

DeleteEvents ==
    /\ Deletes
    /\ status \in Terminal
    /\ ~deleting
    /\ deleting' = TRUE
    /\ log' = <<>>
    /\ UNCHANGED <<status, worker, emitter, reader, sent, observed>>

DeleteRow ==
    /\ deleting
    /\ status # "deleted"
    /\ status' = "deleted"
    /\ UNCHANGED <<worker, emitter, log, deleting, reader, sent, observed>>

\* sweep_old_execution_events, days after the events it removes: by then every
\* request has ended and every connected handler has polled.  A pause is failed
\* long before the retention period is over, so of an execution that is still
\* active only the events of earlier legs are old enough.
LongAgo ==
    /\ status # "running"
    /\ \A e \in Emitters : Idle(e)
    /\ \A k \in Executors : Phase(k) \in {"queued", "approval_required", "workflow_completed", "over"}
    /\ \A r \in Readers : reader[r].pc \in {"off", "closed"}
                           \/ (reader[r].pc = "live" /\ \A s \in DOMAIN log : s <= reader[r].cursor)

SweepOldEvents ==
    /\ Retention
    /\ LongAgo
    /\ \E last \in 1..(IF status = "waiting_approval" THEN leg - 1 ELSE leg) :
         log' = Restrict(log, {s \in DOMAIN log : log[s].leg > last})
    /\ swept' = TRUE
    /\ UNCHANGED <<status, worker, emitter, deleting, reader, sent, lost, hurried, stray, silent>>

---------------------------------------------------------------------------
(* GET /executions/{id}/ws.                                                *)

IsTerminalEvent(ev) == ev.type = "workflow_completed"

\* list_since(cursor), up to the terminal event: the handler sends the events
\* in the order of seq and returns after that one.
ListSince(r) == {s \in DOMAIN log : s > reader[r].cursor}
Batch(r) == {s \in ListSince(r) :
               \A t \in ListSince(r) : t < s => ~IsTerminalEvent(log[t])}

ReceiveCursorFirst(r, s, to) ==
    /\ reader' = [reader EXCEPT ![r].pc = to, ![r].cursor = s, ![r].notified = FALSE]
    /\ sent' = [sent EXCEPT ![r] = @ \cup {log[t] : t \in {u \in Batch(r) : u < s}}]

\* The client receives the part of the batch up to s; the cursor follows.
Receive(r, s, to) ==
    /\ reader' = [reader EXCEPT ![r].pc = to, ![r].cursor = s, ![r].notified = FALSE]
    /\ sent' = [sent EXCEPT ![r] = @ \cup {log[t] : t \in {u \in Batch(r) : u <= s}}]

\* All of it: the stream ends after a terminal event, or goes on.
Deliver(r, goOn) ==
    /\ \E s \in Batch(r) \cup {reader[r].cursor} :
         /\ \A t \in Batch(r) : t <= s
         /\ Receive(r, s, IF \E t \in Batch(r) : IsTerminalEvent(log[t])
                          THEN "closed" ELSE goOn)
    /\ UNCHANGED <<status, worker, emitter, log, deleting, observed>>

\* A client connects, with the cursor it has reached or with none, as one that
\* has received nothing; the row is read before the connection is accepted.
Connect(r) ==
    /\ reader[r].pc = "off"
    /\ status # "deleted"
    /\ \E after \in {0, reader[r].cursor} :
         /\ reader' = [reader EXCEPT ![r] = [pc |-> "accepted", snap |-> status,
                                             cursor |-> after, notified |-> FALSE]]
         /\ sent' = [sent EXCEPT ![r] = IF after = 0 THEN {} ELSE @]
    /\ UNCHANGED <<status, worker, emitter, log, deleting, observed>>

\* A terminal snapshot closes the stream at once.  The row is not looked at
\* again, so the status that was read is forgotten here.
SendSnapshot(r) ==
    /\ reader[r].pc = "accepted"
    /\ reader' = [reader EXCEPT ![r].pc = IF reader[r].snap \in Terminal THEN "closed" ELSE "replay",
                               ![r].snap = "running"]
    /\ UNCHANGED <<status, worker, emitter, log, deleting, sent, observed>>

Replay(r) ==
    /\ reader[r].pc = "replay"
    /\ Deliver(r, "listen")

AddListener(r) ==
    /\ reader[r].pc = "listen"
    /\ reader' = [reader EXCEPT ![r].pc = "live"]
    /\ UNCHANGED <<status, worker, emitter, log, deleting, sent, observed>>

WakeUp(r) ==
    /\ reader[r].pc = "live"
    /\ reader[r].notified
    /\ Deliver(r, "live")

KeepaliveOnly(r) ==
    /\ reader[r].pc = "live"
    /\ ~reader[r].notified
    /\ UNCHANGED vars

\* 15 seconds without a notification: the log is polled all the same.
KeepalivePoll(r) ==
    /\ reader[r].pc = "live"
    /\ ~reader[r].notified
    /\ Deliver(r, "live")

\* The client goes away, possibly in the middle of a batch.
Disconnect(r) ==
    /\ reader[r].pc \notin {"off", "closed"}
    /\ \E s \in {reader[r].cursor} \cup (IF reader[r].pc \in {"replay", "live"} THEN Batch(r) ELSE {}) :
         Receive(r, s, "off")
    /\ UNCHANGED <<status, worker, emitter, log, deleting, observed>>

---------------------------------------------------------------------------
EmitStep(e) == Count(e) \/ Insert(e) \/ Notify(e) \/ EmitRaises(e)

WorkerStep ==
    \/ \E e \in Emitters : EmitStep(e)
    \/ BeginLeg \/ NextStep \/ MarkCompleted \/ MarkWaitingApproval \/ MarkFailed
    \/ \E n \in Nodes : StartNode(n) \/ NodeInterrupts(n) \/ NodeEnds(n)
    \/ \E k \in Executors : NotifyApprover(k) \/ NotifyRaises(k)

HandlerStep(r) ==
    SendSnapshot(r) \/ Replay(r) \/ AddListener(r) \/ WakeUp(r) \/ KeepalivePoll(r)

Next ==
    \/ WorkerStep \/ Resume \/ \E k \in Executors : WorkerDies(k)
    \/ EndElsewhere \/ DeleteEvents \/ DeleteRow \/ SweepOldEvents
    \/ \E r \in Readers : Connect(r) \/ HandlerStep(r) \/ Disconnect(r)

Spec == Init /\ [][Next]_vars

\* A request that is being served goes on, and the 15 s timer of a handler
\* fires; nobody has to approve, connect or stay connected.
FairSpec == Spec /\ WF_vars(WorkerStep) /\ \A r \in Readers : WF_vars(HandlerStep(r))

---------------------------------------------------------------------------
(* Properties that hold.                                                   *)

\* Without retention or deletion the sequence numbers of an execution are
\* 1..n, although they come from a count that may be stale when it is used.
Dense ==
    ~swept /\ ~deleting =>
      /\ DOMAIN log = 1..Cardinality(DOMAIN log)
      /\ \A e \in Emitters : At(e, "insert") => emitter[e].seq <= Cardinality(DOMAIN log) + 1

\* A cursor never runs ahead of the log, so every event appended later is
\* beyond the cursor of every client.
CursorsInLog ==
    ~swept /\ ~deleting => \A r \in Readers : reader[r].cursor <= Cardinality(DOMAIN log)

\* "no missed events across a dropped connection": an event at or below the
\* cursor of a client has been received by that client, so replaying from the
\* cursor after a dropped connection skips nothing that was persisted.
NothingSkipped ==
    ~swept /\ ~deleting =>
      \A r \in Readers : \A s \in DOMAIN log : s <= reader[r].cursor => log[s] \in sent[r]

\* Concurrent nodes can lose each other's events, but the events of the
\* executor itself, the terminal one among them, never meet a taken sequence
\* number, because it only emits while no node of the superstep is emitting,
\* unless a resume overtook the announcement of the pause or the insert of a
\* node that was cancelled landed after the failed superstep was over.
ExecutorEventsKept ==
    ~swept /\ ~deleting /\ ~hurried /\ ~stray => \A ev \in lost : ev.of \in Nodes

\* "A missed NOTIFY is harmless": a client that stays connected is again and
\* again up to date with the log, whether or not the notification of an event
\* was sent or heard; and once the worker has reached its verdict its stream
\* ends, wherever the client was when the verdict came.  Nothing but the stored
\* workflow_completed ends a stream that is open, so it stays open when that
\* event is not stored: its append raised and was swallowed, or the worker died
\* between _mark_completed or _mark_failed and the append (silent), its number
\* was taken by an executor that a resume overtook or by the late insert of a
\* cancelled node (hurried, stray), or the events are deleted.
Concluded == status = "completed" \/ \E k \in Executors : Phase(k) = "workflow_completed"
Unannounced == silent \/ hurried \/ stray \/ deleting
StreamIsServed ==
    \A r \in Readers :
      [](reader[r].pc \notin {"off", "closed"}
         => <>(\/ reader[r].pc \in {"off", "closed"}
               \/ ListSince(r) = {} /\ (Concluded => Unannounced)))

---------------------------------------------------------------------------
(* What the repository says and the code does not do.                      *)

\* events_pg.py: "every event is appended to the `execution_events` table".
EveryEventAppended == ~deleting => lost = {}

\* product-capabilities.md: "no missed events across a dropped connection".
NoMissedEvents ==
    \A r \in Readers : reader[r].pc = "closed" /\ ~deleting => Range(log) \subseteq sent[r]

\* events_ws.py: the terminal statuses are "shared by the snapshot check, replay
\* loop, and live loop", so that whoever ended the row, the streams end.
EveryStreamEnds ==
    \A r \in Readers :
      [](status \in Terminal /\ reader[r].pc \notin {"off", "closed"}
         => <>(reader[r].pc \in {"off", "closed"} \/ Unannounced))

\* events_pg.py: the log gives "missed-terminal-event recovery".
TerminalEventRecorded ==
    ~deleting => \A ev \in lost : ~IsTerminalEvent(ev)

\* The same for an execution that merely outlives the retention period of its
\* first events, which the sweep says "carry no operational state".
TerminalEventAfterRetention == hurried \/ stray \/ TerminalEventRecorded
===========================================================================
