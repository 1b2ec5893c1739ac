------------------------ MODULE ExecutionLifecycle ------------------------
(***************************************************************************)
(* The life of one WorkflowExecution row: the API requests that create,    *)
(* approve, cancel and delete it, the Cloud Tasks queue that carries it to *)
(* a worker, POST /internal/claim-and-run and the LangGraph executor that  *)
(* drive it, and the maintenance sweeps that repair it.  Every statement   *)
(* of the code addresses one row by its id, so one row is the whole story; *)
(* what varies is the order in which the statements of the different       *)
(* handlers reach it.  Each action below is one database statement (or one *)
(* queue call) with the code that runs before the next await.              *)
(***************************************************************************)
EXTENDS Naturals, Sequences, FiniteSets

CONSTANTS
    Workers,             \* concurrent claim-and-run requests
    Clients,             \* API requests; each is made once
    Sweepers,            \* POST /internal/sweep requests that may overlap
    Nodes,               \* length of the workflow: nodes 1..Nodes in order
    ApprovalNodes,       \* the user-approval nodes among them
    ClientOps,           \* the endpoints the clients call
    MaxDeliveryAttempts, \* settings.execution_max_delivery_attempts
    QueueAttempts,       \* max-attempts of the Cloud Tasks queue
    MaxPauses,           \* bound: pauses of the execution that are explored
    RequestDeadline,     \* Cloud Run ends a request before its lease expires
    StuckBeforeLease     \* execution_stuck_after_seconds <= lease seconds

ASSUME LifecycleAssumption ==
    /\ Nodes \in Nat \ {0}
    /\ ApprovalNodes \subseteq 1..Nodes
    /\ MaxDeliveryAttempts \in Nat \ {0}
    /\ QueueAttempts \in Nat \ {0}
    /\ MaxPauses \in Nat
    /\ ClientOps \subseteq {"create", "run_external", "cancel", "resume", "confirm", "delete"}
    /\ RequestDeadline \in BOOLEAN
    /\ StuckBeforeLease \in BOOLEAN

VARIABLES
    row,       \* the workflow_executions row
    ckpt,      \* nodes committed in the thread's latest checkpoint
    tasks,     \* per kind, the delivery attempts its Cloud Task has left
    worker,    \* the claim-and-run requests in flight
    client,    \* the API requests in flight
    sweeper,   \* the sweep requests in flight
    oldPauses, \* pauses older than approval_wait_timeout_hours
    pauseLog,  \* the node of each pause so far; its length names the next one
    \* What follows is only observed: no guard reads it.
    audit,     \* the approvals rows
    ran,       \* how often each node has run: 0, 1 or 2 for "more than once"
    applied,   \* each approval node passed, with the pause its decision was for
    raced      \* a lease sweep has cleared a lease that was live again

vars == <<row, ckpt, tasks, worker, client, sweeper, oldPauses,
          pauseLog, audit, ran, applied, raced>>

Active   == {"queued", "running", "waiting_approval"}
Terminal == {"completed", "failed", "canceled"}
Gone     == {"absent", "deleted"}
Kinds    == {"run", "resume"}
PauseIds == 1..MaxPauses

\* pend stands for the _pending_approval_* markers and decision for
\* _resume_decision in row.variables (0 when the key is missing); a decision is
\* identified by the pause its author was looking at.  attempts saturates at the
\* bound it is compared with.  age: "old" once startedAt, the creation time, is
\* more than execution_stuck_after_seconds ago, "long" once the row has also
\* been 'running' for that long; the code only tells "young" from the rest.
Statuses == Active \cup Terminal \cup Gone
RowType == [status : Statuses,
            lease : {"null", "live", "expired"},
            attempts : 0..MaxDeliveryAttempts,
            age : {"young", "old", "long"},
            pend : 0..MaxPauses,
            decision : 0..MaxPauses]

WorkerPcs == {"idle", "claimed", "driving", "paused", "notify",
              "failing", "crashed", "ack", "nack"}
WorkerType == [pc : WorkerPcs, kind : Kinds, pos : 0..Nodes, dec : 0..MaxPauses]

ClientPcs == {"idle", "enqueue_run", "enqueue_failed", "cancel", "viewed",
              "flip", "audit", "stamp", "enqueue_resume",
              "delete_checkpoints", "delete_row", "done"}
ClientType == [pc : ClientPcs, op : ClientOps \cup {"none"},
               seen : 0..MaxPauses, snap : 0..MaxPauses]

SweepActs   == {"none", "fail", "dead", "run", "resume", "clear"}
SweeperType == [pc : {"idle", "stuck", "approvals", "leases"}, act : SweepActs]

Typed ==
    /\ row \in RowType
    /\ ckpt \in 0..Nodes
    /\ tasks \in [Kinds -> 0..QueueAttempts]
    /\ worker \in [Workers -> WorkerType]
    /\ client \in [Clients -> ClientType]
    /\ sweeper \in [Sweepers -> SweeperType]
    /\ oldPauses \in SUBSET PauseIds
    /\ pauseLog \in Seq(Nat) /\ Len(pauseLog) <= MaxPauses
    /\ audit \in SUBSET [by : Clients, pause : 0..MaxPauses]
    /\ ran \in [1..Nodes -> 0..2]
    /\ applied \in SUBSET [node : ApprovalNodes, seen : PauseIds]
    /\ raced \in BOOLEAN

\* The row, a decision, a delivery, a request, an approvals row and the graph
\* name no pause that has not happened yet (0: none).
PausesHaveHappened ==
    LET happened == 0..Len(pauseLog)
    IN  /\ {row.pend, row.decision} \cup oldPauses \subseteq happened
        /\ \A w \in Workers : worker[w].dec \in happened
        /\ \A c \in Clients : {client[c].seen, client[c].snap} \subseteq happened
        /\ \A r \in audit : r.pause \in happened
        /\ \A a \in applied : a.seen \in happened

TypeOK == Typed /\ PausesHaveHappened

NoRow == [status |-> "deleted", lease |-> "null", attempts |-> 0,
          age |-> "young", pend |-> 0, decision |-> 0]
IdleWorker == [pc |-> "idle", kind |-> "run", pos |-> 0, dec |-> 0]

Init ==
    /\ row = [NoRow EXCEPT !.status = "absent"]
    /\ ckpt = 0
    /\ tasks = [k \in Kinds |-> 0]
    /\ worker = [w \in Workers |-> IdleWorker]
    /\ client = [c \in Clients |->
                   [pc |-> "idle", op |-> "none", seen |-> 0, snap |-> 0]]
    /\ sweeper = [s \in Sweepers |-> [pc |-> "idle", act |-> "none"]]
    /\ oldPauses = {}
    /\ pauseLog = <<>>
    /\ audit = {}
    /\ ran = [n \in 1..Nodes |-> 0]
    /\ applied = {}
    /\ raced = FALSE

observed == <<pauseLog, audit, ran, applied, raced>>

\* An update by id: it changes nothing when the row has been deleted.
Update(r) == row' = IF row.status \in Gone THEN row ELSE r

\* A row that was not running has not been running for long.
BecomesRunning(r) ==
    [r EXCEPT !.status = "running",
              !.age = IF r.status # "running" /\ @ = "long" THEN "old" ELSE @]

\* enqueue_execution: a new task with a full set of delivery attempts.
Enqueue(k) == tasks' = [tasks EXCEPT ![k] = QueueAttempts]

\* A delivery that is answered with an error, or not at all, uses up an attempt.
Unanswered(k) == tasks' = [tasks EXCEPT ![k] = IF @ = 0 THEN 0 ELSE @ - 1]

---------------------------------------------------------------------------
(* API requests.                                                           *)

ClientAt(c, from) == client[c].pc = from
ClientTo(c, to) == client' = [client EXCEPT ![c].pc = to]
ClientBegins(c, o, to, p) ==
    client' = [client EXCEPT ![c] = [pc |-> to, op |-> o, seen |-> p, snap |-> 0]]

\* start_execution, called by create_execution and by run_external: the row
\* is committed as queued before anything is enqueued.
StartExecution(c) ==
    /\ ClientAt(c, "idle")
    /\ row.status = "absent"
    /\ \E op \in ClientOps \cap {"create", "run_external"} :
         ClientBegins(c, op, "enqueue_run", 0)
    /\ row' = [row EXCEPT !.status = "queued"]
    /\ UNCHANGED <<ckpt, tasks, worker, sweeper, oldPauses, observed>>

EnqueueRun(c) ==
    /\ ClientAt(c, "enqueue_run")
    /\ Enqueue("run")
    /\ ClientTo(c, "done")
    /\ UNCHANGED <<row, ckpt, worker, sweeper, oldPauses, observed>>

\* The Cloud Tasks call raises, and the task may have been created all the
\* same: create_execution goes on to mark the row failed, run_external lets the
\* exception escape.
EnqueueRunRaises(c) ==
    /\ ClientAt(c, "enqueue_run")
    /\ Enqueue("run") \/ UNCHANGED tasks
    /\ ClientTo(c, IF client[c].op = "create" THEN "enqueue_failed" ELSE "done")
    /\ UNCHANGED <<row, ckpt, worker, sweeper, oldPauses, observed>>

MarkEnqueueFailedUnguarded(c) ==
    /\ ClientAt(c, "enqueue_failed")
    /\ Update([row EXCEPT !.status = "failed"])
    /\ ClientTo(c, "done")
    /\ UNCHANGED <<ckpt, tasks, worker, sweeper, oldPauses, observed>>

\* create_execution's handler, guarded on status = 'queued'.
MarkEnqueueFailed(c) ==
    /\ ClientAt(c, "enqueue_failed")
    /\ row' = IF row.status = "queued" THEN [row EXCEPT !.status = "failed"] ELSE row
    /\ ClientTo(c, "done")
    /\ UNCHANGED <<ckpt, tasks, worker, sweeper, oldPauses, observed>>

\* cancel_execution reads the row first; an inactive row is answered with 409.
CancelRead(c) ==
    /\ ClientAt(c, "idle")
    /\ "cancel" \in ClientOps
    /\ row.status \in Active
    /\ ClientBegins(c, "cancel", "cancel", 0)
    /\ UNCHANGED <<row, ckpt, tasks, worker, sweeper, oldPauses, observed>>

CancelUnguarded(c) ==
    /\ ClientAt(c, "cancel")
    /\ Update([row EXCEPT !.status = "canceled"])
    /\ ClientTo(c, "done")
    /\ UNCHANGED <<ckpt, tasks, worker, sweeper, oldPauses, observed>>

\* The conditional update_many: the lease is left as it is.
CancelWrite(c) ==
    /\ ClientAt(c, "cancel")
    /\ row' = IF row.status \in Active THEN [row EXCEPT !.status = "canceled"] ELSE row
    /\ ClientTo(c, "done")
    /\ UNCHANGED <<ckpt, tasks, worker, sweeper, oldPauses, observed>>

\* A human sees the pause that is pending now, in the app or in the email
\* sent for it, and decides about that one.
ViewPause(c) ==
    /\ ClientAt(c, "idle")
    /\ row.status = "waiting_approval"
    /\ \E op \in ClientOps \cap {"resume", "confirm"} :
         ClientBegins(c, op, "viewed", row.pend)
    /\ UNCHANGED <<row, ckpt, tasks, worker, sweeper, oldPauses, observed>>

\* resume_execution reads the row and requires waiting_approval and a pending
\* node; _validate_token_and_execution also requires the token's own pause.
ReadPause(c) ==
    /\ ClientAt(c, "viewed")
    /\ row.status = "waiting_approval"
    /\ row.pend # 0
    /\ client[c].op = "confirm" => row.pend = client[c].seen
    /\ client' = [client EXCEPT ![c].pc = "flip", ![c].snap = row.pend]
    /\ UNCHANGED <<row, ckpt, tasks, worker, sweeper, oldPauses, observed>>

FlipUnguarded(c) ==
    /\ ClientAt(c, "flip")
    /\ Update(BecomesRunning([row EXCEPT !.lease = "null"]))
    /\ ClientTo(c, "audit")
    /\ UNCHANGED <<ckpt, tasks, worker, sweeper, oldPauses, observed>>

\* update_many WHERE status = 'waiting_approval': the single winner also
\* clears the lease; a loser is answered and done.
FlipToRunning(c) ==
    /\ ClientAt(c, "flip")
    /\ IF row.status = "waiting_approval"
       THEN /\ row' = BecomesRunning([row EXCEPT !.lease = "null"])
            /\ ClientTo(c, "audit")
       ELSE UNCHANGED row /\ ClientTo(c, "done")
    /\ UNCHANGED <<ckpt, tasks, worker, sweeper, oldPauses, observed>>

CreateApprovalForgotten(c) ==
    /\ ClientAt(c, "audit")
    /\ ClientTo(c, "stamp")
    /\ UNCHANGED <<row, ckpt, tasks, worker, sweeper, oldPauses, observed>>

CreateApproval(c) ==
    /\ ClientAt(c, "audit")
    /\ audit' = audit \cup {[by |-> c, pause |-> client[c].snap]}
    /\ ClientTo(c, "stamp")
    /\ UNCHANGED <<row, ckpt, tasks, worker, sweeper, oldPauses,
                   pauseLog, ran, applied, raced>>

\* variables := the variables read by ReadPause, plus the decision.
StampDecision(c) ==
    /\ ClientAt(c, "stamp")
    /\ Update([row EXCEPT !.pend = client[c].snap, !.decision = client[c].seen])
    /\ ClientTo(c, "enqueue_resume")
    /\ UNCHANGED <<ckpt, tasks, worker, sweeper, oldPauses, observed>>

EnqueueResume(c) ==
    /\ ClientAt(c, "enqueue_resume")
    /\ Enqueue("resume")
    /\ ClientTo(c, "done")
    /\ UNCHANGED <<row, ckpt, worker, sweeper, oldPauses, observed>>

\* delete_execution: the status check is a read of its own, then checkpoints
\* and row go in separate statements.
DeleteRead(c) ==
    /\ ClientAt(c, "idle")
    /\ "delete" \in ClientOps
    /\ row.status \in Terminal
    /\ ClientBegins(c, "delete", "delete_checkpoints", 0)
    /\ UNCHANGED <<row, ckpt, tasks, worker, sweeper, oldPauses, observed>>

DeleteCheckpoints(c) ==
    /\ ClientAt(c, "delete_checkpoints")
    /\ ckpt' = 0
    /\ ClientTo(c, "delete_row")
    /\ UNCHANGED <<row, tasks, worker, sweeper, oldPauses, observed>>

DeleteRow(c) ==
    /\ ClientAt(c, "delete_row")
    /\ row' = NoRow
    /\ ClientTo(c, "done")
    /\ UNCHANGED <<ckpt, tasks, worker, sweeper, oldPauses, observed>>

\* The request ends between two of its statements: the instance is killed, or
\* a statement with no handler around it raises.
RequestDies(c) ==
    /\ client[c].pc \notin {"idle", "done"}
    /\ ClientTo(c, "done")
    /\ UNCHANGED <<row, ckpt, tasks, worker, sweeper, oldPauses, observed>>

---------------------------------------------------------------------------
(* Cloud Tasks and claim-and-run.                                          *)

WorkerAt(w, from) == worker[w].pc = from
WorkerTo(w, to) == worker' = [worker EXCEPT ![w].pc = to]

ClaimableIgnoringLease == row.status \in Active

ClaimableIgnoringStatus == row.status \notin Gone /\ row.lease # "live"

\* The WHERE clause of the claim's SELECT ... FOR UPDATE SKIP LOCKED.
Claimable == row.status \in Active /\ row.lease # "live"

\* A delivery that claims the row; select and update are one transaction.
\* The task stays in the queue until it is answered, so Cloud Tasks may
\* deliver it again meanwhile.
Claim(w, k) ==
    /\ WorkerAt(w, "idle")
    /\ tasks[k] > 0
    /\ Claimable
    /\ row' = BecomesRunning([row EXCEPT !.lease = "live",
                             !.attempts = IF @ < MaxDeliveryAttempts THEN @ + 1 ELSE @])
    /\ worker' = [worker EXCEPT ![w] = [pc |-> "claimed", kind |-> k, pos |-> 0, dec |-> 0]]
    /\ UNCHANGED <<ckpt, tasks, client, sweeper, oldPauses, observed>>

\* Nothing to claim: {"status": "already_claimed"} with 200 ends the task.
AlreadyClaimed(k) ==
    /\ tasks[k] > 0
    /\ ~Claimable
    /\ tasks' = [tasks EXCEPT ![k] = 0]
    /\ UNCHANGED <<row, ckpt, worker, client, sweeper, oldPauses, observed>>

\* The attempt fails before the handler runs: no instance, OIDC rejected.
DeliveryFails(k) ==
    /\ tasks[k] > 0
    /\ Unanswered(k)
    /\ UNCHANGED <<row, ckpt, worker, client, sweeper, oldPauses, observed>>

\* From the claim to ainvoke.  A run passes a fresh input, which LangGraph
\* starts from the first node whatever the thread's checkpoint says; a resume
\* passes Command(resume=decision), which continues from the checkpoint.  A
\* resume without _resume_decision is answered with 422; a row that is gone
\* ends the request.
BeginRun(w) ==
    /\ WorkerAt(w, "claimed")
    /\ worker[w].kind = "run"
    /\ WorkerTo(w, IF row.status \in Gone THEN "ack" ELSE "driving")
    /\ UNCHANGED <<row, ckpt, tasks, client, sweeper, oldPauses, observed>>

BeginResume(w) ==
    /\ WorkerAt(w, "claimed")
    /\ worker[w].kind = "resume"
    /\ worker' = [worker EXCEPT ![w] =
                    IF row.status \in Gone \/ row.decision = 0
                    THEN [@ EXCEPT !.pc = "nack"]
                    ELSE [@ EXCEPT !.pc = "driving", !.pos = ckpt, !.dec = row.decision]]
    /\ UNCHANGED <<row, ckpt, tasks, client, sweeper, oldPauses, observed>>

MayRunUndecided(w, n) == TRUE

\* UserApprovalExecutor.arun returns only with a decision; without one it
\* interrupts the graph.
MayRun(w, n) == n \in ApprovalNodes => worker[w].dec # 0

\* One superstep: the node runs and a checkpoint is committed.  The resume
\* value belongs to the checkpoint it was given for, so only the first node
\* after a resume can consume it.
RunNode(w) ==
    LET n == worker[w].pos + 1 IN
    /\ WorkerAt(w, "driving")
    /\ n <= Nodes
    /\ MayRun(w, n)
    /\ worker' = [worker EXCEPT ![w].pos = n, ![w].dec = 0]
    /\ ckpt' = n
    /\ ran' = [ran EXCEPT ![n] = IF @ < 2 THEN @ + 1 ELSE @]
    /\ applied' = IF n \in ApprovalNodes
                  THEN applied \cup {[node |-> n, seen |-> worker[w].dec]}
                  ELSE applied
    /\ UNCHANGED <<row, tasks, client, sweeper, oldPauses, pauseLog, audit, raced>>

\* interrupt(): ainvoke returns with snapshot.next non-empty.
Interrupt(w) ==
    /\ WorkerAt(w, "driving")
    /\ worker[w].pos < Nodes
    /\ ~MayRun(w, worker[w].pos + 1)
    /\ WorkerTo(w, "paused")
    /\ UNCHANGED <<row, ckpt, tasks, client, sweeper, oldPauses, observed>>

\* _mark_waiting_approval: by id, whatever the status is now.  The variables
\* come from the graph's state, so an earlier _resume_decision is dropped; the
\* lease stays.
MarkWaitingApproval(w) ==
    /\ WorkerAt(w, "paused")
    /\ Len(pauseLog) < MaxPauses
    /\ Update([row EXCEPT !.status = "waiting_approval",
                          !.pend = Len(pauseLog) + 1, !.decision = 0])
    /\ pauseLog' = Append(pauseLog, worker[w].pos + 1)
    /\ WorkerTo(w, "notify")
    /\ UNCHANGED <<ckpt, tasks, client, sweeper, oldPauses, audit, ran, applied, raced>>

\* send_approval_email and the approval_required event, then the 200.
NotifyApprover(w) ==
    /\ WorkerAt(w, "notify")
    /\ WorkerTo(w, "ack")
    /\ UNCHANGED <<row, ckpt, tasks, client, sweeper, oldPauses, observed>>

\* _mark_completed: by id, whatever the status is now; variables replaced.
MarkCompleted(w) ==
    /\ WorkerAt(w, "driving")
    /\ worker[w].pos = Nodes
    /\ Update([row EXCEPT !.status = "completed", !.pend = 0, !.decision = 0])
    /\ WorkerTo(w, "ack")
    /\ UNCHANGED <<ckpt, tasks, client, sweeper, oldPauses, observed>>

\* Anything inside the try of run/resume raises: building the graph, a node,
\* a _mark_* statement, the notification.
ExecutorRaises(w) ==
    /\ worker[w].pc \in {"driving", "paused", "notify"}
    /\ WorkerTo(w, "failing")
    /\ UNCHANGED <<row, ckpt, tasks, client, sweeper, oldPauses, observed>>

\* _mark_failed: by id, whatever the status is now.
MarkFailed(w) ==
    /\ WorkerAt(w, "failing")
    /\ Update([row EXCEPT !.status = "failed"])
    /\ WorkerTo(w, "ack")
    /\ UNCHANGED <<ckpt, tasks, client, sweeper, oldPauses, observed>>

\* _mark_failed itself raises, out of the executor; or the executor raises
\* before its own try.
ExecutorCrashes(w) ==
    /\ worker[w].pc \in {"claimed", "failing"}
    /\ WorkerTo(w, "crashed")
    /\ UNCHANGED <<row, ckpt, tasks, client, sweeper, oldPauses, observed>>

\* claim_and_run's own handler, guarded on status = 'running': a lost race is
\* answered with 200, a recorded crash with 500.
MarkCrashed(w) ==
    /\ WorkerAt(w, "crashed")
    /\ IF row.status = "running"
       THEN row' = [row EXCEPT !.status = "failed"] /\ WorkerTo(w, "nack")
       ELSE UNCHANGED row /\ WorkerTo(w, "ack")
    /\ UNCHANGED <<ckpt, tasks, client, sweeper, oldPauses, observed>>

\* That write raises too; it is swallowed and the lease stays.
MarkCrashedRaises(w) ==
    /\ WorkerAt(w, "crashed")
    /\ WorkerTo(w, "nack")
    /\ UNCHANGED <<row, ckpt, tasks, client, sweeper, oldPauses, observed>>

\* A 200 ends the task.  Delivery is at least once: Cloud Tasks may deliver
\* the task again all the same.
Acknowledge(w) ==
    /\ WorkerAt(w, "ack")
    /\ \/ tasks' = [tasks EXCEPT ![worker[w].kind] = 0]
       \/ UNCHANGED tasks
    /\ worker' = [worker EXCEPT ![w] = IdleWorker]
    /\ UNCHANGED <<row, ckpt, client, sweeper, oldPauses, observed>>

\* An error status, or the process is killed or cancelled at any point: no
\* code of the handler runs any more and the attempt is used up.
WorkerGone(w) ==
    /\ Unanswered(worker[w].kind)
    /\ worker' = [worker EXCEPT ![w] = IdleWorker]
    /\ UNCHANGED <<row, ckpt, client, sweeper, oldPauses, observed>>

RejectDelivery(w) == WorkerAt(w, "nack") /\ WorkerGone(w)

WorkerDies(w) == worker[w].pc \notin {"idle", "nack"} /\ WorkerGone(w)

---------------------------------------------------------------------------
(* Time.                                                                   *)

Age ==
    /\ row.status \notin Gone
    /\ row.age = "young" \/ (row.age = "old" /\ row.status = "running")
    /\ row' = [row EXCEPT !.age = IF row.status = "running" THEN "long" ELSE "old"]
    /\ UNCHANGED <<ckpt, tasks, worker, client, sweeper, oldPauses, observed>>

\* The lease is as long as a request may last, and every request in flight
\* was claimed no later than the lease on the row.
ExpireLease ==
    /\ row.lease = "live"
    /\ StuckBeforeLease => row.age # "young"
    /\ RequestDeadline => \A w \in Workers : WorkerAt(w, "idle")
    /\ row' = [row EXCEPT !.lease = "expired"]
    /\ UNCHANGED <<ckpt, tasks, worker, client, sweeper, oldPauses, observed>>

\* approval_wait_timeout_hours is far longer than the other two limits.
ExpirePause ==
    /\ row.status = "waiting_approval"
    /\ row.age # "young" /\ row.lease # "live"
    /\ row.pend \in PauseIds \ oldPauses
    /\ oldPauses' = oldPauses \cup {row.pend}
    /\ UNCHANGED <<row, ckpt, tasks, worker, client, sweeper, observed>>

---------------------------------------------------------------------------
(* POST /internal/sweep: three scans in this order, each followed by one   *)
(* statement per row it found.                                             *)

SweeperAt(s, pc, act) == sweeper[s] = [pc |-> pc, act |-> act]
SweeperTo(s, pc, act) == sweeper' = [sweeper EXCEPT ![s] = [pc |-> pc, act |-> act]]

StuckOnlyIfLeased == row.status = "running" /\ row.age # "young" /\ row.lease # "null"

\* The WHERE clause of sweep_stuck_executions.
Stuck == row.status = "running" /\ row.age # "young"

ScanStuck(s) ==
    /\ SweeperAt(s, "idle", "none")
    /\ SweeperTo(s, "stuck", IF Stuck THEN "fail" ELSE "none")
    /\ UNCHANGED <<row, ckpt, tasks, worker, client, oldPauses, observed>>

ScanApprovals(s) ==
    /\ SweeperAt(s, "stuck", "none")
    /\ SweeperTo(s, "approvals",
                 IF row.status = "waiting_approval" /\ row.pend \in oldPauses
                 THEN "fail" ELSE "none")
    /\ UNCHANGED <<row, ckpt, tasks, worker, client, oldPauses, observed>>

\* What sweep_expired_leases will do is decided by the row it read: give up,
\* or re-enqueue as what the variables say it was.
ScanLeases(s) ==
    /\ SweeperAt(s, "approvals", "none")
    /\ SweeperTo(s, "leases",
                 IF row.status # "running" \/ row.lease # "expired" THEN "none"
                 ELSE IF row.attempts >= MaxDeliveryAttempts THEN "dead"
                 ELSE IF row.decision # 0 THEN "resume" ELSE "run")
    /\ UNCHANGED <<row, ckpt, tasks, worker, client, oldPauses, observed>>

\* A scan raises: sweep() logs it and goes on with the next one.
ScanRaises(s) ==
    /\ sweeper[s].act = "none"
    /\ sweeper[s].pc # "leases"
    /\ SweeperTo(s, [idle |-> "stuck", stuck |-> "approvals", approvals |-> "leases"]
                    [sweeper[s].pc], "none")
    /\ UNCHANGED <<row, ckpt, tasks, worker, client, oldPauses, observed>>

EndSweep(s) ==
    /\ SweeperAt(s, "leases", "none")
    /\ SweeperTo(s, "idle", "none")
    /\ UNCHANGED <<row, ckpt, tasks, worker, client, oldPauses, observed>>

\* The stuck and the approval sweep write by id, whatever the status is now.
SweepFail(s) ==
    /\ sweeper[s].act = "fail"
    /\ Update([row EXCEPT !.status = "failed"])
    /\ SweeperTo(s, sweeper[s].pc, "none")
    /\ UNCHANGED <<ckpt, tasks, worker, client, oldPauses, observed>>

SweepDeadLetter(s) ==
    /\ sweeper[s].act = "dead"
    /\ Update([row EXCEPT !.status = "failed", !.lease = "null"])
    /\ SweeperTo(s, "leases", "none")
    /\ UNCHANGED <<ckpt, tasks, worker, client, oldPauses, observed>>

SweepReenqueue(s) ==
    /\ sweeper[s].act \in Kinds
    /\ Enqueue(sweeper[s].act)
    /\ SweeperTo(s, "leases", "clear")
    /\ UNCHANGED <<row, ckpt, worker, client, oldPauses, observed>>

\* The lease is cleared by id, after the new task is already in the queue.
SweepClearLease(s) ==
    /\ sweeper[s].act = "clear"
    /\ Update([row EXCEPT !.lease = "null"])
    /\ raced' = (raced \/ row.lease = "live")
    /\ SweeperTo(s, "leases", "none")
    /\ UNCHANGED <<ckpt, tasks, worker, client, oldPauses, pauseLog, audit, ran, applied>>

\* The statement for this row raises: it is logged and the sweep goes on.  An
\* enqueue that raised may have created its task.
SweepRowRaises(s) ==
    /\ sweeper[s].act # "none"
    /\ UNCHANGED tasks \/ (sweeper[s].act \in Kinds /\ Enqueue(sweeper[s].act))
    /\ SweeperTo(s, sweeper[s].pc, "none")
    /\ UNCHANGED <<row, ckpt, worker, client, oldPauses, observed>>

---------------------------------------------------------------------------
ClientStep(c) ==
    \/ StartExecution(c) \/ EnqueueRun(c) \/ EnqueueRunRaises(c) \/ MarkEnqueueFailed(c)
    \/ CancelRead(c) \/ CancelWrite(c)
    \/ ViewPause(c) \/ ReadPause(c) \/ FlipToRunning(c)
    \/ CreateApproval(c) \/ StampDecision(c) \/ EnqueueResume(c)
    \/ DeleteRead(c) \/ DeleteCheckpoints(c) \/ DeleteRow(c)
    \/ RequestDies(c)

WorkerStep(w) ==
    \/ \E k \in Kinds : Claim(w, k)
    \/ BeginRun(w) \/ BeginResume(w) \/ RunNode(w) \/ Interrupt(w)
    \/ MarkWaitingApproval(w) \/ NotifyApprover(w) \/ MarkCompleted(w)
    \/ ExecutorRaises(w) \/ MarkFailed(w)
    \/ ExecutorCrashes(w) \/ MarkCrashed(w) \/ MarkCrashedRaises(w)
    \/ Acknowledge(w) \/ RejectDelivery(w) \/ WorkerDies(w)

QueueStep == \E k \in Kinds : AlreadyClaimed(k) \/ DeliveryFails(k)

SweeperStep(s) ==
    \/ ScanStuck(s) \/ ScanApprovals(s) \/ ScanLeases(s) \/ ScanRaises(s) \/ EndSweep(s)
    \/ SweepFail(s) \/ SweepDeadLetter(s) \/ SweepReenqueue(s) \/ SweepClearLease(s)
    \/ SweepRowRaises(s)

Next ==
    \/ \E c \in Clients : ClientStep(c)
    \/ \E w \in Workers : WorkerStep(w)
    \/ QueueStep
    \/ Age \/ ExpireLease \/ ExpirePause
    \/ \E s \in Sweepers : SweeperStep(s)

Spec == Init /\ [][Next]_vars

\* Cloud Scheduler keeps calling the sweep, and a statement that fails does
\* not fail for ever.
SweepFairness ==
    /\ WF_vars(Age)
    /\ \A s \in Sweepers : /\ WF_vars(SweeperStep(s))
                           /\ SF_vars(ScanStuck(s))
                           /\ SF_vars(SweepFail(s))

\* Requests and workers that have begun go on, and Cloud Tasks delivers.
DeliveryFairness ==
    /\ \A c \in Clients : WF_vars(client[c].pc \notin {"idle", "done"} /\ ClientStep(c))
    /\ \A w \in Workers : WF_vars(worker[w].pc # "idle" /\ WorkerStep(w))
    /\ SF_vars(\E w \in Workers, k \in Kinds : Claim(w, k))

SweptSpec == Spec /\ SweepFairness
FairSpec == SweptSpec /\ DeliveryFairness

---------------------------------------------------------------------------
(* Properties that hold.                                                   *)

Driving(w) == worker[w].pc \in {"claimed", "driving", "paused"}

\* Two workers never drive the graph of one execution at the same time, as
\* long as requests end before their lease does and no lease sweep has wiped
\* a lease that had been taken again after the sweep read the row.  The claim
\* (internal.py), the resume paths that clear the lease and the terminal
\* writes all have to agree for this.
OneDriver ==
    RequestDeadline /\ ~raced => \A v, w \in Workers : Driving(v) /\ Driving(w) => v = w

\* The same, strengthened until every step preserves it: a worker that drives
\* the graph is alone, and the row cannot be claimed meanwhile, because it is
\* either running under a live lease or no longer active at all.
SoleDriver ==
    RequestDeadline /\ ~raced =>
      \A w \in Workers : Driving(w) =>
        /\ row.status \notin {"absent", "queued", "waiting_approval"}
        /\ row.status = "running" => row.lease = "live"
        /\ \A v \in Workers : Driving(v) => v = w

\* The row of an execution that has ended is left alone by every request,
\* delivery and sweep that starts afterwards: a terminal status changes only
\* through a worker or a sweep that was already under way.
Unsettled == \/ \E w \in Workers : worker[w].pc \notin {"idle", "ack", "nack"}
             \/ \E s \in Sweepers : sweeper[s].act # "none"
SettledIsFinal ==
    [][row.status \in Terminal /\ ~Unsettled => row'.status \in {row.status, "deleted"}]_vars

\* Every behaviour of the row, as the API shows it, is one ExecutionContract
\* allows: in particular nothing starts on a row that is no longer active.
Contract == INSTANCE ExecutionContract WITH status <- row.status, busy <- Unsettled
ImplementsContract == Contract!Spec

\* cancel_execution: "Safe to cancel while queued".  An execution canceled
\* before any delivery claimed it stays canceled and runs no node, whatever
\* its task, its creator and the sweeps still do.
CanceledQueuedNeverRuns ==
    [][row.status = "canceled" /\ row.attempts = 0
       => row'.status \in {"canceled", "deleted"} /\ ran' = ran]_vars

\* Why: until the first claim no handler but its creator's, a cancel or a
\* delete knows the row, and no sweep has found anything to do for it.
UntouchedBeforeClaim ==
    row.attempts = 0 =>
      /\ row.status \in {"absent", "queued", "failed", "canceled", "deleted"}
      /\ row.status # "deleted" =>
           /\ \A w \in Workers : WorkerAt(w, "idle")
           /\ \A s \in Sweepers : sweeper[s].act = "none"
           /\ \A c \in Clients : client[c].pc \notin
                {"viewed", "flip", "audit", "stamp", "enqueue_resume"}

\* "at most one request can ever flip this row": double clicks, two reviewers
\* and an email racing the app never leave more approvals rows than there were
\* pauses.  (A row may carry the number of an earlier pause: the flip does not
\* look at which pause is pending.)
OneApprovalPerPause == Cardinality(audit) <= Len(pauseLog)

\* A decision that lets the graph past an approval node is the decision of a
\* request whose approvals row was written first.
DecisionsAreAudited ==
    \A a \in applied : \E r \in audit : client[r.by].seen = a.seen

\* Under fair sweeps no execution stays 'running' for ever, whichever step of
\* a worker, a resume request or an enqueue was the last one to happen.
RunningSettles == [](row.status = "running" => <>(row.status # "running"))

---------------------------------------------------------------------------
(* What the repository says and the code does not do.                      *)

\* executions.py: canceling "gives callers a real terminal status to key off".
CanceledIsFinal == [][row.status = "canceled" => row'.status \in {"canceled", "deleted"}]_vars

\* execution_sweeper.py: a duplicate delivery "can never double-run the
\* execution"; decisions.md: "only one worker can win the claim".
NeverDoubleRun == \A v, w \in Workers : Driving(v) /\ Driving(w) => v = w

\* architecture.md: an execution whose worker died is recovered "by
\* re-enqueueing", "up to a bounded retry count before dead-lettering".
RetriedBeforeGivenUp ==
    [][\A s \in Sweepers :
         SweepFail(s) /\ row.status = "running" /\ row.lease = "expired"
         => row.attempts >= MaxDeliveryAttempts]_vars

\* config.py: the stuck sweep fails executions "once they've been running this
\* long without a terminal update".
SweptWhenRunningLong ==
    [][\A s \in Sweepers : ScanStuck(s) /\ sweeper'[s].act = "fail" => row.age = "long"]_vars

\* architecture.md: "nodes that already ran (and had side effects, e.g. a Jira
\* create) are not re-executed".
NodesRunOnce == \A n \in 1..Nodes : ran[n] <= 1

\* approval_email.py: a token is bound to its pause, so that a stale one cannot
\* "resolve a later one": the node a decision lets the graph past is the node
\* of the pause it was given for.
DecisionReachesItsNode == \A a \in applied : a.node = pauseLog[a.seen]

\* executions.py: a row left 'queued' because both the enqueue and the write of
\* its failure raised is found "via the sweeper's stuck-execution scan".
DoubleFailureSettles ==
    [](row.status = "queued" /\ (\E c \in Clients : ClientAt(c, "enqueue_failed"))
       => <>(row.status # "queued"))

\* api-reference.md: deleting never removes the checkpoints "out from under"
\* an in-flight task; executions.py deletes them because they would be
\* "unreachable garbage" once the row is gone.
DeletedLeavesNoCheckpoint == row.status = "deleted" => ckpt = 0
===========================================================================
