--------------------- MODULE ExecutionLifecycleProofs ---------------------
(* Theorems about ExecutionLifecycle, for every value of its constants:    *)
(* its types, one driver per execution, executions canceled in the queue   *)
(* that never run, the contract a polling client may rely on, and the      *)
(* approvals behind every decision.                                        *)
EXTENDS ExecutionLifecycle, FiniteSetTheorems, TLAPS

(* Replacing one field of the row, of a worker or of a request.            *)
LEMMA RowFields ==
    ASSUME NEW r \in RowType
    PROVE  /\ \A x \in Statuses : [r EXCEPT !.status = x] \in RowType
           /\ \A x \in {"null", "live", "expired"} : [r EXCEPT !.lease = x] \in RowType
           /\ \A x \in 0..MaxDeliveryAttempts : [r EXCEPT !.attempts = x] \in RowType
           /\ \A x \in {"young", "old", "long"} : [r EXCEPT !.age = x] \in RowType
           /\ \A x \in 0..MaxPauses : [r EXCEPT !.pend = x] \in RowType
           /\ \A x \in 0..MaxPauses : [r EXCEPT !.decision = x] \in RowType
BY DEF RowType

LEMMA RowValues ==
    ASSUME NEW r \in RowType
    PROVE  /\ r.status \in Statuses /\ r.lease \in {"null", "live", "expired"}
           /\ r.attempts \in 0..MaxDeliveryAttempts /\ r.age \in {"young", "old", "long"}
           /\ r.pend \in 0..MaxPauses /\ r.decision \in 0..MaxPauses
BY DEF RowType

LEMMA AdvancedWorker ==
    ASSUME NEW v \in WorkerType, NEW n \in 0..Nodes, NEW d \in 0..MaxPauses
    PROVE  [v EXCEPT !.pos = n, !.dec = d] \in WorkerType
<1>1. [v EXCEPT !.pos = n] \in WorkerType
  BY DEF WorkerType
<1>2. [[v EXCEPT !.pos = n] EXCEPT !.dec = d] \in WorkerType
  BY <1>1 DEF WorkerType
<1> QED BY <1>2

LEMMA BecomesRunningType ==
    ASSUME NEW r \in RowType
    PROVE  BecomesRunning(r) \in RowType
BY DEF BecomesRunning, RowType, Statuses, Active

LEMMA UpdateType ==
    ASSUME row \in RowType, NEW r \in RowType, Update(r)
    PROVE  row' \in RowType
BY DEF Update

LEMMA WaitingRow ==
    ASSUME NEW r \in RowType, NEW s \in Statuses,
           NEW p \in 0..MaxPauses, NEW d \in 0..MaxPauses
    PROVE  [r EXCEPT !.status = s, !.pend = p, !.decision = d] \in RowType
<1>1. [r EXCEPT !.status = s] \in RowType
  BY RowFields
<1>2. [[r EXCEPT !.status = s] EXCEPT !.pend = p] \in RowType
  BY <1>1, RowFields
<1>3. [[[r EXCEPT !.status = s] EXCEPT !.pend = p] EXCEPT !.decision = d] \in RowType
  BY <1>2, RowFields
<1> QED BY <1>3

LEMMA ClaimedRow ==
    ASSUME NEW r \in RowType, NEW a \in 0..MaxDeliveryAttempts
    PROVE  [r EXCEPT !.lease = "live", !.attempts = a] \in RowType
<1>1. [r EXCEPT !.lease = "live"] \in RowType
  BY RowFields
<1>2. [[r EXCEPT !.lease = "live"] EXCEPT !.attempts = a] \in RowType
  BY <1>1, RowFields
<1> QED BY <1>2

LEMMA StampedRow ==
    ASSUME NEW r \in RowType, NEW p \in 0..MaxPauses, NEW d \in 0..MaxPauses
    PROVE  [r EXCEPT !.pend = p, !.decision = d] \in RowType
<1>1. [r EXCEPT !.pend = p] \in RowType
  BY RowFields
<1>2. [[r EXCEPT !.pend = p] EXCEPT !.decision = d] \in RowType
  BY <1>1, RowFields
<1> QED BY <1>2
(* Moving one request or one worker to another point of its handler.       *)
LEMMA ClientToEffect ==
    ASSUME client \in [Clients -> ClientType],
           NEW c \in Clients, NEW p \in ClientPcs, ClientTo(c, p)
    PROVE  /\ client' \in [Clients -> ClientType]
           /\ \A d \in Clients : /\ client'[d].pc = IF d = c THEN p ELSE client[d].pc
                                 /\ client'[d].seen = client[d].seen
<1>1. [client[c] EXCEPT !.pc = p] \in ClientType
  BY DEF ClientType
<1>2. client' = [client EXCEPT ![c] = [client[c] EXCEPT !.pc = p]]
  BY DEF ClientTo
<1>3. client' \in [Clients -> ClientType]
  BY <1>1, <1>2
<1>4. ASSUME NEW d \in Clients
      PROVE /\ client'[d].pc = IF d = c THEN p ELSE client[d].pc
            /\ client'[d].seen = client[d].seen
  BY <1>2 DEF ClientType
<1> QED BY <1>3, <1>4

LEMMA WorkerToEffect ==
    ASSUME worker \in [Workers -> WorkerType],
           NEW w \in Workers, NEW p \in WorkerPcs, WorkerTo(w, p)
    PROVE  /\ worker' \in [Workers -> WorkerType]
           /\ \A v \in Workers : /\ worker'[v].pc = IF v = w THEN p ELSE worker[v].pc
                                 /\ worker'[v].dec = worker[v].dec
<1>1. [worker[w] EXCEPT !.pc = p] \in WorkerType
  BY DEF WorkerType
<1>2. worker' = [worker EXCEPT ![w] = [worker[w] EXCEPT !.pc = p]]
  BY DEF WorkerTo
<1>3. worker' \in [Workers -> WorkerType]
  BY <1>1, <1>2
<1>4. ASSUME NEW v \in Workers
      PROVE /\ worker'[v].pc = IF v = w THEN p ELSE worker[v].pc
            /\ worker'[v].dec = worker[v].dec
  BY <1>2 DEF WorkerType
<1> QED BY <1>3, <1>4


(* Every step of a request keeps the types.                                *)
LEMMA ClientStepType ==
    ASSUME Typed, NEW c \in Clients, ClientStep(c)
    PROVE  Typed'
<1> USE DEF Typed, observed
<1>0. client[c] \in ClientType
  OBVIOUS
<1>1. CASE StartExecution(c)
  <2>1. PICK op \in ClientOps : ClientBegins(c, op, "enqueue_run", 0)
    BY <1>1 DEF StartExecution
  <2>2. client' \in [Clients -> ClientType]
    BY <2>1, LifecycleAssumption DEF ClientBegins, ClientType, ClientPcs
  <2>3. row' \in RowType
    BY <1>1, RowFields DEF StartExecution, Statuses, Active
  <2> QED BY <1>1, <2>2, <2>3 DEF StartExecution
<1>2. CASE EnqueueRun(c)
  BY <1>2, ClientToEffect, LifecycleAssumption DEF EnqueueRun, Enqueue, ClientPcs, Kinds
<1>3. CASE EnqueueRunRaises(c)
  BY <1>3, ClientToEffect, LifecycleAssumption DEF EnqueueRunRaises, Enqueue, ClientPcs, Kinds
<1>4. CASE MarkEnqueueFailed(c)
  BY <1>4, ClientToEffect, RowFields DEF MarkEnqueueFailed, ClientPcs, Statuses, Terminal
<1>5. CASE CancelRead(c)
  <2>1. client' \in [Clients -> ClientType]
    BY <1>5, LifecycleAssumption DEF CancelRead, ClientBegins, ClientType, ClientPcs
  <2> QED BY <1>5, <2>1 DEF CancelRead
<1>6. CASE CancelWrite(c)
  BY <1>6, ClientToEffect, RowFields DEF CancelWrite, ClientPcs, Statuses, Terminal
<1>7. CASE ViewPause(c)
  <2>1. PICK op \in ClientOps : ClientBegins(c, op, "viewed", row.pend)
    BY <1>7 DEF ViewPause
  <2>2. row.pend \in 0..MaxPauses
    BY RowValues
  <2>3. client' \in [Clients -> ClientType]
    BY <2>1, <2>2, LifecycleAssumption DEF ClientBegins, ClientType, ClientPcs
  <2> QED BY <1>7, <2>3 DEF ViewPause
<1>8. CASE ReadPause(c)
  <2>1. [client[c] EXCEPT !.pc = "flip", !.snap = row.pend] \in ClientType
    BY <1>0, RowValues DEF ClientType, ClientPcs
  <2>2. client' = [client EXCEPT ![c] = [client[c] EXCEPT !.pc = "flip", !.snap = row.pend]]
    BY <1>8 DEF ReadPause
  <2>3. client' \in [Clients -> ClientType]
    BY <2>1, <2>2
  <2> QED BY <1>8, <2>3 DEF ReadPause
<1>9. CASE FlipToRunning(c)
  <2>1. [row EXCEPT !.lease = "null"] \in RowType
    BY RowFields
  <2>2. row' \in RowType
    BY <1>9, <2>1, BecomesRunningType DEF FlipToRunning
  <2> QED BY <1>9, <2>2, ClientToEffect DEF FlipToRunning, ClientPcs
<1>10. CASE CreateApproval(c)
  <2>1. client[c].snap \in 0..MaxPauses
    BY <1>0 DEF ClientType
  <2>2. audit' \in SUBSET [by : Clients, pause : 0..MaxPauses]
    BY <1>10, <2>1 DEF CreateApproval
  <2> QED BY <1>10, <2>2, ClientToEffect DEF CreateApproval, ClientPcs
<1>11. CASE StampDecision(c)
  <2>1. client[c].snap \in 0..MaxPauses /\ client[c].seen \in 0..MaxPauses
    BY <1>0 DEF ClientType
  <2>2. row' \in RowType
    BY <1>11, <2>1, StampedRow, UpdateType DEF StampDecision
  <2> QED BY <1>11, <2>2, ClientToEffect DEF StampDecision, ClientPcs
<1>12. CASE EnqueueResume(c)
  BY <1>12, ClientToEffect, LifecycleAssumption DEF EnqueueResume, Enqueue, ClientPcs, Kinds
<1>13. CASE DeleteRead(c)
  <2>1. client' \in [Clients -> ClientType]
    BY <1>13, LifecycleAssumption DEF DeleteRead, ClientBegins, ClientType, ClientPcs
  <2> QED BY <1>13, <2>1 DEF DeleteRead
<1>14. CASE DeleteCheckpoints(c)
  BY <1>14, ClientToEffect, LifecycleAssumption DEF DeleteCheckpoints, ClientPcs
<1>15. CASE DeleteRow(c)
  <2>1. row' \in RowType
    BY <1>15, LifecycleAssumption DEF DeleteRow, NoRow, RowType, Statuses, Gone
  <2> QED BY <1>15, <2>1, ClientToEffect DEF DeleteRow, ClientPcs
<1>16. CASE RequestDies(c)
  BY <1>16, ClientToEffect DEF RequestDies, ClientPcs
<1> QED BY <1>1, <1>2, <1>3, <1>4, <1>5, <1>6, <1>7, <1>8, <1>9, <1>10, <1>11, <1>12,
           <1>13, <1>14, <1>15, <1>16 DEF ClientStep

(* The delivery attempts a task has left, and a worker that is idle again. *)
LEMMA UnansweredType ==
    ASSUME tasks \in [Kinds -> 0..QueueAttempts], NEW k \in Kinds, Unanswered(k)
    PROVE  tasks' \in [Kinds -> 0..QueueAttempts]
BY LifecycleAssumption DEF Unanswered

LEMMA IdleWorkerType == IdleWorker \in WorkerType
BY LifecycleAssumption DEF IdleWorker, WorkerType, WorkerPcs, Kinds

LEMMA WorkerGoneType ==
    ASSUME Typed, NEW w \in Workers, WorkerGone(w)
    PROVE  Typed'
<1>1. worker[w].kind \in Kinds
  BY DEF Typed, WorkerType
<1>2. tasks' \in [Kinds -> 0..QueueAttempts]
  BY <1>1, UnansweredType DEF Typed, WorkerGone
<1>3. worker' \in [Workers -> WorkerType]
  BY IdleWorkerType DEF Typed, WorkerGone
<1> QED BY <1>2, <1>3 DEF Typed, WorkerGone, observed

(* Every step of a delivery keeps the types.                               *)
LEMMA WorkerStepType ==
    ASSUME Typed, NEW w \in Workers, WorkerStep(w)
    PROVE  Typed'
<1> USE DEF Typed, observed
<1>0. worker[w] \in WorkerType
  OBVIOUS
<1>1. ASSUME NEW k \in Kinds, Claim(w, k) PROVE Typed'
  <2> DEFINE a == IF row.attempts < MaxDeliveryAttempts THEN row.attempts + 1 ELSE row.attempts
  <2>1. a \in 0..MaxDeliveryAttempts
    BY RowValues, LifecycleAssumption
  <2>2. [row EXCEPT !.lease = "live", !.attempts = a] \in RowType
    BY <2>1, ClaimedRow
  <2>3. row' \in RowType
    BY <1>1, <2>2, BecomesRunningType DEF Claim
  <2>4. worker' \in [Workers -> WorkerType]
    BY <1>1, LifecycleAssumption DEF Claim, WorkerType, WorkerPcs
  <2> QED BY <1>1, <2>3, <2>4 DEF Claim
<1>2. CASE BeginRun(w)
  BY <1>2, WorkerToEffect DEF BeginRun, WorkerPcs
<1>3. CASE BeginResume(w)
  <2>1. [worker[w] EXCEPT !.pc = "nack"] \in WorkerType
    BY <1>0 DEF WorkerType, WorkerPcs
  <2>2. [worker[w] EXCEPT !.pc = "driving", !.pos = ckpt, !.dec = row.decision] \in WorkerType
    <3>1. [worker[w] EXCEPT !.pc = "driving"] \in WorkerType
      BY <1>0 DEF WorkerType, WorkerPcs
    <3>2. [[worker[w] EXCEPT !.pc = "driving"] EXCEPT !.pos = ckpt] \in WorkerType
      BY <3>1 DEF WorkerType
    <3>3. [[[worker[w] EXCEPT !.pc = "driving"] EXCEPT !.pos = ckpt]
             EXCEPT !.dec = row.decision] \in WorkerType
      BY <3>2, RowValues DEF WorkerType
    <3> QED BY <3>3
  <2>3. worker' \in [Workers -> WorkerType]
    BY <1>3, <2>1, <2>2 DEF BeginResume
  <2> QED BY <1>3, <2>3 DEF BeginResume
<1>4. CASE RunNode(w)
  <2> DEFINE n == worker[w].pos + 1
  <2>1. n \in 1..Nodes /\ worker[w].dec \in 0..MaxPauses
    BY <1>0, <1>4, LifecycleAssumption DEF RunNode, WorkerType
  <2>2. [worker[w] EXCEPT !.pos = n, !.dec = 0] \in WorkerType
    <3>1. n \in 0..Nodes /\ 0 \in 0..MaxPauses
      BY <2>1, LifecycleAssumption
    <3> HIDE DEF n
    <3> QED BY <1>0, <3>1, AdvancedWorker
  <2>3. worker' = [worker EXCEPT ![w] = [worker[w] EXCEPT !.pos = n, !.dec = 0]]
    BY <1>4 DEF RunNode
  <2>4. worker' \in [Workers -> WorkerType]
    BY <2>2, <2>3
  <2>5. ran' \in [1..Nodes -> 0..2] /\ ckpt' \in 0..Nodes
    BY <1>4, <2>1 DEF RunNode
  <2>6. applied' \in SUBSET [node : ApprovalNodes, seen : PauseIds]
    BY <1>4, <2>1, LifecycleAssumption DEF RunNode, MayRun, PauseIds
  <2> QED BY <1>4, <2>4, <2>5, <2>6 DEF RunNode
<1>5. CASE Interrupt(w)
  BY <1>5, WorkerToEffect DEF Interrupt, WorkerPcs
<1>6. CASE MarkWaitingApproval(w)
  <2>1. worker' \in [Workers -> WorkerType]
    BY <1>6, WorkerToEffect DEF MarkWaitingApproval, WorkerPcs
  <2>2. Len(pauseLog) + 1 \in 0..MaxPauses
    BY <1>6, LifecycleAssumption DEF MarkWaitingApproval
  <2>3. [row EXCEPT !.status = "waiting_approval",
                    !.pend = Len(pauseLog) + 1, !.decision = 0] \in RowType
    <3> DEFINE p == Len(pauseLog) + 1
    <3>1. p \in 0..MaxPauses /\ 0 \in 0..MaxPauses /\ "waiting_approval" \in Statuses
      BY <2>2, LifecycleAssumption DEF Statuses, Active
    <3> HIDE DEF p
    <3>2. [row EXCEPT !.status = "waiting_approval", !.pend = p, !.decision = 0] \in RowType
      BY <3>1, WaitingRow
    <3> QED BY <3>2 DEF p
  <2>4. row' \in RowType
    BY <1>6, <2>3, UpdateType DEF MarkWaitingApproval
  <2>5. worker[w].pos + 1 \in Nat
    BY <1>0, LifecycleAssumption DEF WorkerType
  <2>6. pauseLog' \in Seq(Nat) /\ Len(pauseLog') <= MaxPauses
    BY <1>6, <2>2, <2>5, LifecycleAssumption DEF MarkWaitingApproval
  <2> QED BY <1>6, <2>1, <2>4, <2>6 DEF MarkWaitingApproval
<1>7. CASE NotifyApprover(w)
  BY <1>7, WorkerToEffect DEF NotifyApprover, WorkerPcs
<1>8. CASE MarkCompleted(w)
  <2>1. [row EXCEPT !.status = "completed", !.pend = 0, !.decision = 0] \in RowType
    <3>1. 0 \in 0..MaxPauses /\ "completed" \in Statuses
      BY LifecycleAssumption DEF Statuses, Terminal
    <3> QED BY <3>1, WaitingRow
  <2>2. row' \in RowType
    BY <1>8, <2>1, UpdateType DEF MarkCompleted
  <2> QED BY <1>8, <2>2, WorkerToEffect DEF MarkCompleted, WorkerPcs
<1>9. CASE ExecutorRaises(w)
  BY <1>9, WorkerToEffect DEF ExecutorRaises, WorkerPcs
<1>10. CASE MarkFailed(w)
  BY <1>10, WorkerToEffect, RowFields, UpdateType DEF MarkFailed, WorkerPcs, Statuses, Terminal
<1>11. CASE ExecutorCrashes(w)
  BY <1>11, WorkerToEffect DEF ExecutorCrashes, WorkerPcs
<1>12. CASE MarkCrashed(w)
  <2>0. [row EXCEPT !.status = "failed"] \in RowType
    BY RowFields DEF Statuses, Terminal
  <2>1. row' \in RowType
    BY <1>12, <2>0 DEF MarkCrashed
  <2>2. worker' \in [Workers -> WorkerType]
    <3>1. CASE WorkerTo(w, "nack")
      BY <3>1, WorkerToEffect DEF WorkerPcs
    <3>2. CASE WorkerTo(w, "ack")
      BY <3>2, WorkerToEffect DEF WorkerPcs
    <3> QED BY <1>12, <3>1, <3>2 DEF MarkCrashed
  <2> QED BY <1>12, <2>1, <2>2 DEF MarkCrashed
<1>13. CASE MarkCrashedRaises(w)
  BY <1>13, WorkerToEffect DEF MarkCrashedRaises, WorkerPcs
<1>14. CASE Acknowledge(w)
  <2>1. worker' \in [Workers -> WorkerType]
    BY <1>14, IdleWorkerType DEF Acknowledge
  <2>2. tasks' \in [Kinds -> 0..QueueAttempts]
    BY <1>14, LifecycleAssumption DEF Acknowledge
  <2> QED BY <1>14, <2>1, <2>2 DEF Acknowledge
<1>15. CASE RejectDelivery(w)
  BY <1>15, WorkerGoneType DEF RejectDelivery
<1>16. CASE WorkerDies(w)
  BY <1>16, WorkerGoneType DEF WorkerDies
<1> QED BY <1>1, <1>2, <1>3, <1>4, <1>5, <1>6, <1>7, <1>8, <1>9, <1>10, <1>11, <1>12,
           <1>13, <1>14, <1>15, <1>16 DEF WorkerStep

(* So does every step of the queue, of time and of a sweep.                *)
LEMMA SurroundingsStepType ==
    ASSUME Typed, QueueStep \/ Age \/ ExpireLease \/ ExpirePause
    PROVE  Typed'
<1> USE DEF Typed, observed
<1>1. ASSUME NEW k \in Kinds, AlreadyClaimed(k) PROVE Typed'
  BY <1>1, LifecycleAssumption DEF AlreadyClaimed
<1>2. ASSUME NEW k \in Kinds, DeliveryFails(k) PROVE Typed'
  BY <1>2, UnansweredType DEF DeliveryFails
<1>3. CASE Age
  BY <1>3, RowFields DEF Age
<1>4. CASE ExpireLease
  BY <1>4, RowFields DEF ExpireLease
<1>5. CASE ExpirePause
  BY <1>5 DEF ExpirePause
<1> QED BY <1>1, <1>2, <1>3, <1>4, <1>5 DEF QueueStep

LEMMA SweeperStepType ==
    ASSUME Typed, NEW s \in Sweepers, SweeperStep(s)
    PROVE  Typed'
<1> USE DEF Typed, observed, SweeperTo, SweeperType, SweepActs
<1>1. CASE ScanStuck(s)
  BY <1>1 DEF ScanStuck
<1>2. CASE ScanApprovals(s)
  BY <1>2 DEF ScanApprovals
<1>3. CASE ScanLeases(s)
  BY <1>3 DEF ScanLeases
<1>4. CASE ScanRaises(s)
  BY <1>4 DEF ScanRaises
<1>5. CASE EndSweep(s)
  BY <1>5 DEF EndSweep
<1>6. CASE SweepFail(s)
  BY <1>6, RowFields, UpdateType DEF SweepFail, Statuses, Terminal
<1>7. CASE SweepDeadLetter(s)
  <2>1. [row EXCEPT !.status = "failed"] \in RowType
    BY RowFields DEF Statuses, Terminal
  <2>2. [[row EXCEPT !.status = "failed"] EXCEPT !.lease = "null"] \in RowType
    BY <2>1, RowFields
  <2> QED BY <1>7, <2>2, UpdateType DEF SweepDeadLetter
<1>8. CASE SweepReenqueue(s)
  BY <1>8, LifecycleAssumption DEF SweepReenqueue, Enqueue
<1>9. CASE SweepClearLease(s)
  BY <1>9, RowFields, UpdateType DEF SweepClearLease
<1>10. CASE SweepRowRaises(s)
  <2>1. tasks' \in [Kinds -> 0..QueueAttempts]
    <3>1. CASE UNCHANGED tasks
      BY <3>1
    <3>2. CASE sweeper[s].act \in Kinds /\ Enqueue(sweeper[s].act)
      BY <3>2, LifecycleAssumption DEF Enqueue
    <3> QED BY <1>10, <3>1, <3>2 DEF SweepRowRaises
  <2>2. sweeper[s] \in SweeperType
    OBVIOUS
  <2>3. sweeper' \in [Sweepers -> SweeperType]
    BY <1>10, <2>2 DEF SweepRowRaises
  <2> QED BY <1>10, <2>1, <2>3 DEF SweepRowRaises
<1> QED BY <1>1, <1>2, <1>3, <1>4, <1>5, <1>6, <1>7, <1>8, <1>9, <1>10 DEF SweeperStep

LEMMA InitType == Init => Typed
<1> SUFFICES ASSUME Init PROVE Typed
  OBVIOUS
<1>1. row \in RowType
  BY LifecycleAssumption DEF Init, NoRow, RowType, Statuses, Gone
<1>2. worker \in [Workers -> WorkerType]
  BY IdleWorkerType DEF Init
<1>3. client \in [Clients -> ClientType]
  BY LifecycleAssumption DEF Init, ClientType, ClientPcs
<1>4. sweeper \in [Sweepers -> SweeperType]
  BY DEF Init, SweeperType, SweepActs
<1>5. pauseLog \in Seq(Nat) /\ Len(pauseLog) <= MaxPauses
  BY LifecycleAssumption DEF Init
<1>6. ckpt \in 0..Nodes /\ tasks \in [Kinds -> 0..QueueAttempts] /\ ran \in [1..Nodes -> 0..2]
  BY LifecycleAssumption DEF Init
<1>7. /\ oldPauses \in SUBSET PauseIds
      /\ audit \in SUBSET [by : Clients, pause : 0..MaxPauses]
      /\ applied \in SUBSET [node : ApprovalNodes, seen : PauseIds]
      /\ raced \in BOOLEAN
  BY DEF Init
<1> QED BY <1>1, <1>2, <1>3, <1>4, <1>5, <1>6, <1>7 DEF Typed

LEMMA StepType == Typed /\ [Next]_vars => Typed'
<1> SUFFICES ASSUME Typed, [Next]_vars PROVE Typed'
  OBVIOUS
<1>1. CASE Next
  BY <1>1, ClientStepType, WorkerStepType, SurroundingsStepType, SweeperStepType DEF Next
<1>2. CASE UNCHANGED vars
  BY <1>2 DEF vars, Typed
<1> QED BY <1>1, <1>2

(* No pause is named before it has happened.                               *)
Past == 0..Len(pauseLog)
NamesPast ==
    /\ row.pend \in Past /\ row.decision \in Past /\ \A p \in oldPauses : p \in Past
    /\ \A w \in Workers : worker[w].dec \in Past
    /\ \A c \in Clients : client[c].seen \in Past /\ client[c].snap \in Past
    /\ \A r \in audit : r.pause \in Past
    /\ \A a \in applied : a.seen \in Past

LEMMA NamedPauses ==
    (PausesHaveHappened <=> NamesPast) /\ (PausesHaveHappened' <=> NamesPast')
<1>1. PausesHaveHappened <=> NamesPast
  BY DEF PausesHaveHappened, NamesPast, Past
<1>2. PausesHaveHappened' <=> NamesPast'
  BY DEF PausesHaveHappened, NamesPast, Past
<1> QED BY <1>1, <1>2

LEMMA PausesStay ==
    ASSUME Typed, UNCHANGED pauseLog
    PROVE  0 \in Past /\ Past' = Past
<1>1. Len(pauseLog) \in Nat
  BY DEF Typed
<1> QED BY <1>1 DEF Past

(* A request stamps what it has seen and read, and reads it from the row.  *)
LEMMA ClientStepPauses ==
    ASSUME Typed, PausesHaveHappened, NEW c \in Clients, ClientStep(c)
    PROVE  PausesHaveHappened'
<1> USE DEF observed
<1>0. row \in RowType /\ client \in [Clients -> ClientType] /\ client[c] \in ClientType
  BY DEF Typed
<1>1. UNCHANGED <<worker, oldPauses, pauseLog, applied>>
  BY DEF ClientStep, StartExecution, EnqueueRun, EnqueueRunRaises, MarkEnqueueFailed,
         CancelRead, CancelWrite, ViewPause, ReadPause, FlipToRunning, CreateApproval,
         StampDecision, EnqueueResume, DeleteRead, DeleteCheckpoints, DeleteRow, RequestDies
<1>2. 0 \in Past /\ Past' = Past
  BY <1>1, PausesStay
<1>3. row'.pend \in {0, row.pend, client[c].snap} /\ row'.decision \in {0, row.decision, client[c].seen}
  <2>1. CASE StartExecution(c) \/ MarkEnqueueFailed(c) \/ CancelWrite(c)
    BY <1>0, <2>1 DEF StartExecution, MarkEnqueueFailed, CancelWrite, RowType
  <2>2. CASE FlipToRunning(c)
    BY <1>0, <2>2 DEF FlipToRunning, BecomesRunning, RowType
  <2>3. CASE StampDecision(c)
    BY <1>0, <2>3 DEF StampDecision, Update, RowType
  <2>4. CASE DeleteRow(c)
    BY <2>4 DEF DeleteRow, NoRow
  <2>5. CASE UNCHANGED row
    BY <2>5
  <2> QED BY <2>1, <2>2, <2>3, <2>4, <2>5
     DEF ClientStep, EnqueueRun, EnqueueRunRaises, CancelRead, ViewPause, ReadPause,
         CreateApproval, EnqueueResume, DeleteRead, DeleteCheckpoints, RequestDies
<1>4. ASSUME NEW d \in Clients
      PROVE  {client'[d].seen, client'[d].snap}
               \subseteq {0, row.pend, client[d].seen, client[d].snap}
  BY <1>0 DEF ClientStep, StartExecution, EnqueueRun, EnqueueRunRaises, MarkEnqueueFailed,
         CancelRead, CancelWrite, ViewPause, ReadPause, FlipToRunning, CreateApproval,
         StampDecision, EnqueueResume, DeleteRead, DeleteCheckpoints, DeleteRow, RequestDies,
         ClientTo, ClientBegins, ClientType
<1>5. \A r \in audit' : r \in audit \/ r.pause = client[c].snap
  BY DEF ClientStep, StartExecution, EnqueueRun, EnqueueRunRaises, MarkEnqueueFailed,
         CancelRead, CancelWrite, ViewPause, ReadPause, FlipToRunning, CreateApproval,
         StampDecision, EnqueueResume, DeleteRead, DeleteCheckpoints, DeleteRow, RequestDies
<1> QED BY <1>1, <1>2, <1>3, <1>4, <1>5, NamedPauses DEF NamesPast

(* Only MarkWaitingApproval names a new pause, and it appends it.          *)
LEMMA WorkerStepPauses ==
    ASSUME Typed, PausesHaveHappened, NEW w \in Workers, WorkerStep(w)
    PROVE  PausesHaveHappened'
<1> USE DEF observed
<1>0. /\ row \in RowType /\ worker \in [Workers -> WorkerType] /\ worker[w] \in WorkerType
      /\ pauseLog \in Seq(Nat) /\ Len(pauseLog) \in Nat
  BY DEF Typed
<1>1. UNCHANGED <<client, oldPauses, audit>>
  BY DEF WorkerStep, Claim, BeginRun, BeginResume, RunNode, Interrupt, MarkWaitingApproval,
         NotifyApprover, MarkCompleted, ExecutorRaises, MarkFailed, ExecutorCrashes,
         MarkCrashed, MarkCrashedRaises, Acknowledge, RejectDelivery, WorkerDies, WorkerGone
<1>2. CASE MarkWaitingApproval(w)
  <2>1. Len(pauseLog') = Len(pauseLog) + 1
    <3>1. worker[w].pos + 1 \in Nat
      BY <1>0, LifecycleAssumption DEF WorkerType
    <3> QED BY <1>0, <1>2, <3>1 DEF MarkWaitingApproval
  <2>2. Past \subseteq Past'
    BY <1>0, <2>1 DEF Past
  <2>3. 0 \in Past' /\ Len(pauseLog) + 1 \in Past'
    BY <1>0, <2>1 DEF Past
  <2>4. row'.pend \in {row.pend, Len(pauseLog) + 1} /\ row'.decision \in {0, row.decision}
    BY <1>0, <1>2 DEF MarkWaitingApproval, Update, RowType
  <2>5. \A v \in Workers : worker'[v].dec = worker[v].dec
    BY <1>0, <1>2, WorkerToEffect DEF MarkWaitingApproval, WorkerPcs
  <2>6. applied' = applied
    BY <1>2 DEF MarkWaitingApproval
  <2> QED BY <1>1, <2>2, <2>3, <2>4, <2>5, <2>6, NamedPauses DEF NamesPast
<1>3. CASE ~MarkWaitingApproval(w)
  <2>1. UNCHANGED pauseLog
    BY <1>3 DEF WorkerStep, Claim, BeginRun, BeginResume, RunNode, Interrupt,
         NotifyApprover, MarkCompleted, ExecutorRaises, MarkFailed, ExecutorCrashes,
         MarkCrashed, MarkCrashedRaises, Acknowledge, RejectDelivery, WorkerDies, WorkerGone
  <2>2. 0 \in Past /\ Past' = Past
    BY <2>1, PausesStay
  <2>3. row'.pend \in {0, row.pend} /\ row'.decision \in {0, row.decision}
    BY <1>0, <1>3 DEF WorkerStep, Claim, BeginRun, BeginResume, RunNode, Interrupt,
         NotifyApprover, MarkCompleted, ExecutorRaises, MarkFailed, ExecutorCrashes,
         MarkCrashed, MarkCrashedRaises, Acknowledge, RejectDelivery, WorkerDies, WorkerGone,
         Update, BecomesRunning, RowType
  <2>4. ASSUME NEW v \in Workers PROVE worker'[v].dec \in {0, worker[v].dec, row.decision}
    <3>1. ASSUME NEW p \in WorkerPcs, WorkerTo(w, p)
          PROVE  worker'[v].dec = worker[v].dec
      BY <1>0, <3>1, WorkerToEffect
    <3>2. CASE BeginRun(w) \/ Interrupt(w) \/ NotifyApprover(w) \/ MarkCompleted(w)
               \/ ExecutorRaises(w) \/ MarkFailed(w) \/ ExecutorCrashes(w) \/ MarkCrashed(w)
               \/ MarkCrashedRaises(w)
      BY <3>1, <3>2 DEF BeginRun, Interrupt, NotifyApprover, MarkCompleted, ExecutorRaises,
             MarkFailed, ExecutorCrashes, MarkCrashed, MarkCrashedRaises, WorkerPcs
    <3>3. CASE \E k \in Kinds : Claim(w, k)
      BY <1>0, <3>3 DEF Claim
    <3>4. CASE BeginResume(w)
      BY <1>0, <3>4 DEF BeginResume, WorkerType
    <3>5. CASE RunNode(w)
      BY <1>0, <3>5 DEF RunNode, WorkerType
    <3>6. CASE Acknowledge(w) \/ RejectDelivery(w) \/ WorkerDies(w)
      BY <1>0, <3>6 DEF Acknowledge, RejectDelivery, WorkerDies, WorkerGone, IdleWorker
    <3> QED BY <1>3, <3>2, <3>3, <3>4, <3>5, <3>6 DEF WorkerStep
  <2>5. \A a \in applied' : a \in applied \/ a.seen = worker[w].dec
    BY <1>3 DEF WorkerStep, Claim, BeginRun, BeginResume, RunNode, Interrupt,
         NotifyApprover, MarkCompleted, ExecutorRaises, MarkFailed, ExecutorCrashes,
         MarkCrashed, MarkCrashedRaises, Acknowledge, RejectDelivery, WorkerDies, WorkerGone
  <2> QED BY <1>1, <2>2, <2>3, <2>4, <2>5, NamedPauses DEF NamesPast
<1> QED BY <1>2, <1>3

LEMMA StepPauses ==
    ASSUME Typed, PausesHaveHappened, [Next]_vars
    PROVE  PausesHaveHappened'
<1> USE DEF observed
<1>0. row \in RowType
  BY DEF Typed
<1>1. ASSUME UNCHANGED <<worker, client, audit, pauseLog, applied>>,
             row'.pend = row.pend, row'.decision = row.decision,
             oldPauses' \subseteq oldPauses \cup {row.pend}
      PROVE  PausesHaveHappened'
  BY <1>1, PausesStay, NamedPauses DEF NamesPast
<1>2. CASE UNCHANGED vars
  BY <1>1, <1>2 DEF vars
<1>3. CASE QueueStep
  BY <1>1, <1>3 DEF QueueStep, AlreadyClaimed, DeliveryFails
<1>4. CASE Age \/ ExpireLease \/ ExpirePause
  <2>1. row'.pend = row.pend /\ row'.decision = row.decision
    BY <1>0, <1>4 DEF Age, ExpireLease, ExpirePause, RowType
  <2> QED BY <1>1, <1>4, <2>1 DEF Age, ExpireLease, ExpirePause
<1>5. ASSUME NEW s \in Sweepers, SweeperStep(s) PROVE PausesHaveHappened'
  <2>1. row'.pend = row.pend /\ row'.decision = row.decision
    BY <1>0, <1>5 DEF SweeperStep, ScanStuck, ScanApprovals, ScanLeases, ScanRaises, EndSweep,
       SweepFail, SweepDeadLetter, SweepReenqueue, SweepClearLease, SweepRowRaises, Update,
       RowType
  <2>2. UNCHANGED <<worker, client, audit, pauseLog, applied, oldPauses>>
    BY <1>5 DEF SweeperStep, ScanStuck, ScanApprovals, ScanLeases, ScanRaises, EndSweep,
       SweepFail, SweepDeadLetter, SweepReenqueue, SweepClearLease, SweepRowRaises
  <2> QED BY <1>1, <2>1, <2>2
<1> QED BY <1>2, <1>3, <1>4, <1>5, ClientStepPauses, WorkerStepPauses DEF Next

LEMMA InitPauses == Init => PausesHaveHappened
<1> SUFFICES ASSUME Init PROVE PausesHaveHappened
  OBVIOUS
<1>1. Len(pauseLog) = 0 /\ row.pend = 0 /\ row.decision = 0
  BY DEF Init, NoRow
<1>2. 0 \in Past
  BY <1>1 DEF Past
<1>3. \A w \in Workers : worker[w].dec = 0
  BY DEF Init, IdleWorker
<1>4. \A c \in Clients : client[c].seen = 0 /\ client[c].snap = 0
  BY DEF Init
<1>5. oldPauses = {} /\ audit = {} /\ applied = {}
  BY DEF Init
<1> QED BY <1>1, <1>2, <1>3, <1>4, <1>5, NamedPauses DEF NamesPast

LEMMA AllTyped == Spec => []Typed
BY InitType, StepType, PTL DEF Spec

\* Type correctness: whatever the interleaving, the row, the queue and every
\* handler stay within the values the code can give them, and none of them
\* names a pause that has not happened.
THEOREM TypeCorrect == Spec => []TypeOK
<1>1. Typed /\ PausesHaveHappened /\ [Next]_vars => PausesHaveHappened'
  BY StepPauses
<1>2. Typed /\ PausesHaveHappened => TypeOK
  BY DEF TypeOK
<1> QED BY <1>1, <1>2, InitPauses, AllTyped, PTL DEF Spec

-----------------------------------------------------------------------------
(* Safety.                                                                 *)

(* A step that makes no worker drive, starts nothing and leaves the lease  *)
(* of a running row alone.                                                 *)
LEMMA NothingBegins ==
    ASSUME SoleDriver, raced => raced',
           \A w \in Workers : Driving(w)' => Driving(w),
           \/ row'.status \notin {"absent", "queued", "waiting_approval"}
           \/ row'.status = row.status,
           row'.status = "running" => row.status = "running" /\ row'.lease = row.lease
    PROVE  SoleDriver'
BY DEF SoleDriver

LEMMA SameDrivers ==
    ASSUME UNCHANGED worker
    PROVE  \A w \in Workers : Driving(w)' <=> Driving(w)
BY DEF Driving

LEMMA WorkerMoves ==
    ASSUME worker \in [Workers -> WorkerType], NEW w \in Workers,
           NEW p \in WorkerPcs, WorkerTo(w, p), Driving(w) \/ p \notin {"claimed", "driving", "paused"}
    PROVE  /\ \A v \in Workers : Driving(v)' => Driving(v)
           /\ p \notin {"claimed", "driving", "paused"} => ~Driving(w)'
BY WorkerToEffect DEF Driving

LEMMA WorkerLeaves ==
    ASSUME worker \in [Workers -> WorkerType], NEW w \in Workers,
           worker' = [worker EXCEPT ![w] = IdleWorker]
    PROVE  \A v \in Workers : Driving(v)' => Driving(v)
BY DEF Driving, IdleWorker

(* No request makes a worker drive; only an approval touches a lease, and  *)
(* it needs a paused row, which nobody drives.                             *)
LEMMA ClientStepSole ==
    ASSUME Typed, SoleDriver, NEW c \in Clients, ClientStep(c)
    PROVE  SoleDriver'
<1> USE DEF observed
<1>0. row \in RowType
  BY DEF Typed
<1>1. UNCHANGED <<worker, raced>>
  BY DEF ClientStep, StartExecution, EnqueueRun, EnqueueRunRaises, MarkEnqueueFailed,
         CancelRead, CancelWrite, ViewPause, ReadPause, FlipToRunning, CreateApproval,
         StampDecision, EnqueueResume, DeleteRead, DeleteCheckpoints, DeleteRow, RequestDies
<1>2. \A w \in Workers : Driving(w)' => Driving(w)
  BY <1>1, SameDrivers
<1>3. CASE UNCHANGED row
  BY <1>1, <1>2, <1>3, NothingBegins
<1>4. CASE StartExecution(c)
  BY <1>1, <1>2, <1>4 DEF StartExecution, SoleDriver
<1>5. CASE MarkEnqueueFailed(c)
  <2>1. row'.status \in {"failed", row.status} /\ row'.lease = row.lease
    BY <1>0, <1>5 DEF MarkEnqueueFailed, RowType
  <2> QED BY <1>1, <1>2, <2>1, NothingBegins
<1>6. CASE CancelWrite(c)
  <2>1. row'.status \in {"canceled", row.status} /\ row'.lease = row.lease
    BY <1>0, <1>6 DEF CancelWrite, RowType
  <2> QED BY <1>1, <1>2, <2>1, NothingBegins
<1>7. CASE FlipToRunning(c)
  <2>1. CASE row.status = "waiting_approval"
    BY <1>1, <1>2, <2>1 DEF SoleDriver
  <2>2. CASE row.status # "waiting_approval"
    BY <1>3, <1>7, <2>2 DEF FlipToRunning
  <2> QED BY <2>1, <2>2
<1>8. CASE StampDecision(c)
  <2>1. row'.status = row.status /\ row'.lease = row.lease
    BY <1>0, <1>8 DEF StampDecision, Update, RowType
  <2> QED BY <1>1, <1>2, <2>1, NothingBegins
<1>9. CASE DeleteRow(c)
  <2>1. row'.status = "deleted"
    BY <1>9 DEF DeleteRow, NoRow
  <2> QED BY <1>1, <1>2, <2>1, NothingBegins
<1> QED
  BY <1>3, <1>4, <1>5, <1>6, <1>7, <1>8, <1>9
     DEF ClientStep, EnqueueRun, EnqueueRunRaises, CancelRead, ViewPause, ReadPause,
         CreateApproval, EnqueueResume, DeleteRead, DeleteCheckpoints, RequestDies

(* A claim needs a row nobody drives; a worker that pauses the execution   *)
(* was its only driver and stops driving.                                  *)
LEMMA WorkerStepSole ==
    ASSUME Typed, SoleDriver, NEW w \in Workers, WorkerStep(w)
    PROVE  SoleDriver'
<1> USE DEF observed
<1>0. row \in RowType /\ worker \in [Workers -> WorkerType]
  BY DEF Typed
<1>a. UNCHANGED raced
  BY DEF WorkerStep, Claim, BeginRun, BeginResume, RunNode, Interrupt, MarkWaitingApproval,
         NotifyApprover, MarkCompleted, ExecutorRaises, MarkFailed, ExecutorCrashes,
         MarkCrashed, MarkCrashedRaises, Acknowledge, RejectDelivery, WorkerDies, WorkerGone
<1>1. ASSUME NEW k \in Kinds, Claim(w, k) PROVE SoleDriver'
  <2>1. RequestDeadline /\ ~raced => \A v \in Workers : ~Driving(v)
    BY <1>1 DEF Claim, Claimable, SoleDriver, Active
  <2>2. row'.status = "running" /\ row'.lease = "live"
    BY <1>0, <1>1 DEF Claim, BecomesRunning, RowType
  <2>3. \A v \in Workers : v # w => worker'[v] = worker[v]
    BY <1>0, <1>1 DEF Claim
  <2> QED BY <1>a, <2>1, <2>2, <2>3 DEF SoleDriver, Driving
<1>2. ASSUME NEW p \in WorkerPcs, WorkerTo(w, p), UNCHANGED row,
             Driving(w) \/ p \notin {"claimed", "driving", "paused"}
      PROVE  SoleDriver'
  BY <1>0, <1>a, <1>2, WorkerMoves, NothingBegins
<1>3. CASE BeginRun(w)
  BY <1>2, <1>3 DEF BeginRun, WorkerPcs, Driving, WorkerAt
<1>4. CASE BeginResume(w)
  <2>1. \A v \in Workers : v # w => worker'[v] = worker[v]
    BY <1>0, <1>4 DEF BeginResume
  <2>2. \A v \in Workers : Driving(v)' => Driving(v)
    BY <1>4, <2>1 DEF BeginResume, Driving, WorkerAt
  <2>3. UNCHANGED row
    BY <1>4 DEF BeginResume
  <2> QED BY <1>a, <2>2, <2>3, NothingBegins
<1>5. CASE RunNode(w)
  <2>1. \A v \in Workers : v # w => worker'[v] = worker[v]
    BY <1>0, <1>5 DEF RunNode
  <2>2. \A v \in Workers : Driving(v)' => Driving(v)
    BY <1>5, <2>1 DEF RunNode, Driving, WorkerAt
  <2>3. UNCHANGED row
    BY <1>5 DEF RunNode
  <2> QED BY <1>a, <2>2, <2>3, NothingBegins
<1>6. CASE Interrupt(w)
  BY <1>2, <1>6 DEF Interrupt, WorkerPcs, Driving, WorkerAt
<1>7. CASE MarkWaitingApproval(w)
  <2>1. Driving(w) /\ WorkerTo(w, "notify")
    BY <1>7 DEF MarkWaitingApproval, Driving, WorkerAt
  <2>2. /\ \A v \in Workers : Driving(v)' => Driving(v)
        /\ ~Driving(w)'
    BY <1>0, <2>1, WorkerMoves DEF WorkerPcs
  <2>3. RequestDeadline /\ ~raced => \A v \in Workers : ~Driving(v)'
    BY <2>1, <2>2 DEF SoleDriver
  <2> QED BY <1>a, <2>3 DEF SoleDriver
<1>8. CASE NotifyApprover(w)
  BY <1>2, <1>8 DEF NotifyApprover, WorkerPcs
<1>9. ASSUME NEW p \in {"ack", "nack"}, WorkerTo(w, p),
             row'.status \in Terminal \cup {row.status}, row'.lease = row.lease
      PROVE  SoleDriver'
  <2>1. \A v \in Workers : Driving(v)' => Driving(v)
    BY <1>0, <1>9, WorkerMoves DEF WorkerPcs
  <2> QED BY <1>a, <1>9, <2>1, NothingBegins DEF Terminal
<1>10. CASE MarkCompleted(w)
  <2>1. row'.status \in {"completed", row.status} /\ row'.lease = row.lease
    BY <1>0, <1>10 DEF MarkCompleted, Update, RowType
  <2> QED BY <1>9, <1>10, <2>1 DEF MarkCompleted, Terminal
<1>11. CASE ExecutorRaises(w)
  BY <1>2, <1>11 DEF ExecutorRaises, WorkerPcs
<1>12. CASE MarkFailed(w)
  <2>1. row'.status \in {"failed", row.status} /\ row'.lease = row.lease
    BY <1>0, <1>12 DEF MarkFailed, Update, RowType
  <2> QED BY <1>9, <1>12, <2>1 DEF MarkFailed, Terminal
<1>13. CASE ExecutorCrashes(w)
  BY <1>2, <1>13 DEF ExecutorCrashes, WorkerPcs
<1>14. CASE MarkCrashed(w)
  <2>1. row'.status \in {"failed", row.status} /\ row'.lease = row.lease
    BY <1>0, <1>14 DEF MarkCrashed, RowType
  <2> QED BY <1>9, <1>14, <2>1 DEF MarkCrashed, Terminal
<1>15. CASE MarkCrashedRaises(w)
  BY <1>2, <1>15 DEF MarkCrashedRaises, WorkerPcs
<1>16. CASE Acknowledge(w) \/ RejectDelivery(w) \/ WorkerDies(w)
  <2>1. worker' = [worker EXCEPT ![w] = IdleWorker] /\ UNCHANGED row
    BY <1>16 DEF Acknowledge, RejectDelivery, WorkerDies, WorkerGone
  <2> QED BY <1>0, <1>a, <2>1, WorkerLeaves, NothingBegins
<1> QED BY <1>1, <1>3, <1>4, <1>5, <1>6, <1>7, <1>8, <1>10, <1>11, <1>12, <1>13, <1>14,
           <1>15, <1>16 DEF WorkerStep

(* A lease expires only when no request is in flight, and a sweep that     *)
(* clears one the row had got back is recorded in raced.                   *)
LEMMA OtherStepSole ==
    ASSUME Typed, SoleDriver,
           \/ QueueStep \/ Age \/ ExpireLease \/ ExpirePause
           \/ \E s \in Sweepers : SweeperStep(s)
    PROVE  SoleDriver'
<1> USE DEF observed
<1>0. row \in RowType
  BY DEF Typed
<1>1. UNCHANGED worker
  BY DEF QueueStep, AlreadyClaimed, DeliveryFails, Age, ExpireLease, ExpirePause,
         SweeperStep, ScanStuck, ScanApprovals, ScanLeases, ScanRaises, EndSweep, SweepFail,
         SweepDeadLetter, SweepReenqueue, SweepClearLease, SweepRowRaises
<1>2. \A w \in Workers : Driving(w)' => Driving(w)
  BY <1>1, SameDrivers
<1>3. CASE UNCHANGED <<row, raced>>
  BY <1>2, <1>3, NothingBegins
<1>4. CASE Age
  <2>1. row'.status = row.status /\ row'.lease = row.lease /\ UNCHANGED raced
    BY <1>0, <1>4 DEF Age, RowType
  <2> QED BY <1>2, <2>1, NothingBegins
<1>5. CASE ExpireLease
  <2>1. RequestDeadline => \A w \in Workers : ~Driving(w)
    BY <1>5 DEF ExpireLease, WorkerAt, Driving
  <2> QED BY <1>2, <2>1 DEF SoleDriver
<1>6. ASSUME NEW s \in Sweepers, SweepFail(s) PROVE SoleDriver'
  <2>1. row'.status \in {"failed", row.status} /\ row'.lease = row.lease /\ UNCHANGED raced
    BY <1>0, <1>6 DEF SweepFail, Update, RowType
  <2> QED BY <1>2, <2>1, NothingBegins
<1>7. ASSUME NEW s \in Sweepers, SweepDeadLetter(s) PROVE SoleDriver'
  <2>1. /\ row' = row \/ row'.status = "failed"
        /\ UNCHANGED raced
    BY <1>0, <1>7 DEF SweepDeadLetter, Update, RowType
  <2> QED BY <1>2, <2>1, NothingBegins
<1>8. ASSUME NEW s \in Sweepers, SweepClearLease(s) PROVE SoleDriver'
  <2>1. row'.status = row.status
    BY <1>0, <1>8 DEF SweepClearLease, Update, RowType
  <2>2. raced' = (raced \/ row.lease = "live")
    BY <1>8 DEF SweepClearLease
  <2>3. CASE RequestDeadline /\ ~raced'
    <3>1. ~raced /\ row.lease # "live"
      BY <2>2, <2>3
    <3>2. \A w \in Workers : Driving(w) => row.status # "running"
      BY <2>3, <3>1 DEF SoleDriver
    <3> QED BY <1>2, <2>1, <2>3, <3>1, <3>2 DEF SoleDriver
  <2> QED BY <2>3 DEF SoleDriver
<1> QED
  BY <1>3, <1>4, <1>5, <1>6, <1>7, <1>8
     DEF QueueStep, AlreadyClaimed, DeliveryFails, ExpirePause, SweeperStep, ScanStuck,
         ScanApprovals, ScanLeases, ScanRaises, EndSweep, SweepReenqueue, SweepRowRaises

LEMMA StepSole == Typed /\ SoleDriver /\ [Next]_vars => SoleDriver'
<1> SUFFICES ASSUME Typed, SoleDriver, [Next]_vars PROVE SoleDriver'
  OBVIOUS
<1>1. CASE Next
  BY <1>1, ClientStepSole, WorkerStepSole, OtherStepSole DEF Next
<1>2. CASE UNCHANGED vars
  BY <1>2 DEF vars, SoleDriver, Driving
<1> QED BY <1>1, <1>2

LEMMA InitSole == Init => SoleDriver
BY DEF Init, SoleDriver, Driving, IdleWorker

\* One driver: the claim's WHERE clause, the approval that clears the lease of
\* a paused row and the lease's length together keep a second worker from
\* driving the graph of an execution that has one, for any number of workers,
\* requests and sweeps.
THEOREM OneDriverHolds == Spec => []OneDriver
<1>1. SoleDriver => OneDriver
  BY DEF SoleDriver, OneDriver
<1> QED BY <1>1, InitSole, StepSole, AllTyped, PTL DEF Spec

(* Before the first claim nothing but the creator's request, cancels and   *)
(* deletes can take a step that concerns the row.                          *)
ApprovalPcs == {"viewed", "flip", "audit", "stamp", "enqueue_resume"}

LEMMA DeletedStays ==
    ASSUME Typed, Next, row.status = "deleted"
    PROVE  row'.status = "deleted"
<1>0. row \in RowType
  BY DEF Typed
<1>1. ASSUME NEW c \in Clients, ClientStep(c) PROVE row'.status = "deleted"
  <2> USE <1>0, <1>1
  <2>1. row' = row \/ row' = NoRow
    BY DEF ClientStep, StartExecution, EnqueueRun, EnqueueRunRaises, MarkEnqueueFailed,
           CancelRead, CancelWrite, ViewPause, ReadPause, FlipToRunning, CreateApproval,
           StampDecision, EnqueueResume, DeleteRead, DeleteCheckpoints, DeleteRow,
           RequestDies, Update, Gone, Active, observed
  <2> QED BY <2>1 DEF NoRow
<1>2. ASSUME NEW w \in Workers, WorkerStep(w) PROVE row' = row
  BY <1>2 DEF WorkerStep, Claim, Claimable, Active, BeginRun, BeginResume, RunNode, Interrupt,
              MarkWaitingApproval, NotifyApprover, MarkCompleted, ExecutorRaises, MarkFailed,
              ExecutorCrashes, MarkCrashed, MarkCrashedRaises, Acknowledge, RejectDelivery,
              WorkerDies, WorkerGone, Update, Gone
<1>3. CASE QueueStep
  BY <1>3 DEF QueueStep, AlreadyClaimed, DeliveryFails
<1>4. CASE Age \/ ExpireLease \/ ExpirePause
  BY <1>0, <1>4 DEF Age, ExpireLease, ExpirePause, RowType
<1>5. ASSUME NEW s \in Sweepers, SweeperStep(s) PROVE row' = row
  BY <1>5 DEF SweeperStep, ScanStuck, ScanApprovals, ScanLeases, ScanRaises, EndSweep,
              SweepFail, SweepDeadLetter, SweepReenqueue, SweepClearLease, SweepRowRaises,
              Update, Gone
<1> QED BY <1>1, <1>2, <1>3, <1>4, <1>5 DEF Next

LEMMA AttemptsCount ==
    ASSUME Typed, Next, row.attempts # 0
    PROVE  row'.attempts # 0 \/ row'.status = "deleted"
<1>0. row \in RowType
  BY DEF Typed
<1>2. ASSUME NEW c \in Clients, ClientStep(c)
      PROVE  row'.attempts # 0 \/ row'.status = "deleted"
  <2>1. CASE DeleteRow(c)
    BY <2>1 DEF DeleteRow, NoRow
  <2>2. CASE FlipToRunning(c)
    BY <1>0, <2>2 DEF FlipToRunning, BecomesRunning, RowType
  <2>3. CASE StampDecision(c)
    BY <1>0, <2>3 DEF StampDecision, Update, RowType
  <2>4. CASE StartExecution(c) \/ MarkEnqueueFailed(c) \/ CancelWrite(c)
    BY <1>0, <2>4 DEF StartExecution, MarkEnqueueFailed, CancelWrite, RowType
  <2>5. CASE UNCHANGED row
    BY <2>5
  <2> QED BY <1>2, <2>1, <2>2, <2>3, <2>4, <2>5
             DEF ClientStep, EnqueueRun, EnqueueRunRaises, CancelRead, ViewPause, ReadPause,
                 CreateApproval, EnqueueResume, DeleteRead, DeleteCheckpoints, RequestDies
<1>3. ASSUME NEW w \in Workers, WorkerStep(w) PROVE row'.attempts # 0
  <2>1. ASSUME NEW k \in Kinds, Claim(w, k) PROVE row'.attempts # 0
    <3> DEFINE a == IF row.attempts < MaxDeliveryAttempts THEN row.attempts + 1 ELSE row.attempts
    <3>1. a # 0
      BY RowValues, <1>0, LifecycleAssumption
    <3>2. row' = BecomesRunning([row EXCEPT !.lease = "live", !.attempts = a])
      BY <2>1 DEF Claim
    <3> HIDE DEF a
    <3>3. row'.attempts = a
      BY <1>0, <3>2 DEF BecomesRunning, RowType
    <3> QED BY <3>1, <3>3
  <2>2. CASE MarkWaitingApproval(w) \/ MarkCompleted(w)
    BY <1>0, <2>2 DEF MarkWaitingApproval, MarkCompleted, Update, RowType
  <2>3. CASE MarkFailed(w) \/ MarkCrashed(w)
    BY <1>0, <2>3 DEF MarkFailed, MarkCrashed, Update, RowType
  <2>4. CASE UNCHANGED row
    BY <2>4
  <2> QED BY <1>3, <2>1, <2>2, <2>3, <2>4
             DEF WorkerStep, BeginRun, BeginResume, RunNode, Interrupt, NotifyApprover,
                 ExecutorRaises, ExecutorCrashes, MarkCrashedRaises, Acknowledge,
                 RejectDelivery, WorkerDies, WorkerGone
<1>4. CASE QueueStep
  BY <1>4 DEF QueueStep, AlreadyClaimed, DeliveryFails
<1>5. CASE Age \/ ExpireLease \/ ExpirePause
  BY <1>0, <1>5 DEF Age, ExpireLease, ExpirePause, RowType
<1>6. ASSUME NEW s \in Sweepers, SweeperStep(s) PROVE row'.attempts # 0
  <2>1. CASE SweepFail(s) \/ SweepDeadLetter(s) \/ SweepClearLease(s)
    BY <1>0, <2>1 DEF SweepFail, SweepDeadLetter, SweepClearLease, Update, RowType
  <2>2. CASE UNCHANGED row
    BY <2>2
  <2> QED BY <1>6, <2>1, <2>2 DEF SweeperStep, ScanStuck, ScanApprovals, ScanLeases,
             ScanRaises, EndSweep, SweepReenqueue, SweepRowRaises
<1> QED BY <1>2, <1>3, <1>4, <1>5, <1>6 DEF Next

LEMMA ClientStepUntouched ==
    ASSUME Typed, UntouchedBeforeClaim, NEW c \in Clients, ClientStep(c),
           row.attempts = 0, row.status # "deleted"
    PROVE  /\ UntouchedBeforeClaim'
           /\ row.status = "canceled" => row'.status \in {"canceled", "deleted"}
           /\ ran' = ran
<1> USE DEF observed
<1>0. row \in RowType /\ client \in [Clients -> ClientType]
  BY DEF Typed
<1>1. UNCHANGED <<worker, sweeper, ran>>
  BY DEF ClientStep, StartExecution, EnqueueRun, EnqueueRunRaises, MarkEnqueueFailed,
         CancelRead, CancelWrite, ViewPause, ReadPause, FlipToRunning, CreateApproval,
         StampDecision, EnqueueResume, DeleteRead, DeleteCheckpoints, DeleteRow, RequestDies
<1>2. /\ row.status \in {"absent", "queued", "failed", "canceled"}
      /\ \A d \in Clients : client[d].pc \notin ApprovalPcs
  BY DEF UntouchedBeforeClaim, ApprovalPcs
<1>3. ~(ViewPause(c) \/ ReadPause(c) \/ FlipToRunning(c) \/ CreateApproval(c)
        \/ StampDecision(c) \/ EnqueueResume(c))
  BY <1>2 DEF ViewPause, ReadPause, FlipToRunning, CreateApproval, StampDecision,
              EnqueueResume, ClientAt, ApprovalPcs
<1>4. \A d \in Clients : client'[d].pc \notin ApprovalPcs
  <2>1. ASSUME NEW p \in ClientPcs \ ApprovalPcs, ClientTo(c, p)
        PROVE  \A d \in Clients : client'[d].pc \notin ApprovalPcs
    BY <1>0, <1>2, <2>1, ClientToEffect
  <2>2. ASSUME NEW o \in ClientOps, NEW p \in ClientPcs \ ApprovalPcs, ClientBegins(c, o, p, 0)
        PROVE  \A d \in Clients : client'[d].pc \notin ApprovalPcs
    BY <1>0, <1>2, <2>2 DEF ClientBegins
  <2>3. CASE StartExecution(c)
    BY <2>2, <2>3 DEF StartExecution, ClientPcs, ApprovalPcs
  <2>4. CASE CancelRead(c) \/ DeleteRead(c)
    BY <2>2, <2>4 DEF CancelRead, DeleteRead, ClientPcs, ApprovalPcs
  <2>5. CASE EnqueueRunRaises(c)
    BY <2>1, <2>5 DEF EnqueueRunRaises, ClientPcs, ApprovalPcs
  <2>6. CASE EnqueueRun(c) \/ MarkEnqueueFailed(c) \/ CancelWrite(c) \/ DeleteCheckpoints(c)
             \/ DeleteRow(c) \/ RequestDies(c)
    BY <2>1, <2>6 DEF EnqueueRun, MarkEnqueueFailed, CancelWrite, DeleteCheckpoints,
                      DeleteRow, RequestDies, ClientPcs, ApprovalPcs
  <2> QED BY <1>3, <2>3, <2>4, <2>5, <2>6 DEF ClientStep
<1>5. /\ row'.status \in {"queued", "failed", "canceled", "deleted", row.status}
      /\ row.status = "canceled" => row'.status \in {"canceled", "deleted"}
  <2>1. CASE UNCHANGED row
    BY <2>1
  <2>2. CASE StartExecution(c) \/ MarkEnqueueFailed(c) \/ CancelWrite(c)
    BY <1>0, <2>2 DEF StartExecution, MarkEnqueueFailed, CancelWrite, RowType, Active
  <2>3. CASE DeleteRow(c)
    BY <2>3 DEF DeleteRow, NoRow
  <2> QED BY <1>3, <2>1, <2>2, <2>3 DEF ClientStep, EnqueueRun, EnqueueRunRaises,
             CancelRead, DeleteRead, DeleteCheckpoints, RequestDies
<1>6. UntouchedBeforeClaim'
  BY <1>1, <1>2, <1>4, <1>5 DEF UntouchedBeforeClaim, ApprovalPcs, WorkerAt
<1> QED BY <1>1, <1>5, <1>6

LEMMA WorkerStepUntouched ==
    ASSUME Typed, UntouchedBeforeClaim, NEW w \in Workers, WorkerStep(w),
           row.attempts = 0, row.status # "deleted"
    PROVE  row'.attempts # 0 /\ row.status # "canceled"
<1>1. WorkerAt(w, "idle")
  BY DEF UntouchedBeforeClaim
<1>2. PICK k \in Kinds : Claim(w, k)
  BY <1>1 DEF WorkerStep, BeginRun, BeginResume, RunNode, Interrupt, MarkWaitingApproval,
              NotifyApprover, MarkCompleted, ExecutorRaises, MarkFailed, ExecutorCrashes,
              MarkCrashed, MarkCrashedRaises, Acknowledge, RejectDelivery, WorkerDies, WorkerAt
<1>3. row'.attempts = 1
  <2> DEFINE a == IF row.attempts < MaxDeliveryAttempts THEN row.attempts + 1 ELSE row.attempts
  <2>1. a = 1
    BY LifecycleAssumption
  <2>2. row' = BecomesRunning([row EXCEPT !.lease = "live", !.attempts = a])
    BY <1>2 DEF Claim
  <2> HIDE DEF a
  <2>3. row'.attempts = a
    BY <2>2 DEF BecomesRunning, Typed, RowType
  <2> QED BY <2>1, <2>3
<1>4. row.status # "canceled"
  BY <1>2 DEF Claim, Claimable, Active
<1> QED BY <1>3, <1>4

LEMMA OtherStepUntouched ==
    ASSUME Typed, UntouchedBeforeClaim,
           \/ QueueStep \/ Age \/ ExpireLease \/ ExpirePause
           \/ \E s \in Sweepers : SweeperStep(s),
           row.attempts = 0, row.status # "deleted"
    PROVE  /\ UntouchedBeforeClaim'
           /\ row'.status = row.status /\ ran' = ran
<1> USE DEF observed
<1>0. row \in RowType /\ sweeper \in [Sweepers -> SweeperType]
  BY DEF Typed
<1>1. UNCHANGED <<worker, client, ran>>
  BY DEF QueueStep, AlreadyClaimed, DeliveryFails, Age, ExpireLease, ExpirePause,
         SweeperStep, ScanStuck, ScanApprovals, ScanLeases, ScanRaises, EndSweep, SweepFail,
         SweepDeadLetter, SweepReenqueue, SweepClearLease, SweepRowRaises
<1>2. /\ row.status \in {"absent", "queued", "failed", "canceled"}
      /\ \A s \in Sweepers : sweeper[s].act = "none"
  BY DEF UntouchedBeforeClaim
<1>3. row'.status = row.status /\ \A s \in Sweepers : sweeper'[s].act = "none"
  <2>1. CASE QueueStep
    BY <1>2, <2>1 DEF QueueStep, AlreadyClaimed, DeliveryFails
  <2>2. CASE Age \/ ExpireLease \/ ExpirePause
    BY <1>0, <1>2, <2>2 DEF Age, ExpireLease, ExpirePause, RowType
  <2>3. ASSUME NEW s \in Sweepers, SweeperStep(s)
        PROVE  row'.status = row.status /\ \A t \in Sweepers : sweeper'[t].act = "none"
    <3>1. /\ UNCHANGED row
          /\ \E pc : SweeperTo(s, pc, "none")
      BY <1>2, <2>3 DEF SweeperStep, ScanStuck, ScanApprovals, ScanLeases, ScanRaises, EndSweep,
         SweepFail, SweepDeadLetter, SweepReenqueue, SweepClearLease, SweepRowRaises,
         Stuck, Kinds
    <3> QED BY <1>0, <1>2, <3>1 DEF SweeperTo
  <2> QED BY <2>1, <2>2, <2>3
<1> QED BY <1>1, <1>2, <1>3 DEF UntouchedBeforeClaim, WorkerAt

LEMMA StepUntouched ==
    ASSUME Typed, UntouchedBeforeClaim, [Next]_vars
    PROVE  /\ UntouchedBeforeClaim'
           /\ row.status = "canceled" /\ row.attempts = 0
              => row'.status \in {"canceled", "deleted"} /\ ran' = ran
<1>1. CASE UNCHANGED vars
  BY <1>1 DEF vars, UntouchedBeforeClaim, WorkerAt
<1>2. CASE Next /\ row.status = "deleted"
  <2>1. row'.status = "deleted"
    BY <1>2, DeletedStays
  <2> QED BY <1>2, <2>1 DEF UntouchedBeforeClaim
<1>3. CASE Next /\ row.status # "deleted" /\ row.attempts = 0
  BY <1>3, ClientStepUntouched, WorkerStepUntouched, OtherStepUntouched
     DEF Next, UntouchedBeforeClaim
<1>4. CASE Next /\ row.status # "deleted" /\ row.attempts # 0
  <2>1. row'.attempts # 0 \/ row'.status = "deleted"
    BY <1>4, AttemptsCount
  <2> QED BY <1>4, <2>1 DEF UntouchedBeforeClaim
<1> QED BY <1>1, <1>2, <1>3, <1>4

LEMMA InitUntouched == Init => UntouchedBeforeClaim
BY DEF Init, NoRow, UntouchedBeforeClaim, WorkerAt, IdleWorker

\* An execution canceled before its first claim never runs and stays canceled
\* until it is deleted: neither its task, still in the queue, nor a failing
\* enqueue nor a sweep can undo cancel_execution's guarded write.
THEOREM CanceledInQueueStaysCanceled == Spec => CanceledQueuedNeverRuns
<1>1. Typed /\ UntouchedBeforeClaim /\ [Next]_vars => UntouchedBeforeClaim'
  BY StepUntouched
<1>2. Typed /\ UntouchedBeforeClaim /\ [Next]_vars
      => [row.status = "canceled" /\ row.attempts = 0
          => row'.status \in {"canceled", "deleted"} /\ ran' = ran]_vars
  BY StepUntouched
<1> QED BY <1>1, <1>2, InitUntouched, AllTyped, PTL DEF Spec, CanceledQueuedNeverRuns

---------------------------------------------------------------------------
(* ExecutionContract.                                                      *)

(* A worker or a sweep under way, and a delete, have seen a row that was   *)
(* submitted; the first two have seen one that had left the queue.         *)
SeenRows ==
    /\ Unsettled => row.status \notin {"absent", "queued"}
    /\ \A c \in Clients : client[c].pc \in {"delete_checkpoints", "delete_row"}
                          => row.status # "absent"

ContractStep == [Contract!Next]_<<row.status, Unsettled>>

(* What a step does to the status and to the work under way decides        *)
(* whether the contract has it.                                            *)
LEMMA Stays ==
    ASSUME row'.status = row.status, Unsettled' => Unsettled
    PROVE  ContractStep
<1>1. CASE Unsettled' = Unsettled
  BY <1>1 DEF ContractStep
<1>2. CASE Unsettled /\ Unsettled' = FALSE
  BY <1>2 DEF ContractStep, Contract!Next, Contract!Abandon
<1>3. Unsettled \in BOOLEAN /\ Unsettled' \in BOOLEAN
  BY DEF Unsettled
<1> QED BY <1>1, <1>2, <1>3

LEMMA Reports ==
    ASSUME Unsettled, row \in RowType, SeenRows,
           NEW s \in {"waiting_approval", "completed", "failed"},
           row'.status = IF row.status \in Gone THEN row.status ELSE s
    PROVE  ContractStep
<1>1. CASE row.status \in Gone
  <2>1. row'.status = row.status
    BY <1>1
  <2> QED BY <2>1, Stays
<1>2. CASE row.status \notin Gone
  <2>1. row.status \in {"running", "waiting_approval"} \cup Contract!Terminal
    BY <1>2, RowValues DEF SeenRows, Statuses, Active, Terminal, Gone, Contract!Terminal
  <2>2. row'.status = s
    BY <1>2
  <2>3. Unsettled' \in BOOLEAN
    BY DEF Unsettled
  <2> QED BY <2>1, <2>2, <2>3 DEF ContractStep, Contract!Next, Contract!Report
<1> QED BY <1>1, <1>2

LEMMA Takes ==
    ASSUME row.status \in Active, row'.status = "running", Unsettled'
    PROVE  ContractStep
<1>1. Unsettled' = TRUE
  BY DEF Unsettled
<1> QED BY <1>1 DEF ContractStep, Contract!Next, Contract!Take, Contract!Active, Active

LEMMA Suspects ==
    ASSUME row.status \in {"running", "waiting_approval"}, UNCHANGED row, Unsettled'
    PROVE  ContractStep
<1>1. Unsettled' = TRUE
  BY DEF Unsettled
<1> QED BY <1>1 DEF ContractStep, Contract!Next, Contract!Suspect, Contract!Active

LEMMA SameWork ==
    ASSUME UNCHANGED <<worker, sweeper>>
    PROVE  Unsettled' = Unsettled
BY DEF Unsettled

LEMMA ClientStepContract ==
    ASSUME Typed, SeenRows, NEW c \in Clients, ClientStep(c)
    PROVE  ContractStep
<1> USE DEF observed
<1>0. row \in RowType
  BY DEF Typed
<1>1. UNCHANGED <<worker, sweeper>>
  BY DEF ClientStep, StartExecution, EnqueueRun, EnqueueRunRaises, MarkEnqueueFailed,
         CancelRead, CancelWrite, ViewPause, ReadPause, FlipToRunning, CreateApproval,
         StampDecision, EnqueueResume, DeleteRead, DeleteCheckpoints, DeleteRow, RequestDies
<1>2. Unsettled' = Unsettled
  BY <1>1, SameWork
<1>3. CASE row'.status = row.status
  BY <1>2, <1>3, Stays
<1>4. CASE StartExecution(c)
  <2>1. row.status = "absent" /\ row'.status = "queued"
    BY <1>0, <1>4 DEF StartExecution, RowType
  <2> QED BY <1>2, <2>1 DEF ContractStep, Contract!Next, Contract!Submit
<1>5. CASE MarkEnqueueFailed(c) /\ row'.status # row.status
  <2>1. row.status = "queued" /\ row'.status = "failed"
    BY <1>0, <1>5 DEF MarkEnqueueFailed, RowType
  <2> QED BY <1>2, <2>1 DEF ContractStep, Contract!Next, Contract!Refuse
<1>6. CASE CancelWrite(c) /\ row'.status # row.status
  <2>1. row.status \in Active /\ row'.status = "canceled"
    BY <1>0, <1>6 DEF CancelWrite, RowType
  <2> QED BY <1>2, <2>1 DEF ContractStep, Contract!Next, Contract!Cancel, Contract!Active, Active
<1>7. CASE FlipToRunning(c) /\ row'.status # row.status
  <2>1. row.status = "waiting_approval" /\ row'.status = "running"
    BY <1>0, <1>7 DEF FlipToRunning, BecomesRunning, RowType
  <2> QED BY <1>2, <2>1 DEF ContractStep, Contract!Next, Contract!Approve
<1>8. CASE StampDecision(c)
  BY <1>0, <1>3, <1>8 DEF StampDecision, Update, RowType
<1>9. CASE DeleteRow(c)
  <2>1. row.status # "absent"
    BY <1>9 DEF DeleteRow, ClientAt, SeenRows
  <2>2. row'.status = "deleted"
    BY <1>9 DEF DeleteRow, NoRow
  <2> QED BY <1>2, <2>1, <2>2 DEF ContractStep, Contract!Next, Contract!Delete
<1> QED
  BY <1>3, <1>4, <1>5, <1>6, <1>7, <1>8, <1>9
     DEF ClientStep, EnqueueRun, EnqueueRunRaises, CancelRead, ViewPause, ReadPause,
         CreateApproval, EnqueueResume, DeleteRead, DeleteCheckpoints, RequestDies

(* A worker that stays, or becomes, idle or answered adds no work.         *)
Busy(w) == worker[w].pc \notin {"idle", "ack", "nack"}

LEMMA WorkShrinks ==
    ASSUME UNCHANGED sweeper, \A w \in Workers : Busy(w)' => Busy(w)
    PROVE  Unsettled' => Unsettled
BY DEF Unsettled, Busy

LEMMA BusyWorkerMoves ==
    ASSUME worker \in [Workers -> WorkerType], NEW w \in Workers, NEW p \in WorkerPcs,
           WorkerTo(w, p), Busy(w) \/ p \in {"ack", "nack"}
    PROVE  \A v \in Workers : Busy(v)' => Busy(v)
BY WorkerToEffect DEF Busy

LEMMA WorkerStepContract ==
    ASSUME Typed, SeenRows, NEW w \in Workers, WorkerStep(w)
    PROVE  ContractStep
<1> USE DEF observed
<1>0. row \in RowType /\ worker \in [Workers -> WorkerType]
  BY DEF Typed
<1>1. UNCHANGED sweeper
  BY DEF WorkerStep, Claim, BeginRun, BeginResume, RunNode, Interrupt, MarkWaitingApproval,
         NotifyApprover, MarkCompleted, ExecutorRaises, MarkFailed, ExecutorCrashes,
         MarkCrashed, MarkCrashedRaises, Acknowledge, RejectDelivery, WorkerDies, WorkerGone
<1>2. ASSUME NEW k \in Kinds, Claim(w, k) PROVE ContractStep
  <2>1. row.status \in Active
    BY <1>2 DEF Claim, Claimable
  <2>2. row'.status = "running"
    BY <1>0, <1>2 DEF Claim, BecomesRunning, RowType
  <2>3. worker'[w].pc = "claimed"
    BY <1>0, <1>2 DEF Claim
  <2>4. Unsettled'
    BY <2>3 DEF Unsettled
  <2> QED BY <2>1, <2>2, <2>4, Takes
<1>3. ASSUME NEW p \in WorkerPcs, WorkerTo(w, p), Busy(w) \/ p \in {"ack", "nack"}, UNCHANGED row
      PROVE  ContractStep
  BY <1>0, <1>1, <1>3, BusyWorkerMoves, WorkShrinks, Stays
<1>4. CASE BeginRun(w)
  BY <1>3, <1>4 DEF BeginRun, WorkerAt, Busy, WorkerPcs
<1>5. CASE BeginResume(w) \/ RunNode(w)
  <2>1. \A v \in Workers : v # w => worker'[v] = worker[v]
    BY <1>0, <1>5 DEF BeginResume, RunNode
  <2>2. Busy(w)
    BY <1>5 DEF BeginResume, RunNode, WorkerAt, Busy
  <2>3. \A v \in Workers : Busy(v)' => Busy(v)
    BY <2>1, <2>2 DEF Busy
  <2>4. UNCHANGED row
    BY <1>5 DEF BeginResume, RunNode
  <2> QED BY <1>1, <2>3, <2>4, WorkShrinks, Stays
<1>6. CASE Interrupt(w) \/ NotifyApprover(w) \/ MarkCrashedRaises(w)
  BY <1>3, <1>6 DEF Interrupt, NotifyApprover, MarkCrashedRaises, WorkerAt, Busy, WorkerPcs
<1>7. CASE ExecutorRaises(w) \/ ExecutorCrashes(w)
  BY <1>3, <1>7 DEF ExecutorRaises, ExecutorCrashes, Busy, WorkerPcs
<1>8. ASSUME Busy(w), NEW s \in {"waiting_approval", "completed", "failed"},
             row'.status = IF row.status \in Gone THEN row.status ELSE s
      PROVE  ContractStep
  BY <1>0, <1>8, Reports DEF Unsettled, Busy
<1>9. CASE MarkWaitingApproval(w)
  <2>1. row'.status = IF row.status \in Gone THEN row.status ELSE "waiting_approval"
    BY <1>0, <1>9 DEF MarkWaitingApproval, Update, RowType
  <2> QED BY <1>8, <1>9, <2>1 DEF MarkWaitingApproval, WorkerAt, Busy
<1>10. CASE MarkCompleted(w)
  <2>1. row'.status = IF row.status \in Gone THEN row.status ELSE "completed"
    BY <1>0, <1>10 DEF MarkCompleted, Update, RowType
  <2> QED BY <1>8, <1>10, <2>1 DEF MarkCompleted, WorkerAt, Busy
<1>11. CASE MarkFailed(w)
  <2>1. row'.status = IF row.status \in Gone THEN row.status ELSE "failed"
    BY <1>0, <1>11 DEF MarkFailed, Update, RowType
  <2> QED BY <1>8, <1>11, <2>1 DEF MarkFailed, WorkerAt, Busy
<1>12. CASE MarkCrashed(w)
  <2>1. CASE row.status = "running"
    <3>1. row'.status = "failed"
      BY <1>0, <1>12, <2>1 DEF MarkCrashed, RowType
    <3> QED BY <1>8, <1>12, <2>1, <3>1 DEF MarkCrashed, WorkerAt, Busy, Gone
  <2>2. CASE row.status # "running"
    BY <1>3, <1>12, <2>2 DEF MarkCrashed, WorkerPcs
  <2> QED BY <2>1, <2>2
<1>13. CASE Acknowledge(w) \/ RejectDelivery(w) \/ WorkerDies(w)
  <2>1. worker' = [worker EXCEPT ![w] = IdleWorker] /\ UNCHANGED row
    BY <1>13 DEF Acknowledge, RejectDelivery, WorkerDies, WorkerGone
  <2>2. \A v \in Workers : Busy(v)' => Busy(v)
    BY <1>0, <2>1 DEF Busy, IdleWorker
  <2> QED BY <1>1, <2>1, <2>2, WorkShrinks, Stays
<1> QED BY <1>2, <1>4, <1>5, <1>6, <1>7, <1>9, <1>10, <1>11, <1>12, <1>13 DEF WorkerStep

LEMMA SweeperToEffect ==
    ASSUME sweeper \in [Sweepers -> SweeperType], NEW s \in Sweepers, NEW pc, NEW act,
           SweeperTo(s, pc, act), UNCHANGED worker
    PROVE  /\ act = "none" => (Unsettled' => Unsettled)
           /\ sweeper[s].act # "none" => (Unsettled' => Unsettled)
           /\ act # "none" => Unsettled'
BY DEF SweeperTo, Unsettled

LEMMA SweeperStepContract ==
    ASSUME Typed, SeenRows, NEW s \in Sweepers, SweeperStep(s)
    PROVE  ContractStep
<1> USE DEF observed
<1>0. row \in RowType /\ sweeper \in [Sweepers -> SweeperType]
  BY DEF Typed
<1>1. UNCHANGED worker
  BY DEF SweeperStep, ScanStuck, ScanApprovals, ScanLeases, ScanRaises, EndSweep, SweepFail,
         SweepDeadLetter, SweepReenqueue, SweepClearLease, SweepRowRaises
<1>2. ASSUME NEW pc, NEW act, SweeperTo(s, pc, act), UNCHANGED row,
             act # "none" /\ sweeper[s].act = "none"
                => row.status \in {"running", "waiting_approval"}
      PROVE  ContractStep
  BY <1>0, <1>1, <1>2, SweeperToEffect, Stays, Suspects
<1>3. CASE ScanStuck(s) \/ ScanApprovals(s) \/ ScanLeases(s)
  BY <1>2, <1>3 DEF ScanStuck, ScanApprovals, ScanLeases, Stuck, Active
<1>4. CASE ScanRaises(s) \/ EndSweep(s) \/ SweepRowRaises(s)
  BY <1>2, <1>4 DEF ScanRaises, EndSweep, SweepRowRaises
<1>5. CASE SweepReenqueue(s)
  BY <1>2, <1>5 DEF SweepReenqueue, Kinds
<1>6. CASE SweepFail(s) \/ SweepDeadLetter(s)
  <2>1. row'.status = IF row.status \in Gone THEN row.status ELSE "failed"
    BY <1>0, <1>6 DEF SweepFail, SweepDeadLetter, Update, RowType
  <2>2. Unsettled
    BY <1>6 DEF SweepFail, SweepDeadLetter, Unsettled
  <2> QED BY <1>0, <2>1, <2>2, Reports
<1>7. CASE SweepClearLease(s)
  <2>1. row'.status = row.status
    BY <1>0, <1>7 DEF SweepClearLease, Update, RowType
  <2>2. Unsettled' => Unsettled
    BY <1>0, <1>1, <1>7, SweeperToEffect DEF SweepClearLease
  <2> QED BY <2>1, <2>2, Stays
<1> QED BY <1>3, <1>4, <1>5, <1>6, <1>7 DEF SweeperStep

LEMMA StepContract ==
    ASSUME Typed, SeenRows, [Next]_vars
    PROVE  ContractStep
<1>1. CASE UNCHANGED vars
  BY <1>1, SameWork, Stays DEF vars
<1>2. CASE QueueStep
  BY <1>2, SameWork, Stays DEF QueueStep, AlreadyClaimed, DeliveryFails
<1>3. CASE Age \/ ExpireLease \/ ExpirePause
  <2>1. row'.status = row.status /\ UNCHANGED <<worker, sweeper>>
    BY <1>3 DEF Typed, RowType, Age, ExpireLease, ExpirePause
  <2> QED BY <2>1, SameWork, Stays
<1> QED BY <1>1, <1>2, <1>3, ClientStepContract, WorkerStepContract, SweeperStepContract DEF Next

(* The contract's own steps keep an execution that was submitted away from *)
(* absent, and one that left the queue out of it.                          *)
LEMMA ContractMovesOn ==
    ASSUME ContractStep, SeenRows
    PROVE  /\ row.status # "absent" => row'.status # "absent"
           /\ row.status \notin {"absent", "queued"} => row'.status \notin {"absent", "queued"}
           /\ Unsettled' => row'.status \notin {"absent", "queued"}
BY DEF ContractStep, SeenRows, Contract!Next, Contract!Submit, Contract!Refuse, Contract!Take,
       Contract!Suspect, Contract!Active, Contract!Approve, Contract!Cancel, Contract!Report, Contract!Abandon, Contract!Delete

(* Everything but a request leaves the requests where they are.            *)
LEMMA OtherStepsKeepRequests ==
    ASSUME [Next]_vars
    PROVE  (\E c \in Clients : ClientStep(c)) \/ UNCHANGED client
BY DEF vars, observed, Next, WorkerStep, Claim, BeginRun, BeginResume, RunNode,
       Interrupt, MarkWaitingApproval, NotifyApprover, MarkCompleted, ExecutorRaises,
       MarkFailed, ExecutorCrashes, MarkCrashed, MarkCrashedRaises, Acknowledge,
       RejectDelivery, WorkerDies, WorkerGone, QueueStep, AlreadyClaimed, DeliveryFails,
       Age, ExpireLease, ExpirePause, SweeperStep, ScanStuck, ScanApprovals, ScanLeases,
       ScanRaises, EndSweep, SweepFail, SweepDeadLetter, SweepReenqueue, SweepClearLease,
       SweepRowRaises

LEMMA StepSeen ==
    ASSUME Typed, SeenRows, [Next]_vars
    PROVE  SeenRows'
<1>1. /\ row.status # "absent" => row'.status # "absent"
      /\ Unsettled' => row'.status \notin {"absent", "queued"}
  BY StepContract, ContractMovesOn
<1>2. ASSUME NEW c \in Clients, client'[c].pc \in {"delete_checkpoints", "delete_row"}
      PROVE  row'.status # "absent"
  <2>0. client \in [Clients -> ClientType]
    BY DEF Typed
  <2>1. CASE client[c].pc \in {"delete_checkpoints", "delete_row"}
    BY <1>1, <2>1 DEF SeenRows
  <2>2. CASE client[c].pc \notin {"delete_checkpoints", "delete_row"}
    <3>1. client' # client
      BY <1>2, <2>2
    <3>2. PICK d \in Clients : ClientStep(d)
      BY <3>1, OtherStepsKeepRequests
    <3>3. ASSUME NEW p \in ClientPcs \ {"delete_checkpoints", "delete_row"}, ClientTo(d, p)
          PROVE  FALSE
      BY <1>2, <2>0, <2>2, <3>3, ClientToEffect
    <3>4. ASSUME NEW o, NEW p, NEW q, ClientBegins(d, o, p, q),
                 p \notin {"delete_checkpoints", "delete_row"}
          PROVE  FALSE
      BY <1>2, <2>0, <2>2, <3>4 DEF ClientBegins
    <3>5. ~(EnqueueRun(d) \/ EnqueueRunRaises(d) \/ MarkEnqueueFailed(d) \/ CancelWrite(d))
      BY <3>3 DEF EnqueueRun, EnqueueRunRaises, MarkEnqueueFailed, CancelWrite, ClientPcs
    <3>6. ~(FlipToRunning(d) \/ CreateApproval(d) \/ StampDecision(d) \/ EnqueueResume(d)
            \/ DeleteRow(d) \/ RequestDies(d))
      BY <3>3 DEF FlipToRunning, CreateApproval, StampDecision, EnqueueResume, DeleteRow,
                  RequestDies, ClientPcs
    <3>7. ~(StartExecution(d) \/ CancelRead(d) \/ ViewPause(d))
      BY <3>4 DEF StartExecution, CancelRead, ViewPause
    <3>8. ~ReadPause(d)
      BY <1>2, <2>0, <2>2 DEF ReadPause, ClientType
    <3>9. CASE DeleteRead(d)
      BY <1>1, <3>9 DEF DeleteRead, Terminal
    <3>10. ~DeleteCheckpoints(d) \/ d = c
      BY <1>2, <2>0, <2>2, ClientToEffect DEF DeleteCheckpoints, ClientPcs
    <3>11. ~DeleteCheckpoints(d)
      BY <2>2, <3>10 DEF DeleteCheckpoints, ClientAt
    <3> QED BY <3>2, <3>5, <3>6, <3>7, <3>8, <3>9, <3>11 DEF ClientStep
  <2> QED BY <2>1, <2>2
<1> QED BY <1>1, <1>2 DEF SeenRows

LEMMA InitSeen == Init => SeenRows
BY DEF Init, SeenRows, Unsettled, NoRow, IdleWorker

\* The refinement: whatever the requests, the workers, the queue and the sweeps
\* do, a client that polls the execution sees a behaviour of ExecutionContract.
THEOREM LifecycleImplementsContract == Spec => ImplementsContract
<1>1. Init => Contract!Init
  <2>1. Init => Unsettled = FALSE
    BY DEF Init, Unsettled, IdleWorker
  <2> QED BY <2>1 DEF Init, NoRow, Contract!Init
<1>2. Typed /\ SeenRows /\ [Next]_vars => SeenRows'
  BY StepSeen
<1>3. Typed /\ SeenRows /\ [Next]_vars => [Contract!Next]_<<row.status, Unsettled>>
  BY StepContract DEF ContractStep
<1> QED BY <1>1, <1>2, <1>3, InitSeen, AllTyped, PTL
           DEF Spec, ImplementsContract, Contract!Spec

\* A terminal status is final once no worker and no sweep is under way: of the
\* contract's steps only Delete leaves it then.
THEOREM SettledStaysSettled == Spec => SettledIsFinal
<1>1. Typed /\ SeenRows /\ [Next]_vars
      => [row.status \in Terminal /\ ~Unsettled => row'.status \in {row.status, "deleted"}]_vars
  <2> SUFFICES ASSUME Typed, SeenRows, [Next]_vars, row.status \in Terminal, ~Unsettled
               PROVE  row'.status \in {row.status, "deleted"}
    OBVIOUS
  <2>1. ContractStep
    BY StepContract
  <2> QED BY <2>1 DEF ContractStep, Terminal, Contract!Next, Contract!Submit, Contract!Refuse,
             Contract!Take, Contract!Suspect, Contract!Active, Contract!Approve,
             Contract!Cancel, Contract!Report, Contract!Abandon, Contract!Delete
<1>2. Typed /\ SeenRows /\ [Next]_vars => SeenRows'
  BY StepSeen
<1> QED BY <1>1, <1>2, InitSeen, AllTyped, PTL DEF Spec, SettledIsFinal

---------------------------------------------------------------------------
(* Approvals.                                                              *)

(* Every pause is used up at most once: it is still pending, or won by one *)
(* request that has yet to write its approvals row, or has that row.       *)
ToAudit == {c \in Clients : client[c].pc = "audit"}
Pending == IF row.status = "waiting_approval" THEN 1 ELSE 0
PausesSpent ==
    /\ IsFiniteSet(audit) /\ IsFiniteSet(ToAudit)
    /\ Cardinality(audit) + Cardinality(ToAudit) + Pending <= Len(pauseLog)

LEMMA NothingSpent ==
    ASSUME PausesSpent, UNCHANGED <<audit, pauseLog>>, pauseLog \in Seq(Nat),
           ToAudit' \subseteq ToAudit,
           row'.status = "waiting_approval" => row.status = "waiting_approval"
    PROVE  PausesSpent'
<1>1. /\ IsFiniteSet(ToAudit') /\ Cardinality(ToAudit') <= Cardinality(ToAudit)
  BY FS_Subset DEF PausesSpent
<1>2. Cardinality(ToAudit') \in Nat /\ Cardinality(ToAudit) \in Nat /\ Cardinality(audit) \in Nat
  BY <1>1, FS_CardinalityType DEF PausesSpent
<1>3. Pending \in {0, 1} /\ Pending' \in {0, 1} /\ Pending' <= Pending
  BY DEF Pending
<1>4. Len(pauseLog) \in Nat
  OBVIOUS
<1> QED BY <1>1, <1>2, <1>3, <1>4 DEF PausesSpent

LEMMA SameToAudit ==
    ASSUME client \in [Clients -> ClientType], NEW c \in Clients, NEW p \in ClientPcs,
           ClientTo(c, p)
    PROVE  /\ p # "audit" => ToAudit' = ToAudit \ {c}
           /\ p = "audit" => ToAudit' = ToAudit \cup {c}
BY ClientToEffect DEF ToAudit

LEMMA ClientStepSpends ==
    ASSUME Typed, PausesSpent, NEW c \in Clients, ClientStep(c)
    PROVE  PausesSpent'
<1> USE DEF observed
<1>0. /\ row \in RowType /\ client \in [Clients -> ClientType]
      /\ pauseLog \in Seq(Nat) /\ Len(pauseLog) \in Nat
  BY DEF Typed
<1>1. ASSUME NEW p \in ClientPcs \ {"audit"}, ClientTo(c, p), UNCHANGED <<audit, pauseLog>>,
             row'.status = "waiting_approval" => row.status = "waiting_approval"
      PROVE  PausesSpent'
  <2>1. ToAudit' \subseteq ToAudit
    BY <1>0, <1>1, SameToAudit
  <2> QED BY <1>0, <1>1, <2>1, NothingSpent
<1>2. ASSUME NEW o, NEW p, NEW q, ClientBegins(c, o, p, q), p # "audit",
             UNCHANGED <<audit, pauseLog>>,
             row'.status = "waiting_approval" => row.status = "waiting_approval"
      PROVE  PausesSpent'
  <2>1. ToAudit' \subseteq ToAudit
    BY <1>0, <1>2 DEF ClientBegins, ToAudit
  <2> QED BY <1>0, <1>2, <2>1, NothingSpent
<1>3. CASE StartExecution(c)
  <2>1. row'.status = "queued"
    BY <1>0, <1>3 DEF StartExecution, RowType
  <2> QED BY <1>2, <1>3, <2>1 DEF StartExecution
<1>4. CASE CancelRead(c) \/ ViewPause(c) \/ DeleteRead(c)
  BY <1>2, <1>4 DEF CancelRead, ViewPause, DeleteRead
<1>5. CASE EnqueueRun(c) \/ EnqueueRunRaises(c) \/ EnqueueResume(c) \/ DeleteCheckpoints(c)
           \/ RequestDies(c)
  BY <1>1, <1>5 DEF EnqueueRun, EnqueueRunRaises, EnqueueResume, DeleteCheckpoints,
                    RequestDies, ClientPcs
<1>6. CASE MarkEnqueueFailed(c) \/ CancelWrite(c) \/ StampDecision(c)
  <2>1. row'.status = "waiting_approval" => row.status = "waiting_approval"
    BY <1>0, <1>6 DEF MarkEnqueueFailed, CancelWrite, StampDecision, Update, RowType
  <2> QED BY <1>1, <1>6, <2>1 DEF MarkEnqueueFailed, CancelWrite, StampDecision, ClientPcs
<1>7. CASE DeleteRow(c)
  <2>1. row'.status = "deleted"
    BY <1>7 DEF DeleteRow, NoRow
  <2> QED BY <1>1, <1>7, <2>1 DEF DeleteRow, ClientPcs
<1>8. CASE ReadPause(c)
  <2>1. ToAudit' \subseteq ToAudit
    BY <1>0, <1>8 DEF ReadPause, ToAudit, ClientType
  <2> QED BY <1>0, <1>8, <2>1, NothingSpent DEF ReadPause
<1>9. CASE FlipToRunning(c) /\ row.status # "waiting_approval"
  BY <1>1, <1>9 DEF FlipToRunning, ClientPcs
<1>10. CASE FlipToRunning(c) /\ row.status = "waiting_approval"
  <2>1. ToAudit' = ToAudit \cup {c} /\ c \notin ToAudit
    BY <1>0, <1>10, SameToAudit DEF FlipToRunning, ClientPcs, ToAudit, ClientAt
  <2>2. IsFiniteSet(ToAudit') /\ Cardinality(ToAudit') = Cardinality(ToAudit) + 1
    BY <2>1, FS_AddElement DEF PausesSpent
  <2>3. Pending = 1 /\ Pending' = 0
    BY <1>0, <1>10 DEF FlipToRunning, BecomesRunning, RowType, Pending
  <2>4. Cardinality(ToAudit) \in Nat /\ Cardinality(audit) \in Nat
    BY FS_CardinalityType DEF PausesSpent
  <2>5. UNCHANGED <<audit, pauseLog>>
    BY <1>10 DEF FlipToRunning
  <2> QED BY <1>0, <2>2, <2>3, <2>4, <2>5 DEF PausesSpent
<1>11. CASE CreateApproval(c)
  <2> DEFINE x == [by |-> c, pause |-> client[c].snap]
  <2>1. ToAudit' = ToAudit \ {c} /\ c \in ToAudit /\ audit' = audit \cup {x}
    BY <1>0, <1>11, SameToAudit DEF CreateApproval, ClientPcs, ToAudit, ClientAt
  <2>2. IsFiniteSet(ToAudit') /\ Cardinality(ToAudit') = Cardinality(ToAudit) - 1
    BY <2>1, FS_RemoveElement DEF PausesSpent
  <2> HIDE DEF x
  <2>3. /\ IsFiniteSet(audit')
        /\ Cardinality(audit') = Cardinality(audit) \/ Cardinality(audit') = Cardinality(audit) + 1
    BY <2>1, FS_AddElement DEF PausesSpent
  <2>4. Cardinality(ToAudit) \in Nat /\ Cardinality(audit) \in Nat
    BY FS_CardinalityType DEF PausesSpent
  <2>5. UNCHANGED <<pauseLog, row>>
    BY <1>11 DEF CreateApproval
  <2>6. Pending \in {0, 1} /\ Pending' = Pending
    BY <2>5 DEF Pending
  <2> QED BY <1>0, <2>2, <2>3, <2>4, <2>5, <2>6 DEF PausesSpent
<1> QED BY <1>3, <1>4, <1>5, <1>6, <1>7, <1>8, <1>9, <1>10, <1>11 DEF ClientStep

(* Only MarkWaitingApproval makes a row wait, and it appends the pause.    *)
LEMMA WorkerStepSpends ==
    ASSUME Typed, PausesSpent, NEW w \in Workers, WorkerStep(w)
    PROVE  PausesSpent'
<1> USE DEF observed
<1>0. row \in RowType /\ pauseLog \in Seq(Nat) /\ worker \in [Workers -> WorkerType]
  BY DEF Typed
<1>1. UNCHANGED <<client, audit>> /\ ToAudit' = ToAudit
  BY DEF WorkerStep, Claim, BeginRun, BeginResume, RunNode, Interrupt, MarkWaitingApproval,
         NotifyApprover, MarkCompleted, ExecutorRaises, MarkFailed, ExecutorCrashes,
         MarkCrashed, MarkCrashedRaises, Acknowledge, RejectDelivery, WorkerDies, WorkerGone,
         ToAudit
<1>2. ASSUME UNCHANGED pauseLog,
             row'.status = "waiting_approval" => row.status = "waiting_approval"
      PROVE  PausesSpent'
  BY <1>0, <1>1, <1>2, NothingSpent
<1>3. CASE MarkWaitingApproval(w)
  <2>1. Len(pauseLog') = Len(pauseLog) + 1
    <3>1. worker[w].pos + 1 \in Nat
      BY <1>0, LifecycleAssumption DEF WorkerType
    <3> QED BY <1>0, <1>3, <3>1 DEF MarkWaitingApproval
  <2>2. Pending \in {0, 1} /\ Pending' \in {0, 1}
    BY DEF Pending
  <2>3. Cardinality(ToAudit) \in Nat /\ Cardinality(audit) \in Nat /\ Len(pauseLog) \in Nat
    BY <1>0, FS_CardinalityType DEF PausesSpent
  <2> QED BY <1>1, <2>1, <2>2, <2>3 DEF PausesSpent
<1>4. ASSUME NEW k \in Kinds, Claim(w, k) PROVE PausesSpent'
  <2>1. row'.status = "running"
    BY <1>0, <1>4 DEF Claim, BecomesRunning, RowType
  <2> QED BY <1>2, <1>4, <2>1 DEF Claim
<1>5. CASE MarkCompleted(w) \/ MarkFailed(w) \/ MarkCrashed(w)
  <2>1. row'.status = "waiting_approval" => row.status = "waiting_approval"
    BY <1>0, <1>5 DEF MarkCompleted, MarkFailed, MarkCrashed, Update, RowType
  <2> QED BY <1>2, <1>5, <2>1 DEF MarkCompleted, MarkFailed, MarkCrashed
<1>6. CASE UNCHANGED <<pauseLog, row>>
  BY <1>2, <1>6
<1> QED BY <1>3, <1>4, <1>5, <1>6 DEF WorkerStep, BeginRun, BeginResume, RunNode, Interrupt,
           NotifyApprover, ExecutorRaises, ExecutorCrashes, MarkCrashedRaises, Acknowledge,
           RejectDelivery, WorkerDies, WorkerGone

LEMMA StepSpends ==
    ASSUME Typed, PausesSpent, [Next]_vars
    PROVE  PausesSpent'
<1> USE DEF observed
<1>0. row \in RowType /\ pauseLog \in Seq(Nat)
  BY DEF Typed
<1>1. ASSUME UNCHANGED <<client, audit, pauseLog>>,
             row'.status = "waiting_approval" => row.status = "waiting_approval"
      PROVE  PausesSpent'
  BY <1>0, <1>1, NothingSpent DEF ToAudit
<1>2. CASE UNCHANGED vars
  BY <1>1, <1>2 DEF vars
<1>3. CASE QueueStep
  BY <1>1, <1>3 DEF QueueStep, AlreadyClaimed, DeliveryFails
<1>4. CASE Age \/ ExpireLease \/ ExpirePause
  <2>1. row'.status = row.status
    BY <1>0, <1>4 DEF Age, ExpireLease, ExpirePause, RowType
  <2> QED BY <1>1, <1>4, <2>1 DEF Age, ExpireLease, ExpirePause
<1>5. ASSUME NEW s \in Sweepers, SweeperStep(s) PROVE PausesSpent'
  <2>1. row'.status = row.status \/ row'.status = "failed"
    BY <1>0, <1>5 DEF SweeperStep, ScanStuck, ScanApprovals, ScanLeases, ScanRaises, EndSweep,
       SweepFail, SweepDeadLetter, SweepReenqueue, SweepClearLease, SweepRowRaises, Update,
       RowType
  <2>2. UNCHANGED <<client, audit, pauseLog>>
    BY <1>5 DEF SweeperStep, ScanStuck, ScanApprovals, ScanLeases, ScanRaises, EndSweep,
       SweepFail, SweepDeadLetter, SweepReenqueue, SweepClearLease, SweepRowRaises
  <2> QED BY <1>1, <2>1, <2>2
<1> QED BY <1>2, <1>3, <1>4, <1>5, ClientStepSpends, WorkerStepSpends DEF Next

LEMMA InitSpends == Init => PausesSpent
<1> SUFFICES ASSUME Init PROVE PausesSpent
  OBVIOUS
<1>1. audit = {} /\ ToAudit = {} /\ Pending = 0 /\ Len(pauseLog) = 0
  BY DEF Init, ToAudit, Pending, NoRow
<1> QED BY <1>1, FS_EmptySet DEF PausesSpent

\* Double clicks, two reviewers or an email racing the app never leave more
\* approvals rows than there were pauses, for any number of requests.
THEOREM ApprovalsAreCounted == Spec => []OneApprovalPerPause
<1>1. PausesSpent /\ Typed => OneApprovalPerPause
  <2> SUFFICES ASSUME PausesSpent, Typed PROVE OneApprovalPerPause
    OBVIOUS
  <2>1. Cardinality(ToAudit) \in Nat /\ Cardinality(audit) \in Nat
    BY FS_CardinalityType DEF PausesSpent
  <2>2. Pending \in {0, 1} /\ Len(pauseLog) \in Nat
    BY DEF Pending, Typed
  <2> QED BY <2>1, <2>2 DEF PausesSpent, OneApprovalPerPause
<1>2. Typed /\ PausesSpent /\ [Next]_vars => PausesSpent'
  BY StepSpends
<1> QED BY <1>1, <1>2, InitSpends, AllTyped, PTL DEF Spec

(* A decision on its way from a request to the graph is one whose approvals *)
(* row exists: the request that stamps it has written one, and nothing      *)
(* changes what that request had seen.                                      *)
Audited(p) == \E r \in audit : client[r.by].seen = p
AuditTrail ==
    /\ \A r \in audit : r.by \in Clients /\ client[r.by].pc # "idle"
    /\ \A c \in Clients : client[c].pc = "stamp" => \E r \in audit : r.by = c
    /\ row.decision # 0 => Audited(row.decision)
    /\ \A w \in Workers : worker[w].dec # 0 => Audited(worker[w].dec)
    /\ \A a \in applied : Audited(a.seen)

(* What a request has seen is fixed once it has begun.                     *)
LEMMA RequestsKeepWhatTheySaw ==
    ASSUME Typed, NEW c \in Clients, ClientStep(c), NEW d \in Clients, client[d].pc # "idle"
    PROVE  client'[d].seen = client[d].seen /\ client'[d].pc # "idle"
<1> USE DEF observed
<1>0. client \in [Clients -> ClientType]
  BY DEF Typed
<1>1. ASSUME NEW p \in ClientPcs \ {"idle"}, ClientTo(c, p)
      PROVE  client'[d].seen = client[d].seen /\ client'[d].pc # "idle"
  BY <1>0, <1>1, ClientToEffect
<1>2. ASSUME NEW o, NEW p, NEW q, ClientBegins(c, o, p, q), client[c].pc = "idle"
      PROVE  client'[d] = client[d]
  BY <1>0, <1>2 DEF ClientBegins
<1>3. CASE StartExecution(c) \/ CancelRead(c) \/ ViewPause(c) \/ DeleteRead(c)
  BY <1>2, <1>3 DEF StartExecution, CancelRead, ViewPause, DeleteRead, ClientAt
<1>4. CASE ReadPause(c)
  BY <1>0, <1>4 DEF ReadPause, ClientType
<1>5. CASE EnqueueRun(c) \/ EnqueueRunRaises(c) \/ EnqueueResume(c) \/ DeleteCheckpoints(c)
           \/ RequestDies(c)
  BY <1>1, <1>5 DEF EnqueueRun, EnqueueRunRaises, EnqueueResume, DeleteCheckpoints,
                    RequestDies, ClientPcs
<1>6. CASE MarkEnqueueFailed(c) \/ CancelWrite(c) \/ StampDecision(c) \/ DeleteRow(c)
  BY <1>1, <1>6 DEF MarkEnqueueFailed, CancelWrite, StampDecision, DeleteRow, ClientPcs
<1>7. CASE FlipToRunning(c) \/ CreateApproval(c)
  BY <1>1, <1>7 DEF FlipToRunning, CreateApproval, ClientPcs
<1> QED BY <1>3, <1>4, <1>5, <1>6, <1>7 DEF ClientStep

(* Steps that only keep or drop decisions.                                 *)
LEMMA TrailKept ==
    ASSUME AuditTrail,
           audit \subseteq audit',
           \A r \in audit' \ audit : r.by \in Clients /\ client'[r.by].pc # "idle",
           \A c \in Clients : client[c].pc # "idle"
                              => client'[c].seen = client[c].seen /\ client'[c].pc # "idle",
           \A c \in Clients : client'[c].pc = "stamp"
                              => client[c].pc = "stamp" \/ \E r \in audit' : r.by = c,
           row'.decision \in {0, row.decision}
             \/ \E c \in Clients : client[c].pc = "stamp" /\ row'.decision = client[c].seen,
           \A w \in Workers : worker'[w].dec \in {0, worker[w].dec, row.decision},
           \A a \in applied' \ applied : \E w \in Workers : a.seen = worker[w].dec /\ a.seen # 0
    PROVE  AuditTrail'
<1>1. \A p : Audited(p) => \E r \in audit' : client'[r.by].seen = p
  BY DEF Audited, AuditTrail
<1>2. \A r \in audit' : r.by \in Clients /\ client'[r.by].pc # "idle"
  BY DEF AuditTrail
<1>3. \A c \in Clients : client'[c].pc = "stamp" => \E r \in audit' : r.by = c
  BY DEF AuditTrail
<1>4. row'.decision # 0 => Audited(row.decision)'
  <2>1. ASSUME NEW c \in Clients, client[c].pc = "stamp", row'.decision = client[c].seen
        PROVE  Audited(row'.decision)
    BY <2>1 DEF Audited, AuditTrail
  <2>2. row'.decision # 0 => Audited(row'.decision)
    BY <2>1 DEF AuditTrail
  <2> QED BY <1>1, <2>2 DEF Audited
<1>5. ASSUME NEW w \in Workers, worker'[w].dec # 0 PROVE Audited(worker[w].dec)'
  <2>1. Audited(worker'[w].dec)
    BY <1>5 DEF AuditTrail
  <2> QED BY <1>1, <2>1 DEF Audited
<1>6. ASSUME NEW a \in applied' PROVE Audited(a.seen)'
  <2>1. Audited(a.seen)
    BY DEF AuditTrail
  <2> QED BY <1>1, <2>1 DEF Audited
<1> QED BY <1>2, <1>3, <1>4, <1>5, <1>6 DEF AuditTrail, Audited

LEMMA ClientStepTrail ==
    ASSUME Typed, AuditTrail, NEW c \in Clients, ClientStep(c)
    PROVE  AuditTrail'
<1> USE DEF observed
<1>0. row \in RowType /\ client \in [Clients -> ClientType]
  BY DEF Typed
<1>1. UNCHANGED <<worker, applied>>
  BY DEF ClientStep, StartExecution, EnqueueRun, EnqueueRunRaises, MarkEnqueueFailed,
         CancelRead, CancelWrite, ViewPause, ReadPause, FlipToRunning, CreateApproval,
         StampDecision, EnqueueResume, DeleteRead, DeleteCheckpoints, DeleteRow, RequestDies
<1>2. \A d \in Clients : client[d].pc # "idle"
                         => client'[d].seen = client[d].seen /\ client'[d].pc # "idle"
  BY RequestsKeepWhatTheySaw
<1>3. ASSUME UNCHANGED audit,
             row'.decision \in {0, row.decision}
               \/ (client[c].pc = "stamp" /\ row'.decision = client[c].seen),
             \A d \in Clients : client'[d].pc = "stamp" => client[d].pc = "stamp"
      PROVE  AuditTrail'
  BY <1>1, <1>2, <1>3, TrailKept
<1>4. ASSUME NEW p \in ClientPcs \ {"stamp"}, ClientTo(c, p)
      PROVE  \A d \in Clients : client'[d].pc = "stamp" => client[d].pc = "stamp"
  BY <1>0, <1>4, ClientToEffect
<1>5. ASSUME NEW o, NEW p, NEW q, ClientBegins(c, o, p, q), p # "stamp"
      PROVE  \A d \in Clients : client'[d].pc = "stamp" => client[d].pc = "stamp"
  BY <1>0, <1>5 DEF ClientBegins
<1>6. CASE StartExecution(c)
  <2>1. row'.decision = row.decision
    BY <1>0, <1>6 DEF StartExecution, RowType
  <2> QED BY <1>3, <1>5, <1>6, <2>1 DEF StartExecution
<1>7. CASE CancelRead(c) \/ ViewPause(c) \/ DeleteRead(c)
  BY <1>3, <1>5, <1>7 DEF CancelRead, ViewPause, DeleteRead
<1>8. CASE ReadPause(c)
  <2>1. \A d \in Clients : client'[d].pc = "stamp" => client[d].pc = "stamp"
    BY <1>0, <1>8 DEF ReadPause, ClientType
  <2> QED BY <1>3, <1>8, <2>1 DEF ReadPause
<1>9. CASE EnqueueRun(c) \/ EnqueueRunRaises(c) \/ EnqueueResume(c) \/ DeleteCheckpoints(c)
           \/ RequestDies(c)
  BY <1>3, <1>4, <1>9 DEF EnqueueRun, EnqueueRunRaises, EnqueueResume, DeleteCheckpoints,
                          RequestDies, ClientPcs
<1>10. CASE MarkEnqueueFailed(c) \/ CancelWrite(c)
  <2>1. row'.decision = row.decision
    BY <1>0, <1>10 DEF MarkEnqueueFailed, CancelWrite, RowType
  <2> QED BY <1>3, <1>4, <1>10, <2>1 DEF MarkEnqueueFailed, CancelWrite, ClientPcs
<1>11. CASE DeleteRow(c)
  <2>1. row'.decision = 0
    BY <1>11 DEF DeleteRow, NoRow
  <2> QED BY <1>3, <1>4, <1>11, <2>1 DEF DeleteRow, ClientPcs
<1>12. CASE FlipToRunning(c)
  <2>1. row'.decision = row.decision
    BY <1>0, <1>12 DEF FlipToRunning, BecomesRunning, RowType
  <2> QED BY <1>3, <1>4, <1>12, <2>1 DEF FlipToRunning, ClientPcs
<1>13. CASE StampDecision(c)
  <2>1. row'.decision \in {client[c].seen, row.decision} /\ client[c].pc = "stamp"
    BY <1>0, <1>13 DEF StampDecision, Update, ClientAt, RowType
  <2> QED BY <1>3, <1>4, <1>13, <2>1 DEF StampDecision, ClientPcs
<1>14. CASE CreateApproval(c)
  <2> DEFINE x == [by |-> c, pause |-> client[c].snap]
  <2>1. audit' = audit \cup {x} /\ x.by = c /\ UNCHANGED row
    BY <1>14 DEF CreateApproval
  <2>2. \A d \in Clients : client'[d].pc = IF d = c THEN "stamp" ELSE client[d].pc
    BY <1>0, <1>14, ClientToEffect DEF CreateApproval, ClientPcs
  <2> HIDE DEF x
  <2> QED BY <1>1, <1>2, <2>1, <2>2, TrailKept
<1> QED BY <1>6, <1>7, <1>8, <1>9, <1>10, <1>11, <1>12, <1>13, <1>14 DEF ClientStep

LEMMA WorkerStepTrail ==
    ASSUME Typed, AuditTrail, NEW w \in Workers, WorkerStep(w)
    PROVE  AuditTrail'
<1> USE DEF observed
<1>0. row \in RowType /\ worker \in [Workers -> WorkerType]
  BY DEF Typed
<1>1. UNCHANGED <<client, audit>>
  BY DEF WorkerStep, Claim, BeginRun, BeginResume, RunNode, Interrupt, MarkWaitingApproval,
         NotifyApprover, MarkCompleted, ExecutorRaises, MarkFailed, ExecutorCrashes,
         MarkCrashed, MarkCrashedRaises, Acknowledge, RejectDelivery, WorkerDies, WorkerGone
<1>2. ASSUME UNCHANGED applied, row'.decision \in {0, row.decision},
             \A v \in Workers : worker'[v].dec \in {0, worker[v].dec, row.decision}
      PROVE  AuditTrail'
  BY <1>1, <1>2, TrailKept
<1>3. ASSUME NEW p \in WorkerPcs, WorkerTo(w, p), UNCHANGED applied,
             row'.decision \in {0, row.decision}
      PROVE  AuditTrail'
  BY <1>0, <1>2, <1>3, WorkerToEffect
<1>4. ASSUME NEW k \in Kinds, Claim(w, k) PROVE AuditTrail'
  <2>1. row'.decision = row.decision
    BY <1>0, <1>4 DEF Claim, BecomesRunning, RowType
  <2>2. \A v \in Workers : worker'[v].dec \in {0, worker[v].dec}
    BY <1>0, <1>4 DEF Claim
  <2> QED BY <1>2, <1>4, <2>1, <2>2 DEF Claim
<1>5. CASE BeginRun(w) \/ Interrupt(w) \/ NotifyApprover(w)
  BY <1>3, <1>5 DEF BeginRun, Interrupt, NotifyApprover, WorkerPcs
<1>6. CASE ExecutorRaises(w) \/ ExecutorCrashes(w) \/ MarkCrashedRaises(w)
  BY <1>3, <1>6 DEF ExecutorRaises, ExecutorCrashes, MarkCrashedRaises, WorkerPcs
<1>7. CASE BeginResume(w)
  <2>1. \A v \in Workers : worker'[v].dec \in {worker[v].dec, row.decision}
    BY <1>0, <1>7 DEF BeginResume, WorkerType
  <2> QED BY <1>2, <1>7, <2>1 DEF BeginResume
<1>8. CASE RunNode(w)
  <2>1. \A v \in Workers : worker'[v].dec \in {0, worker[v].dec}
    BY <1>0, <1>8 DEF RunNode, WorkerType
  <2>2. \A a \in applied' \ applied : a.seen = worker[w].dec /\ a.seen # 0
    BY <1>8 DEF RunNode, MayRun
  <2>3. UNCHANGED row
    BY <1>8 DEF RunNode
  <2> QED BY <1>1, <2>1, <2>2, <2>3, TrailKept
<1>9. CASE MarkWaitingApproval(w) \/ MarkCompleted(w)
  <2>1. row'.decision \in {0, row.decision}
    BY <1>0, <1>9 DEF MarkWaitingApproval, MarkCompleted, Update, RowType
  <2> QED BY <1>3, <1>9, <2>1 DEF MarkWaitingApproval, MarkCompleted, WorkerPcs
<1>10. CASE MarkFailed(w) \/ MarkCrashed(w)
  <2>1. row'.decision = row.decision
    BY <1>0, <1>10 DEF MarkFailed, MarkCrashed, Update, RowType
  <2> QED BY <1>3, <1>10, <2>1 DEF MarkFailed, MarkCrashed, WorkerPcs
<1>11. CASE Acknowledge(w) \/ RejectDelivery(w) \/ WorkerDies(w)
  <2>1. worker' = [worker EXCEPT ![w] = IdleWorker] /\ UNCHANGED <<row, applied>>
    BY <1>11 DEF Acknowledge, RejectDelivery, WorkerDies, WorkerGone
  <2>2. \A v \in Workers : worker'[v].dec \in {0, worker[v].dec}
    BY <1>0, <2>1 DEF IdleWorker
  <2> QED BY <1>2, <2>1, <2>2
<1> QED BY <1>4, <1>5, <1>6, <1>7, <1>8, <1>9, <1>10, <1>11 DEF WorkerStep

LEMMA StepTrail ==
    ASSUME Typed, AuditTrail, [Next]_vars
    PROVE  AuditTrail'
<1> USE DEF observed
<1>0. row \in RowType
  BY DEF Typed
<1>1. ASSUME UNCHANGED <<client, audit, worker, applied>>, row'.decision = row.decision
      PROVE  AuditTrail'
  BY <1>1, TrailKept
<1>2. CASE UNCHANGED vars
  BY <1>1, <1>2 DEF vars
<1>3. CASE QueueStep
  BY <1>1, <1>3 DEF QueueStep, AlreadyClaimed, DeliveryFails
<1>4. CASE Age \/ ExpireLease \/ ExpirePause
  <2>1. row'.decision = row.decision
    BY <1>0, <1>4 DEF Age, ExpireLease, ExpirePause, RowType
  <2> QED BY <1>1, <1>4, <2>1 DEF Age, ExpireLease, ExpirePause
<1>5. ASSUME NEW s \in Sweepers, SweeperStep(s) PROVE AuditTrail'
  <2>1. row'.decision = row.decision
    BY <1>0, <1>5 DEF SweeperStep, ScanStuck, ScanApprovals, ScanLeases, ScanRaises, EndSweep,
       SweepFail, SweepDeadLetter, SweepReenqueue, SweepClearLease, SweepRowRaises, Update,
       RowType
  <2>2. UNCHANGED <<client, audit, worker, applied>>
    BY <1>5 DEF SweeperStep, ScanStuck, ScanApprovals, ScanLeases, ScanRaises, EndSweep,
       SweepFail, SweepDeadLetter, SweepReenqueue, SweepClearLease, SweepRowRaises
  <2> QED BY <1>1, <2>1, <2>2
<1> QED BY <1>2, <1>3, <1>4, <1>5, ClientStepTrail, WorkerStepTrail DEF Next

LEMMA InitTrail == Init => AuditTrail
BY DEF Init, AuditTrail, NoRow, IdleWorker

\* A graph passes an approval node only with the decision of a request whose
\* approvals row was written first.
THEOREM DecisionsHaveRows == Spec => []DecisionsAreAudited
<1>1. AuditTrail => DecisionsAreAudited
  BY DEF AuditTrail, Audited, DecisionsAreAudited
<1>2. Typed /\ AuditTrail /\ [Next]_vars => AuditTrail'
  BY StepTrail
<1> QED BY <1>1, <1>2, InitTrail, AllTyped, PTL DEF Spec
===========================================================================
