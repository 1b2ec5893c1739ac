------------------------- MODULE ExecutionContract -------------------------
(***************************************************************************)
(* What a client that polls GET /executions/{id} may rely on: which status *)
(* can follow which.  busy says that a worker or a sweep that has already  *)
(* looked at the row may still write its verdict.                          *)
(***************************************************************************)
VARIABLES status, busy

Active   == {"queued", "running", "waiting_approval"}
Terminal == {"completed", "failed", "canceled"}

Init == status = "absent" /\ busy = FALSE

Submit == status = "absent" /\ status' = "queued" /\ UNCHANGED busy

\* The row could not be enqueued.
Refuse == status = "queued" /\ status' = "failed" /\ UNCHANGED busy

\* A worker takes the execution: only while it is active.
Take == status \in Active /\ status' = "running" /\ busy' = TRUE

\* A sweep finds something wrong with an execution that has left the queue.
Suspect == status \in Active \ {"queued"} /\ UNCHANGED status /\ busy' = TRUE

Approve == status = "waiting_approval" /\ status' = "running" /\ UNCHANGED busy

Cancel == status \in Active /\ status' = "canceled" /\ UNCHANGED busy

\* A verdict reaches the row, even one that has been canceled or failed since.
Report ==
    /\ busy
    /\ status \in {"running", "waiting_approval"} \cup Terminal
    /\ status' \in {"waiting_approval", "completed", "failed"}
    /\ busy' \in BOOLEAN

\* The last worker or sweep under way ends without a verdict.
Abandon == busy /\ busy' = FALSE /\ UNCHANGED status

Delete == status # "absent" /\ status' = "deleted" /\ UNCHANGED busy

Next == Submit \/ Refuse \/ Take \/ Suspect \/ Approve \/ Cancel \/ Report \/ Abandon \/ Delete

Spec == Init /\ [][Next]_<<status, busy>>
============================================================================
