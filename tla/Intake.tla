-------------------------------- MODULE Intake --------------------------------
(***************************************************************************)
(* How executions come into being: POST /executions and POST /api/run with *)
(* idempotency keys, the poll of Google Drive folders, and `composer       *)
(* watch` over a local folder, which posts to /api/run.                    *)
(*                                                                         *)
(* A handler is one HTTP request being served; a client that gives up and  *)
(* retries is a second handler with the same key.  What happens to a row   *)
(* once its task is delivered is the subject of ExecutionLifecycle and is  *)
(* kept to a few steps here; a request without a key is a watcher's.  The  *)
(* checks before the lookup (rate limit, input size, visibility) are one   *)
(* refusal.                                                                *)
(***************************************************************************)
EXTENDS Naturals, Sequences, FiniteSets

CONSTANTS
    Casts,        \* sets of actors, one per behaviour
    Clients,      \* handlers of requests sent by API clients
    Pollers,      \* deliveries of /internal/poll-file-triggers
    Watchers,     \* `composer watch` processes
    Keys,         \* idempotency keys
    DriveFiles,   \* files in the watched Drive folder, numbered in listing order
    LocalFiles,   \* numbers of the file names in the watched local folder
    PageSize,     \* pageSize of the Drive listing
    MaxRows,      \* bound: executions
    MaxVersions,  \* bound: writes to a local file
    MaxFaults     \* bound: calls that fail and processes that die

NoKey == "no key"
NoFile == 0

ASSUME IntakeAssumption ==
    /\ \A cast \in Casts : cast \subseteq Clients \cup Pollers \cup Watchers
    /\ Clients \cap Watchers = {} /\ IsFiniteSet(Pollers \cup Watchers)
    /\ NoKey \notin Keys
    /\ DriveFiles \cup LocalFiles \subseteq Nat \ {0} /\ DriveFiles \cap LocalFiles = {}
    /\ PageSize \in Nat \ {0}
    /\ MaxRows \in Nat /\ MaxVersions \in Nat /\ MaxFaults \in Nat

\* What a row was started for: a file and its version.
NoCause == <<NoFile, 0>>
DriveCause(f) == <<f, 0>>

\* A watcher has one request open at a time.
Handlers == Clients \cup Watchers

VARIABLES
    cast,     \* the actors of this behaviour
    rows,     \* the executions, in the order they were inserted
    req,      \* req[h]: the request handler h serves
    drive,    \* drive[f]: the composerStatus marker and the folder of f
    poll,     \* poll[p]: where poll p is
    linked,   \* the connection exists, is the owner's and yields a token
    disk,     \* disk[f]: the version in the source folder, 0 when absent
    writes,   \* writes[f]: how often f has been written
    moved,    \* versions of local files in the dest folder
    watch,    \* watch[w]: where watcher w is, and its provider's _seen
    faults,   \* calls that failed and processes that died
    slips,    \* slips[f]: reasons to start f once more
    overtaken \* a local file was written while it was being claimed

rowVars == <<rows, req>>
driveVars == <<drive, poll, linked>>
watchVars == <<disk, writes, moved, watch, overtaken>>
vars == <<cast, rowVars, driveVars, watchVars, faults, slips>>

Files == DriveFiles \cup LocalFiles

Statuses == {"queued", "running", "waiting_approval", "completed", "failed",
             "canceled", "deleted"}

Idle == [pc |-> "idle", via |-> "run", key |-> NoKey, row |-> 0, cause |-> NoCause]

Causes == ({NoFile} \cup Files) \X (0..MaxVersions)
RowType == [key : Keys \cup {NoKey}, cause : Causes, status : Statuses, task : BOOLEAN,
            abandoned : BOOLEAN]
RequestType == [pc : {"idle", "lookup", "insert", "collided", "enqueue", "marking", "poll",
                      "answered", "error"},
                via : {"create", "run", "sync"}, key : Keys \cup {NoKey},
                row : 0..MaxRows, cause : Causes]
MarkType == [mark : {"none", "processed", "error"}, folder : {"source", "moved"}]
PollType == [pc : {"idle", "next", "enqueue", "mark", "error", "move"},
             refs : SUBSET DriveFiles, row : 0..MaxRows]
WatchType == [pc : {"idle", "next", "wait", "dest", "error"}, refs : SUBSET LocalFiles,
              file : {NoFile} \cup LocalFiles, seen : [LocalFiles -> 0..MaxVersions]]

TypeOK ==
    /\ cast \in Casts
    /\ rows \in Seq(RowType) /\ Len(rows) <= MaxRows
    /\ req \in [Handlers -> RequestType]
    /\ drive \in [DriveFiles -> MarkType]
    /\ poll \in [Pollers -> PollType]
    /\ linked \in BOOLEAN
    /\ disk \in [LocalFiles -> 0..MaxVersions]
    /\ writes \in [LocalFiles -> 0..MaxVersions]
    /\ moved \subseteq LocalFiles \X (0..MaxVersions)
    /\ watch \in [Watchers -> WatchType]
    /\ faults \in 0..MaxFaults
    /\ slips \in [Files -> Nat]
    /\ overtaken \in BOOLEAN

Unseen == [f \in LocalFiles |-> 0]

Init ==
    /\ cast \in Casts
    /\ rows = <<>>
    /\ req = [h \in Handlers |-> Idle]
    /\ drive = [f \in DriveFiles |-> [mark |-> "none", folder |-> "source"]]
    /\ poll = [p \in Pollers |-> [pc |-> "idle", refs |-> {}, row |-> 0]]
    /\ linked = TRUE
    /\ disk = Unseen /\ writes = Unseen
    /\ moved = {}
    /\ watch = [w \in Watchers |-> [pc |-> "idle", refs |-> {}, file |-> NoFile, seen |-> Unseen]]
    /\ faults = 0
    /\ slips = [f \in Files |-> 0]
    /\ overtaken = FALSE

Fault == faults < MaxFaults /\ faults' = faults + 1

-----------------------------------------------------------------------------
\* Rows.

\* find_unique on (workflowId, idempotencyKey); every row is of one workflow.
RowsOf(key) == {i \in DOMAIN rows : rows[i].key = key /\ rows[i].status # "deleted"}

RowOf(key) == CHOOSE i \in RowsOf(key) : TRUE

\* start_execution.
NewRow(key, cause) ==
    Append(rows, [key |-> key, cause |-> cause, status |-> "queued", task |-> FALSE,
                  abandoned |-> FALSE])

Abandon(i) == [rows EXCEPT ![i].abandoned = TRUE]

MayBeTasked(i, abandoned) ==
    \E task \in {rows[i].task, TRUE} :
        rows' = [rows EXCEPT ![i].task = task, ![i].abandoned = abandoned]

\* What becomes of a row elsewhere: its task is delivered, it ends or pauses, it
\* is canceled, it is deleted once it has ended.
Claim(i) ==
    /\ rows[i].status = "queued" /\ rows[i].task
    /\ rows' = [rows EXCEPT ![i].status = "running"]

Settle(i) ==
    /\ rows[i].status = "running"
    /\ \E s \in {"completed", "waiting_approval"} : rows' = [rows EXCEPT ![i].status = s]

Cancel(i) ==
    /\ rows[i].status \in {"queued", "running", "waiting_approval"}
    /\ rows' = [rows EXCEPT ![i].status = "canceled"]

Delete(i) ==
    /\ rows[i].status \in {"completed", "failed", "canceled"}
    /\ rows' = [rows EXCEPT ![i].status = "deleted"]

Deliver ==
    /\ \E i \in DOMAIN rows : Claim(i) \/ Settle(i)
    /\ UNCHANGED <<cast, req, driveVars, watchVars, faults, slips>>

ClientEnds ==
    /\ cast \cap Clients # {}
    /\ \E i \in DOMAIN rows : Cancel(i) \/ Delete(i)
    /\ UNCHANGED <<cast, req, driveVars, watchVars, faults, slips>>

-----------------------------------------------------------------------------
\* create_execution ("create") and run_external ("run", or "sync" to wait).

Advance(h, pc) == req' = [req EXCEPT ![h].pc = pc]

Others == <<cast, driveVars, watchVars, slips>>

Send(h, via, key) ==
    /\ h \in cast \cap Clients
    /\ req[h].pc \in {"idle", "answered", "error"}
    /\ Len(rows) < MaxRows
    /\ req' = [req EXCEPT ![h] = [Idle EXCEPT !.pc = "lookup", !.via = via, !.key = key]]
    /\ UNCHANGED <<Others, rows, faults>>

Refuse(h) ==
    /\ req[h].pc = "lookup"
    /\ Advance(h, "error")
    /\ UNCHANGED <<Others, rows, faults>>

AfterReplay(h) == IF req[h].via = "sync" THEN "poll" ELSE "answered"

Lookup(h) ==
    /\ req[h].pc = "lookup"
    /\ IF req[h].key # NoKey /\ RowsOf(req[h].key) # {}
       THEN req' = [req EXCEPT ![h].pc = AfterReplay(h), ![h].row = RowOf(req[h].key)]
       ELSE Advance(h, "insert")
    /\ UNCHANGED <<Others, rows, faults>>

InsertUnchecked(h) ==
    /\ req[h].pc = "insert"
    /\ Len(rows) < MaxRows
    /\ rows' = NewRow(req[h].key, req[h].cause)
    /\ req' = [req EXCEPT ![h].pc = "enqueue", ![h].row = Len(rows) + 1]
    /\ UNCHANGED <<Others, faults>>

\* The unique constraint decides between concurrent requests.
Insert(h) ==
    /\ req[h].pc = "insert"
    /\ IF req[h].key # NoKey /\ RowsOf(req[h].key) # {}
       THEN Advance(h, "collided") /\ UNCHANGED rows
       ELSE /\ Len(rows) < MaxRows
            /\ rows' = NewRow(req[h].key, req[h].cause)
            /\ req' = [req EXCEPT ![h].pc = "enqueue", ![h].row = Len(rows) + 1]
    /\ UNCHANGED <<Others, faults>>

LookupAgain(h) ==
    /\ req[h].pc = "collided"
    /\ IF RowsOf(req[h].key) # {}
       THEN req' = [req EXCEPT ![h].pc = AfterReplay(h), ![h].row = RowOf(req[h].key)]
       ELSE Advance(h, "error")
    /\ UNCHANGED <<Others, rows, faults>>

Enqueue(h) ==
    /\ req[h].pc = "enqueue"
    /\ rows' = [rows EXCEPT ![req[h].row].task = TRUE]
    /\ Advance(h, AfterReplay(h))
    /\ UNCHANGED <<Others, faults>>

EnqueueRaisesUnmarked(h) ==
    /\ Fault
    /\ req[h].pc = "enqueue"
    /\ Advance(h, "error") /\ UNCHANGED rows
    /\ UNCHANGED Others

\* A call that raised may have created the task all the same.  create_execution
\* goes on to mark the row failed; run_external answers 500.
EnqueueRaises(h) ==
    /\ Fault
    /\ req[h].pc = "enqueue"
    /\ IF req[h].via = "create"
       THEN Advance(h, "marking") /\ MayBeTasked(req[h].row, rows[req[h].row].abandoned)
       ELSE Advance(h, "error") /\ MayBeTasked(req[h].row, TRUE)
    /\ UNCHANGED Others

MarkEnqueueFailed(h) ==
    /\ req[h].pc = "marking"
    /\ rows' = [rows EXCEPT ![req[h].row].status = IF @ = "queued" THEN "failed" ELSE @]
    /\ Advance(h, "error")
    /\ UNCHANGED <<Others, faults>>

\* The write of 'failed' raises as well, or the instance dies.
HandlerDies(h) ==
    /\ Fault
    /\ req[h].pc \notin {"idle", "answered", "error"}
    /\ rows' = IF req[h].pc \in {"enqueue", "marking"} THEN Abandon(req[h].row) ELSE rows
    /\ Advance(h, "error")
    /\ UNCHANGED Others

\* Sync mode: the row ended or paused ...
PollSeesEnd(h) ==
    /\ req[h].pc = "poll"
    /\ rows[req[h].row].status \in {"completed", "failed", "canceled", "waiting_approval"}
    /\ Advance(h, "answered")
    /\ UNCHANGED <<Others, rows, faults>>

\* ... or timeout_seconds ran out, and the last status seen is the answer.
PollTimesOut(h) ==
    /\ req[h].pc = "poll"
    /\ Advance(h, "answered")
    /\ UNCHANGED <<Others, rows, faults>>

HandlerStep(h) ==
    \/ Refuse(h) \/ Lookup(h) \/ Insert(h) \/ LookupAgain(h) \/ Enqueue(h)
    \/ MarkEnqueueFailed(h) \/ PollSeesEnd(h) \/ PollTimesOut(h)

-----------------------------------------------------------------------------
\* poll_file_triggers over the Drive provider.

DriveOthers == <<cast, req, linked, watchVars>>

At(p, pc) == poll' = [poll EXCEPT ![p].pc = pc]

Current(p) == CHOOSE f \in poll[p].refs : \A g \in poll[p].refs : f <= g

\* On to the next file of the page; the poll is over after the last.
PassOn(p) ==
    poll' = [poll EXCEPT ![p].refs = @ \ {Current(p)},
                         ![p].pc = IF poll[p].refs = {Current(p)} THEN "idle" ELSE "next"]

Slip(f) == slips' = [slips EXCEPT ![f] = @ + 1]

ListNewFilesNotErrors ==
    LET new == {f \in DriveFiles : drive[f].mark # "processed" /\ drive[f].folder = "source"}
    IN  {f \in new : Cardinality({g \in new : g < f}) < PageSize}

\* The unmarked files of the folder, the first PageSize of them.
ListNewFiles ==
    LET new == {f \in DriveFiles : drive[f].mark = "none" /\ drive[f].folder = "source"}
    IN  {f \in new : Cardinality({g \in new : g < f}) < PageSize}

\* A file another poll has in hand may be started twice.
PollList(p) ==
    /\ p \in cast /\ poll[p].pc = "idle"
    /\ linked
    /\ ListNewFiles # {}
    /\ poll' = [poll EXCEPT ![p].refs = ListNewFiles, ![p].pc = "next"]
    /\ slips' = [f \in Files |->
                    IF f \in ListNewFiles /\ \E q \in Pollers : f \in poll[q].refs
                    THEN slips[f] + 1 ELSE slips[f]]
    /\ UNCHANGED <<DriveOthers, rows, drive, faults>>

\* read_file, extract_text, the size check and start_execution.
PollStart(p) ==
    /\ poll[p].pc = "next"
    /\ Len(rows) < MaxRows
    /\ rows' = NewRow(NoKey, DriveCause(Current(p)))
    /\ poll' = [poll EXCEPT ![p].pc = "enqueue", ![p].row = Len(rows) + 1]
    /\ UNCHANGED <<DriveOthers, drive, faults, slips>>

PollFileRaises(p) ==
    /\ Fault
    /\ poll[p].pc = "next"
    /\ At(p, "error")
    /\ UNCHANGED <<DriveOthers, rows, drive, slips>>

PollEnqueue(p) ==
    /\ poll[p].pc = "enqueue"
    /\ rows' = [rows EXCEPT ![poll[p].row].task = TRUE]
    /\ At(p, "mark")
    /\ UNCHANGED <<DriveOthers, drive, faults, slips>>

\* The file becomes an error although its row is there.
PollEnqueueRaises(p) ==
    /\ Fault
    /\ poll[p].pc = "enqueue"
    /\ MayBeTasked(poll[p].row, TRUE)
    /\ At(p, "error")
    /\ UNCHANGED <<DriveOthers, drive, slips>>

PollMarkAlways(p) ==
    /\ poll[p].pc \in {"mark", "error"}
    /\ drive' = [drive EXCEPT ![Current(p)].mark = "processed"]
    /\ At(p, "move")
    /\ UNCHANGED <<DriveOthers, rows, faults, slips>>

\* move_file: the marker first ...
PollMark(p) ==
    /\ poll[p].pc \in {"mark", "error"}
    /\ drive' = [drive EXCEPT ![Current(p)].mark =
                    IF poll[p].pc = "mark" THEN "processed" ELSE "error"]
    /\ At(p, "move")
    /\ UNCHANGED <<DriveOthers, rows, faults, slips>>

\* ... and if that fails the file stays unmarked, whatever was started for it.
PollMarkRaises(p) ==
    /\ Fault
    /\ poll[p].pc \in {"mark", "error"}
    /\ Slip(Current(p))
    /\ PassOn(p)
    /\ UNCHANGED <<DriveOthers, rows, drive>>

\* The visible move to another folder, where one is configured and it works.
PollMove(p) ==
    /\ poll[p].pc = "move"
    /\ \E to \in {drive[Current(p)].folder, "moved"} :
        drive' = [drive EXCEPT ![Current(p)].folder = to]
    /\ PassOn(p)
    /\ UNCHANGED <<DriveOthers, rows, faults, slips>>

PollDies(p) ==
    /\ Fault
    /\ poll[p].pc # "idle"
    /\ rows' = IF poll[p].pc = "enqueue" THEN Abandon(poll[p].row) ELSE rows
    /\ Slip(Current(p))
    /\ poll' = [poll EXCEPT ![p].pc = "idle", ![p].refs = {}]
    /\ UNCHANGED <<DriveOthers, drive>>

\* The connection is lost: revoked, deleted, or the workflow given to another.
Unlink ==
    /\ Fault
    /\ cast \cap Pollers # {} /\ linked
    /\ linked' = FALSE
    /\ UNCHANGED <<cast, rowVars, drive, poll, watchVars, slips>>

PollStep(p) ==
    \/ PollList(p) \/ PollStart(p) \/ PollEnqueue(p) \/ PollMark(p) \/ PollMove(p)

PollFault(p) ==
    \/ PollFileRaises(p) \/ PollEnqueueRaises(p) \/ PollMarkRaises(p) \/ PollDies(p)

-----------------------------------------------------------------------------
\* `composer watch` over the local provider.

WatchOthers == <<cast, rows, driveVars>>

\* Files that look the same as at the previous poll.
Stable(w) == {f \in LocalFiles : disk[f] # 0 /\ watch[w].seen[f] = disk[f]}

\* Watcher w has listed f and not yet moved it.
InHand(w, f) == \/ f \in watch[w].refs
                \/ watch[w].pc \in {"wait", "dest", "error"} /\ watch[w].file = f

\* _seen becomes the snapshot; a file that another watcher has in hand may be
\* started twice.
WatchList(w) ==
    /\ w \in cast /\ watch[w].pc = "idle"
    /\ watch' = [watch EXCEPT ![w].refs = Stable(w), ![w].seen = disk, ![w].pc = "next"]
    /\ slips' = [f \in Files |->
                    IF f \in Stable(w) /\ \E v \in Watchers \ {w} : InHand(v, f)
                    THEN slips[f] + 1 ELSE slips[f]]
    /\ UNCHANGED <<WatchOthers, req, disk, writes, moved, overtaken, faults>>

WatchListed(w) ==
    /\ watch[w].pc = "next" /\ watch[w].refs = {}
    /\ watch' = [watch EXCEPT ![w].pc = "idle"]
    /\ UNCHANGED <<WatchOthers, req, disk, writes, moved, overtaken, faults, slips>>

\* claim_file: the file as it is now is read and posted.
WatchRead(w, f) ==
    /\ watch[w].pc = "next" /\ f \in watch[w].refs
    /\ disk[f] # 0 /\ req[w].pc \in {"idle", "answered", "error"}
    /\ Len(rows) < MaxRows
    /\ watch' = [watch EXCEPT ![w].pc = "wait", ![w].file = f, ![w].refs = @ \ {f}]
    /\ req' = [req EXCEPT ![w] = [Idle EXCEPT !.pc = "lookup", !.cause = <<f, disk[f]>>]]
    /\ UNCHANGED <<WatchOthers, disk, writes, moved, overtaken, faults, slips>>

\* It may be gone by now, when another watcher was faster.
WatchReadRaises(w, f) ==
    /\ watch[w].pc = "next" /\ f \in watch[w].refs
    /\ IF disk[f] = 0 THEN UNCHANGED faults ELSE Fault
    /\ watch' = [watch EXCEPT ![w].pc = "error", ![w].file = f, ![w].refs = @ \ {f}]
    /\ UNCHANGED <<WatchOthers, req, disk, writes, moved, overtaken, slips>>

WatchAnswered(w) ==
    /\ watch[w].pc = "wait" /\ req[w].pc \in {"answered", "error"}
    /\ watch' = [watch EXCEPT ![w].pc = IF req[w].pc = "answered" THEN "dest" ELSE "error"]
    /\ UNCHANGED <<WatchOthers, req, disk, writes, moved, overtaken, faults, slips>>

\* After 30 seconds the file counts as failed; the request may still succeed.
WatchTimesOut(w) ==
    /\ Fault
    /\ watch[w].pc = "wait" /\ req[w].pc \notin {"answered", "error"}
    /\ watch' = [watch EXCEPT ![w].pc = "error"]
    /\ UNCHANGED <<WatchOthers, req, disk, writes, moved, overtaken, slips>>

\* shutil.move takes what is at the path by now; _seen forgets it.
WatchMove(w) ==
    LET f == watch[w].file
    IN  /\ watch[w].pc \in {"dest", "error"}
        /\ disk[f] # 0
        /\ disk' = [disk EXCEPT ![f] = 0]
        /\ moved' = IF watch[w].pc = "dest" THEN moved \cup {<<f, disk[f]>>} ELSE moved
        /\ watch' = [watch EXCEPT ![w].pc = "next", ![w].seen[f] = 0]
        /\ UNCHANGED <<WatchOthers, req, writes, overtaken, faults, slips>>

\* The exception leaves claim_file: the rest of this poll is dropped.
WatchMoveRaises(w) ==
    /\ watch[w].pc \in {"dest", "error"}
    /\ IF disk[watch[w].file] = 0 THEN UNCHANGED faults ELSE Fault
    /\ watch' = [watch EXCEPT ![w].pc = "idle", ![w].refs = {}]
    /\ Slip(watch[w].file)
    /\ UNCHANGED <<WatchOthers, req, disk, writes, moved, overtaken>>

\* A new process starts with an empty _seen.
WatchDies(w) ==
    /\ Fault
    /\ watch[w].pc \in {"wait", "dest", "error"}
    /\ watch' = [watch EXCEPT ![w].pc = "idle", ![w].refs = {}, ![w].seen = Unseen]
    /\ Slip(watch[w].file)
    /\ UNCHANGED <<WatchOthers, req, disk, writes, moved, overtaken>>

\* Someone drops or rewrites a file.
WriteFile(f) ==
    /\ cast \cap Watchers # {}
    /\ writes[f] < MaxVersions
    /\ writes' = [writes EXCEPT ![f] = @ + 1]
    /\ disk' = [disk EXCEPT ![f] = writes[f] + 1]
    /\ overtaken' = (overtaken \/ \E w \in Watchers : InHand(w, f))
    /\ UNCHANGED <<WatchOthers, req, moved, watch, faults, slips>>

WatchStep(w) ==
    \/ WatchList(w) \/ WatchListed(w) \/ WatchAnswered(w) \/ WatchMove(w)
    \/ \E f \in LocalFiles : WatchRead(w, f)

WatchFault(w) ==
    \/ WatchTimesOut(w) \/ WatchMoveRaises(w) \/ WatchDies(w)
    \/ \E f \in LocalFiles : WatchReadRaises(w, f)

-----------------------------------------------------------------------------
Next ==
    \/ Deliver
    \/ ClientEnds
    \/ \E h \in Clients : \E via \in {"create", "run", "sync"} : \E key \in Keys :
        Send(h, via, key)
    \/ \E h \in Handlers : HandlerStep(h) \/ EnqueueRaises(h) \/ HandlerDies(h)
    \/ \E p \in Pollers : PollStep(p) \/ PollFault(p)
    \/ Unlink
    \/ \E w \in Watchers : WatchStep(w) \/ WatchFault(w)
    \/ \E f \in LocalFiles : WriteFile(f)

Spec == Init /\ [][Next]_vars

\* A handler, a poll and a watcher go on until they fail; delivered tasks run.
FairSpec ==
    /\ Spec
    /\ WF_vars(Deliver)
    /\ \A h \in Handlers : WF_vars(HandlerStep(h))
    /\ \A p \in Pollers : WF_vars(PollStep(p))
    /\ \A w \in Watchers : WF_vars(WatchStep(w))

-----------------------------------------------------------------------------
\* Properties.

\* Idempotent replay (executions.py:167-199, run.py:139-171): two requests that
\* were answered for one key were answered with one execution, unless that
\* execution was deleted in between, and no second execution of the key is there.
KeysNameOneExecution ==
    /\ \A key \in Keys : Cardinality(RowsOf(key)) <= 1
    /\ \A g, h \in Clients :
        /\ {req[g].pc, req[h].pc} = {"answered"}
        /\ req[g].key = req[h].key /\ req[g].key # NoKey
        => \/ req[g].row = req[h].row
           \/ "deleted" \in {rows[req[g].row].status, rows[req[h].row].status}

Starts(cause) == Cardinality({i \in DOMAIN rows : rows[i].cause = cause})

\* One execution per file (move_file's marker, internal.py:699-758; _seen and
\* shutil.move, watch.py:55-68): every further one is due to a marker or move
\* that failed, a process that died, or a listing that overlapped another.
StartsAreAccountedFor ==
    /\ \A f \in DriveFiles : Starts(DriveCause(f)) <= 1 + slips[f]
    /\ \A f \in LocalFiles : \A v \in 1..MaxVersions : Starts(<<f, v>>) <= 1 + slips[f]

\* What the folders tell the user: a processed Drive file and a file in the dest
\* folder have an execution that was handed to the queue, unless the file was
\* overwritten while it was being claimed; a file that left the Drive folder is
\* marked.
FoldersTellTheTruth ==
    /\ \A f \in DriveFiles :
        /\ drive[f].folder = "moved" => drive[f].mark # "none"
        /\ drive[f].mark = "processed" => \E i \in DOMAIN rows : rows[i].cause = DriveCause(f) /\ rows[i].task
    /\ ~overtaken => \A m \in moved : \E i \in DOMAIN rows : rows[i].cause = m /\ rows[i].task

\* Every inserted row leaves the queue (executions.py:211-262), unless it was
\* abandoned: the process died or the failure could not be recorded, or it was
\* run_external or the Drive poll that could not enqueue it.
AcceptedIsSettled ==
    \A i \in 1..MaxRows :
        (i \in DOMAIN rows) ~> (i \in DOMAIN rows /\ (rows[i].status # "queued" \/ rows[i].abandoned))

=============================================================================
