# A TLA+ model of Composer

Composer runs workflows: graphs of nodes (LLM agents, HTTP calls, Jira, human
approvals, loops) that a user draws, saves and starts.  A run may last an hour,
may wait days for a human, and is carried across Cloud Run instances that come
and go.  This directory models the parts of Composer whose correctness depends
on the order in which independent handlers, workers and outside services act on
the same state, checks them with TLC on small instances and proves the central
safety results with TLAPS.

Paths below are relative to the repository (`src/api/executions.py` is
`src/src/api/executions.py` in `PROJECT.json`).

## 1. The system

| Component | State | Operations | What makes it hard | Module |
|---|---|---|---|---|
| Execution lifecycle: `api/executions.py`, `api/internal.py`, `execution/cloud_tasks.py`, `engine/langgraph_executor.py` | `workflow_executions` row (status, lease, attempts, variables), the Cloud Task | create, enqueue, claim, run/resume, mark completed / waiting / failed, cancel, delete | at-least-once delivery, workers killed anywhere, unconditional writes by id, reads used after an await | `ExecutionLifecycle` |
| Approvals: `api/executions.py`, `api/approval_email.py`, `executors/user_approval.py` | pending markers and the decision in `variables`, `approvals` rows | pause, notify, approve in the app or by email | two reviewers, a stale view, a request that dies half way | `ExecutionLifecycle` |
| Maintenance: `maintenance/execution_sweeper.py` | none of its own | fail stuck rows and old approvals, recover or dead-letter expired leases, delete old events | works on rows read earlier; several time limits over one row | `ExecutionLifecycle`, `EventLog` |
| Event log and WebSocket: `engine/events*.py`, `api/events_ws.py` | `execution_events` rows with a sequence number, NOTIFY | append, list since, stream, retention | numbers taken from a count; replay against live delivery; end of stream | `EventLog` |
| Rate limiter: `security/rate_limit*.py` | token bucket per key | check, consume | read-then-write by concurrent requests | `RateLimiter` |
| Graph builder: `engine/graph_builder.py`, `engine/workflow.py` | none (pure) | validate, route, compile | which branch a node reaches; joins | `WorkflowGraph` |
| Graph execution: `engine/langgraph_executor.py`, `engine/state.py`, `storage/checkpointer.py`, routing executors | checkpoints and pending writes of a thread, merged state | superstep, put, put_writes, pause, resume | nodes side by side, torn writes, loops, decisions that reach another pause | `GraphRun` |
| Submission and file triggers: `api/executions.py`, `api/run.py`, `api/internal.py`, `cli/watch.py`, `storage_providers/` | unique (workflow, idempotency key), position and marker of each file | lookup, insert, replay, enqueue; poll, start, mark, move | lookup races the insert, overlapping polls, a move that fails, a client that gives up | `Intake` |
| Connections: `mcp/`, `api/mcp_servers.py`, `integrations/google_drive/`, `executors/agent.py`, `executors/mcp.py` | server row, OAuth states, token rows | authorise, callback, refresh, disconnect; tool calls of a node | parallel refreshes, rotation, a call that times out after taking effect | `Connections` |
| Accounts: `api/auth_standalone.py`, `api/auth_common.py`, `api/admin_users.py`, `api/api_keys.py`, `security/` | users, API keys, tokens in clients' hands | register, SSO, login, refresh, passwords, roles, deactivation, keys | role, active flag and row read in separate statements | `Accounts` |
| Stored workflows: `api/workflows.py`, `security/encryption.py`, `api/test_cleanup.py` | workflows, assignments, secrets at rest | save, publish, share, transfer, delete, run | masked secrets echoed by a stale save; slugs | `WorkflowStore` |
| Builder: `api/builder.py`, `builder/` | sessions in memory, pending plan and patch | a turn: plan, build, diagnose, approve, discard; repair of the wiring | a turn holds the row it read for minutes | `BuilderSessions`, `Orchestration` |
| Provider keys: `api/admin_llm_keys.py`, `security/key_sync.py` | row, and a copy per instance | put, delete, boot-time sync | copies that disagree | `ProviderKeys` |
| Nodes that act outside: `executors/jira.py`, `confluence.py`, `gamma_ai.py`, `arcade.py`, `email.py`, `http.py`, `file_write.py`, `download_pdf.py`, `guardrails.py` | local variables, lost with the worker; the outside service, which keeps what was done | the requests of each node | answers that are lost, second runs, people who edit meanwhile | `JiraNode`, `OutboundNodes` |
| Vector databases: `executors/vector_db.py`, `vectordb/` | the collection | chunk, embed, upsert, query | ids of re-runs, partial batches, field names | `VectorStore` |
| LLM providers, variable substitution, conversion, uploads, model catalog, migration, seed scripts, frontend | | | outside a state model | not modelled |

How they interact.  An API request, a Drive poll or a local watcher commits a row
as `queued` and enqueues a Cloud Task (`Intake`).  Cloud Tasks pushes
`POST /internal/claim-and-run`; the handler claims the row (status `running`, a
lease, one more attempt) in a transaction and drives the graph inside the same
request (`ExecutionLifecycle`).  Each superstep commits a checkpoint
(`GraphRun`), each node appends events (`EventLog`), and nodes call tools with
the tokens of their user (`Connections`) or act on other services (`JiraNode`,
`VectorStore`, `OutboundNodes`).  A user-approval node interrupts the graph: the
row becomes `waiting_approval` and the request ends, its lease still on the row.
An approval flips the row to `running`, clears the lease, writes the audit row
and the decision, and enqueues a `resume` task.  Cloud Scheduler calls
`POST /internal/sweep`, which fails, recovers or dead-letters rows that look
abandoned.  Beside all this, users and administrators change the accounts,
workflows and keys that the requests read (`Workspace`).  Nothing but rows
connects these handlers, so every property is about their statements in an order
nobody wrote down.

What correctness means, per component:

* lifecycle: one worker at a time drives the graph; a status once terminal is
  left alone; nothing starts on a row that is not active; no row stays
  `running` for ever; what was canceled before it ran never runs;
* approvals: a pause is decided at most once; no approval node is passed
  without an audit row; a decision reaches the pause it was made for;
* sweeps: recover before giving up; give up only on what is really overdue;
* event log: a reader misses nothing and its stream ends;
* rate limiter: it is a token bucket, and waiting as told is enough;
* graphs: what validation accepts runs to an end, loops stop, excluded branches
  stay excluded, stored work is not repeated, repairs repair;
* intake: a key names one execution, a file starts one, what is accepted is
  settled, folders tell the truth;
* connections: the stored token is the current one and the right user's, a
  disconnected one stays away, a tool call happens once;
* workspace: rights are those of the request's own time, secrets survive saves,
  published slugs resolve, a proposal is answered once and changes nothing;
* nodes: a report is true, a second run does not duplicate, a node ends.

`PROJECT.json` lists the hazards at the lines where they bite.

## 2. Modules

| Module | What it is |
|---|---|
| `ExecutionLifecycle` | one execution row under all the handlers that write it |
| `ExecutionContract` | what a client polling the status may rely on |
| `ExecutionLifecycleProofs` | type correctness; one driver, canceled in the queue stays canceled, the refinement of `ExecutionContract`, and the two approval invariants |
| `EventLog` | the events of one execution, its worker and nodes that append them, its WebSocket clients |
| `EventLogProofs` | types, that a cursor skips nothing, and that the executor loses no event of its own |
| `RateLimiter` | `PostgresRateLimiter.check` for one key |
| `TokenBucket` | the bucket of `rate_limit.py`, updated in one step: what a limiter promises |
| `RateLimiterProofs` | types, the rate, Retry-After, and the refinement of `TokenBucket` |
| `WorkflowGraph` | workflows; validation, branch markers, compiled edges, as operators |
| `Orchestration` | the repairs of `normalize.py`, as operators |
| `GraphRun` | one thread: supersteps, checkpoints, pauses, dying workers, over a set of workflows |
| `GraphRunProofs` | types, stored work, the cap of loops, exclusive branches, the End a completed run passes, and the builder's repairs |
| `Intake` | requests with idempotency keys, Drive polls, `composer watch` |
| `IntakeProofs` | types, one execution per key, truthful folders, and the account of starts |
| `Connections` | an MCP server, OAuth tokens, Google Drive, and the nodes that use them |
| `ConnectionsProofs` | types, the current token, the right user's token, tool calls, and rows that come from callbacks |
| `Accounts`, `WorkflowStore`, `BuilderSessions`, `ProviderKeys` | the tables that users and administrators change, and their handlers |
| `Workspace` | the four together, with the properties |
| `WorkspaceProofs` | types, rights, revoked keys, slugs, secrets, proposals and settings |
| `NodeHost` | a worker that runs nodes and may die |
| `JiraNode`, `VectorStore`, `OutboundNodes` | the nodes that act outside, each with its service |
| `NodeEffects` | the three together, with the properties |
| `NodeEffectsProofs` | types, true reports, exact extracts, stores that give back what went in, reruns that repeat nothing, and that no edit is lost |
| `MC...` | the instances for TLC |

Modules of one composition extend one another and share the variables of the
worker (`NodeHost`) or of the requests (`Accounts`); a component's actions leave
the other components' variables unchanged in the composing module.

*Casts.*  The larger modules take a constant `Casts`.  A behaviour picks one cast
at its start: the few requests, nodes or processes that meet on the same rows.
One run thus explores many small compositions instead of one product of
everything; what a cast leaves out, it leaves out for that behaviour only.

### ExecutionLifecycle

Every statement in the code addresses one row by id, so one row is enough; what
varies is the handlers around it.  An action is one database statement or one
queue call together with the code up to the next await; a handler is a program
counter that walks through such actions, and it may die between any two.

State: `row` is the row (status; lease as null, live or expired; attempts;
age; the pending pause `pend` and the `_resume_decision` in `variables`);
`ckpt` the node of the latest checkpoint; `tasks` the delivery attempts each
kind of Cloud Task has left; `worker`, `client`, `sweeper` the handlers in
flight.  A decision is identified by the pause its author was looking at, which
is what the approval properties compare.  `audit`, `ran`, `applied`, `pauseLog`
and `raced` record history for the properties; no guard but the naming of the
next pause and its bound reads them.  The type invariant has two parts: `Typed`,
and `PausesHaveHappened`, by which nothing names a pause that the graph has not
made.  A call to Cloud Tasks that raises may have created the task all the same,
for a request (`EnqueueRunRaises`) and for a sweep (`SweepRowRaises`) alike.

| Actions | Code |
|---|---|
| `StartExecution`, `EnqueueRun`, `EnqueueRunRaises`, `MarkEnqueueFailed` | `start_execution`, `create_execution`, `run_external` |
| `CancelRead`, `CancelWrite` | `cancel_execution` |
| `ViewPause`, `ReadPause`, `FlipToRunning`, `CreateApproval`, `StampDecision`, `EnqueueResume` | `resume_execution`, `confirm_approval_email`; `ReadPause` differs between the two (the email token names its pause) |
| `DeleteRead`, `DeleteCheckpoints`, `DeleteRow` | `delete_execution`, `delete_executions_bulk` |
| `RequestDies` | any API request ending between two statements |
| `Claim`, `AlreadyClaimed`, `DeliveryFails` | the claim transaction; the delivery that finds nothing; the one that never arrives |
| `BeginRun`, `BeginResume`, `RunNode`, `Interrupt`, `MarkWaitingApproval`, `NotifyApprover`, `MarkCompleted`, `ExecutorRaises`, `MarkFailed` | `LangGraphExecutor.run` / `resume` and its `_mark_*` helpers |
| `ExecutorCrashes`, `MarkCrashed`, `MarkCrashedRaises` | the crash handler of `claim_and_run_execution` |
| `Acknowledge`, `RejectDelivery`, `WorkerDies` | 200, error status, no answer |
| `Age`, `ExpireLease`, `ExpirePause` | time passing the stuck limit, the lease, the approval limit |
| `ScanStuck`, `ScanApprovals`, `ScanLeases`, `ScanRaises`, `EndSweep` | the scans of `POST /internal/sweep`, in order |
| `SweepFail`, `SweepDeadLetter`, `SweepReenqueue`, `SweepClearLease`, `SweepRowRaises` | what a sweep does with the row it found |

Abstractions.  The workflow is a chain of nodes, some of them approvals; a
resume continues from the checkpoint and a run starts over, as `ainvoke` with
an input does.  `attempts` saturates at the limit it is compared with, `ran` at
two.  Times are the three comparisons the code makes.  Two relations between
them are constants: `RequestDeadline` (Cloud Run's request timeout does not
exceed the lease, as `config.py` requires and the deployment script sets) and
`StuckBeforeLease` (true for the defaults 900 s and 3600 s).  Cloud Tasks is
external and modelled from its use: a task is delivered until it is answered
with success or its attempts are used up, possibly once more after a success.

### EventLog

One execution, seen from its log.  An *emitter* is a node of the graph or the
executor of one leg (the run is leg 1, each resume is one more): its `phase` says
which event it emitted last, `at` which statement of the append it is at.  An
append is a count (`Count`), an insert that the unique key `(executionId, seq)`
may reject (`Insert`) and a NOTIFY (`Notify`); whatever raises is swallowed, as in
`_emit` and `_persist_and_notify`, and the emitter goes on (`EmitRaises`).  `log`
is the table as a function from sequence numbers to events, `reader` the WebSocket
handlers with their cursor, `sent` what each client got.  `lost`, `swept` and
three exceptions are observed only: `hurried` (a resume was claimed before its
pause was announced), `stray` (an insert of a node that was cancelled, because its
sibling raised, landed after the superstep was over) and `silent` (no
`workflow_completed` was stored for a verdict, because its append raised and was
swallowed or because the worker died between the mark and the append).  `MaxFaults`
bounds the appends that raise and the workers that die.

| Actions | Code |
|---|---|
| `BeginLeg`, `MarkCompleted`, `MarkWaitingApproval`, `NotifyApprover`, `NotifyRaises`, `MarkFailed` | `LangGraphExecutor.run` and `resume`, in the order of their writes and emits |
| `StartNode`, `NodeInterrupts`, `NodeEnds` | `wrap_executor_with_events` |
| `NextStep` | LangGraph's supersteps (external) |
| `Resume`, `WorkerDies` | a claimed resume task; a request that ends anywhere |
| `EndElsewhere`, `DeleteEvents`, `DeleteRow`, `SweepOldEvents` | cancel and sweeps; `delete_execution`; `sweep_old_execution_events` |
| `Connect`, `SendSnapshot`, `Replay`, `AddListener`, `WakeUp`, `KeepalivePoll`, `Disconnect` | `events_ws`, one action per await that matters |

That one worker at a time drives the graph is taken from the lifecycle
(`OneDriver`).  What it does not exclude is kept: the worker that paused may still
be mailing the approver, or appending `approval_required`, when the resume runs.
LangGraph is external: the nodes of a superstep run concurrently, the next
superstep starts when all have returned, and when one raises the others are
cancelled before `ainvoke` raises, though an insert that is already on its way may
still land (`MarkFailed`).  Retention comes days
after the events it removes, when every request has ended and every handler has
polled; while the execution is paused only what earlier legs appended is that old.  A client's messages are delivered or the
connection drops; a batch may be cut off anywhere.

### RateLimiter

`check` is a read (`FindUnique`), a verdict (`Admit`, `Deny`) and a write
(`CreateRow`, `UpdateRow`) between which other requests and the clock move.
Levels are integers, in units of which `Cost` make a token and `Rate` are added
per second, so that refills need not come in whole tokens; the code's floats are
replaced by exact arithmetic and all instances share one clock.

### WorkflowGraph, Orchestration and GraphRun

A workflow is a sequence of nodes and a sequence of labelled edges.
`WorkflowGraph` translates `validate_workflow_shape` and its rules, the branch
markers and `_mutually_exclusive`, `_branch_mapping` and what the compiled graph
does with each edge; only the node types that differ in control are told apart.
`Orchestration` is `normalize_orchestration` rule by rule: extra starts, missing
endpoints, heads, tails and shortcuts.  What a rule leaves of a sequence is said by
the places that stay (`Kept`); for the shortcuts, which the code visits one by one,
a shortcut stays if there is no other edge, shortcuts before it apart, that leaves
the start or enters its end.  `Names` are strings; the union spells out those that
the code writes itself, since the provers do not know a literal to be one.

`GraphRun` executes a workflow.  `task` is the worker's own view of the nodes of
a superstep, lost when it dies; `saved` and `ckpt` are what
`PrismaCheckpointSaver` has stored; `vals` the merged state.  `PutWrite` stores
one channel at a time, so a node's writes can be torn.  LangGraph (1.2.14, pinned
by the lock file) is external and modelled from its use; the code sets no
recursion limit, so the library's own applies (`RecursionLimit`).  `runs`, `laps`,
`torn`, `shared` and `redone` are observed only.

| Actions | Code |
|---|---|
| `CompileRaises`, `InvokeRun`, `InvokeResume`, `ResumeRaises` | `build_graph`, `LangGraphExecutor.run` and `resume` |
| `RunPlain`, `RunIfElse`, `RunWhile`, `RunDecision`, `RunApproval`, `InterruptNode`, `NodeRaises` | the executors, by what they do to control |
| `PutWrite`, `Superstep`, `RecursionRaises` | `aput_writes`, `aput`, `merge_dicts` |
| `MarkCompleted`, `Pause`, `Decide`, `WorkerDies` | the end of a leg and what starts the next |

### Intake

A handler is one HTTP request: lookup by key, insert under the unique constraint,
a second lookup for the loser, enqueue and the recording of its failure, and the
synchronous wait of `/api/run`.  A retry is another handler with the same key.  A
poller is one delivery of the Drive poll, file by file (start, enqueue, mark,
move); a watcher is a `composer watch` process, whose trigger is a request of the
same handlers and whose timeout does not stop it.  What happens to a row after
delivery is reduced to claim, settle, cancel and delete.  An enqueue that raises
may have created the task (`MayBeTasked`).  `slips` counts, per
file, the markers and moves that failed, the processes that died and the listings
that overlapped another's; `overtaken` records overwritten files.  Two watchers
may watch one folder: each has its own `_seen`, and the second listing of a file
that the first has in hand is such a slip.

### Connections

`tok` is the token row of each grant (an MCP server or Drive, per user), `issued`
the latest refresh token of the provider, `flow` and `codes` the authorisation
under way.  Callbacks and tool calls are handlers with a program counter; a call
walks through the token lookup, a second one for the owner of a shared server
(`McpFallback`), between which rows may come and go, the refresh, the update by id,
and `_rpc` with its one retry, which looks at the server's answer and not at
whether the client has a session.  A refresh may raise before the provider has
seen it, after it has issued a token, or at the update of the row
(`RefreshRaises`).  The node around the calls is the agent's loop with its cap, the `mcp`
node or a single tool.  `raced` and `lost` mark grants that two requests wrote at
once, or whose newest token was never stored, whatever the reason.

### Workspace

Every request is a record (who, what, on which row, with what payload) and a
program counter.  The steps are the statements of the dependencies
(`get_current_user`, `get_current_role`, `require_admin`, the API-key lookup) and
of the handler.  `Accounts` has registration, SSO, login, refresh, the three ways
to change a password, roles, deactivation and keys; a token names a user and
nothing invalidates it.  `WorkflowStore` has save with masked secrets, publication,
flags, shares, transfer, deletion, account cleanup and the start of an execution.
`BuilderSessions` has a builder turn: the session found by id, the row read, the
model's edits (any of `Edits`), the plan or patch kept in the session, and
`_persist`, which stores the canvas in every turn.  `ProviderKeys` has the row and
each instance's copy.  A save without `isPublic` makes the workflow private, as the
default of its model does; the administrator's flags leave it alone.  An API key may
be refused because it has expired, and an administrator's update of an account that
is gone by then is an error.  `had`, `given`, `unmatched`, `stale` and `current` are
observed only.  `given` is what a client last sent in clear and never what the code
made of a mask; `unmatched` are the rows to which a client sent a mask for a
node, or a header, that the row read did not have.

Not in it: the MCP servers, tokens and Drive connection that the cleanup of a test
account deletes too, and the saving of the builder's model policy.  Behaviour that
is in the model although no property speaks of it: a password change that was
verified before an administrator's reset writes after it; the last administrator
can be demoted; the reset link is not used up; an API key and SSO ignore a forced
password change; a save after publication is not checked for references; a
builder session is found by its id alone, so its patch can be applied to another
workflow; a patch is gone when storing it is refused.

### NodeEffects

A node is a program counter with its executor's local variables; `WorkerDies`
loses them and the node starts at its first line, as a redelivered run makes it.
A request to a service is carried out and answered, refused, or carried out and
the answer lost.  `JiraNode` is the agent with its six tools and the paged
extract; `VectorStore` chunks texts of numbered characters, embeds and stores
them under each provider's ids and field names; `OutboundNodes` are the
deterministic nodes.  `World` is people and services acting meanwhile: edits of a
page, the progress of a generation, an authorisation.  Text formatting, templates
and wire formats are left out; an answer that is not the JSON it should be raises,
as a refusal does.  A list of documents with an item that is neither text nor record
counts among the shapes that `ChunkingRaises` refuses.  Weaviate is taken to answer
a batch with a list: for any other answer `weaviate.py:177` reports every id
unchecked.

## 3. Runs

Passing:

| Run | Instance | Shows |
|---|---|---|
| `approvals` | 2 workers, 3 requests (create, approve, cancel, delete), 2 approval nodes | `TypeOK`, `OneApprovalPerPause`, `DecisionsAreAudited` |
| `sweeps` | 2 workers, 2 requests of any kind, 1 sweep | `OneDriver`, `ImplementsContract`, `CanceledQueuedNeverRuns`, `SettledIsFinal` |
| `settling` | 1 worker, 2 requests, 1 sweep, fair sweeps | `RunningSettles` |
| `events` | 2 nodes side by side, then an approval, 1 leg, 1 client, 1 fault, delete, retention | `NothingSkipped`, `ExecutorEventsKept` |
| `streams` | 1 approval node, 2 legs, 1 client, 1 fault, cancel and sweeps, fair worker and handlers | `StreamIsServed` |
| `rate` | 3 requests, 6 seconds | `WithinRate`, `ImplementsTokenBucket`, `RetryAfterIsEnough` |
| `graph` | 13 workflows of up to 8 nodes and every wiring of a few drafts of 3 or 4 nodes (about 1,200), two drafts that stay invalid, loops of 2 laps, 5 supersteps, 2 deaths | `StoredWorkIsKept`, `LoopsAreCapped`, `ExclusiveBranches`, `CompletesAtAnEnd`, `RepairsAreSound` |
| `intake` | 2 requests with one key, or 2 polls of 2 files in pages of one, or a watcher with a file written twice; 1 fault; fair processes | `KeysNameOneExecution`, `StartsAreAccountedFor`, `FoldersTellTheTruth`, `AcceptedIsSettled` |
| `connections` | 3 users; 2 callbacks, a callback and a call, or 2 calls; agent, `mcp` and tool nodes; 1 fault | `RefreshTokenIsCurrent`, `ToolCallRunsOnce`, `TokenOfTheRightUser`, `RowsComeFromGrants` |
| `access` | families of concurrent requests on seeded tables, 2 instances, 1 restart | `ServedWhenEntitled`, `RevokedForGood`, `ProductionHasItsSlug`, `SecretsSurviveSaves`, `SettingsFollowTheStore`, `PatchIsAnsweredOnce`, `ProposalsChangeNothing` |
| `nodes` | each node alone and pairs of nodes on one service, 1 death, 1 edit by a person | `ReportIsTrue`, `ExtractIsExact`, `StoreIsFaithful`, `RerunsDoNotDuplicate`, `NoLostEdit`, `NodeEnds` |

Each property's comment states what it says and its exceptions; the exceptions
are the cases in which the code does not keep it, and are recorded by a history
variable (`raced`, `lost`, `torn`, `shared`, `stale`, `unmatched`, `hurried`, `stray`, `silent`,
`overtaken`, `abandoned`, `slips`).  The
type invariants of the modules other than `ExecutionLifecycle` hold on the same
instances and, with `ExecutionLifecycle`'s own, are proved.

One run expects a violation: `double_run` (`NeverDoubleRun`), in which the lease
sweep clears a lease that a worker took after the sweep had read the row.
`PROJECT.json` quotes the sentence it contradicts.

Further disagreements between what the repository says and what the code does.
Where a configuration is named, it is in this directory, for the MC module of its
component; the others are violated in the regular configuration of their module
when it checks this property in place of its own.

| Property | Configuration | What the repository says | What the code does |
|---|---|---|---|
| `CanceledIsFinal` | `CancelOverwritten.cfg` | `src/api/executions.py:508-509`: canceling "gives callers a real terminal status to key off" | the worker's verdict is written by id and replaces `canceled` |
| `NodesRunOnce` | `NodesRepeated.cfg` | `docs/architecture.md:214`: "nodes that already ran (and had side effects, e.g. a Jira create) are not re-executed" | a re-enqueued run starts the graph over |
| `DecisionReachesItsNode` | `StaleApproval.cfg` | `src/engine/approval_email.py:107-110`: a node "can't have a stale token from an earlier iteration resolve a later one" | the flip checks the status, not the pause |
| `RetriedBeforeGivenUp` | `GivenUpEarly.cfg` | `docs/architecture.md:214`: the sweep recovers executions whose worker died "by re-enqueueing them, up to a bounded retry count before dead-lettering" | the stuck sweep runs first and its limit (900 s) is below the lease (3600 s), so the row is failed after one attempt |
| `DoubleFailureSettles` | `QueuedForever.cfg` | `src/api/executions.py:250-252`: operators can "find this rare double-failure via the sweeper's stuck-execution scan" | the scan reads running rows only |
| `DeletedLeavesNoCheckpoint` | `OrphanCheckpoint.cfg` | `docs/api-reference.md:76`: checkpoints are not deleted "out from under its in-flight background task" | a canceled row can be deleted while its worker still commits checkpoints |
| `SweptWhenRunningLong` | (`Sweeps.cfg`) | `src/config.py:356-358`: failed "once they've been running this long" | `startedAt` is the creation time: waiting in the queue or for an approval counts |
| `EveryEventAppended` | `EventsLost.cfg` | `src/engine/events_pg.py:4-6`: "every event is appended to the `execution_events` table" | nodes of one superstep count the same and one insert is rejected |
| `NoMissedEvents` | `EventsMissed.cfg` | `docs/product-capabilities.md:100`: "no missed events across a dropped connection" | a terminal snapshot ends the stream before the replay |
| `TerminalEventRecorded` | (`EventsExpired.cfg`) | `src/engine/events_pg.py:7-8`: "missed-terminal-event recovery" | a resume overtakes `approval_required`; two workers append and a `workflow_completed` is rejected |
| `TerminalEventAfterRetention` | `EventsExpired.cfg` | `src/maintenance/execution_sweeper.py:393-394`: "event rows carry no operational state" | the numbers come from the count, which retention shortens below the highest number |
| `EveryStreamEnds` | `StreamOpen.cfg` | `src/api/events_ws.py:29-31`: the terminal statuses are "shared by the snapshot check, replay loop, and live loop" | cancel and sweeps emit nothing and the live loop never reads the row |
| `AllKeysRevoked` | (`Workspace.cfg`) | `src/api/admin_users.py:87`: "mark inactive + revoke all API keys" | a key created between the two statements stays valid |
| `AssigneesMayRun` | (`Workspace.cfg`) | `src/api/workflows.py:293`: "full read+write (open, edit, run)"; `docs/api-reference.md:55` | `create_execution` (`api/executions.py:157-161`) lets only owners, administrators and, for public ones, everybody run |
| `EchoKeepsStored` | (`Workspace.cfg`) | `src/api/workflows.py:185`: "keep whatever was already stored for that node id" | it keeps what was stored when the request read the row |
| `MarkerIsNeverStored` | (`Workspace.cfg`) | `src/security/encryption.py:143-148`: a masked header keeps its value "instead of persisting the literal marker string" | line 156 falls back to the value sent, so a header that the stored node did not have, for example under a new node id, is stored as the marker; other secrets are dropped |
| `NothingAppliedYet` | (`Workspace.cfg`) | `src/builder/builder_agent.py:229`: "unchanged - nothing applied yet" | `api/builder.py:203` stores the canvas read before the model was asked, over any save made meanwhile |
| `UpdateFindsItsRow` | (`Workspace.cfg`) | `src/api/admin_llm_keys.py:109-110`: "so the row exists" | another administrator may have deleted it |
| `RejectionCancels` | (`Nodes.cfg`) | `src/executors/arcade.py:42`, `docs/decisions.md:540`: raised "when the user rejects the auth prompt on /resume" | lines 67-71 read a variable that a resume never sets, and the tool runs |
| `FailedGenerationFails` | (`Nodes.cfg`) | `src/executors/gamma_ai.py:41`: raised when the call "fails or returns failed state" | lines 168-175 return the last status after the deadline, whatever it is |
| `RerunOverwritesEverywhere` | (`Nodes.cfg`) | `src/vectordb/providers/milvus.py:107-108`: ids are hashed "so re-upserts are stable" | line 146 sends inserts |
| `ValidIsLeftAlone` | (`GraphRun.cfg`) | `src/builder/normalize.py:84`: "A no-op for an already-valid graph." | dead ends are joined to an end and shortcuts dropped in valid graphs too |
| `PauseIsResumable` | (`GraphRun.cfg`) | `README.md:41`: paused workflows "pick up exactly where they left off" | two approvals side by side pause together and one decision answers them |
| `LoopsAlwaysCapped` | (`GraphRun.cfg`) | `src/executors/while_loop.py:14`: "Infinite loops are prevented by the cap." | loops of one superstep overwrite each other's counters |
| `ExclusiveEverywhere` | (`GraphRun.cfg`) | `src/engine/graph_builder.py:217-219`: "a single run that reaches one can never also reach the other" | a loop around the conditional, or a way past it, reaches both |
| `StateIsOneShot` | (`Connections.cfg`) | `src/mcp/oauth.py:138`: "Find state row, check expiry, delete it (one-shot)" | two callbacks may find it before either deletes it |

Smaller ones that need no run of their own.  A `workflow_completed` whose append raises is
swallowed (`engine/langgraph_executor.py:86-91`), and a worker may die between
`_mark_completed` and the append: the row is final and a client that is connected
then waits for ever, although `events_pg.py:7-8` speaks of "missed-terminal-event
recovery" (`silent`; the log has nothing to recover it from).  The insert of a node
that was cancelled, landing late, may take the number of `workflow_completed`
(`stray`).  A refresh of an OAuth token whose answer is lost, or whose update raises,
leaves a token in the row that a rotating provider no longer takes, although
`mcp/oauth.py:237-238` replaces it "in place" (`lost`).  A page of Jira issues that is empty but has a
next-page token ends an extraction (`executors/jira.py:172`) although issues may be
left, which `truncated` does not say (`ExtractIsExact` with `EmptyPages = TRUE`).  The base class of the vector stores says ids are
hashed from "text + metadata", and every provider hashes the text alone.  Arcade's
documented cap of three retries (`executors/arcade.py:3-6`) has no code.  The
rate limiter's update, which `docs/decisions.md:937` describes as one statement,
is two, and `WithinRate` holds until they interleave (`raced`).

Bounds.  Lifecycle: each client makes one request, so the number of clients bounds
the requests: three are a creator and two that race.  Two workers are the smallest
number that can collide, two pauses the smallest with an earlier and a later
one, two delivery attempts tell a retry from giving up, and one queue attempt
plus re-enqueues gives every redelivery pattern while sweeps exist.  Two nodes
tell the start of the graph from its middle.  Event log: two nodes are
enough for two appends to collide and a third for an executor to follow them, one
client for a cursor to be wrong (clients do not affect each other), and two legs for a
resume to overtake its pause; one fault is a worker that dies, or one append lost,
wherever it hurts.  Rate
limiter: two requests are enough to read the same row and a third to be refused
on a row that neither of them left; two tokens of 5 units,
refilled with 2 units per second, run dry, are refused with a remainder and
overflow within 6 seconds and 4 grants.  Graphs: the workflows have
branches that share an end, a way around a conditional, a fork, an unbalanced
join, a loop and a bare cycle, two loops and two approvals side by side, dead
ends, and shapes that are refused; the drafts are wired in every way with up to
four edges; two laps distinguish the cap from one beyond it, two
deaths a resume of a resume, and five supersteps let the recursion limit be met.
Intake: two requests race for a key, two polls for a file, two files make a
second page, a file written twice is overwritten once.  Connections: two calls
collide on a refresh, two issued tokens are an old and a current one,
and with three users a server can pass to a third while its caller and its former owner
have tokens.  Workspace:
each cast has the requests that share rows, two or three of which overlap at any
statement; three workflows and six users leave room for every insert of a cast.
Nodes: one death gives a second run of every prefix; pages of two with totals on
both sides of a boundary meet every remainder.  `MaxFaults = 1`: the properties
that speak of failures speak of single ones, and the second failure of a pair is
reached by the process's own next attempt.

`CHECK_DEADLOCK FALSE` stands where everything may legitimately be finished: all
runs but `sweeps`, `settling` and `double_run`, in which a sweep can always begin.

Fairness.  `SweptSpec` assumes that time passes, that Cloud Scheduler keeps
calling the sweep, and that its scan and its write, tried again and again, do
not fail for ever (strong fairness: a scan or a row may raise any number of
times, and the code's own isolation of failures lets the next sweep try again).
Nothing is assumed of workers, requests or Cloud Tasks: `RunningSettles` holds
although they may all have died.  `ExecutionLifecycle`'s `FairSpec`, used only to
make the counterexample of `QueuedForever.cfg` meaningful, adds that requests and
workers that have begun go on and that Cloud Tasks delivers.  `EventLog` assumes
that the worker goes on while a request is being served, and that each WebSocket
handler does (its wait has a timeout of 15 s); nobody has to approve, connect or
stay.  `Intake` assumes that Cloud Tasks delivers and that a request, poll or
watcher that has not died goes on.  `NodeEffects` assumes the same of a worker
(every request of the executors has a timeout), and nothing of people and
services.

## 4. Proofs

Every theorem is of the form `Spec => []Inv` or `Spec => Property`, for every
value of the constants that satisfies the module's named assumption: any number
of workers, requests, polls, watchers, files, nodes and faults.  A module's
invariants are proved from one inductive invariant or a few stacked ones, with
one lemma per actor and one step per action; each inductive invariant was checked
by TLC on the run's instance before it was proved.

The assumptions say what the code guarantees.  Sets of actors of different kinds
are disjoint and bounds are natural numbers throughout.  Beyond that:
`LifecycleAssumption` and `EventLog`'s describe a workflow (its nodes are a chain,
its supersteps disjoint); `RateLimiterAssumption` asks for a capacity of a token
at least, as every setting of `config.py` has; `IntakeAssumption` asks that an absent key
is no key and that polls and watchers are finitely many, which the counting of
`EveryStartIsAccountedFor` needs.  `WorkspaceAssumption` says what the request models
accept (a known role, a non-empty key, an e-mail address) and that distinct requests
have distinct ids; `SeedAssumption`, that the tables at the start hold rows of their
schemas, keep the schema's unique slugs and foreign keys, and that a proposal pending
at the start is an edit of the row it was made for.  `GraphRunAssumption` says that
a workflow is a list of nodes and a list of edges, as its Pydantic model does, and
that a draft has distinct ids, as the keys of a dict are; that either is valid is
never assumed, and that the repairs make a workflow of a draft is proved.
`NodeEffectsAssumption` gives nodes the fields and ranges of their Pydantic models
(`max_issues` is at least 1, `action_policy` one of three) and says that a
page is never the value that stands for no page.  `ExtractsAreExact` also takes
`EmptyPages = FALSE`, without which it is false (section 3).

### Lifecycle

`TypeCorrect` is the type invariant.  `AllTyped`, the part that the other proofs rest on,
says that every variable has its type; the rest, `PausesHaveHappened`, follows a
pause from the graph that makes it through the row, the reviewer's view and the stamp
to the worker that applies it, each of which copies an earlier one.

`OneDriverHolds`: `OneDriver` alone is not inductive, since
nothing in it stops a claim while a worker drives.
`SoleDriver` adds why a claim is impossible then: the row is either running under
a live lease, or already terminal or deleted.  Three places have to cooperate for
it: a lease expires only when no request is in flight (`RequestDeadline`); an
approval, which clears the lease, needs `waiting_approval`, a status the only
driver leaves behind as it stops; and a lease sweep that clears a live lease is
what `raced` records, the very case in which the code fails (`double_run`).

`CanceledInQueueStaysCanceled` proves the action property
`CanceledQueuedNeverRuns` from `UntouchedBeforeClaim`: as long as no delivery has
claimed the row, no worker, approval request or sweep has anything under way
for it, so only guarded writes can reach it.

`LifecycleImplementsContract` is the refinement of `ExecutionContract`.  The
contract's second variable, `busy`, says whether a worker or a sweep that has
looked at the row is still under way: a worker sets it as it claims (`Take`), a
sweep as its scan finds the row (`Suspect`), and only while it is set may a verdict
replace a terminal status (`Report`).  `SeenRows` is what the step simulation
needs: somebody under way has found a row that had left the queue, and a delete
past its read has found one at all.  `SettledStaysSettled` follows: with nobody
under way only the contract's `Delete` leaves a terminal status.

`ApprovalsAreCounted` is a counting argument.  `PausesSpent`: the approvals rows,
plus the requests that have flipped the row and not yet written theirs, plus one
if the row waits now, are at most the pauses made.  Only the flip's
`WHERE status = 'waiting_approval'` turns a waiting row into a request that may
write a row.  `DecisionsHaveRows` follows a decision backwards (`AuditTrail`): the
one a worker applies was read from the row, was stamped by a request, and that
request had written its approvals row before.

### Event log

`EventTypesCorrect` is the type invariant.  `CursorSkipsNothing` rests on
`CursorInv`: types, `Dense` (the numbers are 1..n, and a number waiting to be
inserted is at most n + 1), `CursorsInLog` (no cursor is beyond n) and the
property.  The argument is the one the code needs and nowhere states: a number
that is still free although it came from a stale count can only be n + 1, so an
insert never lands at or below a cursor.  A rejected insert loses an event, but it
hides none.

`ExecutorKeepsItsEvents` adds `OneWriter`: while the executor of a leg appends,
no node of the leg does (a superstep ends when all its nodes have returned) and
the executors of earlier legs have announced their pause, so its count is fresh.
`hurried` and `stray` are the two ways in which that fails.

### Rate limiter

`RateInv` (types, `Clock`: no row is from the future, `Computed`: what a request
will write is what it computed from the row it read) carries all four.
`RateIsKept` adds `Spent`: the tokens in the row and those granted are at most the
capacity and the refill of the time passed.  `RetryAfterSuffices` adds `Reads` and
`PromiseKept`: at the promised time the row that the refusal saw has refilled to
a token, and a row in which no token was taken since can only have more.  The
header truncates and adds one; the proof has to show that the truncated quotient
plus one always covers the remainder (`RetryAfterTruncated` does not).
`LimiterImplementsBucket` maps the bucket's level to what the next reader would
compute: a tick refills nothing in the code and everything in the map, and a
token is taken when the verdict is computed.  `Alone` says that without overlap
the row a request read is still the row it replaces.

### Connections

`Inv` joins the types, `CallInv`, `HoldInv` and `TokenOfTheRightUser`.
`RefreshTokenStaysCurrent` needs `HoldInv`: for a grant that was not raced for, at
most one request holds an answer of the provider, it is the newest, and the row
has the newest token unless that holder is about to write it.  A holder that goes
without writing makes the grant `lost`.
`ToolCallsRunOnce` needs `CarriedOut`: a call has been carried out only when it is
past its last request, so that `_rpc`'s retry, made only for a session the server
did not know, never follows an execution.  `TokensOfTheRightUser` needs
`NodeKnows`: what a node resolved is fixed for all its calls.
`RowsComeFromCallbacks` is an action property: a refresh updates by id, and an
update of a row that is gone changes nothing.

### Intake

`Known` (types; what a request past its lookup, a poll past its start and a
watcher past its listing know of their row or file) carries the others.
`OneExecutionPerKey` adds the unique constraint, `KeysAreUnique`.
`FoldersAreTruthful` adds `DriveInv` (a poll that marks a file as processed has
handed its row over) and `LocalInv` (a watcher that moves a file to the dest
folder was answered for it, unless the file was overwritten meanwhile).

`EveryStartIsAccountedFor` is the deepest argument here: the account is balanced
over everything that has been started *and everything that still may be without a
further slip*.  For a Drive file that is the number of polls that have it before
them, plus one while it is unmarked and nobody has it (`DriveAccount`); for a
version of a local file, the requests posted and not yet inserted, the watchers
that have listed it, and one while nobody has it in hand (`LocalAccount`, with
`HoldersAccount` bounding the watchers by the slips).  Each of the code's steps
moves a unit from one column to another or pays for it with a slip.

### Workspace

`Known` carries everything else: the tables are well formed and only grow (a deletion
marks a row), and each request is `Routed` (which operations reach which program
point), `Knows` that the rows it has looked up are there, and, in a builder turn, has
a canvas that is an edit of the row it started from (`TurnOK`).  `Stepping` says
once what a step of a request does to the tables, so that each property needs only
its own argument.

`ServedOnlyWhenEntitled` adds `Entitled`, the rights a request must have had by each of its
program points.  No right need still be there when a request is served: the code
checks each once and never together, and the property asks no more.
`RevokedKeysStayDead` needs that keys are appended and revoked only: the handler
revokes the keys up to the last one there when it looked the user up, and no other
handler revives one.  A key created between that and the update is the case in which the
code fails (`AllKeysRevoked`).
`SlugsResolve` is inductive as it stands; the work is in what each write keeps
(`KeepsSlug`): a row that stays takes only a free slug, and loses its slug only with
production.

`SavesKeepSecrets` compares what is stored with `given`, what a client last sent in clear.
A write out of date is in `stale`, so any other write encrypts against the very row it
read: a mask then stands for the secret that is stored, if the node of that row is
the one it was sent for.  Otherwise (`unmatched`) nothing is stored for it, or the
marker, but never the secret of another node.
`ProposingStoresNothing` is the same fact for a turn whose canvas is the row it read:
`Encrypt` after `CanvasOf` is the identity on such a row, headers included.
`PatchesAreAnsweredOnce` needs `AnswerInv`: proposals have numbers of their own, a request
proposes once, and a number that waits in a session has no answer yet.  A
turn takes the patch out and answers it without an await between the two.
`SettingsAgreeWithTheStore` needs to know who owes what (`Owes`): an instance in `current`
uses the stored key, or else exactly one request of that instance has written the
row and not yet applied what it wrote, and that is what the row still holds.

### Graph execution

`RunInv` carries all of it: the types, `Stage` (a running worker's superstep is the
latest checkpoint's nodes, and there is a checkpoint to go on with whenever a leg
may) and `Work` for each node (it is not to be executed while its writes are stored,
it counts as returned only when all of them are, and what it chose is one of its
branches).  `StoredWorkStays` is the first of these, and `torn` the case in which the
second fails.

`LoopsStayCapped` needs `Counted`: a while node's own counter equals its laps, and
one that was executed since the checkpoint has a lap left and is the only while node
of the superstep.  So the merge, which keeps one node's whole dict of counters, keeps
the right one; `shared` records the case in which it does not (`LoopsAlwaysCapped`).

`CompletionPassesAnEnd` is the compiler's promise, `GoesOn`: `_branch_mapping` maps
each branch a node may choose to an executable target, so that a superstep triggers
nothing only if all its nodes are Ends or dead ends.

`SharedEndsExclude` relates the static check to the run.  `Traced`, for each
conditional: a node that ran, or is next, was reached around the conditional, or the
conditional ran and the node lies behind the branch it took, or it ran twice.  Two sources that
both ran lie behind the same branch then, `BehindIsMarked` gives both that branch's
marker, and the markers of sources accepted by `_mutually_exclusive` are disjoint.
A conditional is never one of the two itself: a branch that leads back to it marks
everything it leads to (`LoopsMarkAll`).  Closures are defined as least sets, so the lemmas
about them need no induction.  The proof showed that the shared conditionals must be
counted along nodes that are only drawn, since the markers pass through those and a
run does not; the workflow `ThroughNote` of the instance is the case.

`RepairsStaySound` is about `Normalize` alone; that a run keeps its workflow is one step.
A repair keeps some places of a sequence and adds others, so the first lemmas say what
`Kept` is (`Ranks`: the k-th place exists, is unique, and orders the kept ones), and need no
fold and no induction.  The first two repairs then leave one start and at least one end
and keep a draft `Repairable` (`WholeIsRepairable`).  The others only add and drop edges
at the start and the end: `HeadsHang`, `ShortcutsGo` and `TailsFeed` say which, so
that every rule of `Violations` is checked on the result (`MendedIsValid`).  The End is entered
exactly once, by what fed it before, by the one tail, or by the last
shortcut (`EndIsEnteredOnce`).  Every node is reached from the start since a set of nodes that are not, each
entered from another of the set, would go on backwards for ever or in a circle
(`NothingFromNowhere`, by the node with the fewest behind it).  The other half,
`SoundIsLeft`, shows that none of the rules finds anything to do.  `AllAreWorkflows`, on which the proofs about runs
rest, is a corollary for every draft, repairable or not.

The proof corrected `Repairable`.  The feeding nodes of an End must be counted by edges, since a
node that enters it twice is two sources for the validation; and no edge may lead into
a start: one into a start that is merged away is dropped, its source becomes a
tail and feeds the End beside whatever entered it already.  The instance has both drafts
(`Twice`, `IntoAnotherStart`).

### Nodes

`NodesInv` holds one part per family of nodes over a common one, `HostInv`: the types,
and, for each node, `Routed`, the kinds whose executor has the program point it is at.
`AllSteps` and the lemmas after it (`EveryStep`, `ServiceMoves`, `SeenBy`) say once which
services a step of each family may touch, so that a family's invariant is proved
against its own steps and one argument about everybody else's.

`ReportsAreTrue` needs for each node the facts that hold *before* it
completes.  An agent's records are only of what the service did, and of no more calls than
it did (`JiraInv`).  A node that adds labels has seen the page's labels, and only a node
that is alone on its page may conclude that they are still those (`PageTrue`).  Versions
only grow, so what was read is never above what is there.  A generation's status
and its file only advance (`GammaInv`).  A mail with a key is sent once, whichever run sends
it (`MailInv`).  An upload goes to a file that is in the folder, and a node that has the
folder to itself creates no second one (`FileInv`).

`ExtractsAreExact` follows the loop of `_run_extract` (`Collects`): between two pages
there is a token exactly if a page was read, and then issues are left, of which no page
takes more than the cap allows.  So the cap is met exactly, and the last token says
whether any issue is left over.

`NoEditIsLost` is optimistic locking: Confluence accepts `version + 1` only, so
a write that is accepted was computed from the version it replaces.  What has to be shown
is that no other step of any node or person replaces a page for a node that is about to write.

`RerunsRepeatNothing` and `StoresAreFaithful` share `VectorInv`: the collection has only
records of chunks, one for each id unless some upsert goes to milvus, and what a node
reports is true of it.  No step takes the record of an id away (`IdsStay`), so reported ids
stay stored whatever other nodes write.  Records without an id of the caller's are found under the hash
of their text, so equal texts meet under one id, and a chunk is still stored when
another node has overwritten it.  `WindowsCover` is the arithmetic of `_chunk_string`: with
`0 <= overlap < size` every character lies in a window, and a window
with a character that is not blank is kept.  The mails and the files are parts of
`MailInv` and `FileInv`.

### Only model-checked

The liveness properties (`RunningSettles`, `StreamIsServed`, `AcceptedIsSettled`,
`NodeEnds`) are outside the prover's reach.  Everything else the passing runs check is proved.

## 5. Plan

Modelled: every component of the table in section 1 down to the last row.
Proved: the lifecycle, the event log, the rate limiter, the connections, intake,
the workspace, graph execution, the builder's repairs and the nodes: every safety property
of the passing runs.  Next: step lemmas for the parts of the liveness arguments that
are safety, that is, the measure that every pass of a retry loop, a poll or a lap
decreases.

## 6. Not modelled

* Calls of language models, their judgment and the catalog of models: external;
  wherever a model's answer decides something, the model chooses any answer.
* Variable substitution, expressions, transforms, PDF conversion and uploads:
  functions of one state, with nothing between two steps.  They are text
  processing that TLC would only repeat.
* The builder's layout and prompts, and its model policy.
* The commands of the CLI other than `watch`, the one-off migration, the seed
  scripts, start-up and configuration (the settings that matter are constants).
* The frontend: a client of the API; the model's requests stand for it.
* A workflow that is edited while an execution of it waits: what LangGraph makes
  of a checkpoint of another graph is not known from this repository.
* Clocks of different instances that disagree: how far they may is not known from
  the code.
