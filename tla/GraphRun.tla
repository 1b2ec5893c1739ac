------------------------------- MODULE GraphRun -------------------------------
(***************************************************************************)
(* One execution of a workflow by LangGraph, superstep by superstep, with  *)
(* the checkpoints and pending writes PrismaCheckpointSaver keeps for its  *)
(* thread, workers that die anywhere, and the executors of the nodes that  *)
(* decide where a run goes.                                                *)
(*                                                                         *)
(* LangGraph is external.  It runs the nodes triggered in a superstep      *)
(* concurrently on the state the superstep began with, saves what a node   *)
(* wrote when it returns, merges the writes when all have returned and     *)
(* saves a checkpoint; an invocation with an input starts at the start     *)
(* node on top of the saved state, one with a resume value continues the   *)
(* latest checkpoint and does not repeat nodes that have pending writes.   *)
(***************************************************************************)
EXTENDS Orchestration

CONSTANTS
    Workflows,       \* workflows drawn by hand, one per behaviour
    Drafts,          \* drafts that the builder's tools left, one per behaviour
    MaxIterations,   \* data.max_iterations of every while node
    RecursionLimit,  \* LangGraph's limit on the supersteps of one invocation
    MaxDeaths        \* bound: workers that die

AllWorkflows == Workflows \cup {Normalize(d) : d \in Drafts}

ASSUME GraphRunAssumption ==
    /\ Workflows \subseteq Workflow
    /\ Drafts \subseteq Draft
    /\ MaxIterations \in Nat
    /\ RecursionLimit \in Nat
    /\ MaxDeaths \in Nat

VARIABLES
    draft,   \* the draft it was normalized from, Blank when drawn by hand
    wf,      \* the workflow
    leg,     \* "run" or "resume" asked for, "running", or how it ended
    kind,    \* the invocation of this leg: "run" or "resume"
    task,    \* task[n]: this worker's view of node n in the superstep
    took,    \* took[n]: the branch node n took in this superstep
    steps,   \* supersteps of this invocation
    given,   \* the decision stamped on the row
    answer,  \* the resume value of this invocation, while it can be consumed
    vals,    \* the merged state: while counters and final outputs
    saved,   \* saved[n]: how much of n's writes is stored for the checkpoint
    ckpt,    \* the latest checkpoint: the nodes to run next and the state
    deaths,  \* workers that died
    runs,    \* runs[n]: merged supersteps with n since the run began, up to 2
    laps,    \* laps[n]: merged supersteps with the while node n, ever
    torn,    \* a resume found only part of a node's writes
    shared,  \* two while nodes ran in one superstep
    redone   \* a node was executed although its writes were stored

drawn == <<draft, wf>>
graphVars == <<drawn, ckpt, vals, saved>>
watch == <<torn, shared, redone>>
vars == <<drawn, leg, kind, task, took, steps, given, answer, vals, saved, ckpt,
          deaths, runs, laps, watch>>

Blank == [nodes |-> <<>>, edges |-> <<>>]

N == Ids(wf)

\* build_graph, once for each workflow.
Compiled == {w \in AllWorkflows : Compiles(w)}

Whiles == {n \in N : Type(wf, n) = "while"}
InStep == {n \in N : task[n] # "none"}
NoTasks == [n \in N |-> "none"]
NothingSaved == [n \in N |-> "none"]

\* What put_writes stores for a node, write by write: first its state update,
\* then the channels that trigger its successors.
Parts == {"none", "data", "all", "interrupt"}

TypeOK ==
    /\ wf \in AllWorkflows
    /\ leg \in {"run", "resume", "running", "paused", "completed", "failed"}
    /\ kind \in {"run", "resume"}
    /\ task \in [N -> {"none", "todo", "ran", "data", "all", "paused"}]
    /\ took \in [N -> {wf.edges[i].branch : i \in DOMAIN wf.edges} \cup {NoBranch}]
    /\ steps \in 0..RecursionLimit
    /\ {given, answer} \subseteq {"none", "approved", "rejected"}
    /\ vals.counts \in [N -> Nat] /\ vals.outputs \subseteq EndIds(wf)
    /\ saved \in [N -> Parts]
    /\ ckpt.next \subseteq N /\ ckpt.vals.counts \in [N -> Nat]
    /\ deaths \in 0..MaxDeaths
    /\ runs \in [N -> 0..2]
    /\ laps \in [N -> Nat]
    /\ {torn, shared, redone} \subseteq BOOLEAN

Init ==
    /\ \/ wf \in Workflows /\ draft = Blank
       \/ draft \in Drafts /\ wf = Normalize(draft)
    /\ leg = "run" /\ kind = "run"
    /\ task = NoTasks /\ took = [n \in N |-> NoBranch]
    /\ steps = 0 /\ given = "none" /\ answer = "none"
    /\ vals = [counts |-> [n \in N |-> 0], outputs |-> {}]
    /\ saved = NothingSaved
    /\ ckpt = [next |-> {}, vals |-> vals]
    /\ deaths = 0
    /\ runs = [n \in N |-> 0]
    /\ laps = [n \in N |-> 0]
    /\ torn = FALSE /\ shared = FALSE /\ redone = FALSE

-----------------------------------------------------------------------------
\* Beginning an invocation.

\* build_graph raises inside run's try block: the execution is marked failed.
CompileRaises ==
    /\ leg \in {"run", "resume"}
    /\ wf \notin Compiled
    /\ leg' = "failed"
    /\ UNCHANGED <<graphVars, kind, task, took, steps, given, answer, deaths, runs, laps, watch>>

\* ainvoke(state): the input is merged into the state the thread already has,
\* what the previous checkpoint still had to run is dropped, and a checkpoint
\* that has the start node to run is stored.
InvokeRun ==
    /\ leg = "run" /\ wf \in Compiled
    /\ leg' = "running" /\ kind' = "run" /\ steps' = 0
    /\ vals' = ckpt.vals
    /\ ckpt' = [next |-> {StartId(wf)}, vals |-> ckpt.vals]
    /\ saved' = NothingSaved
    /\ task' = [NoTasks EXCEPT ![StartId(wf)] = "todo"]
    /\ runs' = [n \in N |-> 0]
    /\ answer' = "none"
    /\ UNCHANGED <<drawn, took, given, deaths, laps, watch>>

\* aget_tuple: the latest checkpoint of the thread with the writes stored for
\* it.  A node with such writes, however many, counts as done.
PendingWritesNotRead(n) == FALSE

PendingWrites(n) == saved[n] \in {"data", "all"}

InvokeResume ==
    /\ leg = "resume" /\ wf \in Compiled
    /\ Cardinality({n \in N : saved[n] = "interrupt"}) <= 1
    /\ leg' = "running" /\ kind' = "resume" /\ steps' = 0
    /\ vals' = ckpt.vals
    /\ task' = [n \in N |-> IF n \notin ckpt.next THEN "none"
                            ELSE IF PendingWrites(n) THEN "all" ELSE "todo"]
    /\ answer' = given
    /\ torn' = (torn \/ \E n \in ckpt.next : saved[n] = "data")
    /\ UNCHANGED <<drawn, took, given, saved, ckpt, deaths, runs, laps, shared, redone>>

\* With several nodes waiting LangGraph cannot tell which one the value is for.
ResumeRaises ==
    /\ leg = "resume" /\ wf \in Compiled
    /\ Cardinality({n \in N : saved[n] = "interrupt"}) > 1
    /\ leg' = "failed"
    /\ UNCHANGED <<graphVars, kind, task, took, steps, given, answer, deaths, runs, laps, watch>>

-----------------------------------------------------------------------------
\* Executing one node.

Execute(n, branch) ==
    /\ leg = "running" /\ task[n] = "todo"
    /\ task' = [task EXCEPT ![n] = "ran"]
    /\ took' = [took EXCEPT ![n] = branch]
    /\ shared' = (shared \/ \E m \in Whiles \ {n} : n \in Whiles /\ task[m] \notin {"none"})
    /\ redone' = (redone \/ saved[n] = "all")
    /\ UNCHANGED <<graphVars, leg, kind, steps, given, deaths, runs, laps, torn>>

\* start, agent, join and every other node that passes on to all its targets.
RunPlain(n) ==
    /\ Type(wf, n) \in {"start", "agent", "join", "end"}
    /\ Execute(n, NoBranch)
    /\ UNCHANGED answer

\* The condition has whatever value; the router evaluates it again, on the same
\* state, and falls back to "false".
RunIfElse(n) ==
    /\ Type(wf, n) = "if-else"
    /\ \E branch \in {"true", "false"} : Execute(n, branch)
    /\ UNCHANGED answer

\* The counter is checked before the condition.
WhileExceededLate(n) == vals.counts[n] > MaxIterations

WhileExceeded(n) == vals.counts[n] + 1 > MaxIterations

RunWhile(n) ==
    /\ Type(wf, n) = "while"
    /\ ~WhileExceeded(n)
    /\ \E branch \in {"body", "exit"} : Execute(n, branch)
    /\ UNCHANGED answer

RunDecisionUnlisted(n) ==
    /\ Type(wf, n) = "decision"
    /\ \E branch \in RequiredBranches(wf, n) \cup {NoBranch} : Execute(n, branch)
    /\ UNCHANGED answer

\* An answer outside the options is routed to the first of them.
RunDecision(n) ==
    /\ Type(wf, n) = "decision"
    /\ \E branch \in RequiredBranches(wf, n) : Execute(n, branch)
    /\ UNCHANGED answer

\* interrupt() returns the resume value on the second pass ...
RunApproval(n) ==
    /\ Type(wf, n) = "user-approval"
    /\ answer # "none"
    /\ Execute(n, answer)
    /\ answer' = "none"

\* ... and raises GraphInterrupt on the first.
InterruptNode(n) ==
    /\ Type(wf, n) = "user-approval"
    /\ leg = "running" /\ task[n] = "todo" /\ answer = "none"
    /\ task' = [task EXCEPT ![n] = "paused"]
    /\ saved' = [saved EXCEPT ![n] = "interrupt"]
    /\ UNCHANGED <<drawn, ckpt, vals, leg, kind, took, steps, given, answer, deaths, runs, laps, watch>>

\* An executor raises (a while node does beyond its cap): the other nodes of the
\* superstep are cancelled and the execution is marked failed.
NodeRaises(n) ==
    /\ leg = "running" /\ task[n] = "todo"
    /\ Type(wf, n) \notin {"end", "join", "user-approval"}
    /\ leg' = "failed"
    /\ task' = NoTasks
    /\ UNCHANGED <<graphVars, kind, took, steps, given, answer, deaths, runs, laps, watch>>

\* aput_writes upserts the writes of a node one by one.
PutWrite(n) ==
    /\ leg = "running" /\ task[n] \in {"ran", "data"}
    /\ LET part == IF task[n] = "ran" THEN "data" ELSE "all"
       IN  /\ task' = [task EXCEPT ![n] = part]
           /\ saved' = [saved EXCEPT ![n] = part]
    /\ UNCHANGED <<drawn, ckpt, vals, leg, kind, took, steps, given, answer, deaths, runs, laps, watch>>

-----------------------------------------------------------------------------
\* The end of a superstep.

StepDone == leg = "running" /\ \A n \in InStep : task[n] = "all"

\* merge_dict is shallow: each while node writes the whole dict of counters, as
\* it was when the superstep began but for its own; the last in order stays.
MergedCounts ==
    LET looped == {n \in InStep : Type(wf, n) = "while"}
        last == CHOOSE n \in looped : \A m \in looped \ {n} : FirstIndex(wf, m) <= FirstIndex(wf, n)
    IN  IF looped = {} THEN vals.counts
        ELSE [vals.counts EXCEPT ![last] = @ + 1]

\* final_outputs is merged by End node.
MergedVals ==
    [counts |-> MergedCounts, outputs |-> vals.outputs \cup (InStep \cap EndIds(wf))]

\* A node whose stored writes stop before its triggers starts nothing.
Triggered ==
    UNION {Successors(wf, n, took[n]) : n \in {m \in InStep : saved[m] # "data"}}

\* Observed only: how often each node took part in a merged superstep.
CountRuns ==
    /\ runs' = [n \in N |-> IF n \in InStep /\ runs[n] < 2 THEN runs[n] + 1 ELSE runs[n]]
    /\ laps' = [n \in N |-> IF n \in InStep \cap Whiles THEN laps[n] + 1 ELSE laps[n]]

\* Merge, then aput: a new checkpoint, for which no writes are stored yet.
Superstep ==
    /\ StepDone
    /\ Triggered # {}
    /\ steps < RecursionLimit
    /\ steps' = steps + 1
    /\ vals' = MergedVals
    /\ ckpt' = [next |-> Triggered, vals |-> MergedVals]
    /\ saved' = NothingSaved
    /\ task' = [n \in N |-> IF n \in Triggered THEN "todo" ELSE "none"]
    /\ answer' = "none"
    /\ CountRuns
    /\ UNCHANGED <<drawn, leg, kind, took, given, deaths, watch>>

\* GraphRecursionError.
RecursionRaises ==
    /\ StepDone
    /\ Triggered # {}
    /\ steps >= RecursionLimit
    /\ leg' = "failed"
    /\ task' = NoTasks
    /\ UNCHANGED <<graphVars, kind, took, steps, given, answer, deaths, runs, laps, watch>>

\* Nothing is triggered: the run is over and its outputs are stored.
MarkCompleted ==
    /\ StepDone
    /\ Triggered = {}
    /\ vals' = MergedVals
    /\ ckpt' = [next |-> {}, vals |-> MergedVals]
    /\ saved' = NothingSaved
    /\ task' = NoTasks
    /\ leg' = "completed"
    /\ answer' = "none"
    /\ CountRuns
    /\ UNCHANGED <<drawn, kind, took, steps, given, deaths, watch>>

\* Every node of the superstep has returned or interrupted, one at least
\* interrupted: the row becomes waiting_approval.
Pause ==
    /\ leg = "running"
    /\ \E n \in N : task[n] = "paused"
    /\ \A n \in InStep : task[n] \in {"all", "paused"}
    /\ leg' = "paused"
    /\ task' = NoTasks
    /\ UNCHANGED <<graphVars, kind, took, steps, given, answer, deaths, runs, laps, watch>>

-----------------------------------------------------------------------------
\* Around the invocation.

Decide(d) ==
    /\ leg = "paused"
    /\ leg' = "resume" /\ given' = d
    /\ UNCHANGED <<graphVars, kind, task, took, steps, answer, deaths, runs, laps, watch>>

\* The worker dies; the queue delivers the same task again, and a resume task
\* gives the decision stamped on the row once more.
WorkerDies ==
    /\ leg = "running"
    /\ deaths < MaxDeaths
    /\ deaths' = deaths + 1
    /\ leg' = kind
    /\ task' = NoTasks
    /\ answer' = "none"
    /\ UNCHANGED <<graphVars, kind, took, steps, given, runs, laps, watch>>

Worker ==
    \/ CompileRaises
    \/ InvokeRun
    \/ InvokeResume
    \/ ResumeRaises
    \/ Superstep
    \/ RecursionRaises
    \/ MarkCompleted
    \/ Pause
    \/ \E n \in N :
        \/ RunPlain(n)
        \/ RunIfElse(n)
        \/ RunWhile(n)
        \/ RunDecision(n)
        \/ RunApproval(n)
        \/ InterruptNode(n)
        \/ NodeRaises(n)
        \/ PutWrite(n)

Next ==
    \/ Worker
    \/ WorkerDies
    \/ \E d \in {"approved", "rejected"} : Decide(d)

Spec == Init /\ [][Next]_vars

-----------------------------------------------------------------------------
\* Properties.

\* A node whose writes are stored for the checkpoint is not executed again,
\* whatever worker continues the checkpoint (aput_writes, aget_tuple).
StoredWorkIsKept == ~redone

\* The iteration cap (WhileExecutor): a while node takes part in at most
\* MaxIterations supersteps of an execution, restarts included, as long as no
\* two while nodes share a superstep and overwrite each other's counters.
LoopsAreCapped == ~shared => \A n \in Whiles : laps[n] <= MaxIterations

\* Nodes reached without passing through c.
ReachableAround(c) ==
    IF c = StartId(wf) THEN {} ELSE Closure(Hops(wf), Executable(wf) \ {c}, StartId(wf))

\* The conditionals that can lead to both a and b, through nodes that are only
\* drawn too: the markers pass through those.
SharedConditionals(a, b) ==
    {c \in Conditionals(wf) : {a, b} \subseteq Closure(Hops(wf), Ids(wf), c)}

\* What the End rule is for (_branch_markers, _mutually_exclusive): when every
\* way to the sources of two edges into one End passes the conditionals they
\* share, and none of those conditionals runs twice, an accepted workflow never
\* runs both sources.
ExclusiveBranches ==
    leg = "completed" =>
        \A e \in EndIds(wf) : \A i, j \in IncomingExecutable(wf, e) :
            LET a == wf.edges[i].source
                b == wf.edges[j].source
            IN  /\ i # j
                /\ \A c \in SharedConditionals(a, b) :
                    runs[c] <= 1 /\ {a, b} \cap ReachableAround(c) = {}
                => runs[a] = 0 \/ runs[b] = 0

\* No executable node but an End is left without an edge to follow.
DeadEnds(w) == {n \in Executable(w) \ EndIds(w) : OutgoingExecutable(w, n) = {}}

\* A run that is marked completed has passed an End, unless the workflow has a
\* dead end or a worker died between two upserts of one node's writes
\* (validate_workflow_shape, _branch_mapping, aput_writes).
CompletesAtAnEnd ==
    leg = "completed" /\ DeadEnds(wf) = {} /\ ~torn => \E e \in EndIds(wf) : runs[e] > 0

\* What feeds the End of a draft, or will: edges into it, and plain nodes that
\* lead nowhere yet.
Feeding(d) ==
    {<<"edge", i>> : i \in {j \in UNION {IncomingExecutable(d, e) : e \in EndIds(d)} :
                              Type(d, d.edges[j].source) # "start"}}
    \cup {<<"node", n>> : n \in {m \in DeadEnds(d) : Type(d, m) # "start"}}

\* A draft of plain nodes with unlabelled edges and at most one End, which at most
\* one edge or node feeds; no edge leads into a start, out of the End or back to
\* where it comes from.
Repairable(d) ==
    /\ {Type(d, n) : n \in Executable(d)} \subseteq {"start", "agent", "end"}
    /\ Cardinality(EndIds(d)) <= 1 /\ Cardinality(Feeding(d)) <= 1
    /\ CleanEdges(d) = DOMAIN d.edges
    /\ \A i \in DOMAIN d.edges :
          /\ d.edges[i].branch = NoBranch
          /\ Type(d, d.edges[i].target) # "start" /\ d.edges[i].source \notin EndIds(d)
          /\ d.edges[i].source \notin Closure(Hops(d), Ids(d), d.edges[i].target)

\* The mechanical mistakes that normalize.py lists (a second start, an end that
\* nothing enters, a chain that nothing connects to the start, a direct edge
\* left beside the new chain) are all repaired: the workflow becomes valid.
RepairsWiring == leg = "run" /\ draft # Blank /\ Repairable(draft) => ValidShape(wf)

\* A valid workflow without dead ends, and without an edge from its start to an
\* End, is left as it is.
LeavesSoundAlone ==
    leg = "run" /\ ValidShape(draft) /\ DeadEnds(draft) = {}
      /\ (\A i \in DOMAIN draft.edges : draft.edges[i].source = StartId(draft)
                                        => draft.edges[i].target \notin EndIds(draft))
    => wf = draft

\* The repairs of normalize_orchestration mend the mistakes it lists and harm
\* no graph that has none of them.
RepairsAreSound == RepairsWiring /\ LeavesSoundAlone

\* normalize.py:84, "A no-op for an already-valid graph."
ValidIsLeftAlone == leg = "run" /\ ValidShape(draft) => wf = draft

\* README.md:41, "paused workflows pick up exactly where they left off": a
\* paused execution has one node waiting, which the decision is for.
PauseIsResumable ==
    leg = "paused" => Cardinality({n \in N : saved[n] = "interrupt"}) = 1

\* executors/while_loop.py:14, "Infinite loops are prevented by the cap."
LoopsAlwaysCapped == \A n \in Whiles : laps[n] <= MaxIterations

\* engine/graph_builder.py:217-219, "a single run that reaches one can never
\* also reach the other".
ExclusiveEverywhere ==
    leg = "completed" =>
    \A e \in EndIds(wf) : \A i, j \in IncomingExecutable(wf, e) :
        i # j => runs[wf.edges[i].source] = 0 \/ runs[wf.edges[j].source] = 0

=============================================================================
