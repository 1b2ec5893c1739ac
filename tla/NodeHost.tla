------------------------------ MODULE NodeHost ------------------------------
(***************************************************************************)
(* A worker that runs the nodes of an execution which act on systems       *)
(* outside Composer.  What a node has done inside the worker is lost with  *)
(* the worker; what it has done outside stays.  The execution is claimed   *)
(* again, and the node, which has no stored result, runs from its first    *)
(* line (GraphRun, ExecutionLifecycle).                                    *)
(*                                                                         *)
(* A request over HTTP has three outcomes for the node: it is carried out  *)
(* and answered, it is refused, or the answer is lost, and then the node   *)
(* cannot know whether it was carried out.                                 *)
(***************************************************************************)
EXTENDS Integers, Sequences, FiniteSets

CONSTANTS
    None,        \* Python's None
    MaxDeaths    \* bound: workers that die

ASSUME NodeHostAssumption == MaxDeaths \in Nat

VARIABLES
    cast,        \* the nodes of this behaviour: records with id, kind and configuration
    node,        \* node[n]: where the worker is in n, and n's local variables
    deaths       \* workers that died

hostVars == <<cast, node, deaths>>

\* The local variables of an executor: what it read last, what it has
\* collected, what is left to do, the retries of a request, its output, and the
\* answer an interrupt was resumed with.  run counts the attempts.
Fresh(run) == [pc |-> "start", run |-> run, saw |-> None, acc |-> <<>>, left |-> 0,
               tries |-> 0, out |-> None, resumed |-> None]

Ended == {"completed", "failed"}
At(n, pc) == node[n].pc = pc
Is(n, kinds) == n.kind \in kinds

\* The handler moves on to pc, with its local variables changed as given.
Become(n, local) == node' = [node EXCEPT ![n] = local]
Goto(n, pc) == Become(n, [node[n] EXCEPT !.pc = pc])
Raise(n) == Goto(n, "raised")
Return(n, out) == Become(n, [node[n] EXCEPT !.pc = "returned", !.out = out])

HostInit ==
    /\ node = [n \in cast |-> Fresh(1)]
    /\ deaths = 0

\* What the node returned is stored with the checkpoint, or the execution is
\* marked failed.
StoreResult(n) ==
    /\ node[n].pc \in {"returned", "raised"}
    /\ Goto(n, IF At(n, "returned") THEN "completed" ELSE "failed")
    /\ UNCHANGED <<cast, deaths>>

\* The worker dies inside the node, or before its result is stored; another one
\* runs the node again.  A node that waits for an answer has no worker to lose.
WorkerDies(n) ==
    /\ deaths < MaxDeaths
    /\ node[n].pc \notin Ended \cup {"start", "paused"}
    /\ Become(n, [Fresh(node[n].run + 1) EXCEPT !.resumed = node[n].resumed])
    /\ deaths' = deaths + 1
    /\ UNCHANGED cast
=============================================================================
