---------------------------- MODULE Orchestration ----------------------------
(***************************************************************************)
(* normalize.py: the repairs the builder makes to the start and end wiring *)
(* of a draft after every build turn, before it is validated and stored.   *)
(*                                                                         *)
(* A draft is a workflow of WorkflowGraph whose ids are distinct (draft.py *)
(* keeps nodes and edges in dicts).  The ids of new edges, positions and   *)
(* the input variables of a start node are left out.                       *)
(***************************************************************************)
EXTENDS WorkflowGraph

\* The ids of added nodes whose own name is taken, random until nobody has them.
Suffixed == [start |-> "start-new", end |-> "end-new"]

Draft == {d \in Workflow : /\ \A i, j \in DOMAIN d.nodes : d.nodes[i].id = d.nodes[j].id => i = j
                           /\ \A t \in DOMAIN Suffixed : Suffixed[t] \notin Ids(d)}

NewId(d, base) == IF base \in Ids(d) THEN Suffixed[base] ELSE base

NewNode(d, type) == [id |-> NewId(d, type), type |-> type, options |-> {}]

Unlabelled(source, target) == [source |-> source, target |-> target, branch |-> NoBranch]

\* What a sequence has at these places, in its order.
Nth(places, k) == CHOOSE i \in places : Cardinality({j \in places : j <= i}) = k
Kept(s, places) == [k \in 1..Cardinality(places) |-> s[Nth(places, k)]]

\* The first start node stays; edges out of the others are moved to it, edges
\* into them go.
MergeExtraStarts(d) ==
    LET extras == {d.nodes[i].id : i \in StartIndices(d)} \ {StartId(d)}
        moved(e) == IF e.source \in extras THEN [e EXCEPT !.source = StartId(d)] ELSE e
    IN  IF Cardinality(StartIndices(d)) < 2 THEN d
        ELSE [nodes |-> Kept(d.nodes, {i \in DOMAIN d.nodes : d.nodes[i].id \notin extras}),
              edges |-> Kept([i \in DOMAIN d.edges |-> moved(d.edges[i])],
                             {i \in DOMAIN d.edges : d.edges[i].target \notin extras})]

\* A draft with nodes has a start and an end.
EnsureEndpoints(d) ==
    LET missing == {t \in {"start", "end"} : \A i \in DOMAIN d.nodes : d.nodes[i].type # t}
        added(t) == IF t \in missing THEN <<NewNode(d, t)>> ELSE <<>>
    IN  IF d.nodes = <<>> THEN d ELSE [d EXCEPT !.nodes = @ \o added("start") \o added("end")]

\* The given nodes in the order of the draft.
InOrder(d, ids) ==
    LET kept == Kept(d.nodes, {i \in DOMAIN d.nodes : d.nodes[i].id \in ids})
    IN  [i \in DOMAIN kept |-> kept[i].id]

\* Executable nodes that nothing leads into hang off the start.
ConnectHeads(d) ==
    LET heads == InOrder(d, {n \in Executable(d) \ (EndIds(d) \cup {StartId(d)}) :
                               IncomingExecutable(d, n) = {}})
    IN  [d EXCEPT !.edges = @ \o [i \in DOMAIN heads |-> Unlabelled(StartId(d), heads[i])]]

DropShortcutsNot(d) == d

\* One edge from the start to an end after the other goes, as long as another
\* edge leaves the start or enters the same end.  When it is the turn of one, the
\* shortcuts before it have gone, since it was there beside them.
DropShortcuts(d) ==
    LET shortcut(i) == d.edges[i].source = StartId(d) /\ d.edges[i].target \in EndIds(d)
        beside(i) == {j \in DOMAIN d.edges \ {i} : /\ shortcut(j) => j > i
                                                   /\ \/ d.edges[j].source = StartId(d)
                                                      \/ d.edges[j].target = d.edges[i].target}
    IN  [d EXCEPT !.edges = Kept(@, {i \in DOMAIN @ : shortcut(i) => beside(i) = {}})]

\* With one end, plain nodes that lead nowhere feed it; with nothing else
\* entering it, the start does.
ConnectTails(d) ==
    LET end == CHOOSE n \in EndIds(d) : TRUE
        tails == InOrder(d, {n \in Executable(d) \ (EndIds(d) \cup {StartId(d)} \cup Conditionals(d)) :
                               OutgoingExecutable(d, n) = {}})
        fed == [d EXCEPT !.edges = @ \o [i \in DOMAIN tails |-> Unlabelled(tails[i], end)]]
    IN  IF Cardinality(EndIds(d)) # 1 THEN d
        ELSE IF IncomingExecutable(fed, end) # {} THEN fed
        ELSE [fed EXCEPT !.edges = Append(@, Unlabelled(StartId(d), end))]

Normalize(d) ==
    LET whole == EnsureEndpoints(MergeExtraStarts(d))
    IN  IF whole.nodes = <<>> THEN whole
        ELSE ConnectTails(DropShortcuts(ConnectHeads(whole)))
=============================================================================
