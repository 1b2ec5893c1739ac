---------------------------- MODULE WorkflowGraph ----------------------------
(***************************************************************************)
(* A workflow as its author draws it, and what graph_builder.py makes of   *)
(* it: the violations it reports, the branches it believes exclude each    *)
(* other, and the edges the compiled LangGraph graph has.                  *)
(*                                                                         *)
(* A workflow is a record: `nodes` a sequence of [id, type, options],      *)
(* `edges` a sequence of [source, target, branch].  Only the types that    *)
(* differ in control are told apart; "agent" stands for every node that    *)
(* does its work and passes on.  `options` are the labels of a decision    *)
(* node in choice mode, {} in binary mode and for the other types.         *)
(***************************************************************************)
EXTENDS Naturals, Sequences, FiniteSets

NodeTypes == {"start", "end", "note", "file-trigger", "agent", "if-else",
              "decision", "while", "user-approval", "join"}

NoBranch == "none"

VisualOnly == {"note", "file-trigger"}

ConditionalTypes == {"if-else", "while", "user-approval", "decision"}

\* Any string; the union with the ones the code writes itself adds nothing, but
\* says to a prover that they are names.
Names == STRING \cup {NoBranch, "start", "start-new", "end", "end-new"}

WorkflowNode == [id : Names, type : NodeTypes, options : SUBSET STRING]
WorkflowEdge == [source : Names, target : Names, branch : Names]
Workflow == [nodes : Seq(WorkflowNode), edges : Seq(WorkflowEdge)]

-----------------------------------------------------------------------------
Ids(w) == {w.nodes[i].id : i \in DOMAIN w.nodes}

IndicesOf(w, n) == {i \in DOMAIN w.nodes : w.nodes[i].id = n}

FirstIndex(w, n) ==
    CHOOSE i \in IndicesOf(w, n) : \A j \in IndicesOf(w, n) : i <= j

\* The dict of nodes keeps the first of two nodes with the same id.
NodeById(w, n) == w.nodes[FirstIndex(w, n)]

Type(w, n) == NodeById(w, n).type

Executable(w) == {n \in Ids(w) : Type(w, n) \notin VisualOnly}

StartIndices(w) == {i \in DOMAIN w.nodes : w.nodes[i].type = "start"}

StartId(w) == w.nodes[CHOOSE i \in StartIndices(w) :
                        \A j \in StartIndices(w) : i <= j].id

EndIds(w) == {w.nodes[i].id : i \in {j \in DOMAIN w.nodes : w.nodes[j].type = "end"}}

\* Edges are named by their position, so that equal edges stay apart.
CleanEdges(w) == {i \in DOMAIN w.edges :
                    {w.edges[i].source, w.edges[i].target} \subseteq Ids(w)}

-----------------------------------------------------------------------------
\* The nodes within a set that edges lead to from one of them: what a search
\* that visits every neighbour once collects.
Closure(hops, within, from) ==
    {m \in within :
        \A R \in SUBSET within :
            (from \in R /\ \A h \in hops : h[1] \in R /\ h[2] \in within => h[2] \in R)
                => m \in R}

Hops(w) == {<<w.edges[i].source, w.edges[i].target>> : i \in CleanEdges(w)}

\* Breadth-first search from the start over the executable nodes.
Reachable(w) == Closure(Hops(w), Executable(w), StartId(w))

\* The triples <<node, conditional, branch>>: a branch taken at a conditional
\* marks every node the branch leads to, the start node apart, which is never
\* marked and passes no marker on.  The passes over all nodes go on until
\* nothing changes; visual-only nodes take part.
BranchMarkers(w) ==
    LET labelled == {i \in CleanEdges(w) : /\ w.edges[i].branch # NoBranch
                                           /\ Type(w, w.edges[i].source) \in ConditionalTypes
                                           /\ w.edges[i].target # StartId(w)}
    IN  UNION {{<<n, w.edges[i].source, w.edges[i].branch>> :
                  n \in Closure(Hops(w), Ids(w) \ {StartId(w)}, w.edges[i].target)}
               : i \in labelled}

MutuallyExclusiveIfShared(markers, a, b) ==
    \E t, u \in markers : t[1] = a /\ u[1] = b /\ t[2] = u[2]

\* Some shared conditional ancestor was left by disjoint sets of branches.
MutuallyExclusive(markers, a, b) ==
    LET branches(n, c) == {t[3] : t \in {u \in markers : u[1] = n /\ u[2] = c}}
    IN  \E c \in {t[2] : t \in markers} :
            /\ branches(a, c) # {}
            /\ branches(b, c) # {}
            /\ branches(a, c) \cap branches(b, c) = {}

\* The edges into an End node that count, and the sources they come from.
IncomingExecutable(w, n) ==
    {i \in CleanEdges(w) : /\ w.edges[i].target = n
                           /\ Type(w, w.edges[i].source) \notin VisualOnly}

OutgoingExecutable(w, n) ==
    {i \in CleanEdges(w) : /\ w.edges[i].source = n
                           /\ Type(w, w.edges[i].target) \notin VisualOnly}

EndAccepted(w, n) ==
    LET incoming == IncomingExecutable(w, n)
        markers == BranchMarkers(w)
    IN  \/ Cardinality(incoming) = 1
        \/ /\ Cardinality(incoming) > 1
           /\ \A i, j \in incoming :
                i # j => MutuallyExclusive(markers, w.edges[i].source, w.edges[j].source)

\* Every violation, as a rule and the node or edge it is about; the checks that
\* need a start node are left out when there is not exactly one.
Violations(w) ==
    LET duplicated == {<<"duplicate", w.nodes[i].id>> : i \in
                        {j \in DOMAIN w.nodes : j # FirstIndex(w, w.nodes[j].id)}}
        starts == IF Cardinality(StartIndices(w)) # 1 THEN {<<"start", 0>>} ELSE {}
        ends == IF EndIds(w) = {} THEN {<<"no end", 0>>} ELSE {}
        dangling == {<<"edge", i>> : i \in DOMAIN w.edges \ CleanEdges(w)}
        badEnds == {<<"end", n>> : n \in {m \in EndIds(w) : ~EndAccepted(w, m)}}
        badJoins == {<<"join", n>> : n \in {m \in Ids(w) :
                        Type(w, m) = "join" /\ Cardinality(OutgoingExecutable(w, m)) # 1}}
        badLabels == {<<"branch", i>> : i \in {j \in CleanEdges(w) :
                        (Type(w, w.edges[j].source) \in ConditionalTypes)
                            # (w.edges[j].branch # NoBranch)}}
        unreachable == {<<"unreachable", n>> : n \in Executable(w) \ Reachable(w)}
    IN  duplicated \cup starts \cup ends \cup dangling \cup
        (IF starts # {} THEN {} ELSE badEnds \cup badJoins \cup badLabels \cup unreachable)

ValidShape(w) == Violations(w) = {}

-----------------------------------------------------------------------------
\* Compilation.

RequiredBranches(w, n) ==
    CASE Type(w, n) = "if-else"       -> {"true", "false"}
      [] Type(w, n) = "while"         -> {"body", "exit"}
      [] Type(w, n) = "user-approval" -> {"approved", "rejected"}
      [] Type(w, n) = "decision"      ->
            IF NodeById(w, n).options = {} THEN {"true", "false"} ELSE NodeById(w, n).options

BranchMappingRaises(w, n) ==
    LET out == {i \in DOMAIN w.edges : w.edges[i].source = n}
    IN  \/ \E i, j \in out : i # j /\ w.edges[i].branch = w.edges[j].branch
        \/ {w.edges[i].branch : i \in out} # RequiredBranches(w, n)

Conditionals(w) == {n \in Ids(w) : Type(w, n) \in ConditionalTypes}

\* LangGraph refuses a branch that leads to a node it was never given.
LeadsNowhere(w, n) ==
    \E i \in DOMAIN w.edges : w.edges[i].source = n /\ w.edges[i].target \notin Executable(w)

\* build_graph returns a graph; otherwise it raises.
Compiles(w) ==
    /\ ValidShape(w)
    /\ \A n \in Conditionals(w) : ~BranchMappingRaises(w, n) /\ ~LeadsNowhere(w, n)

\* Where the compiled graph goes after n: every target of a plain node, the one
\* target mapped to the branch of a conditional node.
Successors(w, n, branch) ==
    {w.edges[i].target : i \in {j \in OutgoingExecutable(w, n) :
                                  w.edges[j].branch = branch}}

=============================================================================
