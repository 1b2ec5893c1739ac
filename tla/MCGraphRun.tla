------------------------------ MODULE MCGraphRun ------------------------------
(* Small workflows, each the smallest in which one rule of graph_builder.py  *)
(* or one hazard of LangGraph's supersteps matters.                          *)
EXTENDS GraphRun, SequencesExt

LOCAL Node(i, t) == [id |-> i, type |-> t, options |-> {}]
LOCAL Edge(s, t) == [source |-> s, target |-> t, branch |-> NoBranch]
LOCAL Branch(s, b, t) == [source |-> s, target |-> t, branch |-> b]
LOCAL S == Node("s", "start")
LOCAL Z == Node("z", "end")

\* Branches of a conditional that share an End; the untaken one never runs.
SharedEnd == [nodes |-> <<S, Node("c", "if-else"), Node("a", "agent"), Node("b", "agent"), Z>>,
              edges |-> <<Edge("s", "c"), Branch("c", "true", "a"), Branch("c", "false", "b"),
                          Edge("a", "z"), Edge("b", "z")>>]

\* Two branches of different length into a join.
Unbalanced == [nodes |-> <<S, Node("a", "agent"), Node("b", "agent"), Node("j", "join"), Z,
                           Node("n", "note")>>,
               edges |-> <<Edge("s", "a"), Edge("s", "j"), Edge("a", "b"), Edge("b", "j"),
                           Edge("j", "z"), Edge("n", "a")>>]

\* A loop, and a cycle that no while node caps.
Loop == [nodes |-> <<S, Node("l", "while"), Node("a", "agent"), Z>>,
         edges |-> <<Edge("s", "l"), Branch("l", "body", "a"), Edge("a", "l"), Branch("l", "exit", "z")>>]

Cycle == [nodes |-> <<S, Node("c", "if-else"), Z>>,
          edges |-> <<Edge("s", "c"), Branch("c", "true", "c"), Branch("c", "false", "z")>>]

\* An approval beside an agent, then a decision with a dead end.
Approval == [nodes |-> <<S, Node("u", "user-approval"), Node("a", "agent"), Z,
                         [id |-> "d", type |-> "decision", options |-> {"x", "y"}],
                         Node("y", "end")>>,
             edges |-> <<Edge("s", "u"), Edge("s", "a"), Branch("u", "approved", "d"),
                         Branch("u", "rejected", "z"), Branch("d", "x", "y"),
                         Branch("d", "y", "a")>>]

Choice == [nodes |-> <<S, [id |-> "d", type |-> "decision", options |-> {"x", "y"}], Z, Node("y", "end")>>,
           edges |-> <<Edge("s", "d"), Branch("d", "x", "z"), Branch("d", "y", "y")>>]

\* Refused: by the validation, and only when it is compiled.
NoEnd == [nodes |-> <<S, Node("a", "agent")>>, edges |-> <<Edge("s", "a")>>]
OneBranch == [nodes |-> <<S, Node("c", "if-else"), Z>>,
              edges |-> <<Edge("s", "c"), Branch("c", "true", "z")>>]

\* Two loops, and two approvals, side by side.
TwoLoops == [nodes |-> <<S, Node("l", "while"), Node("m", "while"), Z, Node("y", "end")>>,
             edges |-> <<Edge("s", "l"), Edge("s", "m"), Branch("l", "body", "l"),
                         Branch("l", "exit", "z"), Branch("m", "body", "m"), Branch("m", "exit", "y")>>]

TwoApprovals == [nodes |-> <<S, Node("u", "user-approval"), Node("v", "user-approval"), Z, Node("y", "end"),
                             Node("a", "agent"), Node("b", "agent")>>,
                 edges |-> <<Edge("s", "u"), Edge("s", "v"), Branch("u", "approved", "z"),
                             Branch("u", "rejected", "a"), Branch("v", "approved", "y"),
                             Branch("v", "rejected", "b")>>]

\* A second way around the conditional into one of its branches.
WayAround == [nodes |-> <<S, Node("c", "if-else"), Node("a", "agent"), Node("b", "agent"), Z>>,
              edges |-> <<Edge("s", "c"), Edge("s", "a"), Branch("c", "true", "a"),
                          Branch("c", "false", "b"), Edge("a", "z"), Edge("b", "z")>>]

\* Refused: both branches below the conditional run and enter the same End.
Fork == [nodes |-> <<S, Node("c", "if-else"), Node("x", "agent"), Node("a", "agent"),
                     Node("b", "agent"), Node("y", "end"), Z>>,
         edges |-> <<Edge("s", "c"), Branch("c", "true", "x"), Branch("c", "false", "y"),
                     Edge("x", "a"), Edge("x", "b"), Edge("a", "z"), Edge("b", "z")>>]

\* A note on the way from a branch of the conditional: the markers pass through
\* it and the run does not.
ThroughNote == [nodes |-> <<S, Node("c", "if-else"), Node("x", "agent"), Node("n", "note"),
                            Node("a", "agent"), Node("b", "agent"), Z, Node("y", "end")>>,
                edges |-> <<Edge("s", "c"), Edge("s", "a"), Branch("c", "true", "x"), Edge("x", "n"),
                            Edge("n", "a"), Edge("x", "y"), Branch("c", "false", "b"), Edge("a", "z"),
                            Edge("b", "z")>>]

MCWorkflows == {ThroughNote, SharedEnd, Unbalanced, Loop, Cycle, Approval, Choice, NoEnd, OneBranch, TwoLoops,
                TwoApprovals, WayAround, Fork}

\* Drafts: every set of edges over a few nodes, none of them drawn into a start
\* or out of an End.
LOCAL A == Node("a", "agent")
LOCAL B == Node("b", "agent")
LOCAL Over(nodes) ==
    LET from == {nodes[i].id : i \in {j \in DOMAIN nodes : nodes[j].type # "end"}}
        to == {nodes[i].id : i \in {j \in DOMAIN nodes : nodes[j].type # "start"}}
        labels(m) == IF m = "c" THEN {"true", "false"} ELSE {NoBranch}
    IN  UNION {{Branch(m, b, n) : b \in labels(m), n \in to} : m \in from}
LOCAL Wired(nodes, most) ==
    {[nodes |-> nodes, edges |-> SetToSeq(E)] : E \in UNION {kSubset(k, Over(nodes)) : k \in 0..most}}

\* Not mended: a's only edge leads into the start that goes, and the End is entered
\* twice by one node.
IntoAnotherStart == [nodes |-> <<S, A, B, Node("t", "start"), Z>>, edges |-> <<Edge("a", "t"), Edge("b", "z")>>]
Twice == [nodes |-> <<S, A, Z>>, edges |-> <<Edge("s", "a"), Edge("a", "z"), Edge("a", "z")>>]

MCDrafts ==
    UNION {Wired(nodes, 4) : nodes \in {<<S, A, B, Z>>, <<S, A, B>>, <<A, B, Z>>, <<S, Node("t", "start"), A, Z>>,
                                         <<S, A, Z, Node("y", "end")>>, <<S, A, Node("n", "note"), Z>>}}
    \cup Wired(<<S, Node("c", "if-else"), A, Z>>, 3)
    \cup Wired(<<Node("start", "note"), A, B>>, 3)
    \cup {IntoAnotherStart, Twice}

=============================================================================
