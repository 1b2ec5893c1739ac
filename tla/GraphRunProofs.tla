--------------------------- MODULE GraphRunProofs ---------------------------
(***************************************************************************)
(* What holds of GraphRun for every set of workflows and drafts, every     *)
(* cap, every recursion limit and every number of workers that die: stored *)
(* work is kept, loops are capped, a completed run has passed an End, the  *)
(* sources of one End exclude each other, and the builder's repairs make a *)
(* workflow of every draft and a valid one of every draft they can repair. *)
(***************************************************************************)
EXTENDS GraphRun, FiniteSetTheorems, SequenceTheorems, TLAPS

-----------------------------------------------------------------------------
(* Closures.                                                               *)

\* A closure is closed under the hops within the set.
LEMMA ClosureIsClosed ==
    ASSUME NEW hops, NEW within, NEW from, NEW m \in Closure(hops, within, from),
           NEW k \in within, <<m, k>> \in hops
    PROVE  k \in Closure(hops, within, from)
  <1> SUFFICES ASSUME NEW R \in SUBSET within, from \in R,
                      \A h \in hops : h[1] \in R /\ h[2] \in within => h[2] \in R
               PROVE  k \in R
    BY DEF Closure
  <1>1. m \in R
    BY DEF Closure
  <1> QED
    BY <1>1

\* A closure contains where it starts.
LEMMA ClosureStarts ==
    ASSUME NEW hops, NEW within, NEW from \in within
    PROVE  from \in Closure(hops, within, from)
  BY DEF Closure

\* A set with the start that no hop leaves contains the closure.
LEMMA ClosureIsLeast ==
    ASSUME NEW hops, NEW within, NEW from, NEW R, from \in R \cap within,
           \A h \in hops : h[1] \in R \cap within /\ h[2] \in within => h[2] \in R
    PROVE  Closure(hops, within, from) \subseteq R
  <1>1. PICK S : S = R \cap within
    OBVIOUS
  <1>2. S \in SUBSET within /\ from \in S /\ \A h \in hops : h[1] \in S /\ h[2] \in within => h[2] \in S
    BY <1>1
  <1>3. Closure(hops, within, from) \subseteq S
    BY <1>2 DEF Closure
  <1> QED
    BY <1>1, <1>3

\* Within a wider set, a closure reaches as far or farther.
LEMMA ClosureGrows ==
    ASSUME NEW hops, NEW within, NEW wider, within \subseteq wider, NEW from \in within
    PROVE  Closure(hops, within, from) \subseteq Closure(hops, wider, from)
  <1>1. from \in Closure(hops, wider, from)
    BY ClosureStarts
  <1>2. ASSUME NEW h \in hops, h[1] \in Closure(hops, wider, from), h[2] \in within
        PROVE  h[2] \in Closure(hops, wider, from)
    <2> SUFFICES ASSUME NEW R \in SUBSET wider, from \in R,
                        \A g \in hops : g[1] \in R /\ g[2] \in wider => g[2] \in R
                 PROVE  h[2] \in R
      BY <1>2 DEF Closure
    <2>1. h[1] \in R
      BY <1>2 DEF Closure
    <2> QED
      BY <1>2, <2>1
  <1> QED
    BY <1>1, <1>2, ClosureIsLeast

\* What lies behind a node of a closure is in it.
LEMMA ClosureGoesOn ==
    ASSUME NEW hops, NEW within, NEW from, NEW m \in Closure(hops, within, from)
    PROVE  Closure(hops, within, m) \subseteq Closure(hops, within, from)
  <1>1. m \in within
    BY DEF Closure
  <1>2. ASSUME NEW h \in hops, h[1] \in Closure(hops, within, from), h[2] \in within
        PROVE  h[2] \in Closure(hops, within, from)
    <2> SUFFICES ASSUME NEW R \in SUBSET within, from \in R,
                        \A g \in hops : g[1] \in R /\ g[2] \in within => g[2] \in R
                 PROVE  h[2] \in R
      BY <1>2 DEF Closure
    <2>1. h[1] \in R
      BY <1>2 DEF Closure
    <2> QED
      BY <1>2, <2>1
  <1> QED
    BY <1>1, <1>2, ClosureIsLeast

-----------------------------------------------------------------------------
(* What a compiled graph is.                                               *)

\* A workflow is a list of nodes and a list of edges, both finite.
LEMMA WorkflowIs ==
    ASSUME NEW w \in Workflow
    PROVE  /\ w.nodes \in Seq(WorkflowNode) /\ w.edges \in Seq(WorkflowEdge)
           /\ \A i \in DOMAIN w.nodes : w.nodes[i] \in WorkflowNode
           /\ \A i \in DOMAIN w.edges : w.edges[i] \in WorkflowEdge
           /\ IsFiniteSet(DOMAIN w.nodes) /\ IsFiniteSet(DOMAIN w.edges)
  <1>1. w.nodes \in Seq(WorkflowNode) /\ w.edges \in Seq(WorkflowEdge)
    BY DEF Workflow
  <1>2. \A n \in Nat : IsFiniteSet(1..n)
    BY FS_Interval
  <1>3. ASSUME NEW S, NEW s \in Seq(S) PROVE IsFiniteSet(DOMAIN s)
    <2>1. Len(s) \in Nat /\ DOMAIN s = 1..Len(s)
      BY <1>3
    <2> QED
      BY <1>2, <2>1
  <1> QED
    BY <1>1, <1>3

\* The rules that an accepted workflow keeps, one by one.
LEMMA ValidKeepsRules ==
    ASSUME NEW w, ValidShape(w)
    PROVE  /\ \A j \in DOMAIN w.nodes : j = FirstIndex(w, w.nodes[j].id)
           /\ Cardinality(StartIndices(w)) = 1
           /\ \A n \in EndIds(w) : EndAccepted(w, n)
           /\ \A j \in CleanEdges(w) :
                (Type(w, w.edges[j].source) \in ConditionalTypes) = (w.edges[j].branch # NoBranch)
  <1>1. Violations(w) = {}
    BY DEF ValidShape
  <1>2. ASSUME NEW j \in DOMAIN w.nodes, j # FirstIndex(w, w.nodes[j].id) PROVE FALSE
    <2>1. <<"duplicate", w.nodes[j].id>> \in Violations(w)
      BY <1>2 DEF Violations
    <2> QED
      BY <1>1, <2>1
  <1>3. Cardinality(StartIndices(w)) = 1
    <2>1. CASE Cardinality(StartIndices(w)) # 1
      <3>1. <<"start", 0>> \in Violations(w)
        BY <2>1 DEF Violations
      <3> QED
        BY <1>1, <3>1
    <2> QED
      BY <2>1
  <1>4. ASSUME NEW n \in EndIds(w), ~EndAccepted(w, n) PROVE FALSE
    <2>1. <<"end", n>> \in Violations(w)
      BY <1>3, <1>4 DEF Violations
    <2> QED
      BY <1>1, <2>1
  <1>5. ASSUME NEW j \in CleanEdges(w),
               (Type(w, w.edges[j].source) \in ConditionalTypes) # (w.edges[j].branch # NoBranch)
        PROVE  FALSE
    <2>1. <<"branch", j>> \in Violations(w)
      BY <1>3, <1>5 DEF Violations
    <2> QED
      BY <1>1, <2>1
  <1> QED
    BY <1>2, <1>3, <1>4, <1>5

\* No two nodes share an id, so that the type found by it is the node's own.
LEMMA TypeIsOwn ==
    ASSUME NEW w, ValidShape(w), NEW i \in DOMAIN w.nodes
    PROVE  Type(w, w.nodes[i].id) = w.nodes[i].type
  <1>1. i = FirstIndex(w, w.nodes[i].id)
    BY ValidKeepsRules
  <1> QED
    BY <1>1 DEF Type, NodeById

\* The one start node is found by its id, and is run.
LEMMA StartIsExecutable ==
    ASSUME NEW w \in Workflow, ValidShape(w)
    PROVE  StartId(w) \in Executable(w) /\ Type(w, StartId(w)) = "start"
  <1>1. StartIndices(w) \in SUBSET DOMAIN w.nodes
    BY DEF StartIndices
  <1>2. IsFiniteSet(StartIndices(w))
    BY <1>1, WorkflowIs, FS_Subset
  <1>3. PICK i : StartIndices(w) = {i}
    BY <1>2, FS_Singleton, ValidKeepsRules
  <1>4. i \in DOMAIN w.nodes /\ w.nodes[i].type = "start" /\ i \in Nat
    BY <1>1, <1>3, WorkflowIs DEF StartIndices
  <1>5. StartId(w) = w.nodes[i].id
    BY <1>3, <1>4 DEF StartId
  <1>6. Type(w, StartId(w)) = "start"
    BY <1>4, <1>5, TypeIsOwn
  <1> QED
    BY <1>4, <1>5, <1>6 DEF Executable, Ids, VisualOnly

-----------------------------------------------------------------------------
(* Sequences that keep some of their places.                               *)

\* Counting places from the front numbers them: each of a set of places has one
\* number, and each number up to the size of the set is the number of one.
LEMMA Ranks ==
    ASSUME NEW n \in Nat, NEW S \in SUBSET (1..n)
    PROVE  /\ IsFiniteSet(S) /\ Cardinality(S) \in Nat
           /\ \A k \in 1..Cardinality(S) :
                Nth(S, k) \in S /\ Cardinality({j \in S : j <= Nth(S, k)}) = k
           /\ \A i \in S : \E k \in 1..Cardinality(S) : Nth(S, k) = i
  <1> DEFINE upto(i) == {j \in S : j <= i}
             rank == [i \in S |-> Cardinality(upto(i))]
  <1>1. IsFiniteSet(S) /\ Cardinality(S) \in Nat
    <2>1. IsFiniteSet(1..n)
      BY FS_Interval
    <2> QED BY <2>1, FS_Subset, FS_CardinalityType
  <1>2. ASSUME NEW i \in S
        PROVE  IsFiniteSet(upto(i)) /\ Cardinality(upto(i)) \in 1..Cardinality(S)
    <2>1. /\ IsFiniteSet(upto(i)) /\ Cardinality(upto(i)) \in Nat
          /\ Cardinality(upto(i)) <= Cardinality(S)
      <3>1. upto(i) \in SUBSET S
        OBVIOUS
      <3> HIDE DEF upto
      <3> QED BY <1>1, <3>1, FS_Subset, FS_CardinalityType
    <2>2. i \in upto(i)
      OBVIOUS
    <2> HIDE DEF upto
    <2>3. Cardinality(upto(i)) # 0
      BY <2>1, <2>2, FS_EmptySet
    <2> QED BY <1>1, <2>1, <2>3
  <1>3. ASSUME NEW i \in S, NEW l \in S, i < l
        PROVE  Cardinality(upto(i)) # Cardinality(upto(l))
    <2>1. upto(i) \subseteq upto(l) /\ l \in upto(l) /\ l \notin upto(i)
      <3>1. i \in Nat /\ l \in Nat /\ \A j \in S : j \in Nat
        OBVIOUS
      <3>2. i <= l /\ l <= l /\ ~(l <= i) /\ \A j \in S : j <= i => j <= l
        BY <1>3, <3>1
      <3> QED BY <3>2
    <2>2. IsFiniteSet(upto(l))
      BY <1>2
    <2> HIDE DEF upto
    <2> QED BY <2>1, <2>2, FS_Subset
  <1>4. IsFiniteSet(1..Cardinality(S)) /\ Cardinality(1..Cardinality(S)) = Cardinality(S)
    BY <1>1, FS_Interval
  <1>5. rank \in Injection(S, 1..Cardinality(S))
    <2>1. rank \in [S -> 1..Cardinality(S)]
      BY <1>2
    <2>2. ASSUME NEW i \in S, NEW l \in S, rank[i] = rank[l] PROVE i = l
      <3>1. i \in Nat /\ l \in Nat
        OBVIOUS
      <3>2. ~(i < l) /\ ~(l < i)
        BY <1>3, <2>2
      <3> QED BY <3>1, <3>2
    <2> HIDE DEF rank
    <2> QED BY <2>1, <2>2 DEF Injection, IsInjective
  <1>6. rank \in Surjection(S, 1..Cardinality(S))
    <2> HIDE DEF rank
    <2> QED BY <1>4, <1>5, FS_Injection
  <1>7. \A k \in 1..Cardinality(S) : \E i \in S : Cardinality(upto(i)) = k
    <2>1. \A k \in 1..Cardinality(S) : \E i \in S : rank[i] = k
      <3> HIDE DEF rank
      <3> QED BY <1>6 DEF Surjection
    <2> QED BY <2>1
  <1>8. \A k \in 1..Cardinality(S) : Nth(S, k) \in S /\ Cardinality(upto(Nth(S, k))) = k
    <2> HIDE DEF rank
    <2>1. \A k : Nth(S, k) = CHOOSE i \in S : Cardinality(upto(i)) = k
      BY DEF Nth
    <2> HIDE DEF upto
    <2> QED BY <1>7, <2>1
  <1>9. ASSUME NEW i \in S PROVE \E k \in 1..Cardinality(S) : Nth(S, k) = i
    <2>1. PICK k \in 1..Cardinality(S) : k = Cardinality(upto(i))
      BY <1>2
    <2>2. Nth(S, k) \in S /\ Cardinality(upto(Nth(S, k))) = Cardinality(upto(i))
      BY <1>8, <2>1
    <2>3. PICK l \in S : l = Nth(S, k)
      BY <2>2
    <2>4. ~(i < l) /\ ~(l < i)
      BY <1>3, <2>2, <2>3
    <2>5. i = l
      BY <2>4
    <2> QED BY <2>3, <2>5
  <1> QED
    BY <1>1, <1>8, <1>9

\* What is kept of a sequence stands at the kept places, each of them once.
LEMMA Keeping ==
    ASSUME NEW R, NEW s \in Seq(R), NEW S \in SUBSET DOMAIN s
    PROVE  /\ Kept(s, S) \in Seq(R)
           /\ \A k \in DOMAIN Kept(s, S) : Nth(S, k) \in S /\ Kept(s, S)[k] = s[Nth(S, k)]
           /\ \A i \in S : \E k \in DOMAIN Kept(s, S) : Nth(S, k) = i
           /\ \A k, l \in DOMAIN Kept(s, S) : Nth(S, k) = Nth(S, l) => k = l
  <1>1. PICK n \in Nat : S \in SUBSET (1..n) /\ DOMAIN s = 1..n
    OBVIOUS
  <1>2. /\ Cardinality(S) \in Nat
        /\ \A k \in 1..Cardinality(S) :
             Nth(S, k) \in S /\ Cardinality({j \in S : j <= Nth(S, k)}) = k
        /\ \A i \in S : \E k \in 1..Cardinality(S) : Nth(S, k) = i
    BY <1>1, Ranks
  <1>3. Kept(s, S) = [k \in 1..Cardinality(S) |-> s[Nth(S, k)]]
    BY DEF Kept
  <1>4. \A k \in 1..Cardinality(S) : s[Nth(S, k)] \in R
    <2>1. \A i \in DOMAIN s : s[i] \in R
      OBVIOUS
    <2> QED BY <1>2, <2>1
  <1>5. Kept(s, S) \in Seq(R)
    BY <1>2, <1>3, <1>4
  <1> QED
    BY <1>2, <1>3, <1>5

\* A sequence that keeps every place is as it was.
LEMMA KeepingAll ==
    ASSUME NEW R, NEW s \in Seq(R)
    PROVE  Kept(s, DOMAIN s) = s
  <1>1. Len(s) \in Nat /\ DOMAIN s = 1..Len(s)
    OBVIOUS
  <1>2. Cardinality(1..Len(s)) = Len(s)
    BY <1>1, FS_Interval
  <1>3. ASSUME NEW k \in 1..Len(s) PROVE Nth(1..Len(s), k) = k
    <2>1. PICK i \in 1..Len(s) : i = Nth(1..Len(s), k) /\ Cardinality({j \in 1..Len(s) : j <= i}) = k
      BY <1>1, <1>2, Ranks
    <2>2. {j \in 1..Len(s) : j <= i} = 1..i
      BY <1>1
    <2>3. Cardinality(1..i) = i
      BY FS_Interval
    <2> QED BY <2>1, <2>2, <2>3
  <1>4. Kept(s, DOMAIN s) = [k \in 1..Len(s) |-> s[k]]
    BY <1>1, <1>2, <1>3 DEF Kept
  <1> QED
    BY <1>1, <1>4

\* What two sequences are in a row.
LEMMA InARow ==
    ASSUME NEW R, NEW s \in Seq(R), NEW t \in Seq(R)
    PROVE  /\ s \o t \in Seq(R)
           /\ Len(s) \in Nat /\ DOMAIN s = 1..Len(s)
           /\ \A i \in DOMAIN s : i \in DOMAIN (s \o t) /\ (s \o t)[i] = s[i]
           /\ \A i \in DOMAIN t : i + Len(s) \in DOMAIN (s \o t) /\ (s \o t)[i + Len(s)] = t[i]
           /\ \A i \in DOMAIN (s \o t) :
                i \in DOMAIN s \/ (i - Len(s) \in DOMAIN t /\ (s \o t)[i] = t[i - Len(s)])
  OBVIOUS

\* Nothing in a row adds nothing.
LEMMA NothingInARow ==
    ASSUME NEW R, NEW s \in Seq(R)
    PROVE  s \o <<>> = s
  OBVIOUS

-----------------------------------------------------------------------------
(* The graphs that the repairs work on.                                    *)

\* Of some numbers one is the least.
LEMMA LeastOf ==
    ASSUME NEW S, S \subseteq Nat, S # {}
    PROVE  \E i \in S : \A j \in S : i <= j
  <1> DEFINE less == {p \in Nat \X Nat : p[1] < p[2]}
  <1>1. IsWellFoundedOn(less, Nat)
    BY NatLessThanWellFounded DEF OpToRel
  <1>2. PICK i \in S : \A j \in S : <<j, i>> \notin less
    <2> HIDE DEF less
    <2> QED BY <1>1, WFMin
  <1>3. ASSUME NEW j \in S PROVE i <= j
    <2>1. i \in Nat /\ j \in Nat /\ (j < i => <<j, i>> \in less)
      OBVIOUS
    <2> QED BY <1>2, <2>1
  <1> QED BY <1>3

\* What a finite set's nodes all come from, in the set and never in a circle,
\* there is none of.
LEMMA NothingFromNowhere ==
    ASSUME NEW hops, NEW V, IsFiniteSet(V), NEW U \in SUBSET V,
           \A u \in U : \E p \in U : <<p, u>> \in hops /\ p \notin Closure(hops, V, u)
    PROVE  U = {}
  <1> DEFINE behind(u) == {x \in V : u \in Closure(hops, V, x)}
             sizes == {Cardinality(behind(u)) : u \in U}
  <1>1. \A u : IsFiniteSet(behind(u)) /\ Cardinality(behind(u)) \in Nat
    <2>1. \A u : behind(u) \in SUBSET V
      OBVIOUS
    <2> HIDE DEF behind
    <2> QED BY <2>1, FS_Subset, FS_CardinalityType
  <1>2. ASSUME NEW u \in U, NEW p \in U, <<p, u>> \in hops, p \notin Closure(hops, V, u)
        PROVE  Cardinality(behind(p)) < Cardinality(behind(u))
    <2>1. behind(p) \subseteq behind(u)
      <3> SUFFICES ASSUME NEW x \in V, p \in Closure(hops, V, x)
                   PROVE  u \in Closure(hops, V, x)
        OBVIOUS
      <3> QED BY <1>2, ClosureIsClosed
    <2>2. u \in behind(u) /\ u \notin behind(p)
      BY <1>2, ClosureStarts
    <2>3. /\ IsFiniteSet(behind(u)) /\ Cardinality(behind(u)) \in Nat
          /\ Cardinality(behind(p)) \in Nat
      BY <1>1
    <2> HIDE DEF behind
    <2>4. /\ Cardinality(behind(p)) <= Cardinality(behind(u))
          /\ Cardinality(behind(p)) # Cardinality(behind(u))
      BY <2>1, <2>2, <2>3, FS_Subset
    <2> QED BY <2>3, <2>4
  <1> SUFFICES ASSUME U # {} PROVE FALSE
    OBVIOUS
  <1>3. sizes # {} /\ sizes \subseteq Nat
    BY <1>1
  <1>4. PICK c \in sizes : \A b \in sizes : c <= b
    <2> HIDE DEF sizes
    <2> QED BY <1>3, LeastOf
  <1>5. PICK u \in U : c = Cardinality(behind(u))
    OBVIOUS
  <1>6. PICK p \in U : <<p, u>> \in hops /\ p \notin Closure(hops, V, u)
    OBVIOUS
  <1>7. Cardinality(behind(p)) < c
    BY <1>2, <1>5, <1>6
  <1>8. Cardinality(behind(p)) \in sizes /\ Cardinality(behind(p)) \in Nat /\ c \in Nat
    BY <1>1, <1>5
  <1> HIDE DEF behind, sizes
  <1> QED BY <1>4, <1>7, <1>8

\* A workflow whose ids are distinct, as those of a draft are.
Apart(w) == w \in Workflow /\ \A i, j \in DOMAIN w.nodes : w.nodes[i].id = w.nodes[j].id => i = j

\* In such a workflow every node is the one that its id names.
LEMMA NodesAreOwn ==
    ASSUME NEW w, Apart(w), NEW i \in DOMAIN w.nodes
    PROVE  /\ FirstIndex(w, w.nodes[i].id) = i /\ NodeById(w, w.nodes[i].id) = w.nodes[i]
           /\ Type(w, w.nodes[i].id) = w.nodes[i].type /\ w.nodes[i].id \in Ids(w)
           /\ w.nodes[i].id \in Names /\ w.nodes[i].type \in NodeTypes
           /\ w.nodes[i].options \in SUBSET STRING
  <1>1. w.nodes \in Seq(WorkflowNode) /\ i \in Nat
    BY WorkflowIs DEF Apart
  <1>2. IndicesOf(w, w.nodes[i].id) = {i}
    BY DEF Apart, IndicesOf
  <1>3. FirstIndex(w, w.nodes[i].id) = i
    <2>1. \E a \in {i} : \A b \in {i} : a <= b
      BY <1>1
    <2> QED BY <1>2, <2>1 DEF FirstIndex
  <1>4. w.nodes[i] \in WorkflowNode
    BY <1>1
  <1> QED
    BY <1>3, <1>4 DEF NodeById, Type, Ids, WorkflowNode

\* What the nodes alone decide is the same for two workflows with the same nodes.
LEMMA NodesDecide ==
    ASSUME NEW u, NEW w, u.nodes = w.nodes
    PROVE  /\ Ids(u) = Ids(w) /\ Executable(u) = Executable(w) /\ EndIds(u) = EndIds(w)
           /\ StartIndices(u) = StartIndices(w) /\ StartId(u) = StartId(w)
           /\ Conditionals(u) = Conditionals(w)
           /\ Apart(w) /\ u \in Workflow => Apart(u)
           /\ \A n : Type(u, n) = Type(w, n) /\ FirstIndex(u, n) = FirstIndex(w, n)
  <1>1. \A n : FirstIndex(u, n) = FirstIndex(w, n)
    BY DEF FirstIndex, IndicesOf
  <1>2. \A n : Type(u, n) = Type(w, n)
    BY <1>1 DEF Type, NodeById
  <1>3. Ids(u) = Ids(w) /\ EndIds(u) = EndIds(w) /\ StartIndices(u) = StartIndices(w)
    BY DEF Ids, EndIds, StartIndices
  <1>4. StartId(u) = StartId(w)
    BY <1>3 DEF StartId
  <1>5. Executable(u) = Executable(w) /\ Conditionals(u) = Conditionals(w)
    BY <1>2, <1>3 DEF Executable, Conditionals
  <1> QED
    BY <1>1, <1>2, <1>3, <1>4, <1>5 DEF Apart

\* The types of the nodes, by their ids.
LEMMA NodesAreTyped ==
    ASSUME NEW w, Apart(w)
    PROVE  /\ \A n : n \in EndIds(w) <=> n \in Ids(w) /\ Type(w, n) = "end"
           /\ \A n \in Ids(w) : n \in Names /\ Type(w, n) \in NodeTypes
           /\ \A n \in Ids(w) : Type(w, n) = "start" => StartIndices(w) # {}
           /\ IsFiniteSet(Ids(w))
  <1>1. \A i \in DOMAIN w.nodes : /\ Type(w, w.nodes[i].id) = w.nodes[i].type
                                  /\ w.nodes[i].id \in Names /\ w.nodes[i].type \in NodeTypes
    BY NodesAreOwn
  <1>2. \A n : n \in EndIds(w) <=> n \in Ids(w) /\ Type(w, n) = "end"
    BY <1>1 DEF EndIds, Ids
  <1>3. \A n \in Ids(w) : Type(w, n) = "start" => StartIndices(w) # {}
    BY <1>1 DEF Ids, StartIndices
  <1>4. IsFiniteSet(Ids(w))
    <2>1. IsFiniteSet(DOMAIN w.nodes)
      BY WorkflowIs DEF Apart
    <2>2. [i \in DOMAIN w.nodes |-> w.nodes[i].id] \in Surjection(DOMAIN w.nodes, Ids(w))
      BY DEF Surjection, Ids
    <2> QED BY <2>1, <2>2, FS_Surjection
  <1> QED
    BY <1>1, <1>2, <1>3, <1>4 DEF Ids

\* The start node is one, the first.
LEMMA StartIsFirst ==
    ASSUME NEW w, Apart(w), StartIndices(w) # {}
    PROVE  /\ StartId(w) \in Ids(w) /\ Type(w, StartId(w)) = "start" /\ StartId(w) \in Executable(w)
           /\ Cardinality(StartIndices(w)) <= 1 =>
                \A n \in Ids(w) : Type(w, n) = "start" => n = StartId(w)
  <1>1. IsFiniteSet(StartIndices(w)) /\ StartIndices(w) \subseteq Nat
    <2>1. IsFiniteSet(DOMAIN w.nodes) /\ DOMAIN w.nodes \subseteq Nat
      BY WorkflowIs DEF Apart
    <2> QED BY <2>1, FS_Subset DEF StartIndices
  <1>2. PICK i \in StartIndices(w) : \A j \in StartIndices(w) : i <= j
    BY <1>1, LeastOf
  <1>3. PICK k \in StartIndices(w) : StartId(w) = w.nodes[k].id
    BY <1>2 DEF StartId
  <1>4. k \in DOMAIN w.nodes /\ w.nodes[k].type = "start"
    BY DEF StartIndices
  <1>5. StartId(w) \in Ids(w) /\ Type(w, StartId(w)) = "start"
    BY <1>3, <1>4, NodesAreOwn
  <1>6. StartId(w) \in Executable(w)
    BY <1>5 DEF Executable, VisualOnly
  <1>7. ASSUME Cardinality(StartIndices(w)) <= 1, NEW n \in Ids(w), Type(w, n) = "start"
        PROVE  n = StartId(w)
    <2>1. PICK j \in DOMAIN w.nodes : n = w.nodes[j].id
      BY DEF Ids
    <2>2. j \in StartIndices(w)
      BY <1>7, <2>1, NodesAreOwn DEF StartIndices
    <2>3. Cardinality(StartIndices(w)) = 1
      BY <1>1, <1>7, FS_EmptySet, FS_CardinalityType
    <2>4. PICK x : StartIndices(w) = {x}
      BY <1>1, <2>3, FS_Singleton
    <2> QED BY <1>3, <2>1, <2>2, <2>4
  <1> QED
    BY <1>5, <1>6, <1>7

\* The given nodes of a draft, each of them once.
LEMMA InOrderIs ==
    ASSUME NEW d, Apart(d), NEW X \in SUBSET Ids(d)
    PROVE  /\ InOrder(d, X) \in Seq(X)
           /\ \A x \in X : \E i \in DOMAIN InOrder(d, X) : InOrder(d, X)[i] = x
           /\ \A i, j \in DOMAIN InOrder(d, X) : InOrder(d, X)[i] = InOrder(d, X)[j] => i = j
  <1> DEFINE P == {i \in DOMAIN d.nodes : d.nodes[i].id \in X}
             K == Kept(d.nodes, P)
  <1>1. d.nodes \in Seq(WorkflowNode)
    BY WorkflowIs DEF Apart
  <1>2. P \in SUBSET DOMAIN d.nodes
    OBVIOUS
  <1>3. /\ K \in Seq(WorkflowNode)
        /\ \A k \in DOMAIN K : Nth(P, k) \in P /\ K[k] = d.nodes[Nth(P, k)]
        /\ \A i \in P : \E k \in DOMAIN K : Nth(P, k) = i
        /\ \A k, l \in DOMAIN K : Nth(P, k) = Nth(P, l) => k = l
    <2>1. K = Kept(d.nodes, P)
      OBVIOUS
    <2> HIDE DEF P, K
    <2>2. PICK s \in Seq(WorkflowNode) : s = d.nodes
      BY <1>1
    <2> QED BY <1>2, <2>1, <2>2, Keeping
  <1>4. InOrder(d, X) = [i \in DOMAIN K |-> K[i].id]
    BY DEF InOrder
  <1>5. \A x \in X : \E i \in P : d.nodes[i].id = x
    BY DEF Ids
  <1>6. \A k \in DOMAIN K : K[k].id \in X
    BY <1>3
  <1>7. PICK n \in Nat : DOMAIN K = 1..n
    <2> HIDE DEF K, P
    <2> QED BY <1>3
  <1>8. InOrder(d, X) \in Seq(X)
    <2> HIDE DEF K, P
    <2> QED BY <1>4, <1>6, <1>7
  <1>9. \A x \in X : \E i \in DOMAIN InOrder(d, X) : InOrder(d, X)[i] = x
    <2> SUFFICES ASSUME NEW x \in X PROVE \E i \in DOMAIN K : K[i].id = x
      BY <1>4
    <2>1. PICK i \in P : d.nodes[i].id = x
      BY <1>5
    <2>2. PICK k \in DOMAIN K : Nth(P, k) = i
      BY <1>3
    <2> QED BY <1>3, <2>1, <2>2
  <1>10. ASSUME NEW i \in DOMAIN K, NEW j \in DOMAIN K, K[i].id = K[j].id PROVE i = j
    <2>1. /\ Nth(P, i) \in DOMAIN d.nodes /\ Nth(P, j) \in DOMAIN d.nodes
          /\ d.nodes[Nth(P, i)].id = d.nodes[Nth(P, j)].id
      BY <1>3, <1>10
    <2>2. Nth(P, i) = Nth(P, j)
      BY <2>1 DEF Apart
    <2> QED BY <1>3, <2>2
  <1> HIDE DEF K, P
  <1> QED BY <1>4, <1>8, <1>9, <1>10

\* Only the nodes that start anything count: with one such id there is one.
LEMMA OneStart ==
    ASSUME NEW w, Apart(w), NEW s \in Ids(w),
           \A n \in Ids(w) : Type(w, n) = "start" <=> n = s
    PROVE  Cardinality(StartIndices(w)) = 1 /\ StartId(w) = s
  <1>1. PICK i \in DOMAIN w.nodes : w.nodes[i].id = s
    BY DEF Ids
  <1>2. i \in StartIndices(w) /\ i \in Nat
    BY <1>1, NodesAreOwn, WorkflowIs DEF StartIndices, Apart
  <1>3. ASSUME NEW j \in StartIndices(w) PROVE j = i
    <2>1. j \in DOMAIN w.nodes /\ w.nodes[j].type = "start"
      BY DEF StartIndices
    <2>2. w.nodes[j].id = s
      BY <2>1, NodesAreOwn
    <2> QED BY <1>1, <2>1, <2>2 DEF Apart
  <1>4. StartIndices(w) = {i}
    BY <1>2, <1>3
  <1> QED
    <2>1. Cardinality({i}) = 1
      BY FS_Singleton
    <2>2. \E a \in {i} : \A b \in {i} : a <= b
      BY <1>2
    <2>3. (CHOOSE a \in {i} : \A b \in {i} : a <= b) = i
      BY <2>2
    <2> QED BY <1>1, <1>4, <2>1, <2>3 DEF StartId

\* A draft with a node more.
WithNode(d, x) == [nodes |-> d.nodes \o <<x>>, edges |-> d.edges]

\* It has the node under an id of its own and the others as before.
LEMMA NodeMore ==
    ASSUME NEW d, Apart(d), NEW x \in WorkflowNode, x.id \notin Ids(d)
    PROVE  /\ Apart(WithNode(d, x)) /\ WithNode(d, x).edges = d.edges
           /\ Ids(WithNode(d, x)) = Ids(d) \cup {x.id}
           /\ \A n \in Ids(d) : Type(WithNode(d, x), n) = Type(d, n)
           /\ Type(WithNode(d, x), x.id) = x.type
  <1> DEFINE e == WithNode(d, x)
  <1>1. d.nodes \in Seq(WorkflowNode) /\ d.edges \in Seq(WorkflowEdge)
    BY WorkflowIs DEF Apart
  <1>2. e.nodes \in Seq(WorkflowNode) /\ e.edges = d.edges
    BY <1>1 DEF WithNode
  <1>3. e \in Workflow
    BY <1>1, <1>2 DEF Workflow, WithNode
  <1>4. PICK n \in Nat : /\ DOMAIN d.nodes = 1..n /\ DOMAIN e.nodes = 1..(n + 1)
                         /\ \A i \in 1..n : e.nodes[i] = d.nodes[i]
                         /\ e.nodes[n + 1] = x
    <2>1. Len(d.nodes) \in Nat /\ DOMAIN d.nodes = 1..Len(d.nodes)
      BY <1>1
    <2>2. e.nodes = d.nodes \o <<x>>
      BY DEF WithNode
    <2>3. /\ DOMAIN (d.nodes \o <<x>>) = 1..(Len(d.nodes) + 1)
          /\ \A i \in 1..Len(d.nodes) : (d.nodes \o <<x>>)[i] = d.nodes[i]
          /\ (d.nodes \o <<x>>)[Len(d.nodes) + 1] = x
      BY <1>1
    <2> QED BY <2>1, <2>2, <2>3
  <1> HIDE DEF e
  <1>5. \A i \in DOMAIN d.nodes : d.nodes[i].id # x.id
    BY DEF Ids
  <1>6. ASSUME NEW i \in DOMAIN e.nodes, NEW j \in DOMAIN e.nodes, e.nodes[i].id = e.nodes[j].id
        PROVE  i = j
    <2>1. CASE i = n + 1 /\ j = n + 1
      BY <2>1
    <2>2. CASE i \in 1..n /\ j \in 1..n
      BY <1>4, <1>6, <2>2 DEF Apart
    <2>3. CASE i = n + 1 /\ j \in 1..n
      BY <1>4, <1>5, <1>6, <2>3
    <2>4. CASE j = n + 1 /\ i \in 1..n
      BY <1>4, <1>5, <1>6, <2>4
    <2>5. i \in 1..n \/ i = n + 1
      BY <1>4
    <2>6. j \in 1..n \/ j = n + 1
      BY <1>4
    <2> QED BY <2>1, <2>2, <2>3, <2>4, <2>5, <2>6
  <1>7. Apart(e)
    BY <1>3, <1>6 DEF Apart
  <1>8. n + 1 \in DOMAIN e.nodes /\ DOMAIN d.nodes \subseteq DOMAIN e.nodes
        /\ \A i \in DOMAIN e.nodes : i \in DOMAIN d.nodes \/ i = n + 1
    BY <1>4
  <1>9. Ids(e) = Ids(d) \cup {x.id}
    BY <1>4, <1>8 DEF Ids
  <1>10. Type(e, x.id) = x.type
    BY <1>4, <1>7, <1>8, NodesAreOwn
  <1>11. ASSUME NEW m \in Ids(d) PROVE Type(e, m) = Type(d, m)
    <2>1. PICK i \in DOMAIN d.nodes : d.nodes[i].id = m
      BY DEF Ids
    <2>2. i \in DOMAIN e.nodes /\ e.nodes[i] = d.nodes[i]
      BY <1>4
    <2>3. Type(e, e.nodes[i].id) = e.nodes[i].type /\ Type(d, d.nodes[i].id) = d.nodes[i].type
      BY <1>7, <2>2, NodesAreOwn
    <2> QED BY <2>1, <2>2, <2>3
  <1> USE DEF e
  <1> QED
    BY <1>2, <1>7, <1>9, <1>10, <1>11

\* What EnsureEndpoints adds: a start to a draft without one, an end to one
\* without any, no edge.
LEMMA EndpointsAre ==
    ASSUME NEW d, Apart(d), d.nodes # <<>>, \A t \in DOMAIN Suffixed : Suffixed[t] \notin Ids(d),
           NEW e, e = EnsureEndpoints(d)
    PROVE  /\ Apart(e) /\ e.edges = d.edges /\ Ids(d) \subseteq Ids(e) /\ e.nodes # <<>>
           /\ \A n \in Ids(d) : Type(e, n) = Type(d, n)
           /\ \A t \in {"start", "end"} :
                \/ /\ \E n \in Ids(d) : Type(d, n) = t
                   /\ \A n \in Ids(e) \ Ids(d) : Type(e, n) # t
                \/ /\ \A n \in Ids(d) : Type(d, n) # t
                   /\ \E b \in Ids(e) \ Ids(d) :
                        \A n \in Ids(e) \ Ids(d) : Type(e, n) = t <=> n = b
           /\ \A n \in Ids(e) \ Ids(d) : Type(e, n) \in {"start", "end"}
  <1> DEFINE missing == {t \in {"start", "end"} : \A i \in DOMAIN d.nodes : d.nodes[i].type # t}
             x == NewNode(d, "start")
             y == NewNode(d, "end")
             s == IF "start" \in missing THEN WithNode(d, x) ELSE d
             f == IF "end" \in missing THEN WithNode(s, y) ELSE s
  <1>1. d.nodes \in Seq(WorkflowNode) /\ d.edges \in Seq(WorkflowEdge)
        /\ d = [nodes |-> d.nodes, edges |-> d.edges]
    BY WorkflowIs DEF Apart, Workflow
  <1>2. Suffixed["start"] = "start-new" /\ Suffixed["end"] = "end-new"
        /\ DOMAIN Suffixed = {"start", "end"}
    BY DEF Suffixed
  <1>3. /\ x \in WorkflowNode /\ x.id \notin Ids(d) /\ x.type = "start" /\ x.id \in {"start", "start-new"}
        /\ y \in WorkflowNode /\ y.id \notin Ids(d) /\ y.type = "end" /\ y.id \in {"end", "end-new"}
    <2>1. /\ NewId(d, "start") \in {"start", "start-new"} /\ NewId(d, "start") \notin Ids(d)
          /\ NewId(d, "end") \in {"end", "end-new"} /\ NewId(d, "end") \notin Ids(d)
      BY <1>2 DEF NewId
    <2>2. /\ x = [id |-> NewId(d, "start"), type |-> "start", options |-> {}]
          /\ y = [id |-> NewId(d, "end"), type |-> "end", options |-> {}]
      BY DEF NewNode
    <2>3. "start" \in NodeTypes /\ "end" \in NodeTypes
      BY DEF NodeTypes
    <2> HIDE DEF x, y
    <2>4. NewId(d, "start") \in Names /\ NewId(d, "end") \in Names
      BY <2>1 DEF Names
    <2>5. x \in WorkflowNode /\ y \in WorkflowNode
      BY <2>2, <2>3, <2>4 DEF WorkflowNode
    <2>6. /\ x.id = NewId(d, "start") /\ x.type = "start"
          /\ y.id = NewId(d, "end") /\ y.type = "end"
      BY <2>2
    <2> QED BY <2>1, <2>5, <2>6
  <1>4. \A t : t \in missing <=> t \in {"start", "end"} /\ \A n \in Ids(d) : Type(d, n) # t
    BY NodesAreOwn DEF Ids
  <1>5. e = f
    <2>1. e = [d EXCEPT !.nodes = @ \o (IF "start" \in missing THEN <<x>> ELSE <<>>)
                                    \o (IF "end" \in missing THEN <<y>> ELSE <<>>)]
      BY DEF EnsureEndpoints
    <2>2. d.nodes \o <<>> = d.nodes /\ (d.nodes \o <<x>>) \o <<>> = d.nodes \o <<x>>
      <3>1. d.nodes \o <<x>> \in Seq(WorkflowNode)
        BY <1>1, <1>3
      <3> QED BY <1>1, <3>1, NothingInARow
    <2> HIDE DEF missing, x, y
    <2>3. \A q : [d EXCEPT !.nodes = q] = [nodes |-> q, edges |-> d.edges]
      BY <1>1
    <2> QED BY <1>1, <2>1, <2>2, <2>3 DEF WithNode
  <1> HIDE DEF missing, x, y
  <1>6. /\ Apart(s) /\ s.edges = d.edges
        /\ Ids(s) = Ids(d) \cup (IF "start" \in missing THEN {x.id} ELSE {})
        /\ \A n \in Ids(d) : Type(s, n) = Type(d, n)
        /\ "start" \in missing => Type(s, x.id) = "start"
    <2>1. CASE "start" \in missing
      <3>1. s = WithNode(d, x)
        BY <2>1
      <3> HIDE DEF s
      <3>2. /\ Apart(s) /\ s.edges = d.edges /\ Ids(s) = Ids(d) \cup {x.id}
            /\ \A n \in Ids(d) : Type(s, n) = Type(d, n)
            /\ Type(s, x.id) = x.type
        BY <1>3, <3>1, NodeMore
      <3> QED BY <1>3, <2>1, <3>2
    <2>2. CASE "start" \notin missing
      BY <2>2
    <2> QED BY <2>1, <2>2
  <1>7. y.id \notin Ids(s)
    BY <1>3, <1>6
  <1> HIDE DEF s
  <1>8. /\ Apart(f) /\ f.edges = d.edges
        /\ Ids(f) = Ids(s) \cup (IF "end" \in missing THEN {y.id} ELSE {})
        /\ \A n \in Ids(s) : Type(f, n) = Type(s, n)
        /\ "end" \in missing => Type(f, y.id) = "end"
    <2>1. CASE "end" \in missing
      <3>1. f = WithNode(s, y)
        BY <2>1
      <3> HIDE DEF f
      <3>2. /\ Apart(f) /\ f.edges = s.edges /\ Ids(f) = Ids(s) \cup {y.id}
            /\ \A n \in Ids(s) : Type(f, n) = Type(s, n)
            /\ Type(f, y.id) = y.type
        BY <1>3, <1>6, <1>7, <3>1, NodeMore
      <3> QED BY <1>3, <1>6, <2>1, <3>2
    <2>2. CASE "end" \notin missing
      BY <1>6, <2>2
    <2> QED BY <2>1, <2>2
  <1> HIDE DEF f
  <1>9. Ids(d) # {}
    <2>1. DOMAIN d.nodes # {}
      <3>1. Len(d.nodes) \in Nat \ {0} /\ DOMAIN d.nodes = 1..Len(d.nodes)
        BY <1>1, EmptySeq, LenProperties
      <3>2. 1 \in 1..Len(d.nodes)
        BY <3>1
      <3> QED BY <3>1, <3>2
    <2> QED BY <2>1 DEF Ids
  <1>10. e.nodes # <<>>
    <2>1. Ids(e) # {}
      BY <1>5, <1>6, <1>8, <1>9
    <2>2. e.nodes = <<>> => DOMAIN e.nodes = {}
      OBVIOUS
    <2> QED BY <2>1, <2>2 DEF Ids
  <1>11. x.id # y.id /\ {x.id, y.id} \cap Ids(d) = {}
    BY <1>3
  <1>12. \A n \in Ids(f) \ Ids(d) : \/ n = x.id /\ "start" \in missing /\ Type(f, n) = "start"
                                    \/ n = y.id /\ "end" \in missing /\ Type(f, n) = "end"
    BY <1>6, <1>8
  <1>13. \A n \in Ids(d) : Type(f, n) = Type(d, n)
    BY <1>6, <1>8
  <1>14. /\ "start" \in missing => x.id \in Ids(f) \ Ids(d) /\ Type(f, x.id) = "start"
         /\ "end" \in missing => y.id \in Ids(f) \ Ids(d) /\ Type(f, y.id) = "end"
    BY <1>6, <1>8, <1>11
  <1>15. \A t \in {"start", "end"} :
                \/ /\ \E n \in Ids(d) : Type(d, n) = t
                   /\ \A n \in Ids(f) \ Ids(d) : Type(f, n) # t
                \/ /\ \A n \in Ids(d) : Type(d, n) # t
                   /\ \E b \in Ids(f) \ Ids(d) :
                        \A n \in Ids(f) \ Ids(d) : Type(f, n) = t <=> n = b
    BY <1>4, <1>11, <1>12, <1>14
  <1> QED
    BY <1>5, <1>6, <1>8, <1>10, <1>12, <1>13, <1>15

\* A draft with one start at most is not merged.
LEMMA OneStartStays ==
    ASSUME NEW d, Apart(d), Cardinality(StartIndices(d)) < 2
    PROVE  /\ MergeExtraStarts(d) = d
           /\ \A n \in Ids(d) : Type(d, n) = "start" => n = StartId(d)
  <1>1. IsFiniteSet(StartIndices(d))
    <2>1. StartIndices(d) \in SUBSET DOMAIN d.nodes
      BY DEF StartIndices
    <2>2. IsFiniteSet(DOMAIN d.nodes)
      BY WorkflowIs DEF Apart
    <2> QED BY <2>1, <2>2, FS_Subset
  <1>2. Cardinality(StartIndices(d)) <= 1
    BY <1>1, FS_CardinalityType
  <1>3. MergeExtraStarts(d) = d
    BY DEF MergeExtraStarts
  <1> QED
    BY <1>2, <1>3, NodesAreTyped, StartIsFirst

\* The nodes that MergeExtraStarts leaves: all but the starts after the first.
LEMMA MergedNodes ==
    ASSUME NEW d, Apart(d), NEW m, m = MergeExtraStarts(d)
    PROVE  /\ Apart(m)
           /\ Ids(m) = {n \in Ids(d) : Type(d, n) = "start" => n = StartId(d)}
           /\ \A n \in Ids(m) : Type(m, n) = Type(d, n)
  <1> DEFINE extras == {d.nodes[i].id : i \in StartIndices(d)} \ {StartId(d)}
             moved(e) == IF e.source \in extras THEN [e EXCEPT !.source = StartId(d)] ELSE e
             P == {i \in DOMAIN d.nodes : d.nodes[i].id \notin extras}
             Q == {i \in DOMAIN d.edges : d.edges[i].target \notin extras}
             es == [i \in DOMAIN d.edges |-> moved(d.edges[i])]
  <1>1. d.nodes \in Seq(WorkflowNode) /\ d.edges \in Seq(WorkflowEdge)
    BY WorkflowIs DEF Apart
  <1>2. CASE Cardinality(StartIndices(d)) < 2
    BY <1>2, OneStartStays
  <1>3. CASE ~(Cardinality(StartIndices(d)) < 2)
    <2>1. m = [nodes |-> Kept(d.nodes, P), edges |-> Kept(es, Q)]
      BY <1>3 DEF MergeExtraStarts
    <2>2. StartIndices(d) # {}
      BY <1>3, FS_EmptySet
    <2>3. StartId(d) \in Names
      BY <2>2, StartIsFirst, NodesAreTyped
    <2>4. es \in Seq(WorkflowEdge) /\ DOMAIN es = DOMAIN d.edges
      <3>1. PICK k \in Nat : DOMAIN d.edges = 1..k
        BY <1>1
      <3>2. \A i \in DOMAIN d.edges : d.edges[i] \in WorkflowEdge
        BY <1>1
      <3>3. \A e \in WorkflowEdge : moved(e) \in WorkflowEdge
        BY <2>3 DEF WorkflowEdge
      <3> HIDE DEF moved
      <3> QED BY <3>1, <3>2, <3>3
    <2>5. P \in SUBSET DOMAIN d.nodes /\ Q \in SUBSET DOMAIN es
      BY <2>4
    <2> HIDE DEF es, Q
    <2>6. Kept(es, Q) \in Seq(WorkflowEdge)
      BY <2>4, <2>5, Keeping
    <2> HIDE DEF P
    <2>7. /\ m.nodes \in Seq(WorkflowNode)
          /\ \A k \in DOMAIN m.nodes : Nth(P, k) \in P /\ m.nodes[k] = d.nodes[Nth(P, k)]
          /\ \A i \in P : \E k \in DOMAIN m.nodes : Nth(P, k) = i
          /\ \A k, l \in DOMAIN m.nodes : Nth(P, k) = Nth(P, l) => k = l
      <3>1. m.nodes = Kept(d.nodes, P)
        BY <2>1
      <3> QED BY <1>1, <2>5, <3>1, Keeping
    <2>8. m \in Workflow
      BY <2>1, <2>6, <2>7 DEF Workflow
    <2> USE DEF P
    <2>9. Apart(m)
      <3> SUFFICES ASSUME NEW k \in DOMAIN m.nodes, NEW l \in DOMAIN m.nodes,
                          m.nodes[k].id = m.nodes[l].id
                   PROVE  k = l
        BY <2>8 DEF Apart
      <3>1. /\ Nth(P, k) \in DOMAIN d.nodes /\ Nth(P, l) \in DOMAIN d.nodes
            /\ d.nodes[Nth(P, k)].id = d.nodes[Nth(P, l)].id
        BY <2>7
      <3>2. Nth(P, k) = Nth(P, l)
        BY <3>1 DEF Apart
      <3> QED BY <2>7, <3>2
    <2>10. \A n : n \in extras <=> n \in Ids(d) /\ Type(d, n) = "start" /\ n # StartId(d)
      BY NodesAreOwn DEF StartIndices, Ids
    <2> HIDE DEF extras
    <2>11. \A n \in Ids(m) : n \in Ids(d) /\ n \notin extras /\ Type(m, n) = Type(d, n)
      <3> SUFFICES ASSUME NEW k \in DOMAIN m.nodes
                   PROVE  /\ m.nodes[k].id \in Ids(d) \ extras
                          /\ Type(m, m.nodes[k].id) = Type(d, m.nodes[k].id)
        BY DEF Ids
      <3>1. PICK i \in P : m.nodes[k] = d.nodes[i]
        BY <2>7
      <3>2. i \in DOMAIN d.nodes /\ d.nodes[i].id \notin extras
        OBVIOUS
      <3>3. Type(d, d.nodes[i].id) = d.nodes[i].type /\ d.nodes[i].id \in Ids(d)
        BY <3>2, NodesAreOwn
      <3>4. Type(m, m.nodes[k].id) = m.nodes[k].type
        BY <2>9, NodesAreOwn
      <3> QED BY <3>1, <3>2, <3>3, <3>4
    <2>12. \A n \in Ids(d) \ extras : n \in Ids(m)
      <3> SUFFICES ASSUME NEW i \in DOMAIN d.nodes, d.nodes[i].id \notin extras
                   PROVE  d.nodes[i].id \in Ids(m)
        BY DEF Ids
      <3>1. i \in P
        OBVIOUS
      <3> HIDE DEF P
      <3>2. PICK k \in DOMAIN m.nodes : m.nodes[k] = d.nodes[i]
        BY <2>7, <3>1
      <3> QED BY <3>2 DEF Ids
    <2> QED BY <2>9, <2>10, <2>11, <2>12
  <1> QED
    BY <1>2, <1>3

\* The edges that MergeExtraStarts leaves when none leads into a start: all of
\* them, those out of any start from the first.
LEMMA MergedEdges ==
    ASSUME NEW d, Apart(d), NEW m, m = MergeExtraStarts(d), CleanEdges(d) = DOMAIN d.edges,
           \A i \in DOMAIN d.edges : Type(d, d.edges[i].target) # "start"
    PROVE  /\ DOMAIN m.edges = DOMAIN d.edges
           /\ \A i \in DOMAIN d.edges :
                /\ m.edges[i].target = d.edges[i].target /\ m.edges[i].branch = d.edges[i].branch
                /\ m.edges[i].source = IF Type(d, d.edges[i].source) = "start" THEN StartId(d)
                                       ELSE d.edges[i].source
  <1> DEFINE extras == {d.nodes[i].id : i \in StartIndices(d)} \ {StartId(d)}
             moved(e) == IF e.source \in extras THEN [e EXCEPT !.source = StartId(d)] ELSE e
             Q == {i \in DOMAIN d.edges : d.edges[i].target \notin extras}
             es == [i \in DOMAIN d.edges |-> moved(d.edges[i])]
  <1>1. /\ d.edges \in Seq(WorkflowEdge) /\ \A i \in DOMAIN d.edges : d.edges[i] \in WorkflowEdge
        /\ \A i \in DOMAIN d.edges : d.edges[i].source \in Ids(d) /\ d.edges[i].target \in Ids(d)
    BY WorkflowIs DEF Apart, CleanEdges
  <1>3. CASE Cardinality(StartIndices(d)) < 2
    BY <1>1, <1>3, OneStartStays
  <1>4. CASE ~(Cardinality(StartIndices(d)) < 2)
    <2>1. m.edges = Kept(es, Q)
      BY <1>4 DEF MergeExtraStarts
    <2>2. StartIndices(d) # {}
      BY <1>4, FS_EmptySet
    <2>3. /\ StartId(d) \in Names /\ StartId(d) \in Ids(d) /\ Type(d, StartId(d)) = "start"
      BY <2>2, StartIsFirst, NodesAreTyped
    <2>4. \A n : n \in extras <=> n \in Ids(d) /\ Type(d, n) = "start" /\ n # StartId(d)
      BY NodesAreOwn DEF StartIndices, Ids
    <2> HIDE DEF extras
    <2>5. es \in Seq(WorkflowEdge) /\ DOMAIN es = DOMAIN d.edges
      <3>1. PICK k \in Nat : DOMAIN d.edges = 1..k
        BY <1>1
      <3>2. \A e \in WorkflowEdge : moved(e) \in WorkflowEdge
        BY <2>3 DEF WorkflowEdge
      <3> HIDE DEF moved
      <3> QED BY <1>1, <3>1, <3>2
    <2>6. Q = DOMAIN es
      BY <1>1, <2>4, <2>5
    <2>7. \A i \in DOMAIN d.edges : es[i] = moved(d.edges[i])
      OBVIOUS
    <2>8. m.edges = es
      <3> HIDE DEF es, Q
      <3> QED BY <2>1, <2>5, <2>6, KeepingAll
    <2>9. \A e \in WorkflowEdge :
            /\ moved(e).target = e.target /\ moved(e).branch = e.branch
            /\ moved(e).source = IF e.source \in extras THEN StartId(d) ELSE e.source
      BY DEF WorkflowEdge
    <2>10. \A i \in DOMAIN d.edges :
             (d.edges[i].source \in extras \/ d.edges[i].source = StartId(d))
                <=> Type(d, d.edges[i].source) = "start"
      BY <1>1, <2>3, <2>4
    <2> HIDE DEF moved, es
    <2> QED BY <1>1, <2>5, <2>7, <2>8, <2>9, <2>10
  <1> QED
    BY <1>3, <1>4

\* What the first two repairs make of the nodes of d: one start, an end, and every
\* other node as it was.
Whole(d, e) ==
    /\ Apart(e) /\ e.nodes # <<>> /\ e.edges = MergeExtraStarts(d).edges
    /\ \E s \in Ids(e) : \A n \in Ids(e) : Type(e, n) = "start" <=> n = s
    /\ StartIndices(d) # {} => StartId(d) \in Ids(e) /\ Type(e, StartId(d)) = "start"
    /\ \A n \in Ids(d) : Type(d, n) # "start" => n \in Ids(e) /\ Type(e, n) = Type(d, n)
    /\ \A n \in Ids(e) : \/ Type(e, n) = "start"
                         \/ n \in Ids(d) /\ Type(e, n) = Type(d, n)
                         \/ Type(e, n) = "end" /\ EndIds(d) = {}
                            /\ (n \in Ids(d) => Type(d, n) = "start")
    /\ \/ EndIds(d) # {} /\ EndIds(e) = EndIds(d)
       \/ EndIds(d) = {} /\ \E b : EndIds(e) = {b}

\* They make that.
LEMMA WholeNodes ==
    ASSUME NEW d, Apart(d), d.nodes # <<>>, \A t \in DOMAIN Suffixed : Suffixed[t] \notin Ids(d),
           NEW e, e = EnsureEndpoints(MergeExtraStarts(d))
    PROVE  Whole(d, e)
  <1> DEFINE m == MergeExtraStarts(d)
  <1>1. /\ Apart(m)
        /\ Ids(m) = {n \in Ids(d) : Type(d, n) = "start" => n = StartId(d)}
        /\ \A n \in Ids(m) : Type(m, n) = Type(d, n)
    BY MergedNodes
  <1>2. StartIndices(d) # {} => StartId(d) \in Ids(m) /\ Type(m, StartId(d)) = "start"
    BY <1>1, StartIsFirst
  <1>3. m.nodes # <<>>
    <2>1. d.nodes \in Seq(WorkflowNode)
      BY WorkflowIs DEF Apart
    <2>2. Len(d.nodes) \in Nat \ {0} /\ DOMAIN d.nodes = 1..Len(d.nodes)
      BY <2>1, EmptySeq, LenProperties
    <2>3. 1 \in DOMAIN d.nodes
      BY <2>2
    <2>4. PICK n \in Ids(d) : TRUE
      BY <2>3 DEF Ids
    <2>5. Ids(m) # {}
      BY <1>1, <1>2, <2>4, NodesAreTyped
    <2>6. m.nodes = <<>> => DOMAIN m.nodes = {}
      OBVIOUS
    <2> QED BY <2>5, <2>6 DEF Ids
  <1>4. \A t \in DOMAIN Suffixed : Suffixed[t] \notin Ids(m)
    BY <1>1
  <1>5. /\ Apart(e) /\ e.edges = m.edges /\ Ids(m) \subseteq Ids(e) /\ e.nodes # <<>>
        /\ \A n \in Ids(m) : Type(e, n) = Type(m, n)
        /\ \A t \in {"start", "end"} :
             \/ /\ \E n \in Ids(m) : Type(m, n) = t
                /\ \A n \in Ids(e) \ Ids(m) : Type(e, n) # t
             \/ /\ \A n \in Ids(m) : Type(m, n) # t
                /\ \E b \in Ids(e) \ Ids(m) : \A n \in Ids(e) \ Ids(m) : Type(e, n) = t <=> n = b
        /\ \A n \in Ids(e) \ Ids(m) : Type(e, n) \in {"start", "end"}
    <2> HIDE DEF m
    <2>1. e = EnsureEndpoints(m)
      BY DEF m
    <2> QED BY <1>1, <1>3, <1>4, <2>1, EndpointsAre
  <1> HIDE DEF m
  <1>6. \E s \in Ids(e) : \A n \in Ids(e) : Type(e, n) = "start" <=> n = s
    <2>1. CASE \E n \in Ids(m) : Type(m, n) = "start"
      BY <1>1, <1>5, <2>1
    <2>2. CASE \A n \in Ids(m) : Type(m, n) # "start"
      <3>1. PICK b \in Ids(e) \ Ids(m) : \A n \in Ids(e) \ Ids(m) : Type(e, n) = "start" <=> n = b
        BY <1>5, <2>2
      <3> QED BY <1>5, <2>2, <3>1
    <2> QED BY <2>1, <2>2
  <1>7. /\ \A n : n \in EndIds(d) <=> n \in Ids(d) /\ Type(d, n) = "end"
        /\ \A n : n \in EndIds(e) <=> n \in Ids(e) /\ Type(e, n) = "end"
    BY <1>5, NodesAreTyped
  <1>8. \A n : n \in EndIds(d) <=> n \in Ids(m) /\ Type(m, n) = "end"
    BY <1>1, <1>7
  <1>9. \/ EndIds(d) # {} /\ EndIds(e) = EndIds(d)
        \/ EndIds(d) = {} /\ \E b : EndIds(e) = {b}
    <2>1. CASE \E n \in Ids(m) : Type(m, n) = "end"
      <3>1. \A n \in Ids(e) \ Ids(m) : Type(e, n) # "end"
        BY <1>5, <2>1
      <3>2. \A n : n \in EndIds(e) <=> n \in EndIds(d)
        BY <1>5, <1>7, <1>8, <3>1
      <3>3. EndIds(d) # {}
        BY <1>8, <2>1
      <3>4. EndIds(e) = EndIds(d)
        BY <3>2
      <3> QED BY <3>3, <3>4
    <2>2. CASE \A n \in Ids(m) : Type(m, n) # "end"
      <3>1. PICK b \in Ids(e) \ Ids(m) : \A n \in Ids(e) \ Ids(m) : Type(e, n) = "end" <=> n = b
        BY <1>5, <2>2
      <3>2. EndIds(e) = {b}
        BY <1>5, <1>7, <2>2, <3>1
      <3> QED BY <1>8, <2>2, <3>2
    <2> QED BY <2>1, <2>2
  <1>10. \A n \in Ids(e) : \/ Type(e, n) = "start"
                           \/ n \in Ids(d) /\ Type(e, n) = Type(d, n)
                           \/ Type(e, n) = "end" /\ EndIds(d) = {}
                              /\ (n \in Ids(d) => Type(d, n) = "start")
    <2> SUFFICES ASSUME NEW n \in Ids(e), Type(e, n) # "start"
                 PROVE  \/ n \in Ids(d) /\ Type(e, n) = Type(d, n)
                        \/ Type(e, n) = "end" /\ EndIds(d) = {} /\ (n \in Ids(d) => Type(d, n) = "start")
      OBVIOUS
    <2>1. CASE n \in Ids(m)
      BY <1>1, <1>5, <2>1
    <2>2. CASE n \notin Ids(m)
      <3>1. Type(e, n) = "end"
        BY <1>5, <2>2
      <3>2. \A k \in Ids(m) : Type(m, k) # "end"
        BY <1>5, <2>2, <3>1
      <3> QED BY <1>1, <1>8, <2>2, <3>1, <3>2
    <2> QED BY <2>1, <2>2
  <1>11. \A n \in Ids(d) : Type(d, n) # "start" => n \in Ids(e) /\ Type(e, n) = Type(d, n)
    BY <1>1, <1>5
  <1>12. StartIndices(d) # {} => StartId(d) \in Ids(e) /\ Type(e, StartId(d)) = "start"
    BY <1>2, <1>5
  <1> QED
    BY <1>5, <1>6, <1>9, <1>10, <1>11, <1>12 DEF m, Whole

\* The edges of a draft that can be repaired, seen from its nodes.
LEMMA RepairableIs ==
    ASSUME NEW d, Apart(d), Repairable(d), NEW i \in DOMAIN d.edges
    PROVE  /\ d.edges[i].source \in Ids(d) /\ d.edges[i].target \in Ids(d)
           /\ Type(d, d.edges[i].source) # "end" /\ Type(d, d.edges[i].target) # "start"
           /\ d.edges[i].source \notin EndIds(d) /\ d.edges[i].branch = NoBranch
           /\ d.edges[i].source \notin Closure(Hops(d), Ids(d), d.edges[i].target)
           /\ <<d.edges[i].source, d.edges[i].target>> \in Hops(d)
  <1>1. i \in CleanEdges(d)
    BY DEF Repairable
  <1>2. d.edges[i].source \in Ids(d) /\ d.edges[i].target \in Ids(d)
    BY <1>1 DEF CleanEdges
  <1> QED
    BY <1>1, <1>2, NodesAreTyped DEF Repairable, Hops

\* The first two repairs keep what the others need of a draft.
LEMMA WholeIsRepairable ==
    ASSUME NEW d, Apart(d), d.nodes # <<>>, \A t \in DOMAIN Suffixed : Suffixed[t] \notin Ids(d),
           Repairable(d), NEW e, e = EnsureEndpoints(MergeExtraStarts(d))
    PROVE  Repairable(e)
  <1>1. /\ Apart(e) /\ e.edges = MergeExtraStarts(d).edges
        /\ StartIndices(d) # {} => StartId(d) \in Ids(e) /\ Type(e, StartId(d)) = "start"
        /\ \A n \in Ids(d) : Type(d, n) # "start" => n \in Ids(e) /\ Type(e, n) = Type(d, n)
        /\ \A n \in Ids(e) : \/ Type(e, n) = "start"
                             \/ n \in Ids(d) /\ Type(e, n) = Type(d, n)
                             \/ Type(e, n) = "end" /\ EndIds(d) = {}
                                /\ (n \in Ids(d) => Type(d, n) = "start")
        /\ \/ EndIds(d) # {} /\ EndIds(e) = EndIds(d)
           \/ EndIds(d) = {} /\ \E b : EndIds(e) = {b}
    <2>1. Whole(d, e)
      BY WholeNodes
    <2> QED BY <2>1 DEF Whole
  <1>2. /\ DOMAIN e.edges = DOMAIN d.edges
        /\ \A i \in DOMAIN d.edges :
             /\ e.edges[i].target = d.edges[i].target /\ e.edges[i].branch = d.edges[i].branch
             /\ e.edges[i].source = IF Type(d, d.edges[i].source) = "start" THEN StartId(d)
                                    ELSE d.edges[i].source
    <2>1. CleanEdges(d) = DOMAIN d.edges /\ \A i \in DOMAIN d.edges : Type(d, d.edges[i].target) # "start"
      BY DEF Repairable
    <2> QED BY <1>1, <2>1, MergedEdges
  <1>3. ASSUME NEW i \in DOMAIN d.edges
        PROVE  /\ e.edges[i].source \in Ids(e) /\ e.edges[i].target \in Ids(e)
               /\ Type(e, e.edges[i].source) = Type(d, d.edges[i].source)
               /\ Type(e, e.edges[i].target) = Type(d, d.edges[i].target)
               /\ Type(d, d.edges[i].source) # "start" => e.edges[i].source = d.edges[i].source
               /\ d.edges[i].source \in Ids(d) /\ d.edges[i].target \in Ids(d)
    <2>1. d.edges[i].source \in Ids(d) /\ d.edges[i].target \in Ids(d) /\ Type(d, d.edges[i].target) # "start"
      BY RepairableIs
    <2>2. Type(d, d.edges[i].source) = "start" => StartIndices(d) # {}
      BY <2>1, NodesAreTyped
    <2> QED BY <1>1, <1>2, <2>1, <2>2
  <1>4. CleanEdges(e) = DOMAIN e.edges
    BY <1>2, <1>3 DEF CleanEdges
  <1>5. \A n : n \in EndIds(e) <=> n \in Ids(e) /\ Type(e, n) = "end"
    BY <1>1, NodesAreTyped
  <1>6. \A n : n \in EndIds(d) <=> n \in Ids(d) /\ Type(d, n) = "end"
    BY NodesAreTyped
  <1>7. {Type(e, n) : n \in Executable(e)} \subseteq {"start", "agent", "end"}
    <2> SUFFICES ASSUME NEW n \in Executable(e) PROVE Type(e, n) \in {"start", "agent", "end"}
      OBVIOUS
    <2>1. n \in Ids(e) /\ Type(e, n) \notin VisualOnly
      BY DEF Executable
    <2>2. CASE n \in Ids(d) /\ Type(e, n) = Type(d, n)
      BY <2>1, <2>2 DEF Repairable, Executable
    <2> QED BY <1>1, <2>1, <2>2
  <1>8. Cardinality(EndIds(e)) <= 1
    <2>1. Cardinality(EndIds(d)) <= 1
      BY DEF Repairable
    <2>2. ASSUME NEW b, EndIds(e) = {b} PROVE Cardinality(EndIds(e)) = 1
      BY <2>2, FS_Singleton
    <2>3. EndIds(e) = EndIds(d) \/ Cardinality(EndIds(e)) = 1
      BY <1>1, <2>2
    <2> QED BY <2>1, <2>3
  <1>9. \A i \in DOMAIN e.edges : /\ e.edges[i].branch = NoBranch
                                  /\ Type(e, e.edges[i].target) # "start"
                                  /\ e.edges[i].source \notin EndIds(e)
    <2> SUFFICES ASSUME NEW i \in DOMAIN d.edges
                 PROVE  /\ e.edges[i].branch = NoBranch /\ Type(e, e.edges[i].target) # "start"
                        /\ e.edges[i].source \notin EndIds(e)
      BY <1>2
    <2>1. /\ Type(d, d.edges[i].source) # "end" /\ Type(d, d.edges[i].target) # "start"
          /\ d.edges[i].branch = NoBranch
      BY RepairableIs
    <2> QED BY <1>2, <1>3, <1>5, <2>1
  <1>10. ASSUME NEW i \in DOMAIN e.edges
         PROVE  e.edges[i].source \notin Closure(Hops(e), Ids(e), e.edges[i].target)
    <2> DEFINE R == {n \in Ids(e) : n \in Closure(Hops(d), Ids(d), d.edges[i].target)
                                    /\ Type(e, n) # "start" /\ Type(d, n) # "start"}
    <2>1. e.edges[i].target \in R \cap Ids(e)
      <3>1. i \in DOMAIN d.edges /\ e.edges[i].target = d.edges[i].target
        BY <1>2
      <3>2. d.edges[i].target \in Ids(d) /\ Type(d, d.edges[i].target) # "start"
        BY <3>1, RepairableIs
      <3>3. d.edges[i].target \in Closure(Hops(d), Ids(d), d.edges[i].target)
        BY <3>2, ClosureStarts
      <3>4. e.edges[i].target \in Ids(e) /\ Type(e, e.edges[i].target) # "start"
        BY <1>3, <3>1, <3>2
      <3> QED BY <3>1, <3>2, <3>3, <3>4
    <2>2. ASSUME NEW h \in Hops(e), h[1] \in R \cap Ids(e), h[2] \in Ids(e) PROVE h[2] \in R
      <3>1. PICK j \in DOMAIN e.edges : h[1] = e.edges[j].source /\ h[2] = e.edges[j].target
        BY <1>4 DEF Hops
      <3>2. Type(d, d.edges[j].source) # "start"
        BY <1>2, <1>3, <2>2, <3>1
      <3>3. h[1] = d.edges[j].source /\ h[2] = d.edges[j].target
        BY <1>2, <1>3, <3>1, <3>2
      <3>4. <<h[1], h[2]>> \in Hops(d) /\ h[2] \in Ids(d) /\ Type(d, h[2]) # "start"
        BY <1>2, <3>3, RepairableIs
      <3>5. h[2] \in Closure(Hops(d), Ids(d), d.edges[i].target)
        BY <2>2, <3>4, ClosureIsClosed
      <3> QED BY <1>1, <2>2, <3>4, <3>5
    <2>3. Closure(Hops(e), Ids(e), e.edges[i].target) \subseteq R
      <3> HIDE DEF R
      <3> QED BY <2>1, <2>2, ClosureIsLeast
    <2>4. e.edges[i].source \notin R
      <3>1. CASE Type(d, d.edges[i].source) = "start"
        BY <1>2, <1>3, <3>1
      <3>2. CASE Type(d, d.edges[i].source) # "start"
        BY <1>2, <1>3, <3>2, RepairableIs
      <3> QED BY <3>1, <3>2
    <2> QED BY <2>3, <2>4
  <1>11. Feeding(e) = Feeding(d)
    <2>1. \A i \in DOMAIN d.edges :
            (\E n \in EndIds(e) : i \in IncomingExecutable(e, n)) /\ Type(e, e.edges[i].source) # "start"
            <=> (\E n \in EndIds(d) : i \in IncomingExecutable(d, n)) /\ Type(d, d.edges[i].source) # "start"
      <3> SUFFICES ASSUME NEW i \in DOMAIN d.edges
                   PROVE  e.edges[i].target \in EndIds(e) <=> d.edges[i].target \in EndIds(d)
        BY <1>2, <1>3, <1>4 DEF IncomingExecutable, Repairable
      <3>1. e.edges[i].target = d.edges[i].target
        BY <1>2
      <3> QED BY <1>3, <1>5, <1>6, <3>1
    <2>2. \A n : n \in DeadEnds(e) /\ Type(e, n) # "start" <=> n \in DeadEnds(d) /\ Type(d, n) # "start"
      <3>1. ASSUME NEW n, n \in Ids(d), n \in Ids(e), Type(d, n) # "start", Type(e, n) = Type(d, n)
            PROVE  n \in DeadEnds(e) <=> n \in DeadEnds(d)
        <4>1. \A i \in DOMAIN d.edges : e.edges[i].source = n <=> d.edges[i].source = n
          BY <1>2, <1>3, <3>1
        <4>2. OutgoingExecutable(e, n) = OutgoingExecutable(d, n)
          BY <1>2, <1>3, <1>4, <4>1 DEF OutgoingExecutable, Repairable
        <4> QED BY <1>5, <1>6, <3>1, <4>2 DEF DeadEnds, Executable
      <3>2. \A n : n \in DeadEnds(d) => n \in Ids(d)
        BY DEF DeadEnds, Executable
      <3>3. \A n : n \in DeadEnds(e) => n \in Ids(e) /\ Type(e, n) # "end"
        BY <1>5 DEF DeadEnds, Executable
      <3> QED BY <1>1, <3>1, <3>2, <3>3
    <2>3. \A i : i \in UNION {IncomingExecutable(e, n) : n \in EndIds(e)} => i \in DOMAIN d.edges
      BY <1>2 DEF IncomingExecutable, CleanEdges
    <2>4. \A i : i \in UNION {IncomingExecutable(d, n) : n \in EndIds(d)} => i \in DOMAIN d.edges
      BY DEF IncomingExecutable, CleanEdges
    <2>5. {j \in UNION {IncomingExecutable(e, n) : n \in EndIds(e)} : Type(e, e.edges[j].source) # "start"}
          = {j \in UNION {IncomingExecutable(d, n) : n \in EndIds(d)} : Type(d, d.edges[j].source) # "start"}
      BY <2>1, <2>3, <2>4
    <2>6. {n \in DeadEnds(e) : Type(e, n) # "start"} = {n \in DeadEnds(d) : Type(d, n) # "start"}
      BY <2>2
    <2> QED BY <2>5, <2>6 DEF Feeding
  <1> QED
    BY <1>4, <1>7, <1>8, <1>9, <1>10, <1>11 DEF Repairable

\* A workflow with more edges.
WithEdges(w, q) == [w EXCEPT !.edges = @ \o q]

\* They come after its own.
LEMMA EdgesMore ==
    ASSUME NEW w \in Workflow, NEW q \in Seq(WorkflowEdge)
    PROVE  /\ WithEdges(w, q) \in Workflow /\ WithEdges(w, q).nodes = w.nodes
           /\ WithEdges(w, q).edges = w.edges \o q
  <1>1. w.nodes \in Seq(WorkflowNode) /\ w.edges \in Seq(WorkflowEdge)
    BY WorkflowIs
  <1>2. WithEdges(w, q) = [nodes |-> w.nodes, edges |-> w.edges \o q]
    <2>1. w = [nodes |-> w.nodes, edges |-> w.edges]
      BY DEF Workflow
    <2>2. WithEdges(w, q) = [w EXCEPT !.edges = w.edges \o q]
      BY DEF WithEdges
    <2>3. \A r : [w EXCEPT !.edges = r] = [nodes |-> w.nodes, edges |-> r]
      BY <2>1
    <2> QED BY <2>2, <2>3
  <1>3. w.edges \o q \in Seq(WorkflowEdge)
    BY <1>1
  <1> QED
    BY <1>1, <1>2, <1>3 DEF Workflow

\* The executable nodes that nothing leads into, the start and the ends apart.
Heads(d) == {n \in Executable(d) \ (EndIds(d) \cup {StartId(d)}) : IncomingExecutable(d, n) = {}}

\* ConnectHeads adds an edge from the start to each of them and nothing else.
LEMMA HeadsHang ==
    ASSUME NEW d, Apart(d), StartIndices(d) # {}
    PROVE  /\ ConnectHeads(d) \in Workflow /\ ConnectHeads(d).nodes = d.nodes
           /\ \A i \in DOMAIN d.edges :
                i \in DOMAIN ConnectHeads(d).edges /\ ConnectHeads(d).edges[i] = d.edges[i]
           /\ \A i \in DOMAIN ConnectHeads(d).edges :
                \/ i \in DOMAIN d.edges
                \/ \E n \in Heads(d) : ConnectHeads(d).edges[i] = Unlabelled(StartId(d), n)
           /\ \A n \in Heads(d) : \E i \in DOMAIN ConnectHeads(d).edges :
                ConnectHeads(d).edges[i] = Unlabelled(StartId(d), n)
           /\ Heads(d) = {} => ConnectHeads(d) = d
  <1> DEFINE heads == InOrder(d, Heads(d))
             q == [i \in DOMAIN heads |-> Unlabelled(StartId(d), heads[i])]
  <1>1. Heads(d) \in SUBSET Ids(d)
    BY DEF Heads, Executable
  <1>2. /\ heads \in Seq(Heads(d))
        /\ \A n \in Heads(d) : \E i \in DOMAIN heads : heads[i] = n
    <2>1. PICK X \in SUBSET Ids(d) : X = Heads(d)
      BY <1>1
    <2>2. /\ InOrder(d, X) \in Seq(X)
          /\ \A x \in X : \E i \in DOMAIN InOrder(d, X) : InOrder(d, X)[i] = x
      BY InOrderIs
    <2> QED BY <2>1, <2>2, Zenon
  <1>3. ConnectHeads(d) = WithEdges(d, q)
    <2>1. Heads(d) = {n \in Executable(d) \ (EndIds(d) \cup {StartId(d)}) : IncomingExecutable(d, n) = {}}
      BY DEF Heads
    <2>2. ConnectHeads(d) = [d EXCEPT !.edges = @ \o q]
      BY <2>1, Zenon DEF ConnectHeads
    <2> QED BY <2>2, Zenon DEF WithEdges
  <1>4. StartId(d) \in Names /\ \A n \in Ids(d) : n \in Names
    BY StartIsFirst, NodesAreTyped
  <1> HIDE DEF heads
  <1>5. Len(heads) \in Nat /\ DOMAIN heads = 1..Len(heads) /\ \A i \in DOMAIN heads : heads[i] \in Heads(d)
    BY <1>2
  <1>6. q \in Seq(WorkflowEdge) /\ DOMAIN q = DOMAIN heads
    <2>1. \A n \in Heads(d) : Unlabelled(StartId(d), n) \in WorkflowEdge
      <3>1. NoBranch \in Names
        BY DEF Names
      <3> QED BY <1>1, <1>4, <3>1 DEF Unlabelled, WorkflowEdge
    <2> QED BY <1>5, <2>1
  <1>7. \A i \in DOMAIN heads : q[i] = Unlabelled(StartId(d), heads[i])
    OBVIOUS
  <1> HIDE DEF q
  <1>8. /\ ConnectHeads(d) \in Workflow /\ ConnectHeads(d).nodes = d.nodes
        /\ ConnectHeads(d).edges = d.edges \o q
    BY <1>3, <1>6, EdgesMore DEF Apart
  <1>9. /\ Len(d.edges) \in Nat
        /\ \A i \in DOMAIN d.edges : i \in DOMAIN (d.edges \o q) /\ (d.edges \o q)[i] = d.edges[i]
        /\ \A i \in DOMAIN q : i + Len(d.edges) \in DOMAIN (d.edges \o q)
                               /\ (d.edges \o q)[i + Len(d.edges)] = q[i]
        /\ \A i \in DOMAIN (d.edges \o q) :
             i \in DOMAIN d.edges \/ (i - Len(d.edges) \in DOMAIN q /\ (d.edges \o q)[i] = q[i - Len(d.edges)])
    <2>1. PICK s \in Seq(WorkflowEdge) : s = d.edges
      BY WorkflowIs DEF Apart
    <2>2. PICK t \in Seq(WorkflowEdge) : t = q
      BY <1>6
    <2>3. /\ Len(s) \in Nat /\ DOMAIN s = 1..Len(s)
          /\ \A i \in DOMAIN s : i \in DOMAIN (s \o t) /\ (s \o t)[i] = s[i]
          /\ \A i \in DOMAIN t : i + Len(s) \in DOMAIN (s \o t) /\ (s \o t)[i + Len(s)] = t[i]
          /\ \A i \in DOMAIN (s \o t) :
               i \in DOMAIN s \/ (i - Len(s) \in DOMAIN t /\ (s \o t)[i] = t[i - Len(s)])
      BY InARow
    <2> QED BY <2>1, <2>2, <2>3, Zenon
  <1>10. Heads(d) = {} => ConnectHeads(d) = d
    <2> SUFFICES ASSUME Heads(d) = {} PROVE ConnectHeads(d) = d
      OBVIOUS
    <2>1. DOMAIN q = {}
      BY <1>5, <1>6
    <2>2. q = <<>>
      BY <1>6, <2>1, EmptySeq, LenProperties
    <2>3. d.edges \o <<>> = d.edges /\ d = [nodes |-> d.nodes, edges |-> d.edges]
      BY WorkflowIs, NothingInARow DEF Apart, Workflow
    <2> QED BY <1>3, <2>2, <2>3 DEF WithEdges
  <1>11. \A i \in DOMAIN ConnectHeads(d).edges :
           \/ i \in DOMAIN d.edges
           \/ \E n \in Heads(d) : ConnectHeads(d).edges[i] = Unlabelled(StartId(d), n)
    BY <1>5, <1>6, <1>7, <1>8, <1>9
  <1>12. \A n \in Heads(d) : \E i \in DOMAIN ConnectHeads(d).edges :
           ConnectHeads(d).edges[i] = Unlabelled(StartId(d), n)
    <2> SUFFICES ASSUME NEW j \in DOMAIN heads
                 PROVE  \E i \in DOMAIN ConnectHeads(d).edges :
                          ConnectHeads(d).edges[i] = Unlabelled(StartId(d), heads[j])
      BY <1>2
    <2>1. /\ j + Len(d.edges) \in DOMAIN ConnectHeads(d).edges
          /\ ConnectHeads(d).edges[j + Len(d.edges)] = Unlabelled(StartId(d), heads[j])
      BY <1>6, <1>7, <1>8, <1>9
    <2> QED BY <2>1
  <1> QED
    BY <1>8, <1>9, <1>10, <1>11, <1>12

\* The edges from the start to an end, and the edges that DropShortcuts keeps.
Shortcut(d, i) == d.edges[i].source = StartId(d) /\ d.edges[i].target \in EndIds(d)

Beside(d, i) == {j \in DOMAIN d.edges \ {i} : /\ Shortcut(d, j) => j > i
                                              /\ \/ d.edges[j].source = StartId(d)
                                                 \/ d.edges[j].target = d.edges[i].target}

Stay(d) == {i \in DOMAIN d.edges : Shortcut(d, i) => Beside(d, i) = {}}

\* It keeps them in their order and nothing else.
LEMMA ShortcutsGo ==
    ASSUME NEW d \in Workflow
    PROVE  /\ DropShortcuts(d) \in Workflow /\ DropShortcuts(d).nodes = d.nodes
           /\ \E at : /\ \A i \in DOMAIN DropShortcuts(d).edges :
                           at[i] \in Stay(d) /\ DropShortcuts(d).edges[i] = d.edges[at[i]]
                      /\ \A j \in Stay(d) : \E i \in DOMAIN DropShortcuts(d).edges : at[i] = j
                      /\ \A i, j \in DOMAIN DropShortcuts(d).edges : at[i] = at[j] => i = j
           /\ (\A i \in DOMAIN d.edges : ~Shortcut(d, i)) => DropShortcuts(d) = d
  <1>1. /\ d.nodes \in Seq(WorkflowNode) /\ d.edges \in Seq(WorkflowEdge)
        /\ d = [nodes |-> d.nodes, edges |-> d.edges]
    BY WorkflowIs DEF Workflow
  <1>2. DropShortcuts(d) = [d EXCEPT !.edges = Kept(d.edges, Stay(d))]
    BY DEF DropShortcuts, Stay, Beside, Shortcut
  <1>3. Stay(d) \in SUBSET DOMAIN d.edges
    BY DEF Stay
  <1> DEFINE K == Kept(d.edges, Stay(d))
             P == Stay(d)
             at == [i \in DOMAIN K |-> Nth(P, i)]
  <1>4. /\ K \in Seq(WorkflowEdge)
        /\ \A k \in DOMAIN K : Nth(P, k) \in P /\ K[k] = d.edges[Nth(P, k)]
        /\ \A i \in P : \E k \in DOMAIN K : Nth(P, k) = i
        /\ \A k, l \in DOMAIN K : Nth(P, k) = Nth(P, l) => k = l
    BY <1>1, <1>3, Keeping
  <1> HIDE DEF K
  <1>5. DropShortcuts(d) = [nodes |-> d.nodes, edges |-> K]
    BY <1>1, <1>2 DEF K
  <1>6. DropShortcuts(d) \in Workflow
    BY <1>1, <1>4, <1>5 DEF Workflow
  <1>7. /\ \A i \in DOMAIN K : at[i] \in Stay(d) /\ K[i] = d.edges[at[i]]
        /\ \A j \in Stay(d) : \E i \in DOMAIN K : at[i] = j
        /\ \A i, j \in DOMAIN K : at[i] = at[j] => i = j
    BY <1>4
  <1>8. ASSUME \A i \in DOMAIN d.edges : ~Shortcut(d, i) PROVE DropShortcuts(d) = d
    <2>1. Stay(d) = DOMAIN d.edges
      BY <1>8 DEF Stay
    <2>2. K = d.edges
      BY <1>1, <2>1, KeepingAll DEF K
    <2> QED BY <1>1, <1>5, <2>2
  <1> HIDE DEF at
  <1> QED
    BY <1>5, <1>6, <1>7, <1>8

\* The plain executable nodes that lead nowhere, the start and the ends apart.
Tails(d) == {n \in Executable(d) \ (EndIds(d) \cup {StartId(d)} \cup Conditionals(d)) :
               OutgoingExecutable(d, n) = {}}

\* The draft with an edge from each of them to the end.
Fed(d, end) ==
    WithEdges(d, [i \in DOMAIN InOrder(d, Tails(d)) |-> Unlabelled(InOrder(d, Tails(d))[i], end)])

\* Each of them has one such edge, and there is nothing else new.
LEMMA TailsFeed ==
    ASSUME NEW d, Apart(d), NEW z \in Ids(d)
    PROVE  /\ Fed(d, z) \in Workflow /\ Fed(d, z).nodes = d.nodes
           /\ \A i \in DOMAIN d.edges : i \in DOMAIN Fed(d, z).edges /\ Fed(d, z).edges[i] = d.edges[i]
           /\ \A i \in DOMAIN Fed(d, z).edges :
                \/ i \in DOMAIN d.edges
                \/ \E n \in Tails(d) : Fed(d, z).edges[i] = Unlabelled(n, z)
           /\ \A n \in Tails(d) : \E i \in DOMAIN Fed(d, z).edges \ DOMAIN d.edges :
                Fed(d, z).edges[i] = Unlabelled(n, z)
           /\ \A i, j \in DOMAIN Fed(d, z).edges \ DOMAIN d.edges :
                Fed(d, z).edges[i].source = Fed(d, z).edges[j].source => i = j
           /\ Tails(d) = {} => Fed(d, z) = d
  <1> DEFINE tails == InOrder(d, Tails(d))
             q == [i \in DOMAIN tails |-> Unlabelled(tails[i], z)]
  <1>1. Tails(d) \in SUBSET Ids(d)
    BY DEF Tails, Executable
  <1>2. /\ tails \in Seq(Tails(d))
        /\ \A n \in Tails(d) : \E i \in DOMAIN tails : tails[i] = n
        /\ \A i, j \in DOMAIN tails : tails[i] = tails[j] => i = j
    <2>1. PICK X \in SUBSET Ids(d) : X = Tails(d)
      BY <1>1
    <2>2. /\ InOrder(d, X) \in Seq(X)
          /\ \A x \in X : \E i \in DOMAIN InOrder(d, X) : InOrder(d, X)[i] = x
          /\ \A i, j \in DOMAIN InOrder(d, X) : InOrder(d, X)[i] = InOrder(d, X)[j] => i = j
      BY InOrderIs
    <2> QED BY <2>1, <2>2, Zenon
  <1>3. Fed(d, z) = WithEdges(d, q)
    BY DEF Fed
  <1>4. \A n \in Ids(d) : n \in Names
    BY NodesAreTyped
  <1> HIDE DEF tails
  <1>5. Len(tails) \in Nat /\ DOMAIN tails = 1..Len(tails) /\ \A i \in DOMAIN tails : tails[i] \in Tails(d)
    BY <1>2
  <1>6. q \in Seq(WorkflowEdge) /\ DOMAIN q = DOMAIN tails
    <2>1. \A n \in Tails(d) : Unlabelled(n, z) \in WorkflowEdge
      <3>1. NoBranch \in Names
        BY DEF Names
      <3> QED BY <1>1, <1>4, <3>1 DEF Unlabelled, WorkflowEdge
    <2> QED BY <1>5, <2>1
  <1>7. \A i \in DOMAIN tails : q[i] = Unlabelled(tails[i], z) /\ q[i].source = tails[i]
    BY DEF Unlabelled
  <1> HIDE DEF q
  <1>8. /\ Fed(d, z) \in Workflow /\ Fed(d, z).nodes = d.nodes
        /\ Fed(d, z).edges = d.edges \o q
    BY <1>3, <1>6, EdgesMore DEF Apart
  <1>9. /\ Len(d.edges) \in Nat /\ DOMAIN d.edges = 1..Len(d.edges)
        /\ \A i \in DOMAIN d.edges : i \in DOMAIN (d.edges \o q) /\ (d.edges \o q)[i] = d.edges[i]
        /\ \A i \in DOMAIN q : i + Len(d.edges) \in DOMAIN (d.edges \o q)
                               /\ (d.edges \o q)[i + Len(d.edges)] = q[i]
        /\ \A i \in DOMAIN (d.edges \o q) :
             i \in DOMAIN d.edges \/ (i - Len(d.edges) \in DOMAIN q /\ (d.edges \o q)[i] = q[i - Len(d.edges)])
    <2>1. PICK s \in Seq(WorkflowEdge) : s = d.edges
      BY WorkflowIs DEF Apart
    <2>2. PICK t \in Seq(WorkflowEdge) : t = q
      BY <1>6
    <2>3. /\ Len(s) \in Nat /\ DOMAIN s = 1..Len(s)
          /\ \A i \in DOMAIN s : i \in DOMAIN (s \o t) /\ (s \o t)[i] = s[i]
          /\ \A i \in DOMAIN t : i + Len(s) \in DOMAIN (s \o t) /\ (s \o t)[i + Len(s)] = t[i]
          /\ \A i \in DOMAIN (s \o t) :
               i \in DOMAIN s \/ (i - Len(s) \in DOMAIN t /\ (s \o t)[i] = t[i - Len(s)])
      BY InARow
    <2> QED BY <2>1, <2>2, <2>3, Zenon
  <1>10. Tails(d) = {} => Fed(d, z) = d
    <2> SUFFICES ASSUME Tails(d) = {} PROVE Fed(d, z) = d
      OBVIOUS
    <2>1. DOMAIN q = {}
      BY <1>5, <1>6
    <2>2. q = <<>>
      BY <1>6, <2>1, EmptySeq, LenProperties
    <2>3. d.edges \o <<>> = d.edges /\ d = [nodes |-> d.nodes, edges |-> d.edges]
      BY WorkflowIs, NothingInARow DEF Apart, Workflow
    <2> QED BY <1>3, <2>2, <2>3 DEF WithEdges
  <1>11. \A i \in DOMAIN Fed(d, z).edges :
           \/ i \in DOMAIN d.edges
           \/ \E n \in Tails(d) : Fed(d, z).edges[i] = Unlabelled(n, z)
    BY <1>5, <1>6, <1>7, <1>8, <1>9
  <1>12. \A n \in Tails(d) : \E i \in DOMAIN Fed(d, z).edges \ DOMAIN d.edges :
           Fed(d, z).edges[i] = Unlabelled(n, z)
    <2> SUFFICES ASSUME NEW j \in DOMAIN tails
                 PROVE  \E i \in DOMAIN Fed(d, z).edges \ DOMAIN d.edges :
                          Fed(d, z).edges[i] = Unlabelled(tails[j], z)
      BY <1>2
    <2>1. /\ j + Len(d.edges) \in DOMAIN Fed(d, z).edges
          /\ Fed(d, z).edges[j + Len(d.edges)] = Unlabelled(tails[j], z)
      BY <1>6, <1>7, <1>8, <1>9
    <2>2. j + Len(d.edges) \notin DOMAIN d.edges
      BY <1>5, <1>9
    <2> QED BY <2>1, <2>2
  <1>13. ASSUME NEW i \in DOMAIN Fed(d, z).edges \ DOMAIN d.edges,
                NEW j \in DOMAIN Fed(d, z).edges \ DOMAIN d.edges,
                Fed(d, z).edges[i].source = Fed(d, z).edges[j].source
         PROVE  i = j
    <2>1. /\ i - Len(d.edges) \in DOMAIN tails /\ Fed(d, z).edges[i] = q[i - Len(d.edges)]
          /\ j - Len(d.edges) \in DOMAIN tails /\ Fed(d, z).edges[j] = q[j - Len(d.edges)]
      BY <1>6, <1>8, <1>9
    <2>2. i - Len(d.edges) = j - Len(d.edges)
      BY <1>2, <1>7, <1>13, <2>1
    <2>3. i \in Nat /\ j \in Nat
      <3>1. (d.edges \o q) \in Seq(WorkflowEdge)
        BY <1>8, WorkflowIs
      <3> QED BY <1>8, <3>1
    <2> QED BY <1>9, <2>2, <2>3
  <1> QED
    BY <1>8, <1>9, <1>10, <1>11, <1>12, <1>13

\* With one end, ConnectTails feeds it so, and from the start when nothing does.
LEMMA EndIsFed ==
    ASSUME NEW d, Apart(d), NEW z \in Ids(d), EndIds(d) = {z}
    PROVE  ConnectTails(d) = IF IncomingExecutable(Fed(d, z), z) # {} THEN Fed(d, z)
                             ELSE WithEdges(Fed(d, z), <<Unlabelled(StartId(d), z)>>)
  <1>1. Cardinality({z}) = 1 /\ (CHOOSE n \in {z} : TRUE) = z
    BY FS_Singleton
  <1>2. Fed(d, z).edges \in Seq(WorkflowEdge)
    BY TailsFeed, WorkflowIs
  <1>3. Append(Fed(d, z).edges, Unlabelled(StartId(d), z))
        = Fed(d, z).edges \o <<Unlabelled(StartId(d), z)>>
    BY <1>2
  <1>4. ConnectTails(d) = IF IncomingExecutable(Fed(d, z), z) # {} THEN Fed(d, z)
                          ELSE [Fed(d, z) EXCEPT !.edges = Append(@, Unlabelled(StartId(d), z))]
    BY <1>1 DEF ConnectTails, Fed, Tails, WithEdges
  <1> QED
    BY <1>3, <1>4 DEF WithEdges

\* Normalizing a draft gives a workflow.
LEMMA NormalizedIs ==
    ASSUME NEW d \in Draft
    PROVE  Normalize(d) \in Workflow
  <1> DEFINE e == EnsureEndpoints(MergeExtraStarts(d))
             k == DropShortcuts(ConnectHeads(e))
  <1>1. Apart(d) /\ \A t \in DOMAIN Suffixed : Suffixed[t] \notin Ids(d)
    BY DEF Draft, Apart
  <1>2. CASE d.nodes = <<>>
    <2>1. StartIndices(d) = {}
      BY <1>2 DEF StartIndices
    <2>2. MergeExtraStarts(d) = d
      BY <1>1, <2>1, FS_EmptySet, OneStartStays
    <2> QED BY <1>1, <1>2, <2>2 DEF Normalize, EnsureEndpoints, Apart
  <1>3. CASE d.nodes # <<>>
    <2>1. Whole(d, e)
      BY <1>1, <1>3, WholeNodes
    <2>2. Normalize(d) = ConnectTails(k)
      BY <2>1 DEF Normalize, Whole
    <2> HIDE DEF e
    <2>3. Apart(e) /\ StartIndices(e) # {}
      BY <2>1, NodesAreTyped DEF Whole
    <2>4. ConnectHeads(e) \in Workflow /\ ConnectHeads(e).nodes = e.nodes
      BY <2>3, HeadsHang
    <2>5. k \in Workflow /\ k.nodes = ConnectHeads(e).nodes
      BY <2>4, ShortcutsGo
    <2> HIDE DEF k
    <2>6. Apart(k) /\ StartIndices(k) = StartIndices(e)
      BY <2>3, <2>4, <2>5, NodesDecide
    <2>7. CASE Cardinality(EndIds(k)) # 1
      BY <2>2, <2>5, <2>7 DEF ConnectTails
    <2>8. CASE Cardinality(EndIds(k)) = 1
      <3>1. IsFiniteSet(EndIds(k))
        <4>1. EndIds(k) \in SUBSET Ids(k) /\ IsFiniteSet(Ids(k))
          BY <2>6, NodesAreTyped
        <4> QED BY <4>1, FS_Subset
      <3>2. PICK z : EndIds(k) = {z}
        BY <2>8, <3>1, FS_Singleton
      <3>3. z \in Ids(k)
        BY <2>6, <3>2, NodesAreTyped
      <3>4. Fed(k, z) \in Workflow
        BY <2>6, <3>3, TailsFeed
      <3>5. <<Unlabelled(StartId(k), z)>> \in Seq(WorkflowEdge)
        <4>1. StartId(k) \in Names /\ z \in Names /\ NoBranch \in Names
          BY <2>3, <2>6, <3>3, StartIsFirst, NodesAreTyped DEF Names
        <4>2. Unlabelled(StartId(k), z) \in WorkflowEdge
          BY <4>1 DEF Unlabelled, WorkflowEdge
        <4> QED BY <4>2
      <3>6. WithEdges(Fed(k, z), <<Unlabelled(StartId(k), z)>>) \in Workflow
        BY <3>4, <3>5, EdgesMore
      <3> QED BY <2>2, <2>6, <3>2, <3>3, <3>4, <3>6, EndIsFed
    <2> QED BY <2>7, <2>8
  <1> QED
    BY <1>2, <1>3

\* So every workflow that is run is one.
LEMMA AllAreWorkflows == AllWorkflows \subseteq Workflow
  BY GraphRunAssumption, NormalizedIs DEF AllWorkflows

\* A draft that can be repaired, with its start and its end.
Mendable(e, s, z) ==
    /\ Apart(e) /\ Repairable(e)
    /\ s \in Ids(e) /\ \A n \in Ids(e) : Type(e, n) = "start" <=> n = s
    /\ EndIds(e) = {z}

\* A set of one member at most.
LEMMA AtMostOne ==
    ASSUME NEW S, IsFiniteSet(S), Cardinality(S) <= 1
    PROVE  \A a, b \in S : a = b
  <1>1. Cardinality(S) = 0 \/ Cardinality(S) = 1
    BY FS_CardinalityType
  <1> QED
    BY <1>1, FS_EmptySet, FS_Singleton

\* Its nodes.
LEMMA MendableNodes ==
    ASSUME NEW e, NEW s, NEW z, Mendable(e, s, z)
    PROVE  /\ z \in Ids(e) /\ s # z /\ s \in Executable(e) /\ z \in Executable(e)
           /\ StartId(e) = s /\ StartIndices(e) # {} /\ Cardinality(StartIndices(e)) = 1
           /\ IsFiniteSet(Ids(e)) /\ Executable(e) \subseteq Ids(e)
           /\ \A n \in Ids(e) : Type(e, n) = "end" <=> n = z
           /\ \A n \in Executable(e) : Type(e, n) \in {"start", "agent", "end"}
           /\ \A n \in Ids(e) : Type(e, n) \notin ConditionalTypes \cup {"join"}
  <1>1. Apart(e) /\ s \in Ids(e) /\ EndIds(e) = {z} /\ Repairable(e)
    BY DEF Mendable
  <1>2. z \in Ids(e) /\ Type(e, z) = "end" /\ \A n \in Ids(e) : Type(e, n) = "end" <=> n = z
    BY <1>1, NodesAreTyped
  <1>3. Type(e, s) = "start"
    BY DEF Mendable
  <1>4. StartId(e) = s /\ Cardinality(StartIndices(e)) = 1
    BY OneStart DEF Mendable
  <1>5. StartIndices(e) # {} /\ IsFiniteSet(Ids(e))
    BY <1>1, <1>3, NodesAreTyped
  <1>6. \A n \in Executable(e) : Type(e, n) \in {"start", "agent", "end"}
    BY <1>1 DEF Repairable
  <1>7. \A n \in Ids(e) : Type(e, n) \notin ConditionalTypes \cup {"join"}
    BY <1>6 DEF ConditionalTypes, Executable, VisualOnly
  <1> QED
    BY <1>1, <1>2, <1>3, <1>4, <1>5, <1>6, <1>7 DEF Executable, VisualOnly

\* With its heads connected, every executable node but the start and the end has
\* an executable one before it, and only edges out of the start are new.
LEMMA HeadsLead ==
    ASSUME NEW e, NEW s, NEW z, Mendable(e, s, z), NEW h, h = ConnectHeads(e)
    PROVE  /\ h \in Workflow /\ h.nodes = e.nodes
           /\ \A i \in DOMAIN h.edges :
                /\ h.edges[i].source \in Ids(e) \ {z} /\ h.edges[i].target \in Ids(e) \ {s}
                /\ h.edges[i].branch = NoBranch
                /\ h.edges[i].source # s \/ h.edges[i].target = z => i \in DOMAIN e.edges
           /\ \A i \in DOMAIN e.edges : i \in DOMAIN h.edges /\ h.edges[i] = e.edges[i]
           /\ \A n \in Executable(e) \ {s, z} : \E i \in DOMAIN h.edges :
                h.edges[i].source \in Executable(e) /\ h.edges[i].target = n
  <1>1. /\ Apart(e) /\ Repairable(e) /\ EndIds(e) = {z}
        /\ \A n \in Ids(e) : Type(e, n) = "start" <=> n = s
    BY DEF Mendable
  <1>2. /\ z \in Ids(e) /\ s # z /\ s \in Executable(e) /\ StartId(e) = s /\ StartIndices(e) # {}
        /\ Executable(e) \subseteq Ids(e)
    BY MendableNodes
  <1>3. /\ h \in Workflow /\ h.nodes = e.nodes
        /\ \A i \in DOMAIN e.edges : i \in DOMAIN h.edges /\ h.edges[i] = e.edges[i]
        /\ \A i \in DOMAIN h.edges : \/ i \in DOMAIN e.edges
                                     \/ \E n \in Heads(e) : h.edges[i] = Unlabelled(s, n)
        /\ \A n \in Heads(e) : \E i \in DOMAIN h.edges : h.edges[i] = Unlabelled(s, n)
    BY <1>1, <1>2, HeadsHang
  <1>4. \A a, b : /\ Unlabelled(a, b).source = a /\ Unlabelled(a, b).target = b
                  /\ Unlabelled(a, b).branch = NoBranch
    BY DEF Unlabelled
  <1>5. Heads(e) = {n \in Executable(e) \ {s, z} : IncomingExecutable(e, n) = {}}
    BY <1>1, <1>2 DEF Heads
  <1>6. ASSUME NEW i \in DOMAIN h.edges
        PROVE  /\ h.edges[i].source \in Ids(e) \ {z} /\ h.edges[i].target \in Ids(e) \ {s}
               /\ h.edges[i].branch = NoBranch
               /\ h.edges[i].source # s \/ h.edges[i].target = z => i \in DOMAIN e.edges
    <2>1. CASE i \in DOMAIN e.edges
      <3>1. /\ e.edges[i].source \in Ids(e) /\ e.edges[i].target \in Ids(e)
            /\ e.edges[i].source \notin EndIds(e) /\ Type(e, e.edges[i].target) # "start"
            /\ e.edges[i].branch = NoBranch
        BY <1>1, <2>1, RepairableIs
      <3> QED BY <1>1, <1>3, <2>1, <3>1
    <2>2. CASE i \notin DOMAIN e.edges
      <3>1. PICK n \in Heads(e) : h.edges[i] = Unlabelled(s, n)
        BY <1>3, <2>2
      <3> QED BY <1>2, <1>4, <1>5, <3>1
    <2> QED BY <2>1, <2>2
  <1>7. ASSUME NEW n \in Executable(e) \ {s, z}
        PROVE  \E i \in DOMAIN h.edges : h.edges[i].source \in Executable(e) /\ h.edges[i].target = n
    <2>1. CASE n \in Heads(e)
      BY <1>2, <1>3, <1>4, <2>1
    <2>2. CASE n \notin Heads(e)
      <3>1. PICK i \in IncomingExecutable(e, n) : TRUE
        BY <1>5, <2>2
      <3>2. /\ i \in DOMAIN e.edges /\ e.edges[i].target = n
            /\ e.edges[i].source \in Ids(e) /\ Type(e, e.edges[i].source) \notin VisualOnly
        BY DEF IncomingExecutable, CleanEdges
      <3>3. e.edges[i].source \in Executable(e)
        BY <3>2 DEF Executable
      <3> QED BY <1>3, <3>2, <3>3
    <2> QED BY <2>1, <2>2
  <1> QED
    BY <1>3, <1>6, <1>7

\* An end that an edge enters, seen from its node.
LEMMA EntersIs ==
    ASSUME NEW w, NEW n, \A i \in DOMAIN w.edges : w.edges[i].source \in Ids(w) /\ w.edges[i].target \in Ids(w)
    PROVE  /\ CleanEdges(w) = DOMAIN w.edges
           /\ \A i : i \in IncomingExecutable(w, n)
                <=> i \in DOMAIN w.edges /\ w.edges[i].target = n /\ w.edges[i].source \in Executable(w)
           /\ \A i : i \in OutgoingExecutable(w, n)
                <=> i \in DOMAIN w.edges /\ w.edges[i].source = n /\ w.edges[i].target \in Executable(w)
  BY DEF CleanEdges, IncomingExecutable, OutgoingExecutable, Executable

\* One edge or one node at most feeds the end.
LEMMA OneFeeds ==
    ASSUME NEW e, Apart(e), Repairable(e)
    PROVE  \A a, b \in Feeding(e) : a = b
  <1> DEFINE into == {j \in UNION {IncomingExecutable(e, n) : n \in EndIds(e)} :
                        Type(e, e.edges[j].source) # "start"}
             dead == {m \in DeadEnds(e) : Type(e, m) # "start"}
  <1>1. IsFiniteSet(DOMAIN e.edges) /\ IsFiniteSet(Ids(e)) /\ IsFiniteSet({"edge"}) /\ IsFiniteSet({"node"})
    BY WorkflowIs, NodesAreTyped, FS_Singleton DEF Apart
  <1>2. IsFiniteSet(({"edge"} \X DOMAIN e.edges) \cup ({"node"} \X Ids(e)))
    <2>1. IsFiniteSet({"edge"} \X DOMAIN e.edges) /\ IsFiniteSet({"node"} \X Ids(e))
      BY <1>1, FS_Product
    <2> QED BY <2>1, FS_Union
  <1>3. into \subseteq DOMAIN e.edges /\ dead \subseteq Ids(e)
    BY DEF IncomingExecutable, CleanEdges, DeadEnds, Executable
  <1>4. Feeding(e) = {<<"edge", i>> : i \in into} \cup {<<"node", n>> : n \in dead}
    BY DEF Feeding
  <1> HIDE DEF into, dead
  <1>5. Feeding(e) \subseteq ({"edge"} \X DOMAIN e.edges) \cup ({"node"} \X Ids(e))
    BY <1>3, <1>4
  <1>6. IsFiniteSet(Feeding(e)) /\ Cardinality(Feeding(e)) <= 1
    BY <1>2, <1>5, FS_Subset DEF Repairable
  <1> QED
    BY <1>6, AtMostOne

\* What feeds the end of a draft that can be repaired: an edge into it from another
\* node than the start, and a node that leads nowhere and gets such an edge.
LEMMA FeedersAre ==
    ASSUME NEW e, NEW s, NEW z, Mendable(e, s, z)
    PROVE  /\ \A i \in DOMAIN e.edges :
                e.edges[i].target = z /\ e.edges[i].source \in Executable(e) \ {s}
                  => <<"edge", i>> \in Feeding(e)
           /\ \A n \in Executable(e) \ {s, z} : OutgoingExecutable(e, n) = {} => <<"node", n>> \in Feeding(e)
  <1>1. /\ EndIds(e) = {z} /\ Apart(e) /\ Repairable(e)
        /\ \A n \in Ids(e) : Type(e, n) = "start" <=> n = s
    BY DEF Mendable
  <1>2. Executable(e) \subseteq Ids(e)
    BY DEF Executable
  <1>3. \A i \in DOMAIN e.edges : e.edges[i].source \in Ids(e) /\ e.edges[i].target \in Ids(e)
    BY <1>1, RepairableIs
  <1>4. ASSUME NEW i \in DOMAIN e.edges, e.edges[i].target = z, e.edges[i].source \in Executable(e) \ {s}
        PROVE  <<"edge", i>> \in Feeding(e)
    <2>1. i \in IncomingExecutable(e, z) /\ Type(e, e.edges[i].source) # "start"
      BY <1>1, <1>2, <1>3, <1>4, EntersIs
    <2> QED BY <1>1, <2>1 DEF Feeding
  <1>5. ASSUME NEW n \in Executable(e) \ {s, z}, OutgoingExecutable(e, n) = {}
        PROVE  <<"node", n>> \in Feeding(e)
    <2>1. n \in DeadEnds(e) /\ Type(e, n) # "start"
      BY <1>1, <1>2, <1>5 DEF DeadEnds
    <2> QED BY <2>1 DEF Feeding
  <1> QED
    BY <1>4, <1>5

\* With its heads connected and its shortcuts dropped, the plain nodes that lead
\* nowhere are those that led nowhere.
LEMMA TailsAre ==
    ASSUME NEW e, NEW s, NEW z, Mendable(e, s, z),
           NEW h, h = ConnectHeads(e), NEW k, k = DropShortcuts(h)
    PROVE  /\ k \in Workflow /\ k.nodes = e.nodes
           /\ \A j \in DOMAIN h.edges : Shortcut(h, j) <=> h.edges[j].source = s /\ h.edges[j].target = z
           /\ \A i \in DOMAIN k.edges : k.edges[i].source \in Ids(e) \ {z} /\ k.edges[i].target \in Ids(e) \ {s}
                                        /\ k.edges[i].branch = NoBranch
           /\ \A j \in DOMAIN h.edges : ~Shortcut(h, j) => \E i \in DOMAIN k.edges : k.edges[i] = h.edges[j]
           /\ Tails(k) = {n \in Executable(e) \ {s, z} : OutgoingExecutable(e, n) = {}}
  <1>1. /\ z \in Ids(e) /\ s # z /\ StartId(e) = s /\ Executable(e) \subseteq Ids(e)
        /\ EndIds(e) = {z} /\ Apart(e) /\ Repairable(e)
        /\ \A n \in Ids(e) : Type(e, n) \notin ConditionalTypes
    BY MendableNodes DEF Mendable
  <1>2. /\ h \in Workflow /\ h.nodes = e.nodes
        /\ \A i \in DOMAIN h.edges :
             /\ h.edges[i].source \in Ids(e) \ {z} /\ h.edges[i].target \in Ids(e) \ {s}
             /\ h.edges[i].branch = NoBranch
             /\ h.edges[i].source # s \/ h.edges[i].target = z => i \in DOMAIN e.edges
        /\ \A i \in DOMAIN e.edges : i \in DOMAIN h.edges /\ h.edges[i] = e.edges[i]
    BY HeadsLead
  <1>3. PICK at : /\ k \in Workflow /\ k.nodes = h.nodes
                  /\ \A i \in DOMAIN k.edges : at[i] \in Stay(h) /\ k.edges[i] = h.edges[at[i]]
                  /\ \A j \in Stay(h) : \E i \in DOMAIN k.edges : at[i] = j
    BY <1>2, ShortcutsGo
  <1>4. StartId(h) = s /\ EndIds(h) = {z}
    BY <1>1, <1>2, NodesDecide
  <1>5. \A j \in DOMAIN h.edges : Shortcut(h, j) <=> h.edges[j].source = s /\ h.edges[j].target = z
    BY <1>4 DEF Shortcut
  <1>6. \A j \in DOMAIN h.edges : ~Shortcut(h, j) => \E i \in DOMAIN k.edges : k.edges[i] = h.edges[j]
    BY <1>3 DEF Stay
  <1>7. \A i \in DOMAIN k.edges : at[i] \in DOMAIN h.edges /\ k.edges[i] = h.edges[at[i]]
    BY <1>3 DEF Stay
  <1>8. \A i \in DOMAIN k.edges : k.edges[i].source \in Ids(e) \ {z} /\ k.edges[i].target \in Ids(e) \ {s}
                                  /\ k.edges[i].branch = NoBranch
    BY <1>2, <1>7
  <1>9. /\ Ids(k) = Ids(e) /\ Executable(k) = Executable(e) /\ EndIds(k) = {z} /\ StartId(k) = s
        /\ Conditionals(k) = Conditionals(e)
    BY <1>1, <1>2, <1>3, NodesDecide
  <1>10. Conditionals(e) = {}
    BY <1>1 DEF Conditionals
  <1>11. ASSUME NEW n \in Executable(e) \ {s, z}
         PROVE  OutgoingExecutable(k, n) = {} <=> OutgoingExecutable(e, n) = {}
    <2>1. \A i \in DOMAIN k.edges : k.edges[i].source \in Ids(k) /\ k.edges[i].target \in Ids(k)
      BY <1>8, <1>9
    <2>2. \A i \in DOMAIN e.edges : e.edges[i].source \in Ids(e) /\ e.edges[i].target \in Ids(e)
      BY <1>1, RepairableIs
    <2>3. \A i : i \in OutgoingExecutable(k, n)
                   <=> i \in DOMAIN k.edges /\ k.edges[i].source = n /\ k.edges[i].target \in Executable(e)
      BY <1>9, <2>1, EntersIs
    <2>4. \A i : i \in OutgoingExecutable(e, n)
                   <=> i \in DOMAIN e.edges /\ e.edges[i].source = n /\ e.edges[i].target \in Executable(e)
      BY <2>2, EntersIs
    <2>5. ASSUME NEW i \in OutgoingExecutable(k, n) PROVE OutgoingExecutable(e, n) # {}
      <3>1. at[i] \in DOMAIN e.edges /\ e.edges[at[i]] = k.edges[i]
        BY <1>2, <1>7, <2>3, <2>5
      <3>2. at[i] \in OutgoingExecutable(e, n)
        BY <2>3, <2>4, <2>5, <3>1
      <3> QED BY <3>2
    <2>6. ASSUME NEW j \in OutgoingExecutable(e, n) PROVE OutgoingExecutable(k, n) # {}
      <3>1. j \in DOMAIN h.edges /\ h.edges[j] = e.edges[j] /\ ~Shortcut(h, j)
        BY <1>2, <1>5, <2>4, <2>6
      <3>2. PICK i \in DOMAIN k.edges : k.edges[i] = e.edges[j]
        BY <1>6, <3>1
      <3>3. i \in OutgoingExecutable(k, n)
        BY <2>3, <2>4, <2>6, <3>2
      <3> QED BY <3>3
    <2> QED BY <2>5, <2>6
  <1>12. Tails(k) = {n \in Executable(e) \ {s, z} : OutgoingExecutable(e, n) = {}}
    BY <1>9, <1>10, <1>11 DEF Tails
  <1> QED
    BY <1>2, <1>3, <1>5, <1>6, <1>8, <1>12

\* Of a draft with nodes besides its start and its end, with its heads connected,
\* some edge leads from the start to another node than the end.
LEMMA StartLeadsOn ==
    ASSUME NEW e, NEW s, NEW z, Mendable(e, s, z), NEW h, h = ConnectHeads(e),
           NEW U \in SUBSET (Executable(e) \ {s, z}), U # {},
           \A u \in U : \A i \in DOMAIN h.edges :
             h.edges[i].target = u /\ h.edges[i].source \in Executable(e) => h.edges[i].source \in U \cup {s}
    PROVE  \E u \in U : \E i \in DOMAIN h.edges : h.edges[i].source = s /\ h.edges[i].target = u
  <1> SUFFICES ASSUME \A u \in U : \A i \in DOMAIN h.edges : ~(h.edges[i].source = s /\ h.edges[i].target = u)
               PROVE  FALSE
    OBVIOUS
  <1>1. Apart(e) /\ Repairable(e) /\ IsFiniteSet(Ids(e)) /\ Executable(e) \subseteq Ids(e)
    BY MendableNodes DEF Mendable
  <1>2. /\ \A i \in DOMAIN h.edges : h.edges[i].source # s => i \in DOMAIN e.edges
        /\ \A i \in DOMAIN e.edges : h.edges[i] = e.edges[i]
        /\ \A n \in Executable(e) \ {s, z} : \E i \in DOMAIN h.edges :
             h.edges[i].source \in Executable(e) /\ h.edges[i].target = n
    BY HeadsLead
  <1>3. ASSUME NEW u \in U
        PROVE  \E p \in U : <<p, u>> \in Hops(e) /\ p \notin Closure(Hops(e), Ids(e), u)
    <2>1. PICK i \in DOMAIN h.edges : h.edges[i].source \in Executable(e) /\ h.edges[i].target = u
      BY <1>2
    <2>2. h.edges[i].source \in U /\ h.edges[i].source # s
      BY <2>1
    <2>3. i \in DOMAIN e.edges /\ h.edges[i] = e.edges[i]
      BY <1>2, <2>2
    <2>4. /\ <<e.edges[i].source, e.edges[i].target>> \in Hops(e)
          /\ e.edges[i].source \notin Closure(Hops(e), Ids(e), e.edges[i].target)
      BY <1>1, <2>3, RepairableIs
    <2> QED BY <2>1, <2>2, <2>3, <2>4
  <1>4. U \in SUBSET Ids(e)
    BY <1>1
  <1> QED
    BY <1>1, <1>3, <1>4, NothingFromNowhere

\* w has the nodes of e and the edges of k, none of its edges leads into the start
\* or out of the end, and one enters the end.
Ended(e, s, z, k, w) ==
    /\ w \in Workflow /\ w.nodes = e.nodes
    /\ \A i \in DOMAIN w.edges : w.edges[i].source \in Ids(e) \ {z} /\ w.edges[i].target \in Ids(e) \ {s}
                                 /\ w.edges[i].branch = NoBranch
    /\ \A i \in DOMAIN k.edges : \E j \in DOMAIN w.edges : w.edges[j] = k.edges[i]
    /\ \E c : IncomingExecutable(w, z) = {c}

\* That is what ConnectTails makes of such a draft.
LEMMA EndIsEnteredOnce ==
    ASSUME NEW e, NEW s, NEW z, Mendable(e, s, z),
           NEW h, h = ConnectHeads(e), NEW k, k = DropShortcuts(h), NEW w, w = ConnectTails(k)
    PROVE  Ended(e, s, z, k, w)
  <1>1. /\ z \in Ids(e) /\ s \in Ids(e) /\ s # z /\ s \in Executable(e) /\ z \in Executable(e)
        /\ StartId(e) = s /\ Executable(e) \subseteq Ids(e)
        /\ EndIds(e) = {z} /\ Apart(e) /\ Repairable(e)
        /\ StartIndices(e) # {}
    BY MendableNodes DEF Mendable
  <1>2. /\ h \in Workflow /\ h.nodes = e.nodes
        /\ \A i \in DOMAIN h.edges : h.edges[i].source # s => i \in DOMAIN e.edges
        /\ \A i \in DOMAIN h.edges : h.edges[i].source \in Ids(e) \ {z}
        /\ \A i \in DOMAIN e.edges : i \in DOMAIN h.edges /\ h.edges[i] = e.edges[i]
    BY HeadsLead
  <1>3. PICK at : /\ \A i \in DOMAIN k.edges : at[i] \in Stay(h) /\ k.edges[i] = h.edges[at[i]]
                  /\ \A j \in Stay(h) : \E i \in DOMAIN k.edges : at[i] = j
                  /\ \A i, j \in DOMAIN k.edges : at[i] = at[j] => i = j
    BY <1>2, ShortcutsGo
  <1>4. /\ k \in Workflow /\ k.nodes = e.nodes
        /\ \A j \in DOMAIN h.edges : Shortcut(h, j) <=> h.edges[j].source = s /\ h.edges[j].target = z
        /\ \A i \in DOMAIN k.edges : k.edges[i].source \in Ids(e) \ {z} /\ k.edges[i].target \in Ids(e) \ {s}
                                     /\ k.edges[i].branch = NoBranch
        /\ Tails(k) = {n \in Executable(e) \ {s, z} : OutgoingExecutable(e, n) = {}}
    BY TailsAre
  <1>5. /\ Apart(k) /\ Ids(k) = Ids(e) /\ Executable(k) = Executable(e) /\ EndIds(k) = {z}
        /\ StartId(k) = s /\ StartId(h) = s
    BY <1>1, <1>2, <1>4, NodesDecide
  <1> DEFINE fed == Fed(k, z)
             last == WithEdges(fed, <<Unlabelled(s, z)>>)
  <1>6. /\ fed \in Workflow /\ fed.nodes = k.nodes
        /\ \A i \in DOMAIN k.edges : i \in DOMAIN fed.edges /\ fed.edges[i] = k.edges[i]
        /\ \A i \in DOMAIN fed.edges : \/ i \in DOMAIN k.edges
                                       \/ \E n \in Tails(k) : fed.edges[i] = Unlabelled(n, z)
        /\ \A n \in Tails(k) : \E i \in DOMAIN fed.edges \ DOMAIN k.edges : fed.edges[i] = Unlabelled(n, z)
        /\ \A i, j \in DOMAIN fed.edges \ DOMAIN k.edges : fed.edges[i].source = fed.edges[j].source => i = j
        /\ Tails(k) = {} => fed = k
    BY <1>1, <1>5, TailsFeed
  <1>7. w = IF IncomingExecutable(fed, z) # {} THEN fed ELSE last
    BY <1>1, <1>5, EndIsFed
  <1> HIDE DEF fed
  <1>8. \A a, b : /\ Unlabelled(a, b).source = a /\ Unlabelled(a, b).target = b
                  /\ Unlabelled(a, b).branch = NoBranch
    BY DEF Unlabelled
  <1>9. \A i \in DOMAIN fed.edges : fed.edges[i].source \in Ids(e) \ {z} /\ fed.edges[i].target \in Ids(e) \ {s}
                                    /\ fed.edges[i].branch = NoBranch
    BY <1>1, <1>4, <1>6, <1>8
  <1>10. Executable(fed) = Executable(e) /\ Ids(fed) = Ids(e)
    BY <1>4, <1>6, NodesDecide
  <1>11. \A i : i \in IncomingExecutable(fed, z)
                  <=> i \in DOMAIN fed.edges /\ fed.edges[i].target = z /\ fed.edges[i].source \in Executable(e)
    BY <1>9, <1>10, EntersIs
  <1>12. \A a, b \in Feeding(e) : a = b
    BY <1>1, OneFeeds
  <1>13. /\ \A i \in DOMAIN e.edges :
              e.edges[i].target = z /\ e.edges[i].source \in Executable(e) \ {s} => <<"edge", i>> \in Feeding(e)
         /\ \A n \in Tails(k) : <<"node", n>> \in Feeding(e)
    BY <1>4, FeedersAre
  <1>14. \A j \in DOMAIN h.edges : ~Shortcut(h, j) => j \in Stay(h)
    BY DEF Stay
  \* An edge feeds the end: it is the one that stays.
  <1>15. ASSUME NEW i0 \in DOMAIN e.edges, e.edges[i0].target = z, e.edges[i0].source \in Executable(e) \ {s}
         PROVE  \E c : IncomingExecutable(fed, z) = {c}
    <2>1. \A i \in DOMAIN e.edges :
            e.edges[i].target = z /\ e.edges[i].source \in Executable(e) \ {s} => i = i0
      BY <1>12, <1>13, <1>15
    <2>2. Tails(k) = {}
      BY <1>12, <1>13, <1>15
    <2>3. fed = k
      BY <1>6, <2>2
    <2>4. i0 \in DOMAIN h.edges /\ h.edges[i0] = e.edges[i0] /\ ~Shortcut(h, i0) /\ i0 \in Stay(h)
      BY <1>2, <1>4, <1>14, <1>15
    <2>5. PICK c \in DOMAIN k.edges : at[c] = i0
      BY <1>3, <2>4
    <2>6. ASSUME NEW j \in DOMAIN h.edges, Shortcut(h, j) PROVE j \notin Stay(h)
      <3>1. i0 \in Beside(h, j)
        BY <1>4, <1>15, <2>4, <2>6 DEF Beside
      <3> QED BY <2>6, <3>1 DEF Stay
    <2>7. ASSUME NEW i \in IncomingExecutable(fed, z) PROVE i = c
      <3>1. /\ i \in DOMAIN k.edges /\ k.edges[i].target = z /\ k.edges[i].source \in Executable(e)
            /\ at[i] \in Stay(h) /\ at[i] \in DOMAIN h.edges /\ k.edges[i] = h.edges[at[i]]
        BY <1>3, <1>11, <2>3, <2>7 DEF Stay
      <3>2. ~Shortcut(h, at[i])
        BY <2>6, <3>1
      <3>3. k.edges[i].source # s
        BY <1>4, <3>1, <3>2
      <3>4. at[i] \in DOMAIN e.edges /\ e.edges[at[i]] = k.edges[i]
        BY <1>2, <3>1, <3>3
      <3>5. at[i] = i0
        BY <2>1, <3>1, <3>3, <3>4
      <3> QED BY <1>3, <2>5, <3>1, <3>5
    <2>8. c \in IncomingExecutable(fed, z)
      BY <1>3, <1>11, <1>15, <2>3, <2>4, <2>5
    <2> QED BY <2>7, <2>8
  \* No edge does: what is left of the shortcuts is the last.
  <1>16. ASSUME \A i \in DOMAIN e.edges :
                  ~(e.edges[i].target = z /\ e.edges[i].source \in Executable(e) \ {s}),
                NEW i \in DOMAIN k.edges, k.edges[i].target = z, k.edges[i].source \in Executable(e)
         PROVE  at[i] \in DOMAIN h.edges /\ at[i] \in Stay(h) /\ Shortcut(h, at[i]) /\ h.edges[at[i]].target = z
    <2>1. at[i] \in Stay(h) /\ at[i] \in DOMAIN h.edges /\ k.edges[i] = h.edges[at[i]]
      BY <1>3 DEF Stay
    <2>2. CASE h.edges[at[i]].source # s
      <3>1. at[i] \in DOMAIN e.edges /\ e.edges[at[i]] = h.edges[at[i]]
        BY <1>2, <2>1, <2>2
      <3> QED BY <1>16, <2>1, <2>2, <3>1
    <2>3. CASE h.edges[at[i]].source = s
      BY <1>4, <1>16, <2>1, <2>3
    <2> QED BY <2>2, <2>3
  <1>17. ASSUME \A i \in DOMAIN e.edges :
                  ~(e.edges[i].target = z /\ e.edges[i].source \in Executable(e) \ {s}),
                Tails(k) = {}, NEW c \in IncomingExecutable(fed, z)
         PROVE  IncomingExecutable(fed, z) = {c}
    <2>1. fed = k
      BY <1>6, <1>17
    <2>2. \A i \in IncomingExecutable(fed, z) :
            /\ i \in DOMAIN k.edges /\ at[i] \in DOMAIN h.edges /\ at[i] \in Stay(h) /\ Shortcut(h, at[i])
            /\ h.edges[at[i]].target = z
      BY <1>11, <1>16, <1>17, <2>1
    <2>3. ASSUME NEW i \in IncomingExecutable(fed, z), NEW j \in IncomingExecutable(fed, z), at[i] < at[j]
          PROVE  FALSE
      <3>1. at[j] \in Nat /\ at[i] \in Nat
        <4>1. h.edges \in Seq(WorkflowEdge)
          BY <1>2, WorkflowIs
        <4>2. DOMAIN h.edges \subseteq Nat
          BY <4>1
        <4> QED BY <2>2, <4>2
      <3>2. at[j] \in Beside(h, at[i])
        BY <2>2, <2>3, <3>1 DEF Beside
      <3> QED BY <2>2, <3>2 DEF Stay
    <2>4. ASSUME NEW i \in IncomingExecutable(fed, z) PROVE i = c
      <3>1. at[i] \in Nat /\ at[c] \in Nat
        <4>1. h.edges \in Seq(WorkflowEdge)
          BY <1>2, WorkflowIs
        <4>2. DOMAIN h.edges \subseteq Nat
          BY <4>1
        <4> QED BY <1>17, <2>2, <4>2
      <3>2. ~(at[i] < at[c]) /\ ~(at[c] < at[i])
        BY <1>17, <2>3, <2>4
      <3>3. at[i] = at[c]
        BY <3>1, <3>2
      <3> QED BY <1>3, <1>17, <2>2, <2>4, <3>3
    <2> QED BY <1>17, <2>4
  \* A node feeds it: the start leads on, so that no shortcut stays.
  <1>18. ASSUME \A i \in DOMAIN e.edges :
                  ~(e.edges[i].target = z /\ e.edges[i].source \in Executable(e) \ {s}),
                NEW a \in Tails(k)
         PROVE  \E c : IncomingExecutable(fed, z) = {c}
    <2>1. \A n \in Tails(k) : n = a
      BY <1>12, <1>13, <1>18
    <2>2. PICK j \in DOMAIN h.edges : h.edges[j].source = s /\ h.edges[j].target # z
      <3> DEFINE U == Executable(e) \ {s, z}
      <3>1. U # {}
        BY <1>4, <1>18
      <3>2. \A u \in U : \A i \in DOMAIN h.edges :
              h.edges[i].target = u /\ h.edges[i].source \in Executable(e) => h.edges[i].source \in U \cup {s}
        BY <1>2
      <3>3. \E u \in U : \E i \in DOMAIN h.edges : h.edges[i].source = s /\ h.edges[i].target = u
        <4>1. U \in SUBSET (Executable(e) \ {s, z})
          OBVIOUS
        <4> HIDE DEF U
        <4> QED BY <3>1, <3>2, <4>1, StartLeadsOn
      <3> QED BY <3>3
    <2>3. ASSUME NEW i \in DOMAIN h.edges, Shortcut(h, i) PROVE i \notin Stay(h)
      <3>1. j \in Beside(h, i)
        BY <1>4, <1>5, <2>2, <2>3 DEF Beside
      <3> QED BY <2>3, <3>1 DEF Stay
    <2>4. PICK c \in DOMAIN fed.edges \ DOMAIN k.edges : fed.edges[c] = Unlabelled(a, z)
      BY <1>6, <1>18
    <2>5. ASSUME NEW i \in IncomingExecutable(fed, z) PROVE i = c
      <3>1. i \in DOMAIN fed.edges /\ fed.edges[i].target = z /\ fed.edges[i].source \in Executable(e)
        BY <1>11, <2>5
      <3>2. i \notin DOMAIN k.edges
        BY <1>6, <1>16, <1>18, <2>3, <3>1
      <3>3. fed.edges[i] = Unlabelled(a, z)
        BY <1>6, <2>1, <3>1, <3>2
      <3> QED BY <1>6, <2>4, <3>1, <3>2, <3>3
    <2>6. c \in IncomingExecutable(fed, z)
      BY <1>4, <1>8, <1>11, <1>18, <2>4
    <2> QED BY <2>5, <2>6
  <1>19. IncomingExecutable(fed, z) = {} \/ \E c : IncomingExecutable(fed, z) = {c}
    <2>1. CASE \E i \in DOMAIN e.edges : e.edges[i].target = z /\ e.edges[i].source \in Executable(e) \ {s}
      BY <1>15, <2>1
    <2>2. CASE \A i \in DOMAIN e.edges : ~(e.edges[i].target = z /\ e.edges[i].source \in Executable(e) \ {s})
      <3>1. CASE Tails(k) = {}
        BY <1>17, <2>2, <3>1
      <3>2. CASE Tails(k) # {}
        BY <1>18, <2>2, <3>2
      <3> QED BY <3>1, <3>2
    <2> QED BY <2>1, <2>2
  \* Nothing feeds it: the start does.
  <1>20. ASSUME IncomingExecutable(fed, z) = {}
         PROVE  /\ last \in Workflow /\ last.nodes = e.nodes
                /\ \A i \in DOMAIN last.edges :
                     last.edges[i].source \in Ids(e) \ {z} /\ last.edges[i].target \in Ids(e) \ {s}
                     /\ last.edges[i].branch = NoBranch
                /\ \A i \in DOMAIN fed.edges : i \in DOMAIN last.edges /\ last.edges[i] = fed.edges[i]
                /\ \E c : IncomingExecutable(last, z) = {c}
    <2>1. <<Unlabelled(s, z)>> \in Seq(WorkflowEdge)
      <3>1. s \in Names /\ z \in Names /\ NoBranch \in Names
        BY <1>1, NodesAreTyped DEF Names
      <3>2. Unlabelled(s, z) \in WorkflowEdge
        BY <3>1 DEF Unlabelled, WorkflowEdge
      <3> QED BY <3>2
    <2>2. last \in Workflow /\ last.nodes = fed.nodes /\ last.edges = fed.edges \o <<Unlabelled(s, z)>>
      BY <1>6, <2>1, EdgesMore
    <2> HIDE DEF last
    <2>3. fed.edges \in Seq(WorkflowEdge)
      BY <1>6, WorkflowIs
    <2>4. PICK n \in Nat : /\ DOMAIN fed.edges = 1..n /\ DOMAIN last.edges = 1..(n + 1)
                           /\ \A i \in 1..n : last.edges[i] = fed.edges[i]
                           /\ last.edges[n + 1] = Unlabelled(s, z)
      <3>1. Len(fed.edges) \in Nat /\ DOMAIN fed.edges = 1..Len(fed.edges)
        BY <2>3
      <3>2. /\ DOMAIN (fed.edges \o <<Unlabelled(s, z)>>) = 1..(Len(fed.edges) + 1)
            /\ \A i \in 1..Len(fed.edges) : (fed.edges \o <<Unlabelled(s, z)>>)[i] = fed.edges[i]
            /\ (fed.edges \o <<Unlabelled(s, z)>>)[Len(fed.edges) + 1] = Unlabelled(s, z)
        BY <2>3
      <3> QED BY <2>2, <3>1, <3>2
    <2>5. n + 1 \in DOMAIN last.edges /\ DOMAIN fed.edges \subseteq DOMAIN last.edges
          /\ \A i \in DOMAIN last.edges : i \in DOMAIN fed.edges \/ i = n + 1
      BY <2>4
    <2>6. \A i \in DOMAIN last.edges :
            last.edges[i].source \in Ids(e) \ {z} /\ last.edges[i].target \in Ids(e) \ {s}
            /\ last.edges[i].branch = NoBranch
      BY <1>1, <1>8, <1>9, <2>4, <2>5
    <2>7. Executable(last) = Executable(e) /\ Ids(last) = Ids(e)
      BY <1>4, <1>6, <2>2, NodesDecide
    <2>8. \A i : i \in IncomingExecutable(last, z)
                   <=> i \in DOMAIN last.edges /\ last.edges[i].target = z /\ last.edges[i].source \in Executable(e)
      BY <2>6, <2>7, EntersIs
    <2>9. \A i \in IncomingExecutable(last, z) : i = n + 1
      BY <1>11, <1>20, <2>4, <2>5, <2>8
    <2>10. n + 1 \in IncomingExecutable(last, z)
      BY <1>1, <1>8, <2>4, <2>5, <2>8
    <2>11. IncomingExecutable(last, z) = {n + 1}
      BY <2>9, <2>10
    <2> QED BY <1>4, <1>6, <2>2, <2>4, <2>5, <2>6, <2>11
  <1> HIDE DEF last
  <1>21. CASE IncomingExecutable(fed, z) # {}
    <2>1. w = fed
      BY <1>7, <1>21
    <2>2. \A i \in DOMAIN k.edges : \E j \in DOMAIN fed.edges : fed.edges[j] = k.edges[i]
      BY <1>6
    <2>3. fed.nodes = e.nodes /\ fed \in Workflow
      BY <1>4, <1>6
    <2>4. \E c : IncomingExecutable(w, z) = {c}
      BY <1>19, <1>21, <2>1
    <2>5. \A i \in DOMAIN w.edges : w.edges[i].source \in Ids(e) \ {z} /\ w.edges[i].target \in Ids(e) \ {s}
                                     /\ w.edges[i].branch = NoBranch
      BY <1>9, <2>1
    <2> QED BY <2>1, <2>2, <2>3, <2>4, <2>5 DEF Ended
  <1>22. CASE IncomingExecutable(fed, z) = {}
    <2>1. w = last
      BY <1>7, <1>22
    <2>2. \A i \in DOMAIN k.edges : \E j \in DOMAIN last.edges : last.edges[j] = k.edges[i]
      BY <1>6, <1>20, <1>22
    <2> QED BY <1>20, <1>22, <2>1, <2>2 DEF Ended
  <1> QED
    BY <1>21, <1>22

\* Nothing is left that validation objects to.
LEMMA MendedIsValid ==
    ASSUME NEW e, NEW s, NEW z, Mendable(e, s, z),
           NEW h, h = ConnectHeads(e), NEW k, k = DropShortcuts(h), NEW w, w = ConnectTails(k)
    PROVE  ValidShape(w)
  <1> DEFINE X == Executable(e)
             V == Ids(e)
  <1>1. /\ z \in V /\ s \in V /\ s # z /\ s \in X /\ z \in X /\ X \subseteq V
        /\ EndIds(e) = {z} /\ Apart(e) /\ StartId(e) = s /\ Cardinality(StartIndices(e)) = 1
        /\ \A n \in V : Type(e, n) \notin ConditionalTypes \cup {"join"}
    BY MendableNodes DEF Mendable
  <1>2. \A n \in X \ {s, z} : \E i \in DOMAIN h.edges : h.edges[i].source \in X /\ h.edges[i].target = n
    BY HeadsLead
  <1>3. /\ \A j \in DOMAIN h.edges : Shortcut(h, j) <=> h.edges[j].source = s /\ h.edges[j].target = z
        /\ \A j \in DOMAIN h.edges : ~Shortcut(h, j) => \E i \in DOMAIN k.edges : k.edges[i] = h.edges[j]
    BY TailsAre
  <1>4. /\ w \in Workflow /\ w.nodes = e.nodes
        /\ \A i \in DOMAIN w.edges : w.edges[i].source \in V \ {z} /\ w.edges[i].target \in V \ {s}
                                     /\ w.edges[i].branch = NoBranch
        /\ \A i \in DOMAIN k.edges : \E j \in DOMAIN w.edges : w.edges[j] = k.edges[i]
        /\ \E c : IncomingExecutable(w, z) = {c}
    <2>1. Ended(e, s, z, k, w)
      BY EndIsEnteredOnce
    <2> QED BY <2>1 DEF Ended
  <1>5. /\ Apart(w) /\ Ids(w) = V /\ Executable(w) = X /\ EndIds(w) = {z}
        /\ StartIndices(w) = StartIndices(e) /\ StartId(w) = s
        /\ \A n : Type(w, n) = Type(e, n)
    BY <1>1, <1>4, NodesDecide
  <1>6. /\ CleanEdges(w) = DOMAIN w.edges
        /\ \A i : i \in IncomingExecutable(w, z)
             <=> i \in DOMAIN w.edges /\ w.edges[i].target = z /\ w.edges[i].source \in X
    BY <1>4, <1>5, EntersIs
  <1>7. \A i \in DOMAIN w.edges : <<w.edges[i].source, w.edges[i].target>> \in Hops(w)
    BY <1>6 DEF Hops
  <1>8. s \in Reachable(w)
    BY <1>1, <1>5, ClosureStarts DEF Reachable
  <1>9. ASSUME NEW i \in DOMAIN w.edges, w.edges[i].source \in Reachable(w), w.edges[i].target \in X
        PROVE  w.edges[i].target \in Reachable(w)
    <2>1. <<w.edges[i].source, w.edges[i].target>> \in Hops(w) /\ w.edges[i].target \in Executable(w)
      BY <1>5, <1>7, <1>9
    <2> HIDE DEF X
    <2> QED BY <1>9, <2>1, ClosureIsClosed DEF Reachable
  <1>10. \A n \in X \ {z} : n \in Reachable(w)
    <2> DEFINE U == X \ (Reachable(w) \cup {z})
    <2> SUFFICES ASSUME U # {} PROVE FALSE
      OBVIOUS
    <2>1. ASSUME NEW i \in DOMAIN h.edges, h.edges[i].target \in X \ {z}
          PROVE  \E j \in DOMAIN w.edges : w.edges[j] = h.edges[i]
      <3>1. PICK l \in DOMAIN k.edges : k.edges[l] = h.edges[i]
        BY <1>3, <2>1
      <3> QED BY <1>4, <3>1
    <2>2. ASSUME NEW u \in U, NEW i \in DOMAIN h.edges, h.edges[i].target = u, h.edges[i].source \in X
          PROVE  h.edges[i].source \in U
      <3>1. PICK j \in DOMAIN w.edges : w.edges[j] = h.edges[i]
        BY <2>1, <2>2
      <3>2. w.edges[j].source # z /\ w.edges[j].source \notin Reachable(w)
        BY <1>4, <1>9, <2>2, <3>1
      <3> QED BY <2>2, <3>1, <3>2
    <2>3. U \in SUBSET (X \ {s, z})
      BY <1>8
    <2>4. \E u \in U : \E i \in DOMAIN h.edges : h.edges[i].source = s /\ h.edges[i].target = u
      <3> HIDE DEF U
      <3> QED BY <2>2, <2>3, StartLeadsOn
    <2>5. PICK u \in U, i \in DOMAIN h.edges : h.edges[i].source = s /\ h.edges[i].target = u
      BY <2>4
    <2>6. s \in U
      BY <1>1, <2>2, <2>5
    <2> QED BY <1>8, <2>6
  <1>11. z \in Reachable(w)
    <2>1. PICK c \in DOMAIN w.edges : w.edges[c].target = z /\ w.edges[c].source \in X
      BY <1>4, <1>6
    <2> QED BY <1>1, <1>4, <1>9, <1>10, <2>1
  <1>12. \A j \in DOMAIN w.nodes : j = FirstIndex(w, w.nodes[j].id)
    BY <1>5, NodesAreOwn
  <1>13. EndAccepted(w, z)
    <2>1. Cardinality(IncomingExecutable(w, z)) = 1
      BY <1>4, FS_Singleton
    <2> QED BY <2>1 DEF EndAccepted
  <1>14. \A j \in DOMAIN w.edges : Type(w, w.edges[j].source) \notin ConditionalTypes
                                   /\ w.edges[j].branch = NoBranch
    BY <1>1, <1>4, <1>5
  <1>15. \A m \in Ids(w) : Type(w, m) # "join"
    BY <1>1, <1>5
  <1>16. Executable(w) \ Reachable(w) = {}
    BY <1>5, <1>10, <1>11
  <1>17. Cardinality(StartIndices(w)) = 1 /\ EndIds(w) # {} /\ \A m \in EndIds(w) : EndAccepted(w, m)
    BY <1>1, <1>5, <1>13
  <1>18. /\ {<<"duplicate", w.nodes[i].id>> : i \in
                {j \in DOMAIN w.nodes : j # FirstIndex(w, w.nodes[j].id)}} = {}
         /\ {<<"edge", i>> : i \in DOMAIN w.edges \ CleanEdges(w)} = {}
         /\ {<<"end", n>> : n \in {m \in EndIds(w) : ~EndAccepted(w, m)}} = {}
         /\ {<<"unreachable", n>> : n \in Executable(w) \ Reachable(w)} = {}
    BY <1>6, <1>12, <1>16, <1>17
  <1>19. {<<"join", n>> : n \in {m \in Ids(w) :
            Type(w, m) = "join" /\ Cardinality(OutgoingExecutable(w, m)) # 1}} = {}
    BY <1>15
  <1>20. {<<"branch", i>> : i \in {j \in CleanEdges(w) :
            (Type(w, w.edges[j].source) \in ConditionalTypes) # (w.edges[j].branch # NoBranch)}} = {}
    BY <1>6, <1>14
  <1>21. Violations(w) = {}
    BY <1>17, <1>18, <1>19, <1>20 DEF Violations
  <1> QED
    BY <1>21 DEF ValidShape

\* The rules about the whole graph that an accepted workflow keeps.
LEMMA ValidIsWhole ==
    ASSUME NEW w, ValidShape(w)
    PROVE  EndIds(w) # {} /\ Executable(w) \subseteq Reachable(w)
  <1>1. Violations(w) = {} /\ Cardinality(StartIndices(w)) = 1
    BY ValidKeepsRules DEF ValidShape
  <1>2. CASE EndIds(w) = {}
    <2>1. <<"no end", 0>> \in Violations(w)
      BY <1>2 DEF Violations
    <2> QED BY <1>1, <2>1
  <1>3. ASSUME NEW n \in Executable(w), n \notin Reachable(w) PROVE FALSE
    <2>1. <<"unreachable", n>> \in Violations(w)
      BY <1>1, <1>3 DEF Violations
    <2> QED BY <1>1, <2>1
  <1> QED
    BY <1>2, <1>3

\* A valid draft without dead ends and without shortcuts is left alone.
LEMMA SoundIsLeft ==
    ASSUME NEW d \in Draft, ValidShape(d), DeadEnds(d) = {},
           \A i \in DOMAIN d.edges : d.edges[i].source = StartId(d) => d.edges[i].target \notin EndIds(d)
    PROVE  Normalize(d) = d
  <1>1. Apart(d) /\ d \in Workflow /\ d.nodes \in Seq(WorkflowNode) /\ d = [nodes |-> d.nodes, edges |-> d.edges]
    BY WorkflowIs DEF Draft, Apart, Workflow
  <1>2. /\ Cardinality(StartIndices(d)) = 1 /\ \A n \in EndIds(d) : EndAccepted(d, n)
        /\ EndIds(d) # {} /\ Executable(d) \subseteq Reachable(d)
    BY ValidKeepsRules, ValidIsWhole
  <1>3. StartIndices(d) # {}
    BY <1>2, FS_EmptySet
  <1>4. MergeExtraStarts(d) = d
    BY <1>1, <1>2, OneStartStays
  <1>5. d.nodes # <<>> /\ EnsureEndpoints(d) = d
    <2>1. PICK i \in DOMAIN d.nodes : d.nodes[i].type = "start"
      BY <1>3 DEF StartIndices
    <2>2. PICK j \in DOMAIN d.nodes : d.nodes[j].type = "end"
      BY <1>2 DEF EndIds
    <2> DEFINE missing == {t \in {"start", "end"} : \A k \in DOMAIN d.nodes : d.nodes[k].type # t}
    <2>3. missing = {}
      BY <2>1, <2>2
    <2>4. d.nodes # <<>>
      BY <2>1
    <2>5. EnsureEndpoints(d) = [d EXCEPT !.nodes = @ \o (IF "start" \in missing THEN <<NewNode(d, "start")>> ELSE <<>>)
                                                     \o (IF "end" \in missing THEN <<NewNode(d, "end")>> ELSE <<>>)]
      BY <2>4 DEF EnsureEndpoints
    <2> HIDE DEF missing
    <2>6. d.nodes \o <<>> = d.nodes
      BY <1>1, NothingInARow
    <2>7. [d EXCEPT !.nodes = d.nodes] = d
      BY <1>1
    <2> QED BY <2>3, <2>4, <2>5, <2>6, <2>7
  <1>6. Heads(d) = {}
    <2> SUFFICES ASSUME NEW n \in Heads(d) PROVE FALSE
      OBVIOUS
    <2>1. n \in Executable(d) /\ n # StartId(d) /\ IncomingExecutable(d, n) = {}
      BY DEF Heads
    <2> DEFINE R == Executable(d) \ {n}
    <2>2. StartId(d) \in R \cap Executable(d)
      BY <1>1, <1>3, <2>1, StartIsFirst
    <2>3. ASSUME NEW h \in Hops(d), h[1] \in R \cap Executable(d), h[2] \in Executable(d) PROVE h[2] \in R
      <3>1. PICK i \in CleanEdges(d) : h[1] = d.edges[i].source /\ h[2] = d.edges[i].target
        BY DEF Hops
      <3>2. i \notin IncomingExecutable(d, n)
        BY <2>1
      <3>3. Type(d, d.edges[i].source) \notin VisualOnly
        BY <2>3, <3>1 DEF Executable
      <3>4. h[2] # n
        BY <3>1, <3>2, <3>3 DEF IncomingExecutable
      <3> QED BY <2>3, <3>4
    <2>4. Reachable(d) \subseteq R
      <3> HIDE DEF R
      <3> QED BY <2>2, <2>3, ClosureIsLeast DEF Reachable
    <2> QED BY <1>2, <2>1, <2>4
  <1>7. ConnectHeads(d) = d
    BY <1>1, <1>3, <1>6, HeadsHang
  <1>8. DropShortcuts(d) = d
    BY <1>1, ShortcutsGo DEF Shortcut
  <1>9. ConnectTails(d) = d
    <2>1. CASE Cardinality(EndIds(d)) # 1
      BY <2>1 DEF ConnectTails
    <2>2. CASE Cardinality(EndIds(d)) = 1
      <3>1. IsFiniteSet(EndIds(d))
        <4>1. EndIds(d) \in SUBSET Ids(d) /\ IsFiniteSet(Ids(d))
          BY <1>1, NodesAreTyped
        <4> QED BY <4>1, FS_Subset
      <3>2. PICK z : EndIds(d) = {z}
        BY <2>2, <3>1, FS_Singleton
      <3>3. z \in Ids(d)
        BY <1>1, <3>2, NodesAreTyped
      <3>4. Tails(d) = {}
        BY DEF Tails, DeadEnds
      <3>5. Fed(d, z) = d
        BY <1>1, <3>3, <3>4, TailsFeed
      <3>6. IncomingExecutable(d, z) # {}
        <4>1. EndAccepted(d, z) /\ Cardinality({}) = 0
          BY <1>2, <3>2, FS_EmptySet
        <4>2. IncomingExecutable(d, z) = {} => ~EndAccepted(d, z)
          BY <4>1 DEF EndAccepted
        <4> QED BY <4>1, <4>2
      <3> QED BY <1>1, <3>2, <3>3, <3>5, <3>6, EndIsFed
    <2> QED BY <2>1, <2>2
  <1> QED
    BY <1>4, <1>5, <1>7, <1>8, <1>9 DEF Normalize

\* A draft that can be repaired becomes valid.
LEMMA RepairableIsMended ==
    ASSUME NEW d \in Draft, d # Blank, Repairable(d)
    PROVE  ValidShape(Normalize(d))
  <1> DEFINE e == EnsureEndpoints(MergeExtraStarts(d))
  <1>1. Apart(d) /\ \A t \in DOMAIN Suffixed : Suffixed[t] \notin Ids(d)
    BY DEF Draft, Apart
  <1>2. d.nodes # <<>>
    <2> SUFFICES ASSUME d.nodes = <<>> PROVE FALSE
      OBVIOUS
    <2>1. Ids(d) = {}
      BY DEF Ids
    <2>2. DOMAIN d.edges = {}
      BY <1>1, <2>1, RepairableIs
    <2>3. d.edges \in Seq(WorkflowEdge) /\ d = [nodes |-> d.nodes, edges |-> d.edges]
      BY <1>1, WorkflowIs DEF Apart, Workflow
    <2>4. d.edges = <<>>
      <3> SUFFICES ASSUME d.edges # <<>> PROVE FALSE
        OBVIOUS
      <3>1. Len(d.edges) \in Nat \ {0} /\ DOMAIN d.edges = 1..Len(d.edges)
        BY <2>3, EmptySeq, LenProperties
      <3>2. 1 \in DOMAIN d.edges
        BY <3>1
      <3> QED BY <2>2, <3>2
    <2> QED BY <2>3, <2>4 DEF Blank
  <1>3. Whole(d, e) /\ Repairable(e)
    BY <1>1, <1>2, WholeNodes, WholeIsRepairable
  <1>4. Normalize(d) = ConnectTails(DropShortcuts(ConnectHeads(e)))
    BY <1>3 DEF Normalize, Whole
  <1> HIDE DEF e
  <1>5. Apart(e) /\ EndIds(e) # {} /\ \E s \in Ids(e) : \A n \in Ids(e) : Type(e, n) = "start" <=> n = s
    BY <1>3 DEF Whole
  <1>6. \E z : EndIds(e) = {z}
    <2>1. EndIds(e) \in SUBSET Ids(e) /\ IsFiniteSet(Ids(e))
      BY <1>5, NodesAreTyped
    <2>2. IsFiniteSet(EndIds(e)) /\ Cardinality(EndIds(e)) <= 1
      BY <1>3, <2>1, FS_Subset DEF Repairable
    <2>3. \A a, b \in EndIds(e) : a = b
      BY <2>2, AtMostOne
    <2> QED BY <1>5, <2>3
  <1>7. PICK s, z : Mendable(e, s, z)
    BY <1>3, <1>5, <1>6 DEF Mendable
  <1> QED
    BY <1>4, <1>7, MendedIsValid

-----------------------------------------------------------------------------
(* Runs.                                                                   *)

\* What a node may have chosen when it has run.
Chooses(w, n, branch) ==
    IF n \in Conditionals(w) THEN branch \in RequiredBranches(w, n) ELSE branch = NoBranch

\* LangGraph is given edges between executable nodes only.
LEMMA SuccessorsAreExecutable ==
    ASSUME NEW w, NEW n, NEW branch
    PROVE  Successors(w, n, branch) \subseteq Executable(w)
  BY DEF Successors, OutgoingExecutable, CleanEdges, Executable

\* A node that is neither an End nor a dead end always has a successor: the
\* branch chosen is mapped to an executable node.
LEMMA GoesOn ==
    ASSUME NEW w \in Workflow, Compiles(w), NEW n \in Executable(w), n \notin EndIds(w) \cup DeadEnds(w),
           NEW branch, Chooses(w, n, branch)
    PROVE  Successors(w, n, branch) # {}
  <1>1. ValidShape(w) /\ n \in Ids(w)
    BY DEF Compiles, Executable
  <1>2. PICK i \in OutgoingExecutable(w, n) : TRUE
    BY DEF DeadEnds
  <1>3. CASE n \notin Conditionals(w)
    <2>1. i \in CleanEdges(w) /\ w.edges[i].source = n
      BY DEF OutgoingExecutable
    <2>2. Type(w, n) \notin ConditionalTypes
      BY <1>1, <1>3 DEF Conditionals
    <2>3. w.edges[i].branch = NoBranch
      BY <1>1, <2>1, <2>2, ValidKeepsRules
    <2> QED
      BY <1>2, <1>3, <2>3 DEF Chooses, Successors
  <1>4. CASE n \in Conditionals(w)
    <2>1. ~BranchMappingRaises(w, n) /\ ~LeadsNowhere(w, n)
      BY <1>4 DEF Compiles
    <2>2. branch \in {w.edges[j].branch : j \in {k \in DOMAIN w.edges : w.edges[k].source = n}}
      BY <1>4, <2>1 DEF BranchMappingRaises, Chooses
    <2>3. PICK j \in DOMAIN w.edges : w.edges[j].source = n /\ w.edges[j].branch = branch
      BY <2>2
    <2>4. w.edges[j].target \in Executable(w)
      BY <2>1, <2>3 DEF LeadsNowhere
    <2>5. j \in OutgoingExecutable(w, n)
      BY <1>1, <2>3, <2>4 DEF OutgoingExecutable, CleanEdges, Executable
    <2> QED
      BY <2>3, <2>5 DEF Successors
  <1> QED
    BY <1>3, <1>4

\* Two edges into one End come from sources that exclude each other.
LEMMA SourcesExclude ==
    ASSUME NEW w \in Workflow, ValidShape(w), NEW e \in EndIds(w),
           NEW i \in IncomingExecutable(w, e), NEW j \in IncomingExecutable(w, e), i # j
    PROVE  MutuallyExclusive(BranchMarkers(w), w.edges[i].source, w.edges[j].source)
  <1>1. EndAccepted(w, e)
    BY ValidKeepsRules
  <1>2. IncomingExecutable(w, e) \in SUBSET DOMAIN w.edges
    BY DEF IncomingExecutable, CleanEdges
  <1>3. IsFiniteSet(IncomingExecutable(w, e))
    BY <1>2, WorkflowIs, FS_Subset
  <1>4. Cardinality(IncomingExecutable(w, e)) # 1
    BY <1>3, FS_Singleton
  <1> QED
    BY <1>1, <1>4 DEF EndAccepted

\* What a node may choose is the label of an edge.
LEMMA ChoicesAreLabels ==
    ASSUME NEW w, Compiles(w), NEW n, NEW branch, Chooses(w, n, branch)
    PROVE  branch \in {w.edges[i].branch : i \in DOMAIN w.edges} \cup {NoBranch}
  <1>1. CASE n \in Conditionals(w)
    <2>1. ~BranchMappingRaises(w, n)
      BY <1>1 DEF Compiles
    <2>2. branch \in {w.edges[j].branch : j \in {k \in DOMAIN w.edges : w.edges[k].source = n}}
      BY <1>1, <2>1 DEF BranchMappingRaises, Chooses
    <2> QED
      BY <2>2
  <1> QED
    BY <1>1 DEF Chooses

-----------------------------------------------------------------------------
(* What holds of a run throughout.                                         *)

\* The node has been executed since the checkpoint.
Done(n) == task[n] \in {"ran", "data", "all"} \/ saved[n] \in {"data", "all"}

\* A node is not to be executed again when its writes are stored, counts as
\* returned only when they all are (or a resume found a part of them), and has
\* chosen one of its branches.
Work(n) ==
    /\ task[n] = "todo" => saved[n] \notin {"data", "all"}
    /\ task[n] = "all" /\ saved[n] # "all" => torn
    /\ Done(n) => Chooses(wf, n, took[n])

\* The worker's superstep is the checkpoint's, and there is a checkpoint to go on
\* with whenever somebody may.
Stage ==
    /\ leg \in {"running", "paused", "completed"} => wf \in Compiled
    /\ leg \in {"running", "paused", "resume"} => ckpt.next # {}
    /\ leg = "completed" => ckpt.next = {}
    /\ leg = "running" => InStep = ckpt.next
    /\ leg # "running" => task = NoTasks

RunInv ==
    /\ TypeOK
    /\ ckpt.vals = vals /\ ckpt.next \subseteq Executable(wf)
    /\ Stage
    /\ \A n \in N : Work(n)

\* A new execution has no checkpoint and has done nothing.
LEMMA InitRuns == Init => RunInv
  <1> SUFFICES ASSUME Init PROVE RunInv
    OBVIOUS
  <1>1. wf \in AllWorkflows
    BY DEF Init, AllWorkflows
  <1>2. vals.counts = [n \in N |-> 0] /\ vals.outputs = {} /\ ckpt.vals = vals /\ ckpt.next = {}
    BY DEF Init
  <1>3. TypeOK
    <2>1. vals.counts \in [N -> Nat] /\ ckpt.vals.counts \in [N -> Nat]
      BY <1>2
    <2>2. /\ task \in [N -> {"none", "todo", "ran", "data", "all", "paused"}] /\ saved \in [N -> Parts]
          /\ took \in [N -> {wf.edges[i].branch : i \in DOMAIN wf.edges} \cup {NoBranch}]
      BY DEF Init, NoTasks, NothingSaved, Parts
    <2>3. runs \in [N -> 0..2] /\ laps \in [N -> Nat]
      BY DEF Init
    <2>4. steps \in 0..RecursionLimit /\ deaths \in 0..MaxDeaths
      BY GraphRunAssumption DEF Init
    <2>5. vals.outputs \subseteq EndIds(wf) /\ ckpt.next \subseteq N
      BY <1>2
    <2>6. /\ leg = "run" /\ kind = "run" /\ given = "none" /\ answer = "none"
          /\ torn = FALSE /\ shared = FALSE /\ redone = FALSE
      BY DEF Init
    <2> QED
      BY <1>1, <2>1, <2>2, <2>3, <2>4, <2>5, <2>6 DEF TypeOK
  <1>4. \A n \in N : task[n] = "none" /\ saved[n] = "none"
    BY DEF Init, NoTasks, NothingSaved
  <1> QED
    BY <1>2, <1>3, <1>4 DEF Init, RunInv, Stage, Work, Done

\* The worker stops, or nobody works and something is decided.
Halts ==
    /\ UNCHANGED <<graphVars, took, runs, laps, watch>>
    /\ leg' \in {"run", "resume", "paused", "failed"} /\ task' = NoTasks
    /\ leg' = "resume" => leg \in {"running", "paused"}
    /\ leg' = "paused" => leg = "running"

\* The steps that end an invocation, and the decision between two of them.
LEMMA HaltsAre ==
    ASSUME RunInv,
           \/ CompileRaises \/ ResumeRaises \/ RecursionRaises \/ Pause \/ WorkerDies
           \/ (\E n \in N : NodeRaises(n)) \/ (\E d \in {"approved", "rejected"} : Decide(d))
    PROVE  /\ Halts /\ kind' \in {"run", "resume"} /\ steps' = steps
           /\ {given', answer'} \subseteq {"none", "approved", "rejected"} /\ deaths' \in 0..MaxDeaths
  <1> USE DEF RunInv, TypeOK, Stage, Halts
  <1>1. CASE CompileRaises \/ ResumeRaises
    BY <1>1 DEF CompileRaises, ResumeRaises
  <1>2. CASE RecursionRaises \/ Pause
    BY <1>2 DEF RecursionRaises, Pause, StepDone
  <1>3. CASE WorkerDies
    BY <1>3, GraphRunAssumption DEF WorkerDies
  <1>4. CASE \E n \in N : NodeRaises(n)
    BY <1>4 DEF NodeRaises
  <1>5. CASE \E d \in {"approved", "rejected"} : Decide(d)
    BY <1>5 DEF Decide
  <1> QED
    BY <1>1, <1>2, <1>3, <1>4, <1>5

\* They leave the checkpoint and what is stored for it alone.
LEMMA HaltKeepsRunInv ==
    ASSUME RunInv, Halts, kind' \in {"run", "resume"}, steps' = steps,
           {given', answer'} \subseteq {"none", "approved", "rejected"}, deaths' \in 0..MaxDeaths
    PROVE  RunInv'
  <1>1. UNCHANGED <<draft, wf, ckpt, vals, saved, took, runs, laps, torn, shared, redone>> /\ N' = N
    BY DEF Halts, graphVars, drawn, watch, N
  <1>2. task' = NoTasks /\ NoTasks' = NoTasks /\ \A n \in N : task'[n] = "none"
    BY <1>1 DEF Halts, NoTasks
  <1>3. TypeOK'
    BY <1>1, <1>2 DEF RunInv, TypeOK, Halts, NoTasks
  <1>4. Stage'
    BY <1>1, <1>2 DEF RunInv, Stage, Halts
  <1>5. \A n \in N : Work(n)'
    BY <1>1, <1>2 DEF RunInv, Work, Done
  <1> QED
    BY <1>1, <1>3, <1>4, <1>5 DEF RunInv

\* A node runs, and chooses one of its branches.
Executes(n) ==
    /\ \E branch : Execute(n, branch) /\ Chooses(wf, n, branch)
    /\ answer' \in {"none", "approved", "rejected"}
    /\ Type(wf, n) = "while" => vals.counts[n] + 1 <= MaxIterations

\* Every executor chooses one of its branches, and a while node only below
\* its cap.
LEMMA ExecutesAre ==
    ASSUME RunInv, NEW n \in N, RunPlain(n) \/ RunIfElse(n) \/ RunWhile(n) \/ RunDecision(n) \/ RunApproval(n)
    PROVE  Executes(n)
  <1>0. answer \in {"none", "approved", "rejected"}
    BY DEF RunInv, TypeOK
  <1>1. CASE RunPlain(n)
    BY <1>0, <1>1 DEF RunPlain, Executes, Chooses, Conditionals, ConditionalTypes
  <1>2. CASE RunIfElse(n)
    BY <1>0, <1>2 DEF RunIfElse, Executes, Chooses, Conditionals, ConditionalTypes, RequiredBranches, N
  <1>3. CASE RunWhile(n)
    <2>1. vals.counts[n] + 1 <= MaxIterations
      BY <1>3, GraphRunAssumption DEF RunWhile, WhileExceeded, RunInv, TypeOK
    <2> QED
      BY <1>0, <1>3, <2>1 DEF RunWhile, Executes, Chooses, Conditionals, ConditionalTypes, RequiredBranches, N
  <1>4. CASE RunDecision(n)
    BY <1>0, <1>4 DEF RunDecision, Executes, Chooses, Conditionals, ConditionalTypes, N
  <1>5. CASE RunApproval(n)
    BY <1>0, <1>5 DEF RunApproval, Executes, Chooses, Conditionals, ConditionalTypes, RequiredBranches, N
  <1> QED
    BY <1>1, <1>2, <1>3, <1>4, <1>5

\* Executing a node disturbs no other node of the superstep.
LEMMA ExecuteKeepsRunInv ==
    ASSUME RunInv, NEW n \in N, Executes(n)
    PROVE  RunInv'
  <1>1. PICK branch : Execute(n, branch) /\ Chooses(wf, n, branch)
    BY DEF Executes
  <1>2. UNCHANGED <<draft, wf, ckpt, vals, saved, leg, kind, steps, given, deaths, runs, laps, torn>> /\ N' = N
    BY <1>1 DEF Execute, graphVars, drawn, N
  <1>3. leg = "running" /\ task[n] = "todo" /\ wf \in Compiled
    BY <1>1 DEF Execute, RunInv, Stage
  <1>4. /\ task' = [task EXCEPT ![n] = "ran"] /\ took' = [took EXCEPT ![n] = branch]
        /\ shared' \in BOOLEAN /\ redone' \in BOOLEAN
    BY <1>1 DEF Execute, RunInv, TypeOK
  <1>5. branch \in {wf.edges[i].branch : i \in DOMAIN wf.edges} \cup {NoBranch}
    BY <1>1, <1>3, ChoicesAreLabels DEF Compiled
  <1>6. TypeOK'
    <2>1. task' \in [N -> {"none", "todo", "ran", "data", "all", "paused"}]
      BY <1>4 DEF RunInv, TypeOK
    <2>2. took' \in [N -> {wf.edges[i].branch : i \in DOMAIN wf.edges} \cup {NoBranch}]
      BY <1>4, <1>5 DEF RunInv, TypeOK
    <2>3. answer' \in {"none", "approved", "rejected"}
      BY DEF Executes
    <2> QED
      BY <1>2, <1>4, <2>1, <2>2, <2>3 DEF RunInv, TypeOK
  <1>7. \A m \in N : task'[m] = IF m = n THEN "ran" ELSE task[m]
    BY <1>4 DEF RunInv, TypeOK
  <1>8. \A m \in N : took'[m] = IF m = n THEN branch ELSE took[m]
    BY <1>4 DEF RunInv, TypeOK
  <1>9. Stage'
    <2>1. InStep' = InStep
      BY <1>2, <1>3, <1>7 DEF InStep
    <2>2. Compiled' = Compiled
      BY DEF Compiled
    <2> QED
      BY <1>2, <1>3, <2>1, <2>2 DEF RunInv, Stage
  <1>10. ASSUME NEW m \in N PROVE Work(m)'
    BY <1>1, <1>2, <1>7, <1>8 DEF RunInv, Work, Done
  <1> QED
    BY <1>2, <1>6, <1>9, <1>10 DEF RunInv

\* A node that interrupts has nothing stored but the interrupt.
LEMMA InterruptKeepsRunInv ==
    ASSUME RunInv, NEW n \in N, InterruptNode(n)
    PROVE  RunInv'
  <1>1. UNCHANGED <<draft, wf, ckpt, vals, leg, kind, took, steps, given, answer, deaths, runs, laps, torn, shared, redone>>
        /\ N' = N /\ Compiled' = Compiled
    BY DEF InterruptNode, drawn, watch, N, Compiled
  <1>2. /\ leg = "running" /\ task[n] = "todo"
        /\ task' = [task EXCEPT ![n] = "paused"] /\ saved' = [saved EXCEPT ![n] = "interrupt"]
    BY DEF InterruptNode
  <1>3. task \in [N -> {"none", "todo", "ran", "data", "all", "paused"}] /\ saved \in [N -> Parts]
    BY DEF RunInv, TypeOK
  <1>4. TypeOK'
    BY <1>1, <1>2, <1>3 DEF RunInv, TypeOK, Parts
  <1>5. Stage'
    BY <1>1, <1>2, <1>3 DEF RunInv, Stage, InStep
  <1>6. \A m \in N : Work(m)'
    BY <1>1, <1>2, <1>3 DEF RunInv, Work, Done
  <1> QED
    BY <1>1, <1>4, <1>5, <1>6 DEF RunInv

\* aput_writes stores one more write of a node that has run.
LEMMA PutKeepsRunInv ==
    ASSUME RunInv, NEW n \in N, PutWrite(n)
    PROVE  RunInv'
  <1>1. UNCHANGED <<draft, wf, ckpt, vals, leg, kind, took, steps, given, answer, deaths, runs, laps, torn, shared, redone>>
        /\ N' = N /\ Compiled' = Compiled
    BY DEF PutWrite, drawn, watch, N, Compiled
  <1>2. PICK part \in {"data", "all"} : /\ task' = [task EXCEPT ![n] = part]
                                        /\ saved' = [saved EXCEPT ![n] = part]
    BY DEF PutWrite
  <1>3. leg = "running" /\ task[n] \in {"ran", "data"}
    BY DEF PutWrite
  <1>4. task \in [N -> {"none", "todo", "ran", "data", "all", "paused"}] /\ saved \in [N -> Parts]
    BY DEF RunInv, TypeOK
  <1>5. TypeOK'
    BY <1>1, <1>2, <1>4 DEF RunInv, TypeOK, Parts
  <1>6. Stage'
    BY <1>1, <1>2, <1>3, <1>4 DEF RunInv, Stage, InStep
  <1>7. \A m \in N : Work(m)'
    BY <1>1, <1>2, <1>3, <1>4 DEF RunInv, Work, Done
  <1> QED
    BY <1>1, <1>5, <1>6, <1>7 DEF RunInv

\* A worker takes up the checkpoint where it stands.
LEMMA ResumeKeepsRunInv ==
    ASSUME RunInv, InvokeResume
    PROVE  RunInv'
  <1>1. UNCHANGED <<draft, wf, took, given, saved, ckpt, deaths, runs, laps, shared, redone>>
        /\ N' = N /\ Compiled' = Compiled
    BY DEF InvokeResume, drawn, N, Compiled
  <1>2. /\ leg = "resume" /\ wf \in Compiled /\ leg' = "running" /\ kind' = "resume" /\ steps' = 0
        /\ vals' = ckpt.vals /\ answer' = given
        /\ torn' = (torn \/ \E n \in ckpt.next : saved[n] = "data")
    BY DEF InvokeResume
  <1>3. task' = [n \in N |-> IF n \notin ckpt.next THEN "none"
                             ELSE IF PendingWrites(n) THEN "all" ELSE "todo"]
    BY DEF InvokeResume
  <1>4. \A n \in N : task'[n] = IF n \notin ckpt.next THEN "none"
                                ELSE IF PendingWrites(n) THEN "all" ELSE "todo"
    BY <1>3
  <1>5. TypeOK'
    <2>1. task' \in [N -> {"none", "todo", "ran", "data", "all", "paused"}]
      BY <1>3
    <2>2. steps' \in 0..RecursionLimit
      BY <1>2, GraphRunAssumption
    <2>3. vals' = vals
      BY <1>2 DEF RunInv
    <2>4. torn' \in BOOLEAN
      BY <1>2 DEF RunInv, TypeOK
    <2> QED
      BY <1>1, <1>2, <2>1, <2>2, <2>3, <2>4 DEF RunInv, TypeOK
  <1>6. InStep' = ckpt.next
    BY <1>1, <1>4 DEF RunInv, TypeOK, InStep
  <1>7. Stage'
    BY <1>1, <1>2, <1>6 DEF RunInv, Stage
  <1>8. ASSUME NEW m \in N PROVE Work(m)'
    <2>1. task'[m] = "todo" => saved[m] \notin {"data", "all"}
      BY <1>4 DEF PendingWrites
    <2>2. task'[m] = "all" => saved[m] \in {"data", "all"} /\ m \in ckpt.next
      BY <1>4 DEF PendingWrites
    <2>3. task'[m] \in {"none", "all", "todo"}
      BY <1>4
    <2>4. Done(m)' => Done(m)
      BY <1>1, <2>2, <2>3 DEF Done
    <2> QED
      BY <1>1, <1>2, <2>1, <2>2, <2>4 DEF RunInv, Work
  <1> QED
    BY <1>1, <1>2, <1>5, <1>7, <1>8 DEF RunInv

\* A checkpoint is stored, with the nodes to run next.
Checkpoints(next) ==
    /\ next \subseteq Executable(wf) /\ ckpt' = [next |-> next, vals |-> vals']
    /\ saved' = NothingSaved
    /\ task' = [n \in N |-> IF n \in next THEN "todo" ELSE "none"]
    /\ wf \in Compiled
    /\ leg' = IF next = {} THEN "completed" ELSE "running"
    /\ UNCHANGED <<drawn, took, given, deaths, watch>>

\* With a new checkpoint nothing is stored yet, and its nodes are to be run.
LEMMA CheckpointKeepsRunInv ==
    ASSUME RunInv, NEW next, Checkpoints(next), kind' \in {"run", "resume"}, answer' = "none",
           steps' \in 0..RecursionLimit, vals'.counts \in [N -> Nat], vals'.outputs \subseteq EndIds(wf),
           runs' \in [N -> 0..2], laps' \in [N -> Nat]
    PROVE  RunInv'
  <1>1. UNCHANGED <<draft, wf, took, given, deaths, torn, shared, redone>>
        /\ N' = N /\ Compiled' = Compiled /\ Executable(wf)' = Executable(wf)
    BY DEF Checkpoints, drawn, watch, N, Compiled
  <1>2. ckpt'.next = next /\ ckpt'.vals = vals' /\ next \subseteq N
    BY DEF Checkpoints, Executable, N
  <1>3. \A n \in N : task'[n] = IF n \in next THEN "todo" ELSE "none"
    BY DEF Checkpoints
  <1>4. \A n \in N : saved'[n] = "none"
    BY DEF Checkpoints, NothingSaved
  <1>5. TypeOK'
    <2>1. task' \in [N -> {"none", "todo", "ran", "data", "all", "paused"}] /\ saved' \in [N -> Parts]
      BY DEF Checkpoints, NothingSaved, Parts
    <2>2. leg' \in {"completed", "running"}
      BY DEF Checkpoints
    <2> QED
      BY <1>1, <1>2, <2>1, <2>2 DEF RunInv, TypeOK
  <1>6. InStep' = next
    BY <1>1, <1>2, <1>3 DEF InStep
  <1>7. Stage'
    <2>1. leg' # "running" => task' = NoTasks'
      BY <1>1 DEF Checkpoints, NoTasks
    <2> QED
      BY <1>1, <1>2, <1>6, <2>1 DEF Checkpoints, Stage
  <1>8. \A m \in N : Work(m)'
    BY <1>1, <1>3, <1>4 DEF Work, Done
  <1> QED
    BY <1>1, <1>2, <1>5, <1>7, <1>8 DEF Checkpoints, RunInv

\* An invocation with an input is a checkpoint with the start node to run.
LEMMA InvokeCheckpoints ==
    ASSUME RunInv, InvokeRun
    PROVE  /\ Checkpoints({StartId(wf)}) /\ kind' = "run" /\ answer' = "none" /\ steps' = 0
           /\ vals' = vals /\ laps' = laps /\ runs' = [n \in N |-> 0]
           /\ runs' \in [N -> 0..2] /\ RunInv'
  <1>1. wf \in Workflow /\ ValidShape(wf)
    BY AllAreWorkflows DEF RunInv, TypeOK, InvokeRun, Compiled, Compiles
  <1>2. StartId(wf) \in Executable(wf) /\ StartId(wf) \in N
    BY <1>1, StartIsExecutable DEF Executable, N
  <1>3. task' = [n \in N |-> IF n \in {StartId(wf)} THEN "todo" ELSE "none"]
    BY <1>2 DEF InvokeRun, NoTasks
  <1>4. vals' = vals
    BY DEF InvokeRun, RunInv
  <1>5. Checkpoints({StartId(wf)})
    BY <1>2, <1>3 DEF InvokeRun, Checkpoints
  <1>6. kind' = "run" /\ answer' = "none" /\ steps' = 0 /\ laps' = laps /\ runs' = [n \in N |-> 0]
    BY DEF InvokeRun
  <1>7. runs' \in [N -> 0..2]
    BY <1>6
  <1>8. steps' \in 0..RecursionLimit
    BY <1>6, GraphRunAssumption
  <1>9. RunInv'
    BY <1>4, <1>5, <1>6, <1>7, <1>8, CheckpointKeepsRunInv DEF RunInv, TypeOK
  <1> QED
    BY <1>4, <1>5, <1>6, <1>7, <1>9

\* Merging keeps the types of the state ...
LEMMA MergedValsAre ==
    ASSUME RunInv
    PROVE  MergedVals.counts \in [N -> Nat] /\ MergedVals.outputs \subseteq EndIds(wf)
  <1>1. vals.counts \in [N -> Nat] /\ vals.outputs \subseteq EndIds(wf)
    BY DEF RunInv, TypeOK
  <1>2. ASSUME NEW f \in [N -> Nat], NEW n PROVE [f EXCEPT ![n] = @ + 1] \in [N -> Nat]
    <2>1. \A m \in N : [f EXCEPT ![n] = f[n] + 1][m] = IF m = n THEN f[m] + 1 ELSE f[m]
      BY <1>2
    <2>2. \A m \in N : f[m] + 1 \in Nat /\ f[m] \in Nat
      BY <1>2
    <2>3. \A m \in N : [f EXCEPT ![n] = f[n] + 1][m] \in Nat
      BY <2>1, <2>2
    <2>4. DOMAIN [f EXCEPT ![n] = f[n] + 1] = N /\ [f EXCEPT ![n] = f[n] + 1] = [m \in N |-> [f EXCEPT ![n] = f[n] + 1][m]]
      BY <1>2
    <2> QED
      BY <2>3, <2>4
  <1>3. MergedCounts \in [N -> Nat]
    BY <1>1, <1>2, Zenon DEF MergedCounts
  <1> QED
    BY <1>1, <1>3 DEF MergedVals

\* ... and so does counting.
LEMMA CountsAre ==
    ASSUME RunInv, CountRuns
    PROVE  runs' \in [N -> 0..2] /\ laps' \in [N -> Nat]
  <1>1. runs \in [N -> 0..2] /\ laps \in [N -> Nat]
    BY DEF RunInv, TypeOK
  <1> QED
    BY <1>1 DEF CountRuns

\* The end of a superstep is a checkpoint with the triggered nodes to run.
LEMMA MergeCheckpoints ==
    ASSUME RunInv, Superstep \/ MarkCompleted
    PROVE  /\ StepDone /\ Checkpoints(Triggered) /\ CountRuns /\ vals' = MergedVals /\ RunInv'
           /\ InStep = ckpt.next /\ InStep # {}
  <1>1. StepDone /\ CountRuns /\ vals' = MergedVals /\ answer' = "none" /\ kind' = kind
    BY DEF Superstep, MarkCompleted
  <1>2. wf \in Compiled /\ InStep = ckpt.next /\ InStep # {}
    BY <1>1 DEF RunInv, Stage, StepDone
  <1>3. Triggered \subseteq Executable(wf)
    BY SuccessorsAreExecutable DEF Triggered
  <1>4. Checkpoints(Triggered)
    <2>1. CASE Superstep
      BY <1>1, <1>2, <1>3, <2>1 DEF Superstep, StepDone, Checkpoints
    <2>2. CASE MarkCompleted
      <3>1. task' = [n \in N |-> IF n \in Triggered THEN "todo" ELSE "none"]
        BY <2>2 DEF MarkCompleted, NoTasks
      <3> QED
        BY <1>1, <1>2, <1>3, <2>2, <3>1 DEF MarkCompleted, Checkpoints
    <2> QED
      BY <2>1, <2>2
  <1>5. steps' \in 0..RecursionLimit
    BY GraphRunAssumption DEF Superstep, MarkCompleted, RunInv, TypeOK
  <1>6. kind' \in {"run", "resume"}
    BY <1>1 DEF RunInv, TypeOK
  <1> QED
    BY <1>1, <1>2, <1>4, <1>5, <1>6, MergedValsAre, CountsAre, CheckpointKeepsRunInv

\* A step that neither executes a node nor stores a checkpoint.
Keeps ==
    /\ UNCHANGED <<drawn, ckpt, vals, took, runs, laps, shared, redone>>
    /\ torn => torn'
    /\ leg' = "completed" => leg = "completed" /\ torn' = torn
    /\ \A n \in N : Done(n)' => Done(n)

\* Every step of the specification, by what it does to the checkpoint.
LEMMA RunSteps ==
    ASSUME RunInv, [Next]_vars
    PROVE  RunInv' /\ (Keeps \/ (\E n \in N : Executes(n)) \/ InvokeRun \/ Superstep \/ MarkCompleted)
  <1>1. CASE UNCHANGED vars
    <2>1. UNCHANGED <<draft, wf, leg, kind, task, took, steps, given, answer, vals, saved, ckpt, deaths,
                      runs, laps, torn, shared, redone>>
      BY <1>1 DEF vars, drawn, watch
    <2>2. N' = N /\ NoTasks' = NoTasks /\ InStep' = InStep /\ Compiled' = Compiled
      BY <2>1 DEF N, NoTasks, InStep, Compiled
    <2>3. RunInv'
      <3>1. TypeOK'
        BY <2>1, <2>2 DEF RunInv, TypeOK
      <3>2. Stage'
        BY <2>1, <2>2 DEF RunInv, Stage
      <3>3. \A n \in N : Work(n)'
        BY <2>1 DEF RunInv, Work, Done
      <3> QED
        BY <2>1, <2>2, <3>1, <3>2, <3>3 DEF RunInv
    <2>4. Keeps
      BY <2>1 DEF Keeps, drawn, Done
    <2> QED
      BY <2>3, <2>4
  <1>2. CASE \/ CompileRaises \/ ResumeRaises \/ RecursionRaises \/ Pause \/ WorkerDies
             \/ (\E n \in N : NodeRaises(n)) \/ (\E d \in {"approved", "rejected"} : Decide(d))
    <2>1. /\ Halts /\ kind' \in {"run", "resume"} /\ steps' = steps
          /\ {given', answer'} \subseteq {"none", "approved", "rejected"} /\ deaths' \in 0..MaxDeaths
      BY <1>2, HaltsAre
    <2>2. RunInv'
      BY <2>1, HaltKeepsRunInv
    <2>3. \A n \in N : task'[n] = "none"
      BY <2>1 DEF Halts, NoTasks
    <2>4. Keeps
      BY <2>1, <2>3 DEF Halts, Keeps, Done, graphVars, watch
    <2> QED
      BY <2>2, <2>4
  <1>3. ASSUME NEW n \in N,
               RunPlain(n) \/ RunIfElse(n) \/ RunWhile(n) \/ RunDecision(n) \/ RunApproval(n)
        PROVE  RunInv' /\ Executes(n)
    BY <1>3, ExecutesAre, ExecuteKeepsRunInv
  <1>4. ASSUME NEW n \in N, InterruptNode(n) PROVE RunInv' /\ Keeps
    <2>1. /\ task' = [task EXCEPT ![n] = "paused"] /\ saved' = [saved EXCEPT ![n] = "interrupt"]
          /\ leg' = leg /\ leg = "running"
          /\ UNCHANGED <<drawn, ckpt, vals, took, runs, laps, torn, shared, redone>>
      BY <1>4 DEF InterruptNode, watch
    <2>2. Keeps
      BY <2>1 DEF Keeps, Done, RunInv, TypeOK
    <2> QED
      BY <1>4, <2>2, InterruptKeepsRunInv
  <1>5. ASSUME NEW n \in N, PutWrite(n) PROVE RunInv' /\ Keeps
    <2>1. PICK part \in {"data", "all"} : /\ task' = [task EXCEPT ![n] = part]
                                          /\ saved' = [saved EXCEPT ![n] = part]
      BY <1>5 DEF PutWrite
    <2>2. /\ leg' = leg /\ leg = "running" /\ Done(n)
          /\ UNCHANGED <<drawn, ckpt, vals, took, runs, laps, torn, shared, redone>>
      BY <1>5 DEF PutWrite, watch, Done
    <2>3. Keeps
      BY <2>1, <2>2 DEF Keeps, Done, RunInv, TypeOK
    <2> QED
      BY <1>5, <2>3, PutKeepsRunInv
  <1>6. CASE InvokeResume
    <2>1. ASSUME NEW n \in N, Done(n)' PROVE Done(n)
      <3>1. task'[n] = IF n \notin ckpt.next THEN "none" ELSE IF PendingWrites(n) THEN "all" ELSE "todo"
        BY <1>6 DEF InvokeResume
      <3> QED
        BY <1>6, <2>1, <3>1 DEF InvokeResume, PendingWrites, Done
    <2>2. vals' = vals
      BY <1>6 DEF InvokeResume, RunInv
    <2>3. torn => torn'
      BY <1>6 DEF InvokeResume
    <2>4. Keeps
      BY <1>6, <2>1, <2>2, <2>3 DEF InvokeResume, Keeps
    <2> QED
      BY <1>6, <2>4, ResumeKeepsRunInv
  <1>7. CASE InvokeRun
    BY <1>7, InvokeCheckpoints
  <1>8. CASE Superstep \/ MarkCompleted
    BY <1>8, MergeCheckpoints
  <1> QED
    BY <1>1, <1>2, <1>3, <1>4, <1>5, <1>6, <1>7, <1>8 DEF Next, Worker

\* The invariant that the theorems below rest on.
THEOREM RunIsKept == Spec => []RunInv
  <1>1. RunInv /\ [Next]_vars => RunInv'
    BY RunSteps
  <1> QED
    BY InitRuns, <1>1, PTL DEF Spec

\* The variables keep their types.
THEOREM GraphTypesCorrect == Spec => []TypeOK
  <1>1. RunInv => TypeOK
    BY DEF RunInv
  <1> QED
    BY RunIsKept, <1>1, PTL

-----------------------------------------------------------------------------
(* Stored work.                                                            *)

\* Whatever worker continues a checkpoint, it never executes a node whose
\* writes are stored for it (aput_writes, aget_tuple).
THEOREM StoredWorkStays == Spec => []StoredWorkIsKept
  <1>1. Init => StoredWorkIsKept
    BY DEF Init, StoredWorkIsKept
  <1>2. ASSUME RunInv, StoredWorkIsKept, [Next]_vars PROVE StoredWorkIsKept'
    <2>1. CASE Keeps
      BY <1>2, <2>1 DEF Keeps, StoredWorkIsKept
    <2>2. ASSUME NEW n \in N, Executes(n) PROVE StoredWorkIsKept'
      <3>1. redone' = (redone \/ saved[n] = "all") /\ task[n] = "todo"
        BY <2>2 DEF Executes, Execute
      <3>2. saved[n] # "all"
        BY <1>2, <3>1 DEF RunInv, Work
      <3> QED
        BY <1>2, <3>1, <3>2 DEF StoredWorkIsKept
    <2>3. CASE InvokeRun \/ Superstep \/ MarkCompleted
      BY <1>2, <2>3 DEF InvokeRun, Superstep, MarkCompleted, watch, StoredWorkIsKept
    <2> QED
      BY <1>2, <2>1, <2>2, <2>3, RunSteps
  <1> QED
    BY <1>1, <1>2, RunIsKept, PTL DEF Spec

-----------------------------------------------------------------------------
(* Completion.                                                             *)

\* An execution is marked completed only when its run has passed an End, as long
\* as the workflow has no dead end and no resume found half of a node's writes.
\* The superstep after which nothing is triggered is not empty, and its nodes,
\* unless they are Ends, would have gone on (_branch_mapping, aput_writes).
THEOREM CompletionPassesAnEnd == Spec => []CompletesAtAnEnd
  <1>1. Init => CompletesAtAnEnd
    BY DEF Init, CompletesAtAnEnd
  <1>2. ASSUME RunInv, CompletesAtAnEnd, [Next]_vars PROVE CompletesAtAnEnd'
    <2>1. CASE Keeps
      BY <1>2, <2>1 DEF Keeps, drawn, CompletesAtAnEnd
    <2>2. ASSUME NEW n \in N, Executes(n) PROVE CompletesAtAnEnd'
      BY <2>2 DEF Executes, Execute, CompletesAtAnEnd
    <2>3. CASE InvokeRun \/ Superstep
      BY <2>3 DEF InvokeRun, Superstep, StepDone, CompletesAtAnEnd
    <2>4. CASE MarkCompleted
      <3>1. StepDone /\ CountRuns /\ RunInv' /\ InStep = ckpt.next /\ InStep # {}
        BY <1>2, <2>4, MergeCheckpoints
      <3>2. wf' = wf /\ torn' = torn /\ Triggered = {}
        BY <2>4 DEF MarkCompleted, drawn, watch
      <3>3. wf \in Workflow /\ Compiles(wf)
        BY <1>2, <3>1, AllAreWorkflows DEF RunInv, TypeOK, Stage, StepDone, Compiled
      <3>4. ASSUME NEW e \in EndIds(wf) \cap InStep PROVE runs'[e] > 0
        <4>1. e \in N /\ runs[e] \in 0..2
          BY <1>2 DEF InStep, RunInv, TypeOK
        <4>2. runs'[e] = IF runs[e] < 2 THEN runs[e] + 1 ELSE runs[e]
          BY <3>1, <3>4, <4>1 DEF CountRuns
        <4> QED
          BY <4>1, <4>2
      <3>5. ASSUME DeadEnds(wf) = {}, ~torn PROVE EndIds(wf) \cap InStep # {}
        <4>1. PICK n \in InStep : TRUE
          BY <3>1
        <4>2. n \in Executable(wf) /\ n \in N /\ task[n] = "all"
          BY <1>2, <3>1 DEF RunInv, InStep, StepDone
        <4>3. saved[n] = "all" /\ Chooses(wf, n, took[n])
          BY <1>2, <3>5, <4>2 DEF RunInv, Work, Done
        <4>4. Successors(wf, n, took[n]) = {}
          BY <3>2, <4>3 DEF Triggered
        <4> QED
          BY <3>3, <3>5, <4>2, <4>3, <4>4, GoesOn
      <3> QED
        BY <3>2, <3>4, <3>5 DEF CompletesAtAnEnd
    <2> QED
      BY <1>2, <2>1, <2>2, <2>3, <2>4, RunSteps
  <1> QED
    BY <1>1, <1>2, RunIsKept, PTL DEF Spec

-----------------------------------------------------------------------------
(* The cap of the loops.                                                   *)

\* A while node's own counter is right as long as no other has overwritten it,
\* and a while node that has been executed has room and the superstep to itself.
Counted(n) ==
    /\ laps[n] = vals.counts[n] /\ laps[n] <= MaxIterations
    /\ Done(n) => laps[n] + 1 <= MaxIterations /\ \A m \in Whiles \ {n} : m \notin ckpt.next

LoopInv == ~shared => \A n \in Whiles : Counted(n)

\* The counters after a merge, for the one while node that took part.
LEMMA OwnLapCounts ==
    ASSUME NEW n \in N, InStep \cap Whiles = {n}
    PROVE  MergedCounts = [vals.counts EXCEPT ![n] = @ + 1]
  <1>1. {m \in InStep : Type(wf, m) = "while"} = {n}
    BY DEF Whiles, InStep
  <1> QED
    BY <1>1 DEF MergedCounts

\* Without a while node the counters stay.
LEMMA NoLapNoCount ==
    ASSUME InStep \cap Whiles = {}
    PROVE  MergedCounts = vals.counts
  BY DEF MergedCounts, Whiles, InStep

\* Every step keeps the counters right, or lets two while nodes share a superstep.
LEMMA LoopsCount ==
    ASSUME RunInv, LoopInv, [Next]_vars
    PROVE  LoopInv'
  <1>1. CASE Keeps
    <2>1. Whiles' = Whiles /\ UNCHANGED <<laps, vals, ckpt, shared>>
      BY <1>1 DEF Keeps, drawn, Whiles, N
    <2>2. \A n \in Whiles : Done(n)' => Done(n)
      BY <1>1 DEF Keeps, Whiles
    <2> QED
      BY <2>1, <2>2 DEF LoopInv, Counted
  <1>2. ASSUME NEW n \in N, Executes(n) PROVE LoopInv'
    <2> SUFFICES ASSUME ~shared' PROVE \A m \in Whiles' : Counted(m)'
      BY DEF LoopInv
    <2>1. UNCHANGED <<wf, laps, vals, ckpt, saved>> /\ leg = "running" /\ task[n] = "todo"
          /\ task' = [task EXCEPT ![n] = "ran"]
          /\ shared' = (shared \/ \E m \in Whiles \ {n} : n \in Whiles /\ task[m] \notin {"none"})
      BY <1>2 DEF Executes, Execute, graphVars, drawn
    <2>2. Whiles' = Whiles /\ InStep = ckpt.next
      BY <2>1 DEF Whiles, N, RunInv, Stage
    <2>3. ASSUME NEW m \in Whiles PROVE Counted(m)
      BY <2>1, <2>3 DEF LoopInv
    <2>4. ASSUME NEW m \in Whiles, m # n PROVE Counted(m)'
      <3>1. Done(m)' <=> Done(m)
        BY <2>1, <2>4 DEF Done, Whiles, RunInv, TypeOK
      <3> QED
        BY <2>1, <2>2, <2>3, <2>4, <3>1 DEF Counted
    <2>5. ASSUME n \in Whiles PROVE Counted(n)'
      <3>1. \A m \in Whiles \ {n} : m \notin ckpt.next
        BY <2>1, <2>2, <2>5 DEF InStep, Whiles
      <3>2. laps[n] + 1 <= MaxIterations
        BY <1>2, <2>3, <2>5 DEF Counted, Executes, Whiles
      <3> QED
        BY <2>1, <2>2, <2>3, <2>5, <3>1, <3>2 DEF Counted
    <2> QED
      BY <2>2, <2>4, <2>5
  <1>3. CASE InvokeRun
    <2>1. Checkpoints({StartId(wf)}) /\ vals' = vals /\ laps' = laps
      BY <1>3, InvokeCheckpoints
    <2>2. UNCHANGED <<wf, shared>> /\ Whiles' = Whiles
      BY <2>1 DEF Checkpoints, drawn, watch, Whiles, N
    <2>3. ASSUME NEW m \in Whiles PROVE ~Done(m)'
      BY <2>1 DEF Checkpoints, Done, Whiles, NothingSaved
    <2> QED
      BY <2>1, <2>2, <2>3 DEF LoopInv, Counted
  <1>4. CASE Superstep \/ MarkCompleted
    <2> SUFFICES ASSUME ~shared' PROVE \A m \in Whiles' : Counted(m)'
      BY DEF LoopInv
    <2>1. StepDone /\ Checkpoints(Triggered) /\ CountRuns /\ vals' = MergedVals /\ InStep = ckpt.next
      BY <1>4, MergeCheckpoints
    <2>2. UNCHANGED <<wf, shared>> /\ Whiles' = Whiles
      BY <2>1 DEF Checkpoints, drawn, watch, Whiles, N
    <2>3. ASSUME NEW m \in Whiles PROVE ~Done(m)'
      BY <2>1 DEF Checkpoints, Done, Whiles, NothingSaved
    <2>4. ASSUME NEW m \in Whiles
          PROVE  /\ Counted(m) /\ m \in N /\ laps[m] \in Nat /\ vals.counts[m] \in Nat
                 /\ laps'[m] = IF m \in InStep THEN laps[m] + 1 ELSE laps[m]
      BY <2>1, <2>2 DEF LoopInv, CountRuns, RunInv, TypeOK, Whiles
    <2>5. ASSUME NEW n \in InStep \cap Whiles
          PROVE  InStep \cap Whiles = {n} /\ laps[n] + 1 <= MaxIterations
      <3>1. Done(n)
        BY <2>1, <2>5 DEF StepDone, Done
      <3> QED
        BY <2>1, <2>4, <2>5, <3>1 DEF Counted
    <2>6. vals'.counts = MergedCounts
      BY <2>1 DEF MergedVals
    <2>7. ASSUME NEW m \in Whiles
          PROVE  vals'.counts[m] = IF m \in InStep THEN vals.counts[m] + 1 ELSE vals.counts[m]
      <3>1. CASE InStep \cap Whiles = {}
        BY <2>6, <3>1, NoLapNoCount
      <3>2. ASSUME NEW n \in InStep \cap Whiles
            PROVE  vals'.counts[m] = IF m \in InStep THEN vals.counts[m] + 1 ELSE vals.counts[m]
        <4>1. vals'.counts = [vals.counts EXCEPT ![n] = @ + 1] /\ (m \in InStep <=> m = n)
          BY <2>5, <2>6, OwnLapCounts DEF Whiles
        <4>2. vals.counts \in [N -> Nat] /\ m \in N
          BY DEF Whiles, RunInv, TypeOK
        <4> QED
          BY <4>1, <4>2
      <3> QED
        BY <3>1, <3>2
    <2>8. ASSUME NEW m \in Whiles PROVE Counted(m)'
      <3>1. laps'[m] = vals'.counts[m]
        BY <2>4, <2>7 DEF Counted
      <3>2. laps'[m] <= MaxIterations
        BY <2>4, <2>5 DEF Counted
      <3> QED
        BY <2>3, <3>1, <3>2 DEF Counted
    <2> QED
      BY <2>2, <2>8
  <1> QED
    BY <1>1, <1>2, <1>3, <1>4, RunSteps

\* A while node takes part in at most MaxIterations supersteps of an execution,
\* however often the run is restarted or resumed, as long as no two while nodes
\* ever share a superstep (WhileExecutor.execute, merge_dict).
THEOREM LoopsStayCapped == Spec => []LoopsAreCapped
  <1>1. Init => LoopInv
    BY GraphRunAssumption DEF Init, LoopInv, Counted, Done, NoTasks, NothingSaved, Whiles
  <1>2. LoopInv => LoopsAreCapped
    BY DEF LoopInv, Counted, LoopsAreCapped
  <1>3. RunInv /\ LoopInv /\ [Next]_vars => LoopInv'
    BY LoopsCount
  <1> QED
    BY <1>1, <1>2, <1>3, RunIsKept, PTL DEF Spec

-----------------------------------------------------------------------------
(* Exclusive branches.                                                     *)

\* The nodes a run can go on to once c has taken the branch, before it starts
\* again at the start node.
Behind(w, c, branch) ==
    UNION {Closure(Hops(w), Executable(w) \ {StartId(w)}, w.edges[i].target) :
              i \in {j \in OutgoingExecutable(w, c) : /\ w.edges[j].branch = branch
                                                      /\ w.edges[j].target # StartId(w)}}

\* A node that has run, or is next, was reached around the conditional c, or
\* through it: over the branch that c took last, if c has run only once.
Traced(c, n) ==
    runs[n] > 0 \/ n \in ckpt.next =>
        \/ n \in ReachableAround(c)
        \/ runs[c] >= 2
        \/ runs[c] = 1 /\ (c \in ckpt.next \/ n \in Behind(wf, c, took[c]))

TraceInv == \A c \in Conditionals(wf) : \A n \in N \ {c} : Traced(c, n)

\* One hop further, around c or behind it.
LEMMA HopsGoAround ==
    ASSUME NEW w, NEW c, NEW m, NEW branch, NEW n \in Successors(w, m, branch), n # c,
           NEW from, m \in Closure(Hops(w), Executable(w) \ {c}, from)
    PROVE  n \in Closure(Hops(w), Executable(w) \ {c}, from)
  <1>1. n \in Executable(w) \ {c}
    BY SuccessorsAreExecutable
  <1>2. <<m, n>> \in Hops(w)
    BY DEF Successors, OutgoingExecutable, Hops
  <1> QED
    BY <1>1, <1>2, ClosureIsClosed

\* The targets of the branch taken lie behind it ...
LEMMA FirstHopIsBehind ==
    ASSUME NEW w, NEW c, NEW branch, NEW n \in Successors(w, c, branch), n # StartId(w)
    PROVE  n \in Behind(w, c, branch)
  <1>1. n \in Executable(w) \ {StartId(w)}
    BY SuccessorsAreExecutable
  <1>2. PICK i \in OutgoingExecutable(w, c) : w.edges[i].branch = branch /\ w.edges[i].target = n
    BY DEF Successors
  <1>3. n \in Closure(Hops(w), Executable(w) \ {StartId(w)}, n)
    BY <1>1, ClosureStarts
  <1> QED
    BY <1>2, <1>3 DEF Behind

\* ... and so does what follows them.
LEMMA HopsStayBehind ==
    ASSUME NEW w, NEW c, NEW taken, NEW m \in Behind(w, c, taken),
           NEW branch, NEW n \in Successors(w, m, branch), n # StartId(w)
    PROVE  n \in Behind(w, c, taken)
  <1>1. PICK i \in OutgoingExecutable(w, c) :
            /\ w.edges[i].branch = taken /\ w.edges[i].target # StartId(w)
            /\ m \in Closure(Hops(w), Executable(w) \ {StartId(w)}, w.edges[i].target)
    BY DEF Behind
  <1>2. n \in Closure(Hops(w), Executable(w) \ {StartId(w)}, w.edges[i].target)
    BY <1>1, HopsGoAround
  <1> QED
    BY <1>1, <1>2 DEF Behind

\* The start node is no conditional, and is reached around each.
LEMMA StartIsAround ==
    ASSUME RunInv, wf \in Compiled, NEW c \in Conditionals(wf)
    PROVE  c # StartId(wf) /\ StartId(wf) \in ReachableAround(c)
  <1>1. StartId(wf) \in Executable(wf) /\ Type(wf, StartId(wf)) = "start"
    BY StartIsExecutable, AllAreWorkflows DEF RunInv, TypeOK, Compiled, Compiles
  <1>2. c # StartId(wf)
    BY <1>1 DEF Conditionals, ConditionalTypes
  <1> QED
    BY <1>1, <1>2, ClosureStarts DEF ReachableAround

\* Every step keeps the traces.
LEMMA RunsAreTraced ==
    ASSUME RunInv, TraceInv, [Next]_vars
    PROVE  TraceInv'
  <1>1. CASE Keeps
    BY <1>1 DEF Keeps, drawn, TraceInv, Traced, N, ReachableAround
  <1>2. ASSUME NEW n \in N, Executes(n) PROVE TraceInv'
    <2>1. PICK branch : took' = [took EXCEPT ![n] = branch]
      BY <1>2 DEF Executes, Execute
    <2>2. UNCHANGED <<wf, ckpt, runs>> /\ n \in ckpt.next
      BY <1>2 DEF Executes, Execute, graphVars, drawn, RunInv, Stage, InStep
    <2>3. N' = N /\ Conditionals(wf)' = Conditionals(wf)
          /\ \A c : ReachableAround(c)' = ReachableAround(c)
      BY <2>2 DEF N, ReachableAround
    <2>4. ASSUME NEW c \in Conditionals(wf), NEW m \in N \ {c} PROVE Traced(c, m)'
      <3>1. c \in ckpt.next \/ took'[c] = took[c]
        BY <2>1, <2>2, <2>4 DEF Conditionals, N, RunInv, TypeOK
      <3>2. Traced(c, m)
        BY <2>4 DEF TraceInv
      <3> QED
        BY <2>2, <2>3, <3>1, <3>2 DEF Traced
    <2> QED
      BY <2>3, <2>4 DEF TraceInv
  <1>3. CASE InvokeRun
    <2>1. Checkpoints({StartId(wf)}) /\ runs' = [n \in N |-> 0] /\ wf \in Compiled
      BY <1>3, InvokeCheckpoints DEF InvokeRun
    <2>2. wf' = wf /\ N' = N /\ ckpt'.next = {StartId(wf)}
          /\ \A c : ReachableAround(c)' = ReachableAround(c)
      BY <2>1 DEF Checkpoints, drawn, N, ReachableAround
    <2>3. ASSUME NEW c \in Conditionals(wf), NEW m \in N \ {c} PROVE Traced(c, m)'
      BY <2>1, <2>2, <2>3, StartIsAround DEF Traced
    <2> QED
      BY <2>2, <2>3 DEF TraceInv
  <1>4. CASE Superstep \/ MarkCompleted
    <2>1. Checkpoints(Triggered) /\ CountRuns /\ InStep = ckpt.next /\ wf \in Compiled
      BY <1>4, MergeCheckpoints DEF Checkpoints
    <2>2. wf' = wf /\ took' = took /\ N' = N /\ ckpt'.next = Triggered
          /\ \A c : ReachableAround(c)' = ReachableAround(c)
      BY <2>1 DEF Checkpoints, drawn, N, ReachableAround
    <2>3. \A n \in N : /\ runs[n] \in 0..2
                       /\ runs'[n] = IF n \in ckpt.next /\ runs[n] < 2 THEN runs[n] + 1 ELSE runs[n]
      BY <2>1 DEF CountRuns, RunInv, TypeOK
    <2>4. ASSUME NEW c \in Conditionals(wf), NEW m \in N \ {c} PROVE Traced(c, m)'
      <3>1. c \in N /\ Traced(c, m)
        BY <2>4 DEF Conditionals, N, TraceInv
      <3> DEFINE Reached == \/ m \in ReachableAround(c)
                            \/ runs'[c] >= 2
                            \/ runs'[c] = 1 /\ m \in Behind(wf, c, took[c])
      <3>2. CASE runs[m] > 0 \/ m \in ckpt.next
        <4>1. Reached
          BY <2>3, <3>1, <3>2 DEF Traced
        <4> QED
          BY <2>2, <4>1 DEF Traced
      <3>3. CASE m \in Triggered
        <4>1. PICK n \in ckpt.next : m \in Successors(wf, n, took[n])
          BY <2>1, <3>3 DEF Triggered
        <4>2. n \in N
          BY <4>1 DEF RunInv, TypeOK
        <4>3. CASE m = StartId(wf)
          BY <2>1, <2>2, <2>4, <4>3, StartIsAround DEF Traced
        <4>4. CASE m # StartId(wf) /\ n = c
          <5>1. m \in Behind(wf, c, took[c])
            BY <4>1, <4>4, FirstHopIsBehind
          <5>2. runs'[c] >= 2 \/ runs'[c] = 1
            BY <2>3, <3>1, <4>1, <4>4
          <5> QED
            BY <2>2, <5>1, <5>2 DEF Traced
        <4>5. CASE m # StartId(wf) /\ n # c
          <5>1. \/ n \in ReachableAround(c)
                \/ runs[c] >= 2
                \/ runs[c] = 1 /\ (c \in ckpt.next \/ n \in Behind(wf, c, took[c]))
            BY <2>4, <4>1, <4>2, <4>5 DEF TraceInv, Traced
          <5>2. n \in ReachableAround(c) => m \in ReachableAround(c)
            BY <2>1, <2>4, <4>1, StartIsAround, HopsGoAround DEF ReachableAround
          <5>3. n \in Behind(wf, c, took[c]) => m \in Behind(wf, c, took[c])
            BY <4>1, <4>5, HopsStayBehind
          <5>4. Reached
            BY <2>3, <3>1, <5>1, <5>2, <5>3
          <5> QED
            BY <2>2, <5>4 DEF Traced
        <4> QED
          BY <4>3, <4>4, <4>5
      <3>4. CASE ~(runs[m] > 0 \/ m \in ckpt.next) /\ m \notin Triggered
        BY <2>2, <2>3, <3>4 DEF Traced
      <3> QED
        BY <3>2, <3>3, <3>4
    <2> QED
      BY <2>2, <2>4 DEF TraceInv
  <1> QED
    BY <1>1, <1>2, <1>3, <1>4, RunSteps

\* The branch taken at c marks what lies behind it.
LEMMA BehindIsMarked ==
    ASSUME NEW w, ValidShape(w), NEW c \in Conditionals(w), NEW branch, NEW n \in Behind(w, c, branch)
    PROVE  <<n, c, branch>> \in BranchMarkers(w)
  <1>1. PICK i \in OutgoingExecutable(w, c) :
            /\ w.edges[i].branch = branch /\ w.edges[i].target # StartId(w)
            /\ n \in Closure(Hops(w), Executable(w) \ {StartId(w)}, w.edges[i].target)
    BY DEF Behind
  <1>2. i \in CleanEdges(w) /\ w.edges[i].source = c
    BY DEF OutgoingExecutable
  <1>3. Type(w, c) \in ConditionalTypes
    BY DEF Conditionals
  <1>4. w.edges[i].branch # NoBranch
    BY <1>2, <1>3, ValidKeepsRules
  <1>5. w.edges[i].target \in Executable(w) \ {StartId(w)}
    BY <1>1, SuccessorsAreExecutable DEF Successors
  <1>6. Executable(w) \ {StartId(w)} \subseteq Ids(w) \ {StartId(w)}
    BY DEF Executable
  <1>7. n \in Closure(Hops(w), Ids(w) \ {StartId(w)}, w.edges[i].target)
    BY <1>1, <1>5, <1>6, ClosureGrows
  <1> QED
    BY <1>1, <1>2, <1>3, <1>4, <1>7 DEF BranchMarkers

\* What a marker says.
LEMMA MarkersAre ==
    ASSUME NEW w, NEW t \in BranchMarkers(w)
    PROVE  \E i \in CleanEdges(w) :
             /\ t[2] = w.edges[i].source /\ t[3] = w.edges[i].branch
             /\ t[2] \in Conditionals(w) /\ w.edges[i].target # StartId(w)
             /\ t[1] \in Closure(Hops(w), Ids(w) \ {StartId(w)}, w.edges[i].target)
  <1>1. PICK i \in CleanEdges(w) :
            /\ w.edges[i].branch # NoBranch /\ Type(w, w.edges[i].source) \in ConditionalTypes
            /\ w.edges[i].target # StartId(w)
            /\ t \in {<<n, w.edges[i].source, w.edges[i].branch>> :
                        n \in Closure(Hops(w), Ids(w) \ {StartId(w)}, w.edges[i].target)}
    BY DEF BranchMarkers
  <1>2. w.edges[i].source \in Ids(w)
    BY DEF CleanEdges
  <1> QED
    BY <1>1, <1>2 DEF Conditionals

\* A marked node can be reached from the conditional of the marker.
LEMMA MarkedIsBehind ==
    ASSUME NEW w, NEW t \in BranchMarkers(w)
    PROVE  t[1] \in Closure(Hops(w), Ids(w), t[2])
  <1>1. PICK i \in CleanEdges(w) :
            /\ t[2] = w.edges[i].source
            /\ t[2] \in Conditionals(w) /\ w.edges[i].target # StartId(w)
            /\ t[1] \in Closure(Hops(w), Ids(w) \ {StartId(w)}, w.edges[i].target)
    BY MarkersAre
  <1>2. t[2] \in Ids(w) /\ w.edges[i].target \in Ids(w) \ {StartId(w)} /\ <<t[2], w.edges[i].target>> \in Hops(w)
    BY <1>1 DEF CleanEdges, Hops
  <1>3. w.edges[i].target \in Closure(Hops(w), Ids(w), t[2])
    BY <1>2, ClosureStarts, ClosureIsClosed
  <1>4. t[1] \in Closure(Hops(w), Ids(w), w.edges[i].target)
    BY <1>1, <1>2, ClosureGrows
  <1> QED
    BY <1>3, <1>4, ClosureGoesOn

\* A conditional that a branch of its own leads back to passes that marker on to
\* everything it leads to.
LEMMA LoopsMarkAll ==
    ASSUME NEW w, NEW c, NEW taken, <<c, c, taken>> \in BranchMarkers(w),
           NEW n, NEW branch, <<n, c, branch>> \in BranchMarkers(w)
    PROVE  <<n, c, taken>> \in BranchMarkers(w)
  <1> DEFINE within == Ids(w) \ {StartId(w)}
  <1>1. PICK i \in CleanEdges(w) :
            /\ w.edges[i].branch # NoBranch /\ Type(w, w.edges[i].source) \in ConditionalTypes
            /\ w.edges[i].target # StartId(w)
            /\ <<c, c, taken>> \in {<<m, w.edges[i].source, w.edges[i].branch>> :
                                      m \in Closure(Hops(w), within, w.edges[i].target)}
    BY DEF BranchMarkers
  <1>2. c = w.edges[i].source /\ taken = w.edges[i].branch
        /\ c \in Closure(Hops(w), within, w.edges[i].target)
    BY <1>1
  <1>3. PICK j \in CleanEdges(w) :
            /\ c = w.edges[j].source /\ w.edges[j].target # StartId(w)
            /\ n \in Closure(Hops(w), within, w.edges[j].target)
    <2>1. PICK j \in CleanEdges(w) :
              /\ <<n, c, branch>>[2] = w.edges[j].source /\ w.edges[j].target # StartId(w)
              /\ <<n, c, branch>>[1] \in Closure(Hops(w), within, w.edges[j].target)
      BY MarkersAre
    <2> QED
      BY <2>1
  <1>4. w.edges[j].target \in within /\ <<c, w.edges[j].target>> \in Hops(w)
    BY <1>3 DEF CleanEdges, Hops
  <1>5. w.edges[j].target \in Closure(Hops(w), within, w.edges[i].target)
    BY <1>2, <1>4, ClosureIsClosed
  <1>6. n \in Closure(Hops(w), within, w.edges[i].target)
    BY <1>3, <1>5, ClosureGoesOn
  <1> QED
    BY <1>1, <1>2, <1>6 DEF BranchMarkers

\* The conditional that two sources exclude each other by.
LEMMA ExcludingIs ==
    ASSUME NEW w, NEW a, NEW b, MutuallyExclusive(BranchMarkers(w), a, b)
    PROVE  \E c \in Conditionals(w) :
             /\ {a, b} \subseteq Closure(Hops(w), Ids(w), c)
             /\ a # c /\ b # c
             /\ \A branch : ~(<<a, c, branch>> \in BranchMarkers(w) /\ <<b, c, branch>> \in BranchMarkers(w))
  <1> DEFINE M == BranchMarkers(w)
             branches(n, c) == {t[3] : t \in {u \in M : u[1] = n /\ u[2] = c}}
  <1>1. PICK c : /\ branches(a, c) # {} /\ branches(b, c) # {}
                 /\ branches(a, c) \cap branches(b, c) = {}
    BY DEF MutuallyExclusive
  <1>2. PICK t \in M : t[1] = a /\ t[2] = c
    BY <1>1
  <1>3. PICK u \in M : u[1] = b /\ u[2] = c
    BY <1>1
  <1>4. c \in Conditionals(w)
    BY <1>2, MarkersAre
  <1>5. {a, b} \subseteq Closure(Hops(w), Ids(w), c)
    BY <1>2, <1>3, MarkedIsBehind
  <1>6. ASSUME NEW v \in M PROVE v = <<v[1], v[2], v[3]>>
    BY DEF BranchMarkers
  <1>7. <<a, c, t[3]>> \in M /\ <<b, c, u[3]>> \in M
    BY <1>2, <1>3, <1>6
  <1>8. ASSUME NEW branch, <<a, c, branch>> \in M, <<b, c, branch>> \in M PROVE FALSE
    <2>1. branch \in branches(a, c) /\ branch \in branches(b, c)
      BY <1>8
    <2> QED
      BY <1>1, <2>1
  <1>9. a # c
    <2>1. CASE a = c
      <3>1. <<c, c, t[3]>> \in M
        BY <1>7, <2>1
      <3>2. <<b, c, t[3]>> \in M
        BY <1>7, <3>1, LoopsMarkAll
      <3> QED
        BY <1>7, <1>8, <3>2
    <2> QED
      BY <2>1
  <1>10. b # c
    <2>1. CASE b = c
      <3>1. <<c, c, u[3]>> \in M
        BY <1>7, <2>1
      <3>2. <<a, c, u[3]>> \in M
        BY <1>7, <3>1, LoopsMarkAll
      <3> QED
        BY <1>7, <1>8, <3>2
    <2> QED
      BY <2>1
  <1> QED
    BY <1>4, <1>5, <1>8, <1>9, <1>10

\* Two sources that both ran were both reached over the branch that the
\* conditional excluding them took, which would mark both.
LEMMA TracedIsExclusive == RunInv /\ TraceInv => ExclusiveBranches
  <1> SUFFICES ASSUME RunInv, TraceInv, leg = "completed",
                      NEW e \in EndIds(wf), NEW i \in IncomingExecutable(wf, e),
                      NEW j \in IncomingExecutable(wf, e), i # j,
                      \A c \in SharedConditionals(wf.edges[i].source, wf.edges[j].source) :
                        /\ runs[c] <= 1
                        /\ {wf.edges[i].source, wf.edges[j].source} \cap ReachableAround(c) = {},
                      ~(runs[wf.edges[i].source] = 0), ~(runs[wf.edges[j].source] = 0)
               PROVE  FALSE
    BY DEF ExclusiveBranches
  <1> DEFINE a == wf.edges[i].source
             b == wf.edges[j].source
  <1>1. wf \in Workflow /\ ValidShape(wf) /\ ckpt.next = {}
    BY AllAreWorkflows DEF RunInv, TypeOK, Stage, Compiled, Compiles
  <1>2. MutuallyExclusive(BranchMarkers(wf), a, b)
    BY <1>1, SourcesExclude
  <1>3. PICK c \in Conditionals(wf) :
            /\ {a, b} \subseteq Closure(Hops(wf), Ids(wf), c)
            /\ a # c /\ b # c
            /\ \A branch : ~(<<a, c, branch>> \in BranchMarkers(wf) /\ <<b, c, branch>> \in BranchMarkers(wf))
    BY <1>2, ExcludingIs
  <1>4. runs[c] <= 1 /\ a \notin ReachableAround(c) /\ b \notin ReachableAround(c)
    BY <1>3 DEF SharedConditionals
  <1>5. a \in N /\ b \in N /\ c \in N
    BY <1>3 DEF IncomingExecutable, CleanEdges, Conditionals, N
  <1>6. runs[a] > 0 /\ runs[b] > 0 /\ runs[c] \in 0..2
    BY <1>5 DEF RunInv, TypeOK
  <1>7. a \in Behind(wf, c, took[c]) /\ b \in Behind(wf, c, took[c])
    BY <1>1, <1>3, <1>4, <1>5, <1>6 DEF TraceInv, Traced
  <1> QED
    BY <1>1, <1>3, <1>7, BehindIsMarked

\* In an accepted workflow the sources of two edges into one End never both run,
\* when every way to them passes the conditionals they share and none of those
\* runs twice (_branch_markers, _mutually_exclusive).
THEOREM SharedEndsExclude == Spec => []ExclusiveBranches
  <1>1. Init => TraceInv
    BY DEF Init, TraceInv, Traced, Conditionals, N
  <1>2. RunInv /\ TraceInv /\ [Next]_vars => TraceInv'
    BY RunsAreTraced
  <1> QED
    BY <1>1, <1>2, TracedIsExclusive, RunIsKept, PTL DEF Spec

-----------------------------------------------------------------------------
(* What the builder's repairs promise.                                     *)

\* What was drawn stays, and is what came of its draft.
DrawnInv ==
    \/ draft = Blank /\ wf \in Workflows
    \/ draft \in Drafts /\ wf = Normalize(draft)

\* The repairs are sound of whatever was drawn.
LEMMA DrawnIsSound == DrawnInv => RepairsAreSound
  <1> SUFFICES ASSUME DrawnInv PROVE RepairsAreSound
    OBVIOUS
  <1>1. ~ValidShape(Blank)
    <2>1. StartIndices(Blank) = {}
      BY DEF StartIndices, Blank
    <2>2. Cardinality(StartIndices(Blank)) # 1
      BY <2>1, FS_EmptySet
    <2> QED BY <2>2, ValidKeepsRules
  <1>2. draft # Blank => draft \in Draft /\ wf = Normalize(draft)
    BY GraphRunAssumption DEF DrawnInv
  <1>3. RepairsWiring
    BY <1>2, RepairableIsMended DEF RepairsWiring
  <1>4. LeavesSoundAlone
    <2> SUFFICES ASSUME ValidShape(draft), DeadEnds(draft) = {},
                        \A i \in DOMAIN draft.edges : draft.edges[i].source = StartId(draft)
                                                      => draft.edges[i].target \notin EndIds(draft)
                 PROVE  wf = draft
      BY DEF LeavesSoundAlone
    <2> QED BY <1>1, <1>2, SoundIsLeft
  <1> QED
    BY <1>3, <1>4 DEF RepairsAreSound

\* Safety of the builder's repairs (normalize.py:84-137): whatever the drafts, one
\* that has only the mistakes normalize_orchestration lists becomes a workflow that
\* passes the validation, and a valid one without them is left as it is.
THEOREM RepairsStaySound == Spec => []RepairsAreSound
  <1>1. Init => DrawnInv
    BY DEF Init, DrawnInv
  <1>2. Next => UNCHANGED drawn
    <2>1. ASSUME NEW n, NEW b, Execute(n, b) PROVE UNCHANGED drawn
      BY <2>1 DEF Execute, graphVars
    <2>2. ASSUME NEW n, \/ RunPlain(n) \/ RunIfElse(n) \/ RunWhile(n) \/ RunDecision(n) \/ RunApproval(n)
          PROVE  UNCHANGED drawn
      BY <2>1, <2>2 DEF RunPlain, RunIfElse, RunWhile, RunDecision, RunApproval
    <2>3. ASSUME NEW n, InterruptNode(n) \/ NodeRaises(n) \/ PutWrite(n) PROVE UNCHANGED drawn
      BY <2>3 DEF InterruptNode, NodeRaises, PutWrite, graphVars
    <2>4. ASSUME \/ CompileRaises \/ InvokeRun \/ InvokeResume \/ ResumeRaises \/ Superstep
                 \/ RecursionRaises \/ MarkCompleted \/ Pause
          PROVE  UNCHANGED drawn
      BY <2>4 DEF CompileRaises, InvokeRun, InvokeResume, ResumeRaises, Superstep, RecursionRaises,
                  MarkCompleted, Pause, graphVars
    <2>5. ASSUME WorkerDies \/ \E d \in {"approved", "rejected"} : Decide(d) PROVE UNCHANGED drawn
      BY <2>5 DEF WorkerDies, Decide, graphVars
    <2> QED BY <2>2, <2>3, <2>4, <2>5 DEF Next, Worker
  <1>3. DrawnInv /\ [Next]_vars => DrawnInv'
    BY <1>2 DEF vars, drawn, DrawnInv
  <1> QED
    BY <1>1, <1>3, DrawnIsSound, PTL DEF Spec

=============================================================================
