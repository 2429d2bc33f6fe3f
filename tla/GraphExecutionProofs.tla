------------------------ MODULE GraphExecutionProofs ------------------------
(***************************************************************************)
(* Proofs about GraphExecution for every set of graphs and any superstep   *)
(* limit: nothing is lost between the nodes, supersteps and deferral       *)
(* implement dependency order, and computeAncestors finds what lies above  *)
(* a node, in data-flow order.                                             *)
(***************************************************************************)
EXTENDS GraphExecution, FiniteSetTheorems, FunctionTheorems, WellFoundedInduction, TLAPS

(* The wiring of a graph that compiles stays within the graph: about        *)
(* StateGraph.compile and the edges of compiler.ts.                         *)
LEMMA TargetsAreNodes ==
    ASSUME NEW g, Compilable(g), NEW n \in g.nodes, NEW b \in Branches(g, n)
    PROVE  Targets(g, n, b) \subseteq g.nodes
BY DEF Compilable, StateGraphAccepts, WiredTargets, Branches, Labels

(* A superstep's nodes stay nodes of a graph that compiled.                 *)
LEMMA SchedType ==
    ASSUME SchedTypeOK, Compilable(graph), LimitAssumption,
           \/ Invoke
           \/ BeginSuperstep
           \/ \E n \in graph.nodes : \E b \in Branches(graph, n) : Complete(n, b)
           \/ EndSuperstep
    PROVE  SchedTypeOK' /\ graph' = graph
<1>1. CASE Invoke
  BY <1>1 DEF SchedTypeOK, Invoke, EntryNodes
<1>2. CASE BeginSuperstep
  BY <1>2 DEF SchedTypeOK, BeginSuperstep, Released, NextSuperstep, LimitAssumption
<1>3. ASSUME NEW n \in graph.nodes, NEW b \in Branches(graph, n), Complete(n, b)
      PROVE  SchedTypeOK' /\ graph' = graph
  BY <1>3, TargetsAreNodes DEF SchedTypeOK, Complete
<1>4. CASE EndSuperstep
  BY <1>4 DEF SchedTypeOK, EndSuperstep, AddHeld
<1> QED
  BY <1>1, <1>2, <1>3, <1>4

(* What was triggered is not lost, superstep by superstep.                  *)
FlowInv ==
    /\ IF active = {} THEN fired = {} ELSE ready = {}
    /\ EntryNodes(graph) \subseteq Reached
    /\ \A n \in outputs \cup done :
          \E b \in Branches(graph, n) : Targets(graph, n, b) \subseteq Reached

LEMMA SchedFlow ==
    ASSUME SchedTypeOK, FlowInv,
           \/ BeginSuperstep
           \/ \E n \in graph.nodes : \E b \in Branches(graph, n) : Complete(n, b)
           \/ EndSuperstep
    PROVE  FlowInv'
<1>1. /\ graph' = graph
      /\ Reached \subseteq Reached'
      /\ \A n \in outputs' \cup done' :
            \/ n \in outputs \cup done
            \/ \E b \in Branches(graph, n) : Targets(graph, n, b) \subseteq Reached'
      /\ IF active' = {} THEN fired' = {} ELSE ready' = {}
  <2> USE DEF Reached, FlowInv
  <2>1. CASE BeginSuperstep
    BY <2>1 DEF BeginSuperstep, Released
  <2>2. ASSUME NEW n \in graph.nodes, NEW b \in Branches(graph, n), Complete(n, b)
        PROVE  /\ graph' = graph
               /\ Reached \subseteq Reached'
               /\ \A m \in outputs' \cup done' :
                     \/ m \in outputs \cup done
                     \/ \E c \in Branches(graph, m) : Targets(graph, m, c) \subseteq Reached'
               /\ IF active' = {} THEN fired' = {} ELSE ready' = {}
    BY <2>2 DEF Complete
  <2>3. CASE EndSuperstep
    BY <2>3 DEF EndSuperstep, AddHeld, SchedTypeOK
  <2> QED
    BY <2>1, <2>2, <2>3
<1> QED
  BY <1>1 DEF FlowInv

LEMMA FinishedFlow == FlowInv /\ SchedTypeOK => NothingLost
<1> SUFFICES ASSUME FlowInv, SchedTypeOK, Finished PROVE NothingLost
  BY DEF NothingLost
<1>1. Reached = outputs
  BY DEF FlowInv, Finished, Reached
<1> QED
  BY <1>1 DEF FlowInv, NothingLost

-----------------------------------------------------------------------------
(* The scheduler alone.                                                     *)
ExecInv == SchedTypeOK /\ Compilable(graph) /\ FlowInv

LEMMA ExecInvariant == ExecSpec => []ExecInv
<1>1. ExecInit => ExecInv
  BY LimitAssumption
     DEF ExecInit, ExecInv, SchedTypeOK, FlowInv, Reached, EntryNodes, LimitAssumption
<1>2. ExecInv /\ [ExecNext]_execVars => ExecInv'
  <2> SUFFICES ASSUME ExecInv, [ExecNext]_execVars PROVE ExecInv'
    OBVIOUS
  <2>1. CASE ExecNext
    <3>1. \/ BeginSuperstep
          \/ \E n \in graph.nodes : \E b \in Branches(graph, n) : Complete(n, b)
          \/ EndSuperstep
      BY <2>1 DEF ExecNext, ExecInv, SchedTypeOK
    <3>2. SchedTypeOK' /\ graph' = graph
      BY <3>1, SchedType, LimitAssumption DEF ExecInv
    <3>3. FlowInv'
      BY <3>1, SchedFlow DEF ExecInv
    <3> QED
      BY <3>2, <3>3 DEF ExecInv
  <2>2. CASE UNCHANGED execVars
    BY <2>2 DEF execVars, ExecInv, SchedTypeOK, FlowInv, Reached
  <2> QED
    BY <2>1, <2>2
<1> QED
  BY <1>1, <1>2, PTL DEF ExecSpec

(* A superstep's nodes, and what they trigger, are nodes of the graph, and  *)
(* the superstep limit is kept: about a graph that compiled (compiler.ts).  *)
THEOREM ScheduleIsTyped == ExecSpec => []SchedTypeOK
<1>1. ExecInv => SchedTypeOK
  BY DEF ExecInv
<1> QED
  BY <1>1, ExecInvariant, PTL

(* A finished execution has lost nothing on the way, cyclic graphs and any  *)
(* choice of branches included: about deferred fan-in nodes and supersteps  *)
(* applied at once (compiler.ts).                                           *)
THEOREM NothingIsLost == ExecSpec => []NothingLost
<1>1. ExecInv => NothingLost
  BY FinishedFlow DEF ExecInv
<1> QED
  BY <1>1, ExecInvariant, PTL

-----------------------------------------------------------------------------
(* Reachability along edges: Descendants is closed under edges, transitive, *)
(* and ends with an edge.                                                   *)

LEMMA SuccessorsAreNodes ==
    ASSUME NEW g \in Graph, NEW n
    PROVE  Successors(g, n) \subseteq Node
<1> DEFINE E == [from : Node, to : Node, label : Labels]
<1>1. g.edges \in Seq(E)
  BY DEF Graph
<1>2. \A i \in DOMAIN g.edges : g.edges[i] \in E
  <2> HIDE DEF E
  <2> QED
    BY <1>1
<1> QED
  BY <1>2 DEF Successors, EdgesFrom

LEMMA DescendantsClosed ==
    ASSUME NEW g \in Graph, NEW n \in Node
    PROVE  /\ Descendants(g, n) \subseteq Node
           /\ Successors(g, n) \subseteq Descendants(g, n)
           /\ \A m \in Descendants(g, n) : Successors(g, m) \subseteq Descendants(g, n)
  BY SuccessorsAreNodes DEF Descendants

LEMMA DescendantsLeast ==
    ASSUME NEW g \in Graph, NEW n \in Node, NEW S \in SUBSET Node,
           Successors(g, n) \subseteq S,
           \A m \in S : Successors(g, m) \subseteq S
    PROVE  Descendants(g, n) \subseteq S
  BY DEF Descendants

LEMMA DescendantsTransitive ==
    ASSUME NEW g \in Graph, NEW n \in Node, NEW m \in Descendants(g, n)
    PROVE  Descendants(g, m) \subseteq Descendants(g, n)
  BY DescendantsClosed, DescendantsLeast

LEMMA DescendantsLastEdge ==
    ASSUME NEW g \in Graph, NEW n \in Node, NEW e \in Descendants(g, n)
    PROVE  Predecessors(g, e) \cap ({n} \cup Descendants(g, n)) # {}
<1> DEFINE S == {x \in Node : \E p \in {n} \cup Descendants(g, n) : x \in Successors(g, p)}
<1>1. S \subseteq Descendants(g, n)
  BY DescendantsClosed
<1>2. \A p \in {n} \cup Descendants(g, n) : Successors(g, p) \subseteq S
  BY SuccessorsAreNodes
<1>3. Descendants(g, n) \subseteq S
  <2> HIDE DEF S
  <2>1. S \subseteq Node /\ Successors(g, n) \subseteq S /\ \A m \in S : Successors(g, m) \subseteq S
    BY <1>1, <1>2, DescendantsClosed
  <2> QED
    BY <2>1, DescendantsLeast
<1>4. PICK p \in {n} \cup Descendants(g, n) : e \in Successors(g, p)
  BY <1>3
<1>5. p \in Predecessors(g, e)
  BY <1>4 DEF Successors, EdgesFrom, Predecessors, EdgesInto
<1> QED
  BY <1>5

(* A node that is no fan-in node has one predecessor at most.               *)
LEMMA OnePredecessor ==
    ASSUME NEW g, NEW n, ~IsFanIn(g, n), NEW p \in Predecessors(g, n), NEW q \in Predecessors(g, n)
    PROVE  p = q
  BY DEF IsFanIn, Predecessors

(* A completed node triggers only nodes its edges lead to.                  *)
LEMMA TargetsAreSuccessors ==
    ASSUME NEW g, NEW n, NEW b
    PROVE  Targets(g, n, b) \subseteq Successors(g, n)
  BY DEF Targets, BranchTarget, BranchEdges, Successors, EdgesFrom

-----------------------------------------------------------------------------
(* Supersteps and deferral implement dependency order.                      *)

Outstanding == ready \cup held \cup (active \ done) \cup fired
Executed == outputs \cup done

(* DagRun speaks of the same graphs.                                        *)
LEMMA DagGraph ==
    /\ Dag!Graph = Graph
    /\ \A g : Dag!EntryNodes(g) = EntryNodes(g)
    /\ \A g, n : Dag!Branches(g, n) = Branches(g, n)
    /\ \A g, n, b : Dag!Targets(g, n, b) = Targets(g, n, b)
    /\ \A g, n : Dag!Descendants(g, n) = Descendants(g, n)
<1>1. Dag!Graph = Graph
  BY DEF Dag!Graph, Graph, Dag!Labels, Labels
<1>2. \A g, n : Dag!EdgesInto(g, n) = EdgesInto(g, n) /\ Dag!EdgesFrom(g, n) = EdgesFrom(g, n)
  BY DEF Dag!EdgesInto, EdgesInto, Dag!EdgesFrom, EdgesFrom
<1>3. \A g : Dag!EntryNodes(g) = EntryNodes(g)
  BY <1>2 DEF Dag!EntryNodes, EntryNodes
<1>4. \A g, n : Dag!Branches(g, n) = Branches(g, n)
  BY DEF Dag!Branches, Branches
<1>5. \A g, n : Dag!Successors(g, n) = Successors(g, n)
  BY <1>2 DEF Dag!Successors, Successors
<1>6. \A g, n, b : Dag!Targets(g, n, b) = Targets(g, n, b)
  <2>1. \A g, n, b : Dag!BranchEdges(g, n, b) = BranchEdges(g, n, b)
    BY <1>2 DEF Dag!BranchEdges, BranchEdges
  <2>2. \A g, n, b : Dag!BranchTarget(g, n, b) = BranchTarget(g, n, b)
    BY <2>1 DEF Dag!BranchTarget, BranchTarget
  <2> QED
    BY <1>5, <2>2 DEF Dag!Targets, Targets
<1>7. \A g, n : Dag!Descendants(g, n) = Descendants(g, n)
  BY <1>5 DEF Dag!Descendants, Descendants
<1> QED
  BY <1>1, <1>3, <1>4, <1>6, <1>7

(* Fan-in nodes run apart from the others; what is pending was triggered by *)
(* an executed node, and nothing executed, nor anything of the superstep,   *)
(* can still be reached from it.                                            *)
OrderInv ==
    /\ \A n \in ready : ~IsFanIn(graph, n)
    /\ \A n \in held : IsFanIn(graph, n)
    /\ active \cap held = {}
    /\ fired \cap (active \ done) = {}
    /\ Outstanding \cap Executed = {}
    /\ \A n \in Outstanding :
          n \in EntryNodes(graph) \/ Predecessors(graph, n) \cap Executed # {}
    /\ \A m \in Outstanding, e \in Executed : e \notin Descendants(graph, m)
    /\ \A m \in Outstanding, n \in active \ done : n \notin Descendants(graph, m)

LEMMA OrderInit == ExecInit => OrderInv
<1> SUFFICES ASSUME ExecInit PROVE OrderInv
  OBVIOUS
<1>1. \A n \in EntryNodes(graph) : ~IsFanIn(graph, n)
  BY DEF EntryNodes, IsFanIn
<1> QED
  BY <1>1 DEF ExecInit, OrderInv, Outstanding, Executed

(* A superstep of nodes that wait for nothing: a plain node's predecessor   *)
(* has been executed, and when the fan-in nodes are released only they are  *)
(* left, one of which may lead to another only if all its edges come by it. *)
LEMMA BeginKeepsOrder ==
    ASSUME ExecInv, OrderInv, Ordered, BeginSuperstep
    PROVE  OrderInv' /\ Outstanding' = Outstanding /\ Executed' = Executed
<1>1. /\ graph' = graph /\ graph \in Graph /\ graph.nodes \subseteq Node
      /\ Acyclic(graph) /\ WellNested(graph)
  BY GraphsAssumption DEF BeginSuperstep, Ordered, OrderedGraphs, Graph
<1>2. /\ active = {} /\ done = {} /\ fired = {} /\ done' = {} /\ fired' = {}
      /\ outputs' = outputs
      /\ active' \subseteq ready \cup held /\ ready' = {} /\ held' = held \ active'
      /\ ready \subseteq active' \cup held
      /\ ready \cup held \subseteq graph.nodes
      /\ \/ active' = ready
         \/ ready = {} /\ active' = held
  BY DEF ExecInv, SchedTypeOK, FlowInv, BeginSuperstep, Released
<1>3. Outstanding' = Outstanding /\ Executed' = Executed /\ Outstanding = ready \cup held
  BY <1>2 DEF Outstanding, Executed
<1>4. ASSUME NEW m \in Outstanding, NEW n \in active', n \in Descendants(graph, m)
      PROVE  FALSE
  <2>1. m \in graph.nodes /\ m \in Node /\ n \in Outstanding
    BY <1>1, <1>2, <1>3, <1>4
  <2>2. PICK q \in {m} \cup Descendants(graph, m) : q \in Predecessors(graph, n)
    BY <1>1, <1>4, <2>1, DescendantsLastEdge
  <2>3. n \notin EntryNodes(graph)
    BY <2>2 DEF EntryNodes, Predecessors
  <2>4. PICK p \in Executed : p \in Predecessors(graph, n)
    BY <2>1, <2>3 DEF OrderInv
  <2>5. p # m /\ p \notin Descendants(graph, m)
    BY <2>4 DEF OrderInv
  <2>6. CASE active' = ready
    BY <1>4, <2>2, <2>4, <2>5, <2>6, OnePredecessor DEF OrderInv
  <2>7. CASE ready = {} /\ active' = held
    <3>1. IsFanIn(graph, m) /\ IsFanIn(graph, n)
      BY <1>3, <1>4, <2>7 DEF OrderInv
    <3>2. Predecessors(graph, n) \subseteq {m} \cup Descendants(graph, m)
      BY <1>1, <1>4, <2>1, <3>1 DEF WellNested
    <3> QED
      BY <2>4, <2>5, <3>2
  <2> QED
    BY <1>2, <2>6, <2>7
<1>5. active' \cap held' = {}
  BY <1>2
<1> QED
  BY <1>1, <1>2, <1>3, <1>4, <1>5 DEF OrderInv

(* What a node triggers is reachable from it, so it adds nothing that could *)
(* still lead to the rest of its superstep or to what has been executed.    *)
LEMMA CompleteKeepsOrder ==
    ASSUME ExecInv, OrderInv, Ordered, NEW n, NEW b, Complete(n, b)
    PROVE  OrderInv' /\ Dag!Execute(n, b)
<1> DEFINE T == Targets(graph, n, b)
<1>1. /\ graph' = graph /\ graph \in Graph /\ graph.nodes \subseteq Node
      /\ Acyclic(graph)
  BY GraphsAssumption DEF Complete, Ordered, OrderedGraphs, Graph
<1>2. /\ n \in active \ done /\ n \in graph.nodes /\ n \in Node /\ n \in Outstanding
      /\ ready = {} /\ ready' = {}
      /\ done' = done \cup {n} /\ fired' = fired \cup T
      /\ active' = active /\ held' = held /\ outputs' = outputs
  BY <1>1 DEF ExecInv, SchedTypeOK, FlowInv, Complete, Outstanding
<1>3. n \notin Descendants(graph, n)
  BY <1>1, <1>2 DEF Acyclic
<1>4. \A t \in T : t \in Descendants(graph, n) /\ t \in Successors(graph, n)
  BY <1>1, <1>2, TargetsAreSuccessors, DescendantsClosed
<1>5. \A t \in T : Descendants(graph, t) \subseteq Descendants(graph, n)
  BY <1>1, <1>2, <1>4, DescendantsTransitive
<1>6. n \notin held /\ n \notin fired /\ n \notin Executed
  BY <1>2 DEF OrderInv
<1>7. /\ Executed' = Executed \cup {n}
      /\ Outstanding' = (Outstanding \ {n}) \cup T
  BY <1>2, <1>6 DEF Executed, Outstanding
<1>8. \A t \in T : t \notin Executed /\ t \notin active \ done
  BY <1>2, <1>4 DEF OrderInv
<1>9. \A t \in T : n \in Predecessors(graph, t)
  BY <1>4 DEF Successors, EdgesFrom, Predecessors, EdgesInto
<1>10. OrderInv'
  <2> HIDE DEF T
  <2>1. /\ \A m \in ready' : ~IsFanIn(graph', m)
        /\ \A m \in held' : IsFanIn(graph', m)
        /\ active' \cap held' = {}
    BY <1>1, <1>2 DEF OrderInv
  <2>2. fired' \cap (active' \ done') = {}
    BY <1>2, <1>8 DEF OrderInv
  <2>3. Outstanding' \cap Executed' = {}
    BY <1>3, <1>4, <1>7, <1>8 DEF OrderInv
  <2>4. ASSUME NEW m \in Outstanding'
        PROVE  m \in EntryNodes(graph') \/ Predecessors(graph', m) \cap Executed' # {}
    BY <1>1, <1>7, <1>9 DEF OrderInv
  <2>5. ASSUME NEW m \in Outstanding', NEW e \in Executed'
        PROVE  e \notin Descendants(graph', m)
    BY <1>1, <1>2, <1>3, <1>5, <1>7 DEF OrderInv
  <2>6. ASSUME NEW m \in Outstanding', NEW r \in active' \ done'
        PROVE  r \notin Descendants(graph', m)
    BY <1>1, <1>2, <1>5, <1>7 DEF OrderInv
  <2> QED
    BY <2>1, <2>2, <2>3, <2>4, <2>5, <2>6 DEF OrderInv
<1>11. Dag!Execute(n, b)
  <2>1. \A m \in Outstanding : n \notin Descendants(graph, m)
    BY <1>2 DEF OrderInv
  <2>2. Ordered' <=> Ordered
    BY <1>1 DEF Ordered
  <2> QED
    BY <1>1, <1>2, <1>6, <1>7, <2>1, <2>2, DagGraph DEF Dag!Execute, Dag!Settled, Outstanding, Executed
<1> QED
  BY <1>10, <1>11

LEMMA EndKeepsOrder ==
    ASSUME ExecInv, OrderInv, EndSuperstep
    PROVE  OrderInv' /\ Outstanding' = Outstanding /\ Executed' = Executed
<1>1. /\ graph' = graph /\ done = active /\ ready = {}
      /\ active' = {} /\ done' = {} /\ fired' = {} /\ outputs' = outputs \cup active
      /\ ready' = {m \in fired : ~IsFanIn(graph, m)}
      /\ held' = held \cup {m \in fired : IsFanIn(graph, m)}
  BY DEF ExecInv, FlowInv, EndSuperstep, AddHeld
<1>2. Outstanding' = Outstanding /\ Executed' = Executed
  BY <1>1 DEF Outstanding, Executed
<1> QED
  BY <1>1, <1>2 DEF OrderInv

(* Every step is one of DagRun or leaves it alone.                          *)
LEMMA StepOfDag ==
    ASSUME ExecInv, Ordered => OrderInv, [ExecNext]_execVars
    PROVE  (Ordered' => OrderInv') /\ [Dag!Next]_(Dag!vars)
<1>1. graph' = graph /\ (Ordered' <=> Ordered)
  BY DEF ExecNext, BeginSuperstep, Complete, EndSuperstep, execVars, Ordered
<1>2. CASE ~Ordered
  BY <1>1, <1>2 DEF Dag!vars
<1>3. ASSUME Ordered, graph' = graph, Outstanding' = Outstanding, Executed' = Executed
      PROVE  UNCHANGED Dag!vars
  BY <1>1, <1>3 DEF Dag!vars, Outstanding, Executed
<1>4. CASE Ordered
  <2>1. CASE BeginSuperstep
    BY <1>1, <1>3, <1>4, <2>1, BeginKeepsOrder
  <2>2. ASSUME NEW n \in active, NEW b \in Branches(graph, n), Complete(n, b)
        PROVE  OrderInv' /\ Dag!Next
    <3>1. OrderInv' /\ Dag!Execute(n, b)
      BY <1>4, <2>2, CompleteKeepsOrder
    <3>2. n \in graph.nodes
      BY DEF ExecInv, SchedTypeOK
    <3> QED
      BY <1>4, <3>1, <3>2, DagGraph DEF Dag!Next
  <2>3. CASE EndSuperstep
    BY <1>1, <1>3, <1>4, <2>3, EndKeepsOrder
  <2>4. CASE UNCHANGED execVars
    <3>1. OrderInv' /\ Outstanding' = Outstanding /\ Executed' = Executed
      BY <1>4, <2>4 DEF execVars, OrderInv, Outstanding, Executed
    <3> QED
      BY <1>1, <1>3, <1>4, <3>1
  <2> QED
    BY <1>4, <2>1, <2>2, <2>3, <2>4 DEF ExecNext
<1> QED
  BY <1>2, <1>4

(* On a well-nested acyclic graph every reached node is executed once, and  *)
(* after everything that could still feed it: the safety part of DagSpec,   *)
(* about what `defer` is for (compiler.ts).                                 *)
THEOREM ImplementsDag == ExecSpec => Dag!Init /\ [][Dag!Next]_(Dag!vars)
<1>1. ExecInit => (Ordered => OrderInv) /\ Dag!Init
  <2> SUFFICES ASSUME ExecInit PROVE (Ordered => OrderInv) /\ Dag!Init
    OBVIOUS
  <2>1. NoGraph \in Graph /\ EntryNodes(NoGraph) = {}
    BY DEF NoGraph, Graph, EntryNodes
  <2>2. Dag!Init
    BY <2>1, GraphsAssumption, DagGraph DEF ExecInit, Dag!Init
  <2> QED
    BY <2>2, OrderInit
<1>2. ExecInv /\ (Ordered => OrderInv) /\ [ExecNext]_execVars
         => (Ordered => OrderInv)' /\ [Dag!Next]_(Dag!vars)
  BY StepOfDag
<1> QED
  BY <1>1, <1>2, ExecInvariant, PTL DEF ExecSpec

-----------------------------------------------------------------------------
(* What a loop has done after k iterations is proved by induction on k. The *)
(* library's theorem for it takes a predicate; these speak of the set of    *)
(* the numbers that have it, and rest on the order of the naturals.         *)
LEMMA LeastNatural ==
    ASSUME NEW S, S \subseteq Nat, S # {}
    PROVE  \E m \in S : \A k \in S : m <= k
<1> DEFINE R == OpToRel(<, Nat)
<1>1. IsWellFoundedOn(R, Nat)
  BY NatLessThanWellFounded
<1>2. \A x, y \in Nat : x < y => <<x, y>> \in R
  BY DEF OpToRel
<1> HIDE DEF R
<1>3. PICK m \in S : \A k \in S : ~(<<k, m>> \in R)
  BY <1>1, WFMin
<1>4. \A k \in S : ~(k < m)
  BY <1>2, <1>3
<1>5. \A k \in S : k \in Nat
  OBVIOUS
<1> QED
  BY <1>4, <1>5

(* Induction over the naturals for a set of them.                           *)
LEMMA Induction ==
    ASSUME NEW S, 0 \in S, \A k \in Nat : k \in S => k + 1 \in S
    PROVE  \A k \in Nat : k \in S
<1> SUFFICES ASSUME Nat \ S # {}
             PROVE  FALSE
  OBVIOUS
<1>1. PICK m \in Nat \ S : \A k \in Nat \ S : m <= k
  BY LeastNatural
<1>2. m # 0 /\ m - 1 \in Nat
  OBVIOUS
<1>3. m - 1 \in S
  BY <1>1, <1>2
<1> QED
  BY <1>2, <1>3

(* A step that stays within S can be iterated.                              *)
LEMMA Iteration ==
    ASSUME NEW S, NEW step \in [S -> S], NEW start \in S
    PROVE  \E f \in [Nat -> S] :
              f = [k \in Nat |-> IF k = 0 THEN start ELSE step[f[k - 1]]]
<1> DEFINE P(h, k) == /\ h \in [0..k -> S]
                      /\ h[0] = start
                      /\ \A i \in 1..k : h[i] = step[h[i - 1]]
           Known == {k \in Nat : \E h : P(h, k)}
           H(k) == CHOOSE h : P(h, k)
<1>1. \A k \in Nat : k \in Known
  <2>1. 0 \in Known
    <3> DEFINE h == [i \in 0..0 |-> start]
    <3>1. P(h, 0)
      OBVIOUS
    <3> HIDE DEF h
    <3> QED
      BY <3>1
  <2>2. ASSUME NEW k \in Nat, k \in Known
        PROVE  k + 1 \in Known
    <3>1. PICK h : P(h, k)
      BY <2>2
    <3> DEFINE h1 == [i \in 0..(k + 1) |-> IF i = k + 1 THEN step[h[k]] ELSE h[i]]
    <3>2. h[k] \in S
      BY <3>1
    <3>3. h1 \in [0..(k + 1) -> S]
      BY <3>1, <3>2
    <3>4. h1[0] = start
      BY <3>1
    <3>5. ASSUME NEW i \in 1..(k + 1)
          PROVE  h1[i] = step[h1[i - 1]]
      <4>1. CASE i = k + 1
        <5>1. h1[i] = step[h[k]]
          BY <4>1
        <5>2. i - 1 \in 0..(k + 1) /\ i - 1 # k + 1 /\ i - 1 = k
          BY <4>1
        <5>3. h1[i - 1] = h[i - 1]
          BY <5>2
        <5> HIDE DEF h1
        <5> QED
          BY <5>1, <5>2, <5>3
      <4>2. CASE i # k + 1
        <5>1. i \in 1..k /\ i \in 0..(k + 1) /\ i - 1 \in 0..(k + 1) /\ i - 1 # k + 1
          BY <4>2
        <5>2. h1[i] = h[i] /\ h1[i - 1] = h[i - 1]
          BY <4>2, <5>1
        <5> HIDE DEF h1
        <5> QED
          BY <3>1, <5>1, <5>2
      <4> QED
        BY <4>1, <4>2
    <3> HIDE DEF h1
    <3>6. P(h1, k + 1)
      BY <3>3, <3>4, <3>5
    <3> QED
      BY <3>6
  <2> HIDE DEF Known
  <2> QED
    BY <2>1, <2>2, Induction
<1>2. \A k \in Nat : P(H(k), k)
  <2> SUFFICES ASSUME NEW k \in Nat
               PROVE  P(H(k), k)
    OBVIOUS
  <2>1. \E h : P(h, k)
    BY <1>1
  <2> QED
    BY <2>1
<1> HIDE DEF H
<1>3. ASSUME NEW k \in Nat
      PROVE  H(k + 1)[k] = H(k)[k]
  <2> DEFINE Same == {i \in Nat : i <= k => H(k + 1)[i] = H(k)[i]}
  <2>1. 0 \in Same
    BY <1>2
  <2>2. ASSUME NEW i \in Nat, i \in Same
        PROVE  i + 1 \in Same
    <3>1. CASE i + 1 <= k
      <4>1. i + 1 \in 1..k /\ i + 1 \in 1..(k + 1) /\ (i + 1) - 1 = i /\ i <= k
        BY <3>1
      <4>2. H(k + 1)[i + 1] = step[H(k + 1)[i]]
        BY <1>2, <4>1
      <4>3. H(k)[i + 1] = step[H(k)[i]]
        BY <1>2, <4>1
      <4>4. H(k + 1)[i] = H(k)[i]
        BY <2>2, <4>1
      <4> QED
        BY <4>2, <4>3, <4>4
    <3> QED
      BY <3>1
  <2> HIDE DEF Same
  <2>3. k \in Same
    BY <2>1, <2>2, Induction
  <2> QED
    BY <2>3 DEF Same
<1> DEFINE f == [k \in Nat |-> H(k)[k]]
<1>4. f \in [Nat -> S]
  BY <1>2
<1>5. ASSUME NEW k \in Nat
      PROVE  f[k] = IF k = 0 THEN start ELSE step[f[k - 1]]
  <2>1. CASE k = 0
    BY <1>2, <2>1
  <2>2. CASE k # 0
    <3>1. k - 1 \in Nat /\ (k - 1) + 1 = k /\ k \in 1..k
      BY <2>2
    <3>2. H(k)[k] = step[H(k)[k - 1]]
      BY <1>2, <3>1
    <3>3. H(k)[k - 1] = H(k - 1)[k - 1]
      BY <1>3, <3>1
    <3>4. f[k - 1] = H(k - 1)[k - 1]
      BY <3>1
    <3> QED
      BY <2>2, <3>2, <3>3, <3>4
  <2> QED
    BY <2>1, <2>2
<1> HIDE DEF f
<1>6. f = [k \in Nat |-> IF k = 0 THEN start ELSE step[f[k - 1]]]
  BY <1>4, <1>5
<1> QED
  BY <1>4, <1>6

(* A finite set in some order.                                              *)
LEMMA SetToSeqLists ==
    ASSUME NEW S, IsFiniteSet(S)
    PROVE  LET s == SetToSeq(S) IN
           /\ s \in Seq(S) /\ Len(s) = Cardinality(S)
           /\ \A i, j \in DOMAIN s : s[i] = s[j] => i = j
           /\ \A x \in S : \E i \in DOMAIN s : s[i] = x
<1> DEFINE c == Cardinality(S)
           s == SetToSeq(S)
<1>1. c \in Nat
  BY FS_CardinalityType
<1>2. PICK b : b \in Bijection(1..c, S)
  BY FS_CardinalityType DEF ExistsBijection
<1>3. b \in [1..c -> S] /\ IsInjective(b)
  BY <1>2 DEF Bijection, Injection, IsInjective
<1>4. s \in [1..c -> S] /\ IsInjective(s)
  BY <1>3 DEF SetToSeq
<1> HIDE DEF s
<1>5. s \in Seq(S) /\ Len(s) = c /\ DOMAIN s = 1..c
  BY <1>1, <1>4
<1>6. \A i, j \in DOMAIN s : s[i] = s[j] => i = j
  BY <1>4 DEF IsInjective
<1>7. IsFiniteSet(1..c) /\ Cardinality(1..c) = c
  BY <1>1, FS_Interval
<1>8. s \in Injection(1..c, S)
  BY <1>4 DEF IsInjective, Injection
<1>9. s \in Surjection(1..c, S)
  BY <1>7, <1>8, FS_Injection
<1> QED
  BY <1>5, <1>6, <1>9 DEF s, Surjection

(* What is left of a queue, and what is appended to it.                     *)
LEMMA TailOfSeq ==
    ASSUME NEW S, NEW s \in Seq(S), s # <<>>
    PROVE  /\ Head(s) \in S /\ Head(s) = s[1] /\ 1 \in DOMAIN s
           /\ Tail(s) \in Seq(S) /\ Len(Tail(s)) = Len(s) - 1 /\ Len(s) \in Nat \ {0}
           /\ DOMAIN s = 1..Len(s) /\ DOMAIN Tail(s) = 1..(Len(s) - 1)
           /\ \A i \in DOMAIN Tail(s) : i + 1 \in DOMAIN s /\ Tail(s)[i] = s[i + 1]
           /\ \A i \in DOMAIN s \ {1} : i - 1 \in DOMAIN Tail(s) /\ Tail(s)[i - 1] = s[i]
<1>1. Len(s) \in Nat \ {0} /\ DOMAIN s = 1..Len(s) /\ s[1] \in S /\ Head(s) = s[1]
  OBVIOUS
<1>2. Tail(s) \in Seq(S) /\ Len(Tail(s)) = Len(s) - 1 /\ DOMAIN Tail(s) = 1..(Len(s) - 1)
  BY <1>1
<1>3. \A i \in 1..(Len(s) - 1) : Tail(s)[i] = s[i + 1]
  BY <1>1
<1>4. \A i \in 1..(Len(s) - 1) : i + 1 \in 1..Len(s)
  BY <1>1
<1>5. \A i \in 1..Len(s) \ {1} : i - 1 \in 1..(Len(s) - 1) /\ (i - 1) + 1 = i
  BY <1>1
<1> QED
  BY <1>1, <1>2, <1>3, <1>4, <1>5

(* What a concatenation consists of.                                        *)
LEMMA ConcatOfSeqs ==
    ASSUME NEW S, NEW s \in Seq(S), NEW t \in Seq(S)
    PROVE  /\ s \o t \in Seq(S) /\ Len(s \o t) = Len(s) + Len(t)
           /\ Len(s) \in Nat /\ Len(t) \in Nat
           /\ \A i \in DOMAIN (s \o t) :
                 \/ i \in DOMAIN s /\ (s \o t)[i] = s[i]
                 \/ i - Len(s) \in DOMAIN t /\ (s \o t)[i] = t[i - Len(s)]
           /\ \A i \in DOMAIN s : i \in DOMAIN (s \o t) /\ (s \o t)[i] = s[i]
           /\ \A i \in DOMAIN t :
                 i + Len(s) \in DOMAIN (s \o t) /\ (s \o t)[i + Len(s)] = t[i]
  OBVIOUS

(* An edge joins two ids.                                                   *)
LEMMA EdgesAreFinite ==
    ASSUME NEW g \in Graph
    PROVE  /\ DOMAIN g.edges = 1..Len(g.edges) /\ Len(g.edges) \in Nat
           /\ IsFiniteSet(DOMAIN g.edges) /\ Cardinality(DOMAIN g.edges) = Len(g.edges)
           /\ \A e \in DOMAIN g.edges : g.edges[e].from \in Node /\ g.edges[e].to \in Node
<1> DEFINE E == [from : Node, to : Node, label : Labels]
<1>1. g.edges \in Seq(E)
  BY DEF Graph
<1>2. \A e \in DOMAIN g.edges : g.edges[e] \in E
  <2> HIDE DEF E
  <2> QED
    BY <1>1
<1>3. DOMAIN g.edges = 1..Len(g.edges) /\ Len(g.edges) \in Nat
  <2> HIDE DEF E
  <2> QED
    BY <1>1
<1>4. IsFiniteSet(1..Len(g.edges)) /\ Cardinality(1..Len(g.edges)) = Len(g.edges)
  <2> DEFINE c == Len(g.edges)
  <2>1. c \in Nat
    BY <1>3
  <2> HIDE DEF c
  <2>2. IsFiniteSet(1..c) /\ Cardinality(1..c) = c
    BY <2>1, FS_Interval
  <2> QED
    BY <2>2 DEF c
<1> QED
  BY <1>2, <1>3, <1>4

-----------------------------------------------------------------------------
(* The search finds what lies above the node, and then it has ended.        *)
SearchStates(g) == [queue : Seq(DOMAIN g.edges), found : SUBSET Node]

(* What was found lies above n. An edge that leads to n, or to something    *)
(* found, is in the queue, or starts at something found.                    *)
SearchInv(g, n, s) ==
    /\ s \in SearchStates(g)
    /\ \A a \in s.found : n \in Descendants(g, a)
    /\ s.found \subseteq {g.edges[e].from : e \in DOMAIN g.edges}
    /\ \A i \in DOMAIN s.queue : g.edges[s.queue[i]].to \in {n} \cup s.found
    /\ \A e \in DOMAIN g.edges :
          g.edges[e].to \in {n} \cup s.found =>
              g.edges[e].from \in s.found \/ \E i \in DOMAIN s.queue : s.queue[i] = e

(* Entries in the queue, and entries to come.                               *)
Unsearched(g, s) == {e \in DOMAIN g.edges : g.edges[e].to \notin s.found}
Rank(g, s) == Len(s.queue) + Cardinality(Unsearched(g, s))

(* The rank of a state of the search is a number.                           *)
LEMMA RankType ==
    ASSUME NEW g \in Graph, NEW s \in SearchStates(g)
    PROVE  /\ Len(s.queue) \in Nat
           /\ IsFiniteSet(Unsearched(g, s)) /\ Cardinality(Unsearched(g, s)) \in Nat
           /\ Cardinality(Unsearched(g, s)) <= Len(g.edges)
  BY EdgesAreFinite, FS_Subset, FS_CardinalityType DEF SearchStates, Unsearched

(* The edges an id enters, in some order.                                   *)
LEMMA EnteredEdges ==
    ASSUME NEW g \in Graph, NEW n, NEW found
    PROVE  LET E == EdgesFromOutside(g, n, found) IN
           /\ SetToSeq(E) \in Seq(DOMAIN g.edges)
           /\ Len(SetToSeq(E)) = Cardinality(E)
           /\ \A i \in DOMAIN SetToSeq(E) : SetToSeq(E)[i] \in E
           /\ \A e \in E : \E i \in DOMAIN SetToSeq(E) : SetToSeq(E)[i] = e
<1> DEFINE E == EdgesFromOutside(g, n, found)
<1>1. E \subseteq DOMAIN g.edges
  BY DEF EdgesFromOutside, EdgesInto
<1>2. IsFiniteSet(E)
  BY <1>1, EdgesAreFinite, FS_Subset
<1> HIDE DEF E
<1>3. SetToSeq(E) \in Seq(E) /\ Len(SetToSeq(E)) = Cardinality(E)
  BY <1>2, SetToSeqLists
<1>4. \A e \in E : \E i \in DOMAIN SetToSeq(E) : SetToSeq(E)[i] = e
  BY <1>2, SetToSeqLists
<1>5. SetToSeq(E) \in Seq(DOMAIN g.edges)
  BY <1>1, <1>3
<1> QED
  BY <1>3, <1>4, <1>5 DEF E

(* What an edge leads to lies below where it comes from.                    *)
LEMMA EdgesLeadDown ==
    ASSUME NEW g \in Graph, NEW e \in DOMAIN g.edges, NEW n \in Node,
           n = g.edges[e].to \/ n \in Descendants(g, g.edges[e].to)
    PROVE  n \in Descendants(g, g.edges[e].from)
<1>1. g.edges[e].from \in Node /\ g.edges[e].to \in Node
  BY EdgesAreFinite
<1>2. g.edges[e].to \in Successors(g, g.edges[e].from)
  BY DEF Successors, EdgesFrom
<1>3. g.edges[e].to \in Descendants(g, g.edges[e].from)
  BY <1>1, <1>2, DescendantsClosed
<1> QED
  BY <1>1, <1>3, DescendantsTransitive

(* One iteration keeps the invariant and lowers the rank.                   *)
LEMMA VisitStep ==
    ASSUME NEW g \in Graph, NEW n \in Node, NEW s, SearchInv(g, n, s), s.queue # <<>>
    PROVE  SearchInv(g, n, Visit(g, s)) /\ Rank(g, Visit(g, s)) + 1 <= Rank(g, s)
<1> DEFINE e0 == Head(s.queue)
           id == g.edges[e0].from
           t == Visit(g, s)
<1>1. s \in SearchStates(g) /\ s.queue \in Seq(DOMAIN g.edges) /\ s.found \subseteq Node
  BY DEF SearchInv, SearchStates
<1>2. /\ e0 \in DOMAIN g.edges /\ e0 = s.queue[1] /\ 1 \in DOMAIN s.queue
      /\ Tail(s.queue) \in Seq(DOMAIN g.edges) /\ Len(Tail(s.queue)) = Len(s.queue) - 1
      /\ \A i \in DOMAIN Tail(s.queue) :
            i + 1 \in DOMAIN s.queue /\ Tail(s.queue)[i] = s.queue[i + 1]
      /\ \A i \in DOMAIN s.queue \ {1} :
            i - 1 \in DOMAIN Tail(s.queue) /\ Tail(s.queue)[i - 1] = s.queue[i]
      /\ Len(s.queue) \in Nat
  BY <1>1, TailOfSeq
<1>3. id \in Node /\ g.edges[e0].to \in Node
  BY <1>2, EdgesAreFinite
<1>4. g.edges[e0].to \in {n} \cup s.found
  BY <1>2 DEF SearchInv
<1>5. n \in Descendants(g, id)
  <2>1. n = g.edges[e0].to \/ n \in Descendants(g, g.edges[e0].to)
    BY <1>4 DEF SearchInv
  <2> QED
    BY <1>2, <2>1, EdgesLeadDown
<1>6. s = [queue |-> s.queue, found |-> s.found]
  BY <1>1 DEF SearchStates
<1>7. CASE id \in s.found
  <2>1. t = [queue |-> Tail(s.queue), found |-> s.found]
    BY <1>6, <1>7 DEF Visit
  <2>2. t \in SearchStates(g)
    BY <1>1, <1>2, <2>1 DEF SearchStates
  <2> HIDE DEF t
  <2>3. \A e \in DOMAIN g.edges :
            g.edges[e].to \in {n} \cup t.found =>
                g.edges[e].from \in t.found \/ \E i \in DOMAIN t.queue : t.queue[i] = e
    <3> SUFFICES ASSUME NEW e \in DOMAIN g.edges, g.edges[e].to \in {n} \cup s.found,
                        g.edges[e].from \notin s.found
                 PROVE  \E i \in DOMAIN t.queue : t.queue[i] = e
      BY <2>1
    <3>1. PICK i \in DOMAIN s.queue : s.queue[i] = e
      BY DEF SearchInv
    <3>2. i # 1
      BY <1>2, <1>7, <3>1
    <3> QED
      BY <1>2, <2>1, <3>1, <3>2
  <2>4. \A i \in DOMAIN t.queue : g.edges[t.queue[i]].to \in {n} \cup t.found
    BY <1>2, <2>1 DEF SearchInv
  <2>5. SearchInv(g, n, t)
    BY <2>1, <2>2, <2>3, <2>4 DEF SearchInv
  <2>6. Unsearched(g, t) = Unsearched(g, s)
    BY <2>1 DEF Unsearched
  <2>7. Rank(g, t) + 1 <= Rank(g, s)
    BY <1>1, <1>2, <2>1, <2>6, RankType DEF Rank
  <2> QED
    BY <2>5, <2>7 DEF t
<1>8. CASE id \notin s.found
  <2> DEFINE ancestors == s.found \cup {id}
             E == EdgesFromOutside(g, id, ancestors)
             added == SetToSeq(E)
             queue == Tail(s.queue) \o added
  <2>1. t = [queue |-> queue, found |-> ancestors]
    BY <1>8 DEF Visit
  <2>2. /\ added \in Seq(DOMAIN g.edges) /\ Len(added) = Cardinality(E)
        /\ \A i \in DOMAIN added : added[i] \in E
        /\ \A e \in E : \E i \in DOMAIN added : added[i] = e
    <3> HIDE DEF ancestors, id
    <3> QED
      BY EnteredEdges
  <2> HIDE DEF t, added
  <2>3. /\ queue \in Seq(DOMAIN g.edges)
        /\ Len(queue) = Len(Tail(s.queue)) + Len(added)
        /\ Len(added) \in Nat /\ Len(Tail(s.queue)) \in Nat
        /\ \A i \in DOMAIN queue :
              \/ i \in DOMAIN Tail(s.queue) /\ queue[i] = Tail(s.queue)[i]
              \/ i - Len(Tail(s.queue)) \in DOMAIN added
                 /\ queue[i] = added[i - Len(Tail(s.queue))]
        /\ \A i \in DOMAIN Tail(s.queue) : i \in DOMAIN queue /\ queue[i] = Tail(s.queue)[i]
        /\ \A i \in DOMAIN added :
              /\ i + Len(Tail(s.queue)) \in DOMAIN queue
              /\ queue[i + Len(Tail(s.queue))] = added[i]
    <3> DEFINE tail == Tail(s.queue)
               D == DOMAIN g.edges
    <3>1. tail \in Seq(D) /\ added \in Seq(D)
      BY <1>2, <2>2
    <3> HIDE DEF tail, D
    <3>2. /\ tail \o added \in Seq(D) /\ Len(tail \o added) = Len(tail) + Len(added)
          /\ Len(tail) \in Nat /\ Len(added) \in Nat
      BY <3>1, ConcatOfSeqs
    <3>3. \A i \in DOMAIN (tail \o added) :
              \/ i \in DOMAIN tail /\ (tail \o added)[i] = tail[i]
              \/ i - Len(tail) \in DOMAIN added /\ (tail \o added)[i] = added[i - Len(tail)]
      BY <3>1, ConcatOfSeqs
    <3>4. \A i \in DOMAIN tail : i \in DOMAIN (tail \o added) /\ (tail \o added)[i] = tail[i]
      BY <3>1, ConcatOfSeqs
    <3>5. \A i \in DOMAIN added :
              /\ i + Len(tail) \in DOMAIN (tail \o added)
              /\ (tail \o added)[i + Len(tail)] = added[i]
      BY <3>1, ConcatOfSeqs
    <3> QED
      BY <3>2, <3>3, <3>4, <3>5 DEF tail, D
  <2> HIDE DEF queue
  <2>4. t \in SearchStates(g) /\ t.queue = queue /\ t.found = ancestors
    BY <1>1, <1>3, <2>1, <2>3 DEF SearchStates
  <2>5. \A e \in E : e \in DOMAIN g.edges /\ g.edges[e].to = id /\ g.edges[e].from \notin ancestors
    BY DEF EdgesFromOutside, EdgesInto
  <2>6. \A e \in DOMAIN g.edges :
            g.edges[e].to = id /\ g.edges[e].from \notin ancestors => e \in E
    BY DEF EdgesFromOutside, EdgesInto
  <2> HIDE DEF E
  <2>7. \A a \in ancestors : n \in Descendants(g, a)
    BY <1>5 DEF SearchInv
  <2>8. ancestors \subseteq {g.edges[e].from : e \in DOMAIN g.edges}
    BY <1>2 DEF SearchInv
  <2>9. \A i \in DOMAIN queue : g.edges[queue[i]].to \in {n} \cup ancestors
    <3> SUFFICES ASSUME NEW i \in DOMAIN queue
                 PROVE  g.edges[queue[i]].to \in {n} \cup ancestors
      OBVIOUS
    <3>1. CASE i \in DOMAIN Tail(s.queue) /\ queue[i] = Tail(s.queue)[i]
      <4>1. i + 1 \in DOMAIN s.queue /\ queue[i] = s.queue[i + 1]
        BY <1>2, <3>1
      <4> QED
        BY <4>1 DEF SearchInv
    <3>2. CASE queue[i] \in E
      BY <2>5, <3>2
    <3> QED
      BY <2>2, <2>3, <3>1, <3>2
  <2>10. \A e \in DOMAIN g.edges :
            g.edges[e].to \in {n} \cup ancestors =>
                g.edges[e].from \in ancestors \/ \E i \in DOMAIN queue : queue[i] = e
    <3> SUFFICES ASSUME NEW e \in DOMAIN g.edges, g.edges[e].to \in {n} \cup ancestors,
                        g.edges[e].from \notin ancestors
                 PROVE  \E i \in DOMAIN queue : queue[i] = e
      OBVIOUS
    <3>1. CASE g.edges[e].to = id
      <4>1. e \in E
        BY <2>6, <3>1
      <4>2. PICK i \in DOMAIN added : added[i] = e
        BY <2>2, <4>1
      <4> QED
        BY <2>3, <4>2
    <3>2. CASE g.edges[e].to \in {n} \cup s.found
      <4>1. PICK i \in DOMAIN s.queue : s.queue[i] = e
        BY <3>2 DEF SearchInv
      <4>2. i # 1
        BY <1>2, <4>1
      <4>3. i - 1 \in DOMAIN Tail(s.queue) /\ Tail(s.queue)[i - 1] = e
        BY <1>2, <4>1, <4>2
      <4> QED
        BY <2>3, <4>3
    <3> QED
      BY <3>1, <3>2
  <2>11. SearchInv(g, n, t)
    BY <2>4, <2>7, <2>8, <2>9, <2>10 DEF SearchInv
  <2>12. Cardinality(E) + Cardinality(Unsearched(g, t)) <= Cardinality(Unsearched(g, s))
    <3>1. E \subseteq Unsearched(g, s) /\ Unsearched(g, t) \subseteq Unsearched(g, s)
      BY <1>8, <2>4, <2>5 DEF Unsearched
    <3>2. E \cap Unsearched(g, t) = {}
      BY <2>4, <2>5 DEF Unsearched
    <3>3. /\ IsFiniteSet(Unsearched(g, s)) /\ Cardinality(Unsearched(g, s)) \in Nat
          /\ IsFiniteSet(Unsearched(g, t)) /\ Cardinality(Unsearched(g, t)) \in Nat
      BY <1>1, <2>4, RankType
    <3>4. IsFiniteSet(E) /\ Cardinality(E) \in Nat
      BY <3>1, <3>3, FS_Subset, FS_CardinalityType
    <3>5. Cardinality(E \cap Unsearched(g, t)) = 0
      BY <3>2, FS_EmptySet
    <3>6. Cardinality(E \cup Unsearched(g, t))
            = Cardinality(E) + Cardinality(Unsearched(g, t))
      <4> DEFINE U == Unsearched(g, t)
      <4>1. Cardinality(E \cup U) = Cardinality(E) + Cardinality(U) - Cardinality(E \cap U)
        <5> HIDE DEF U
        <5> QED
          BY <3>3, <3>4, FS_Union DEF U
      <4> QED
        BY <3>3, <3>4, <3>5, <4>1
    <3>7. Cardinality(E \cup Unsearched(g, t)) <= Cardinality(Unsearched(g, s))
      <4>1. E \cup Unsearched(g, t) \in SUBSET Unsearched(g, s)
        BY <3>1
      <4> QED
        BY <3>3, <4>1, FS_Subset
    <3> QED
      BY <3>6, <3>7
  <2>13. Cardinality(E) \in Nat
    BY <2>2, <2>3
  <2>14. Rank(g, t) + 1 <= Rank(g, s)
    <3>1. Cardinality(Unsearched(g, s)) \in Nat /\ Cardinality(Unsearched(g, t)) \in Nat
      BY <1>1, <2>4, RankType
    <3>2. Len(t.queue) = (Len(s.queue) - 1) + Cardinality(E)
      BY <1>2, <2>2, <2>3, <2>4
    <3> QED
      BY <1>2, <2>12, <2>13, <3>1, <3>2 DEF Rank
  <2> QED
    BY <2>11, <2>14 DEF t
<1> QED
  BY <1>7, <1>8

(* What Search is: a function of the iterations.                            *)
LEMMA SearchIsIterated ==
    ASSUME NEW g \in Graph, NEW n \in Node
    PROVE  /\ Search(g, n)[0] = [queue |-> SetToSeq(EdgesInto(g, n)), found |-> {}]
           /\ \A k \in Nat : Search(g, n)[k + 1] = Visit(g, Search(g, n)[k])
<1> DEFINE S == SearchStates(g)
           start == [queue |-> SetToSeq(EdgesInto(g, n)), found |-> {}]
           step == [s \in S |-> Visit(g, s)]
<1>1. start \in S
  <2>1. EdgesInto(g, n) = EdgesFromOutside(g, n, {})
    BY DEF EdgesFromOutside
  <2>2. SetToSeq(EdgesInto(g, n)) \in Seq(DOMAIN g.edges)
    BY <2>1, EnteredEdges
  <2> QED
    BY <2>2 DEF SearchStates
<1>2. \A s \in S : Visit(g, s) \in S
  <2> SUFFICES ASSUME NEW s \in S, s.queue # <<>>
               PROVE  Visit(g, s) \in S
    BY DEF Visit
  <2> DEFINE id == g.edges[Head(s.queue)].from
             added == SetToSeq(EdgesFromOutside(g, id, s.found \cup {id}))
  <2>1. s.queue \in Seq(DOMAIN g.edges) /\ s.found \subseteq Node
        /\ s = [queue |-> s.queue, found |-> s.found]
    BY DEF SearchStates
  <2>2. Tail(s.queue) \in Seq(DOMAIN g.edges) /\ Head(s.queue) \in DOMAIN g.edges
    BY <2>1
  <2>3. id \in Node
    BY <2>2, EdgesAreFinite
  <2>4. added \in Seq(DOMAIN g.edges)
    BY EnteredEdges
  <2> HIDE DEF added
  <2>5. Tail(s.queue) \o added \in Seq(DOMAIN g.edges)
    BY <2>2, <2>4, ConcatOfSeqs
  <2>6. \/ Visit(g, s) = [queue |-> Tail(s.queue), found |-> s.found]
        \/ Visit(g, s) = [queue |-> Tail(s.queue) \o added, found |-> s.found \cup {id}]
    BY <2>1 DEF Visit, added
  <2> HIDE DEF id
  <2>7. s.found \cup {id} \subseteq Node
    BY <2>1, <2>3
  <2>8. \A q \in Seq(DOMAIN g.edges), F \in SUBSET Node : [queue |-> q, found |-> F] \in S
    BY DEF SearchStates
  <2> HIDE DEF S
  <2> QED
    BY <2>1, <2>2, <2>5, <2>6, <2>7, <2>8
<1> HIDE DEF S, start
<1>3. step \in [S -> S]
  BY <1>2
<1>4. PICK f \in [Nat -> S] : f = [k \in Nat |-> IF k = 0 THEN start ELSE step[f[k - 1]]]
  <2> HIDE DEF step
  <2> QED
    BY <1>1, <1>3, Iteration
<1>5. f = [k \in Nat |-> IF k = 0 THEN start ELSE Visit(g, f[k - 1])]
  <2>1. \A k \in Nat : f[k] = IF k = 0 THEN start ELSE step[f[k - 1]]
    BY <1>4
  <2>2. \A k \in Nat : k # 0 => f[k - 1] \in S
    BY <1>4
  <2>3. \A k \in Nat : f[k] = IF k = 0 THEN start ELSE Visit(g, f[k - 1])
    BY <2>1, <2>2
  <2> QED
    BY <1>4, <2>3
<1>6. Search(g, n) = CHOOSE h : h = [k \in Nat |-> IF k = 0 THEN start ELSE Visit(g, h[k - 1])]
  BY DEF Search, start
<1>7. Search(g, n) = [k \in Nat |-> IF k = 0 THEN start ELSE Visit(g, Search(g, n)[k - 1])]
  BY <1>5, <1>6
<1> HIDE DEF step
<1>8. Search(g, n)[0] = start
  BY <1>7
<1>9. ASSUME NEW k \in Nat
      PROVE  Search(g, n)[k + 1] = Visit(g, Search(g, n)[k])
  <2>1. k + 1 \in Nat /\ k + 1 # 0 /\ (k + 1) - 1 = k
    OBVIOUS
  <2> QED
    BY <1>7, <2>1
<1> QED
  BY <1>8, <1>9 DEF start

(* Each iteration lowers the rank until the queue is empty.                 *)
LEMMA SearchProgress ==
    ASSUME NEW g \in Graph, NEW n \in Node
    PROVE  \A k \in Nat :
              LET s == Search(g, n)[k] IN
              /\ SearchInv(g, n, s)
              /\ s.queue = <<>> \/ Rank(g, s) + k <= 2 * Len(g.edges)
<1> DEFINE after == Search(g, n)
           Good == {k \in Nat : /\ SearchInv(g, n, after[k])
                                /\ \/ after[k].queue = <<>>
                                   \/ Rank(g, after[k]) + k <= 2 * Len(g.edges)}
<1>1. /\ after[0] = [queue |-> SetToSeq(EdgesInto(g, n)), found |-> {}]
      /\ \A k \in Nat : after[k + 1] = Visit(g, after[k])
  BY SearchIsIterated
<1> HIDE DEF after
<1>2. 0 \in Good
  <2> DEFINE E == EdgesFromOutside(g, n, {})
             s == after[0]
  <2>1. E = EdgesInto(g, n)
    BY DEF EdgesFromOutside
  <2>2. s.queue = SetToSeq(E) /\ s.found = {} /\ s = [queue |-> SetToSeq(E), found |-> {}]
    BY <1>1, <2>1
  <2>3. /\ SetToSeq(E) \in Seq(DOMAIN g.edges) /\ Len(SetToSeq(E)) = Cardinality(E)
        /\ \A i \in DOMAIN SetToSeq(E) : SetToSeq(E)[i] \in E
        /\ \A e \in E : \E i \in DOMAIN SetToSeq(E) : SetToSeq(E)[i] = e
    BY EnteredEdges
  <2>4. \A e : e \in E <=> e \in DOMAIN g.edges /\ g.edges[e].to = n
    BY <2>1 DEF EdgesInto
  <2> HIDE DEF E, s
  <2>5. s \in SearchStates(g)
    BY <2>2, <2>3 DEF SearchStates
  <2>6. SearchInv(g, n, s)
    BY <2>2, <2>3, <2>4, <2>5 DEF SearchInv
  <2>7. Cardinality(E) \in Nat /\ Cardinality(E) <= Len(g.edges)
    <3>1. E \in SUBSET DOMAIN g.edges
      BY <2>4
    <3> QED
      BY <3>1, EdgesAreFinite, FS_Subset, FS_CardinalityType
  <2>8. Rank(g, s) <= 2 * Len(g.edges) /\ Rank(g, s) \in Nat
    BY <2>2, <2>3, <2>5, <2>7, RankType, EdgesAreFinite DEF Rank
  <2> QED
    BY <2>6, <2>8, EdgesAreFinite DEF s
<1>3. ASSUME NEW k \in Nat, k \in Good
      PROVE  k + 1 \in Good
  <2>1. after[k + 1] = Visit(g, after[k]) /\ SearchInv(g, n, after[k])
    BY <1>1, <1>3
  <2>2. CASE after[k].queue = <<>>
    BY <2>1, <2>2 DEF Visit
  <2>3. CASE after[k].queue # <<>>
    <3>1. SearchInv(g, n, after[k + 1]) /\ Rank(g, after[k + 1]) + 1 <= Rank(g, after[k])
      BY <2>1, <2>3, VisitStep
    <3>2. Rank(g, after[k]) + k <= 2 * Len(g.edges)
      BY <1>3, <2>3
    <3>3. Rank(g, after[k]) \in Nat /\ Rank(g, after[k + 1]) \in Nat /\ Len(g.edges) \in Nat
      BY <2>1, <3>1, RankType, EdgesAreFinite DEF Rank, SearchInv
    <3> QED
      BY <3>1, <3>2, <3>3
  <2> QED
    BY <2>2, <2>3
<1> HIDE DEF Good
<1>4. \A k \in Nat : k \in Good
  BY <1>2, <1>3, Induction
<1> QED
  BY <1>4 DEF Good, after

(* The ancestors that computeAncestors collects are the nodes above n.      *)
LEMMA AncestorsAreAbove ==
    ASSUME NEW g \in Graph, \A e \in DOMAIN g.edges : g.edges[e].from \in g.nodes,
           NEW n \in Node
    PROVE  /\ Ancestors(g, n) = Above(g, n) /\ IsFiniteSet(Ancestors(g, n))
           /\ \A e \in DOMAIN g.edges :
                 g.edges[e].to \in Ancestors(g, n) => g.edges[e].from \in Ancestors(g, n)
<1> DEFINE last == 2 * Len(g.edges)
           s == Search(g, n)[last]
           F == Ancestors(g, n)
<1>1. last \in Nat /\ Len(g.edges) \in Nat
  BY EdgesAreFinite
<1>2. SearchInv(g, n, s) /\ (s.queue = <<>> \/ Rank(g, s) + last <= last)
  BY <1>1, SearchProgress
<1>3. F = s.found
  BY DEF Ancestors
<1> HIDE DEF s, last, F
<1>4. s \in SearchStates(g)
  BY <1>2 DEF SearchInv
<1>5. s.queue = <<>>
  <2> SUFFICES ASSUME s.queue # <<>>
               PROVE  FALSE
    OBVIOUS
  <2>1. Len(s.queue) \in Nat \ {0}
    BY <1>4 DEF SearchStates
  <2>2. Rank(g, s) \in Nat \ {0}
    BY <1>4, <2>1, RankType DEF Rank
  <2> QED
    BY <1>1, <1>2, <2>2
<1>6. \A e \in DOMAIN g.edges : g.edges[e].to \in {n} \cup F => g.edges[e].from \in F
  BY <1>2, <1>3, <1>5 DEF SearchInv
<1>7. F \subseteq Above(g, n)
  BY <1>2, <1>3 DEF SearchInv, Above
<1>8. Above(g, n) \subseteq F
  <2> SUFFICES ASSUME NEW a \in Above(g, n), a \notin F
               PROVE  FALSE
    OBVIOUS
  <2> DEFINE S == Node \ ({n} \cup F)
  <2>1. a \in Node /\ n \in Descendants(g, a)
    BY DEF Above, Graph
  <2>2. \A m \in Node : m \notin F => Successors(g, m) \subseteq S
    BY <1>6, SuccessorsAreNodes DEF Successors, EdgesFrom
  <2>3. Descendants(g, a) \subseteq S
    <3>1. S \in SUBSET Node /\ Successors(g, a) \subseteq S
          /\ \A m \in S : Successors(g, m) \subseteq S
      BY <2>1, <2>2
    <3> HIDE DEF S
    <3> QED
      BY <2>1, <3>1, DescendantsLeast
  <2> QED
    BY <2>1, <2>3
<1>9. IsFiniteSet(F)
  <2> DEFINE T == {g.edges[e].from : e \in DOMAIN g.edges}
             f == [e \in DOMAIN g.edges |-> g.edges[e].from]
  <2>1. f \in Surjection(DOMAIN g.edges, T)
    BY DEF Surjection
  <2>2. F \in SUBSET T
    BY <1>2, <1>3 DEF SearchInv
  <2>3. IsFiniteSet(T)
    <3> HIDE DEF f, T
    <3> QED
      BY <2>1, EdgesAreFinite, FS_Surjection
  <2> HIDE DEF T
  <2> QED
    BY <2>2, <2>3, FS_Subset
<1> QED
  BY <1>6, <1>7, <1>8, <1>9 DEF F

-----------------------------------------------------------------------------
(* Kahn's sort of a set of nodes that has all that lies above them.         *)
SortStates(F) == [inDegree : [F -> Nat], ready : Seq(F), ordered : Seq(F)]

Sorted(s) == {s.ordered[i] : i \in DOMAIN s.ordered}
IsReady(s, a) == \E i \in DOMAIN s.ready : s.ready[i] = a

(* The edges into a from what has not left yet.                             *)
Remaining(g, s, a) == {e \in EdgesInto(g, a) : g.edges[e].from \notin Sorted(s)}

(* A degree counts the edges that remain, a node is ready or has left when  *)
(* none does, and all an edge leads from has left before.                   *)
SortInv(g, F, s) ==
    /\ s \in SortStates(F)
    /\ \A i, j \in DOMAIN s.ready : s.ready[i] = s.ready[j] => i = j
    /\ \A i, j \in DOMAIN s.ordered : s.ordered[i] = s.ordered[j] => i = j
    /\ \A i \in DOMAIN s.ready : s.ready[i] \notin Sorted(s)
    /\ \A a \in F :
          /\ s.inDegree[a] = Cardinality(Remaining(g, s, a))
          /\ s.inDegree[a] = 0 <=> a \in Sorted(s) \/ IsReady(s, a)
    /\ \A j \in DOMAIN s.ordered : \A e \in EdgesInto(g, s.ordered[j]) :
          \E i \in DOMAIN s.ordered : i < j /\ s.ordered[i] = g.edges[e].from

(* Counting what is left of a set.                                          *)
LEMMA WithoutPart ==
    ASSUME NEW R, IsFiniteSet(R), NEW X, X \subseteq R
    PROVE  /\ IsFiniteSet(X) /\ Cardinality(R) \in Nat /\ Cardinality(X) \in Nat
           /\ Cardinality(R \ X) = Cardinality(R) - Cardinality(X)
           /\ Cardinality(R \ X) \in Nat
<1>1. IsFiniteSet(X) /\ IsFiniteSet(R \ X)
  BY FS_Subset
<1>2. Cardinality(R) \in Nat /\ Cardinality(X) \in Nat /\ Cardinality(R \ X) \in Nat
  BY <1>1, FS_CardinalityType
<1>3. Cardinality((R \ X) \cup X)
         = Cardinality(R \ X) + Cardinality(X) - Cardinality((R \ X) \cap X)
  BY <1>1, FS_Union
<1>4. (R \ X) \cup X = R /\ (R \ X) \cap X = {}
  OBVIOUS
<1>5. Cardinality((R \ X) \cap X) = 0
  BY <1>4, FS_EmptySet
<1>6. Cardinality(R) = Cardinality(R \ X) + Cardinality(X) - 0
  BY <1>3, <1>4, <1>5, Zenon
<1> QED
  BY <1>1, <1>2, <1>6

(* A node's remaining edges can be counted.                                 *)
LEMMA RemainingIsFinite ==
    ASSUME NEW g \in Graph, NEW s, NEW a
    PROVE  /\ IsFiniteSet(Remaining(g, s, a)) /\ Cardinality(Remaining(g, s, a)) \in Nat
           /\ Cardinality(Remaining(g, s, a)) = 0 <=> Remaining(g, s, a) = {}
<1>1. Remaining(g, s, a) \in SUBSET DOMAIN g.edges
  BY DEF Remaining, EdgesInto
<1>2. IsFiniteSet(Remaining(g, s, a))
  BY <1>1, EdgesAreFinite, FS_Subset
<1> QED
  BY <1>2, FS_CardinalityType, FS_EmptySet

(* One iteration keeps the invariant and sorts one node.                    *)
LEMMA LeaveStep ==
    ASSUME NEW g \in Graph, NEW F, IsFiniteSet(F),
           NEW s, SortInv(g, F, s), s.ready # <<>>
    PROVE  SortInv(g, F, Leave(g, s)) /\ Len(Leave(g, s).ordered) = Len(s.ordered) + 1
<1> DEFINE id == Head(s.ready)
           out(a) == EdgesFrom(g, id) \cap EdgesInto(g, a)
           lowered == [a \in DOMAIN s.inDegree |-> s.inDegree[a] - Cardinality(out(a))]
           freed == {a \in DOMAIN lowered : s.inDegree[a] > 0 /\ lowered[a] = 0}
           rest == Tail(s.ready)
           added == SetToSeq(freed)
           t == Leave(g, s)
<1>1. /\ s \in SortStates(F) /\ s.ready \in Seq(F) /\ s.ordered \in Seq(F)
      /\ s.inDegree \in [F -> Nat]
  BY DEF SortInv, SortStates
<1>2. /\ id \in F /\ id = s.ready[1] /\ 1 \in DOMAIN s.ready /\ rest \in Seq(F)
      /\ \A i \in DOMAIN rest : i + 1 \in DOMAIN s.ready /\ rest[i] = s.ready[i + 1]
      /\ \A i \in DOMAIN s.ready \ {1} : i - 1 \in DOMAIN rest /\ rest[i - 1] = s.ready[i]
  BY <1>1, TailOfSeq
<1>3. id \notin Sorted(s) /\ s.inDegree[id] = 0
  BY <1>2 DEF SortInv, IsReady
<1>4. t = [inDegree |-> lowered, ready |-> rest \o added, ordered |-> Append(s.ordered, id)]
  BY DEF Leave
<1>5. /\ t.ordered \in Seq(F) /\ Len(t.ordered) = Len(s.ordered) + 1
      /\ Len(s.ordered) \in Nat /\ DOMAIN s.ordered = 1..Len(s.ordered)
      /\ DOMAIN t.ordered = 1..(Len(s.ordered) + 1)
      /\ \A i \in DOMAIN s.ordered : t.ordered[i] = s.ordered[i]
      /\ t.ordered[Len(s.ordered) + 1] = id
  <2>1. t.ordered = Append(s.ordered, id)
    BY <1>4
  <2> HIDE DEF t, id
  <2> QED
    BY <1>1, <1>2, <2>1
<1>6. Sorted(t) = Sorted(s) \cup {id}
  BY <1>5 DEF Sorted
<1>7. DOMAIN lowered = F /\ \A a \in F : lowered[a] = s.inDegree[a] - Cardinality(out(a))
  BY <1>1
<1>8. \A e, a : e \in out(a) <=> e \in EdgesInto(g, a) /\ g.edges[e].from = id
  BY DEF EdgesInto, EdgesFrom
<1>9. freed \subseteq F /\ \A a \in F : a \in freed <=> s.inDegree[a] > 0 /\ lowered[a] = 0
  BY <1>7
<1>10. /\ added \in Seq(F)
       /\ \A i, j \in DOMAIN added : added[i] = added[j] => i = j
       /\ \A i \in DOMAIN added : added[i] \in freed
       /\ \A x \in freed : \E i \in DOMAIN added : added[i] = x
  <2> HIDE DEF freed
  <2>1. IsFiniteSet(freed)
    BY <1>9, FS_Subset
  <2>2. added \in Seq(freed)
    BY <2>1, SetToSeqLists
  <2> QED
    BY <1>9, <2>1, <2>2, SetToSeqLists
<1>11. t.inDegree = lowered /\ t.ready = rest \o added
  BY <1>4
<1>12. t = [inDegree |-> t.inDegree, ready |-> t.ready, ordered |-> t.ordered]
  BY <1>4
<1> HIDE DEF t, added, freed, lowered, out, rest, id
<1>13. /\ rest \o added \in Seq(F) /\ Len(rest) \in Nat
       /\ \A i \in DOMAIN (rest \o added) :
             \/ i \in DOMAIN rest /\ (rest \o added)[i] = rest[i]
             \/ i - Len(rest) \in DOMAIN added /\ (rest \o added)[i] = added[i - Len(rest)]
       /\ \A i \in DOMAIN rest : i \in DOMAIN (rest \o added) /\ (rest \o added)[i] = rest[i]
       /\ \A i \in DOMAIN added :
             /\ i + Len(rest) \in DOMAIN (rest \o added)
             /\ (rest \o added)[i + Len(rest)] = added[i]
  BY <1>2, <1>10, ConcatOfSeqs
<1>14. ASSUME NEW a \in F
       PROVE  /\ Remaining(g, t, a) = Remaining(g, s, a) \ out(a)
              /\ out(a) \subseteq Remaining(g, s, a)
              /\ lowered[a] \in Nat
              /\ lowered[a] = Cardinality(Remaining(g, t, a))
  <2>1. /\ Remaining(g, t, a) = Remaining(g, s, a) \ out(a)
        /\ out(a) \subseteq Remaining(g, s, a)
    BY <1>3, <1>6, <1>8 DEF Remaining
  <2>2. /\ Cardinality(Remaining(g, s, a) \ out(a))
             = Cardinality(Remaining(g, s, a)) - Cardinality(out(a))
        /\ Cardinality(Remaining(g, s, a) \ out(a)) \in Nat
    BY <2>1, RemainingIsFinite, WithoutPart
  <2>3. s.inDegree[a] = Cardinality(Remaining(g, s, a))
    BY DEF SortInv
  <2> QED
    BY <1>7, <2>1, <2>2, <2>3
<1>15. t \in SortStates(F)
  <2>1. lowered \in [F -> Nat]
    <3>1. lowered = [a \in F |-> lowered[a]]
      BY <1>7 DEF lowered
    <3> QED
      BY <3>1, <1>14
  <2> QED
    BY <1>5, <1>11, <1>12, <1>13, <2>1 DEF SortStates
<1>16. \A a : IsReady(t, a) <=> (\E i \in DOMAIN rest : rest[i] = a) \/ a \in freed
  <2> SUFFICES ASSUME NEW a
               PROVE  IsReady(t, a) <=> (\E i \in DOMAIN rest : rest[i] = a) \/ a \in freed
    OBVIOUS
  <2> DEFINE all == rest \o added
  <2>1. IsReady(t, a) <=> \E i \in DOMAIN all : all[i] = a
    BY <1>11 DEF IsReady
  <2>2. ASSUME NEW i \in DOMAIN all, all[i] = a
        PROVE  (\E k \in DOMAIN rest : rest[k] = a) \/ a \in freed
    <3>1. CASE i \in DOMAIN rest /\ all[i] = rest[i]
      BY <2>2, <3>1
    <3>2. CASE i - Len(rest) \in DOMAIN added /\ all[i] = added[i - Len(rest)]
      <4>1. added[i - Len(rest)] \in freed
        BY <1>10, <3>2
      <4> QED
        BY <2>2, <3>2, <4>1
    <3> QED
      BY <1>13, <3>1, <3>2
  <2>3. ASSUME NEW i \in DOMAIN rest, rest[i] = a
        PROVE  \E k \in DOMAIN all : all[k] = a
    BY <1>13, <2>3
  <2>4. ASSUME a \in freed
        PROVE  \E k \in DOMAIN all : all[k] = a
    <3>1. PICK i \in DOMAIN added : added[i] = a
      BY <1>10, <2>4
    <3> QED
      BY <1>13, <3>1
  <2> HIDE DEF all
  <2> QED
    BY <2>1, <2>2, <2>3, <2>4
<1>17. \A a : IsReady(s, a) <=> a = id \/ \E i \in DOMAIN rest : rest[i] = a
  BY <1>2 DEF IsReady
<1>18. \A i \in DOMAIN rest : rest[i] # id /\ rest[i] \notin Sorted(s) /\ rest[i] \notin freed
  <2> SUFFICES ASSUME NEW i \in DOMAIN rest
               PROVE  rest[i] # id /\ rest[i] \notin Sorted(s) /\ rest[i] \notin freed
    OBVIOUS
  <2>1. i + 1 \in DOMAIN s.ready /\ rest[i] = s.ready[i + 1] /\ i \in Nat \ {0}
    BY <1>2
  <2>2. rest[i] # id
    BY <1>2, <2>1 DEF SortInv
  <2>3. rest[i] \notin Sorted(s)
    BY <2>1 DEF SortInv
  <2>4. rest[i] \in F /\ IsReady(s, rest[i])
    BY <1>1, <2>1 DEF IsReady
  <2>5. s.inDegree[rest[i]] = 0
    BY <2>4 DEF SortInv
  <2> QED
    BY <1>9, <2>2, <2>3, <2>4, <2>5
<1>19. \A a \in freed : a \in F /\ a # id /\ a \notin Sorted(s)
  BY <1>1, <1>3, <1>9 DEF SortInv
<1>20. \A i, j \in DOMAIN t.ready : t.ready[i] = t.ready[j] => i = j
  <2> SUFFICES ASSUME NEW i \in DOMAIN (rest \o added), NEW j \in DOMAIN (rest \o added),
                      (rest \o added)[i] = (rest \o added)[j]
               PROVE  i = j
    BY <1>11
  <2>1. \A k, l \in DOMAIN rest : rest[k] = rest[l] => k = l
    <3> SUFFICES ASSUME NEW k \in DOMAIN rest, NEW l \in DOMAIN rest, rest[k] = rest[l]
                 PROVE  k = l
      OBVIOUS
    <3>1. k \in Nat /\ l \in Nat /\ k + 1 = l + 1
      BY <1>2 DEF SortInv
    <3> QED
      BY <3>1
  <2>2. i \in Nat /\ j \in Nat
    BY <1>13
  <2>3. CASE i \in DOMAIN rest /\ (rest \o added)[i] = rest[i]
    <3>1. CASE j \in DOMAIN rest /\ (rest \o added)[j] = rest[j]
      BY <2>1, <2>3, <3>1
    <3>2. CASE j - Len(rest) \in DOMAIN added /\ (rest \o added)[j] = added[j - Len(rest)]
      BY <1>10, <1>18, <2>3, <3>2
    <3> QED
      BY <1>13, <3>1, <3>2
  <2>4. CASE i - Len(rest) \in DOMAIN added /\ (rest \o added)[i] = added[i - Len(rest)]
    <3>1. CASE j \in DOMAIN rest /\ (rest \o added)[j] = rest[j]
      BY <1>10, <1>18, <2>4, <3>1
    <3>2. CASE j - Len(rest) \in DOMAIN added /\ (rest \o added)[j] = added[j - Len(rest)]
      <4>1. i - Len(rest) = j - Len(rest)
        BY <1>10, <2>4, <3>2
      <4> QED
        BY <1>13, <2>2, <4>1
    <3> QED
      BY <1>13, <3>1, <3>2
  <2> QED
    BY <1>13, <2>3, <2>4
<1>21. \A i, j \in DOMAIN t.ordered : t.ordered[i] = t.ordered[j] => i = j
  <2>1. \A i \in DOMAIN s.ordered : s.ordered[i] # id
    BY <1>3 DEF Sorted
  <2>2. \A i, j \in DOMAIN s.ordered : s.ordered[i] = s.ordered[j] => i = j
    BY DEF SortInv
  <2> QED
    BY <1>5, <2>1, <2>2
<1>22. \A i \in DOMAIN t.ready : t.ready[i] \notin Sorted(t)
  BY <1>6, <1>16, <1>18, <1>19 DEF IsReady
<1>23. ASSUME NEW a \in F
       PROVE  /\ t.inDegree[a] = Cardinality(Remaining(g, t, a))
              /\ t.inDegree[a] = 0 <=> a \in Sorted(t) \/ IsReady(t, a)
  <2>1. s.inDegree[a] = 0 <=> a \in Sorted(s) \/ IsReady(s, a)
    BY DEF SortInv
  <2>2. s.inDegree[a] = Cardinality(Remaining(g, s, a)) /\ s.inDegree[a] \in Nat
    BY <1>1 DEF SortInv
  <2>3. s.inDegree[a] = 0 => lowered[a] = 0
    <3> SUFFICES ASSUME s.inDegree[a] = 0
                 PROVE  lowered[a] = 0
      OBVIOUS
    <3>1. Remaining(g, s, a) = {}
      BY <2>2, RemainingIsFinite
    <3>2. Remaining(g, t, a) = {}
      BY <1>14, <3>1
    <3> QED
      BY <1>14, <3>2, FS_EmptySet
  <2>4. lowered[a] = 0 <=> s.inDegree[a] = 0 \/ a \in freed
    BY <1>9, <2>2, <2>3
  <2> QED
    BY <1>6, <1>11, <1>14, <1>16, <1>17, <2>1, <2>4
<1>24. \A j \in DOMAIN t.ordered : \A e \in EdgesInto(g, t.ordered[j]) :
          \E i \in DOMAIN t.ordered : i < j /\ t.ordered[i] = g.edges[e].from
  <2> SUFFICES ASSUME NEW j \in DOMAIN t.ordered, NEW e \in EdgesInto(g, t.ordered[j])
               PROVE  \E i \in DOMAIN t.ordered : i < j /\ t.ordered[i] = g.edges[e].from
    OBVIOUS
  <2>1. CASE j \in DOMAIN s.ordered
    <3>1. e \in EdgesInto(g, s.ordered[j])
      BY <1>5, <2>1
    <3>2. PICK i \in DOMAIN s.ordered : i < j /\ s.ordered[i] = g.edges[e].from
      BY <2>1, <3>1 DEF SortInv
    <3>3. i \in DOMAIN t.ordered /\ t.ordered[i] = s.ordered[i]
      BY <1>5
    <3> QED
      BY <3>2, <3>3
  <2>2. CASE j = Len(s.ordered) + 1
    <3>1. e \in EdgesInto(g, id)
      BY <1>5, <2>2
    <3>2. s.inDegree[id] = Cardinality(Remaining(g, s, id))
      BY <1>2 DEF SortInv
    <3>3. Remaining(g, s, id) = {}
      BY <1>3, <3>2, RemainingIsFinite
    <3>4. g.edges[e].from \in Sorted(s)
      BY <3>1, <3>3 DEF Remaining
    <3>5. PICK i \in DOMAIN s.ordered : s.ordered[i] = g.edges[e].from
      BY <3>4 DEF Sorted
    <3>6. i \in DOMAIN t.ordered /\ t.ordered[i] = s.ordered[i] /\ i < j
      BY <1>5, <2>2
    <3> QED
      BY <3>5, <3>6
  <2> QED
    BY <1>5, <2>1, <2>2
<1>25. SortInv(g, F, t)
  BY <1>15, <1>20, <1>21, <1>22, <1>23, <1>24 DEF SortInv
<1> QED
  BY <1>5, <1>25 DEF t

(* The sort begins with the nodes nothing in F leads to.                    *)
LEMMA SortStart ==
    ASSUME NEW g \in Graph, NEW F, IsFiniteSet(F),
           \A e \in DOMAIN g.edges : g.edges[e].to \in F => g.edges[e].from \in F,
           NEW inDegree, inDegree = [a \in F |-> EdgesBetween(g, F, a)],
           NEW s, s = [inDegree |-> inDegree,
                       ready |-> SetToSeq({a \in F : inDegree[a] = 0}),
                       ordered |-> <<>>]
    PROVE  SortInv(g, F, s)
<1> DEFINE free == {a \in F : inDegree[a] = 0}
<1>1. s.inDegree = inDegree /\ s.ready = SetToSeq(free) /\ s.ordered = <<>>
  OBVIOUS
<1>2. Sorted(s) = {}
  BY <1>1 DEF Sorted
<1>3. \A a \in F : inDegree[a] = Cardinality(Remaining(g, s, a)) /\ inDegree[a] \in Nat
  <2> SUFFICES ASSUME NEW a \in F
               PROVE  inDegree[a] = Cardinality(Remaining(g, s, a)) /\ inDegree[a] \in Nat
    OBVIOUS
  <2>1. {i \in EdgesInto(g, a) : g.edges[i].from \in F} = Remaining(g, s, a)
    BY <1>2 DEF EdgesInto, Remaining
  <2>2. inDegree[a] = Cardinality(Remaining(g, s, a))
    BY <2>1 DEF EdgesBetween
  <2> QED
    BY <2>2, RemainingIsFinite
<1>4. inDegree \in [F -> Nat]
  BY <1>3
<1>5. free \in SUBSET F /\ IsFiniteSet(free)
  BY FS_Subset
<1>6. \A a : a \in free <=> a \in F /\ inDegree[a] = 0
  OBVIOUS
<1> HIDE DEF free
<1>7. /\ SetToSeq(free) \in Seq(free)
      /\ \A i, j \in DOMAIN SetToSeq(free) : SetToSeq(free)[i] = SetToSeq(free)[j] => i = j
      /\ \A x \in free : \E i \in DOMAIN SetToSeq(free) : SetToSeq(free)[i] = x
  BY <1>5, SetToSeqLists
<1>8. SetToSeq(free) \in Seq(F) /\ \A i \in DOMAIN SetToSeq(free) : SetToSeq(free)[i] \in free
  BY <1>5, <1>7
<1>9. s \in SortStates(F)
  <2>1. s = [inDegree |-> inDegree, ready |-> SetToSeq(free), ordered |-> <<>>]
    BY DEF free
  <2>2. <<>> \in Seq(F)
    OBVIOUS
  <2> QED
    BY <1>4, <1>8, <2>1, <2>2 DEF SortStates
<1>10. /\ \A i, j \in DOMAIN s.ready : s.ready[i] = s.ready[j] => i = j
       /\ \A x \in free : \E i \in DOMAIN s.ready : s.ready[i] = x
       /\ \A i \in DOMAIN s.ready : s.ready[i] \in free
  <2> DEFINE q == SetToSeq(free)
  <2>1. s.ready = q
    BY <1>1
  <2>2. /\ \A i, j \in DOMAIN q : q[i] = q[j] => i = j
        /\ \A x \in free : \E i \in DOMAIN q : q[i] = x
        /\ \A i \in DOMAIN q : q[i] \in free
    BY <1>7, <1>8
  <2> HIDE DEF q
  <2> QED
    BY <2>1, <2>2, Zenon
<1>11. \A a : IsReady(s, a) <=> a \in free
  BY <1>10, Zenon DEF IsReady
<1>12. DOMAIN s.ordered = {}
  BY <1>1
<1>13. \A a \in F : /\ s.inDegree[a] = Cardinality(Remaining(g, s, a))
                    /\ s.inDegree[a] = 0 <=> a \in Sorted(s) \/ IsReady(s, a)
  BY <1>1, <1>2, <1>3, <1>6, <1>11
<1> QED
  BY <1>2, <1>9, <1>10, <1>12, <1>13 DEF SortInv

(* Until nothing is ready each iteration sorts one node.                    *)
LEMMA SortProgress ==
    ASSUME NEW g \in Graph, NEW F, IsFiniteSet(F),
           \A e \in DOMAIN g.edges : g.edges[e].to \in F => g.edges[e].from \in F
    PROVE  \A k \in Nat :
              LET s == Sort(g, F)[k] IN
              /\ SortInv(g, F, s)
              /\ s.ready = <<>> \/ Len(s.ordered) = k
<1> DEFINE S == {s \in SortStates(F) : SortInv(g, F, s)}
           inDegree == [a \in F |-> EdgesBetween(g, F, a)]
           start == [inDegree |-> inDegree,
                     ready |-> SetToSeq({a \in F : inDegree[a] = 0}),
                     ordered |-> <<>>]
           step == [s \in S |-> Leave(g, s)]
<1>1. \A s : s \in S <=> SortInv(g, F, s)
  BY DEF SortInv
<1>2. start \in S
  <2>1. SortInv(g, F, start)
    <3> HIDE DEF S
    <3> QED
      BY SortStart
  <2> HIDE DEF S, start
  <2> QED
    BY <1>1, <2>1
<1>3. Sort(g, F) = CHOOSE h : h = [k \in Nat |-> IF k = 0 THEN start ELSE Leave(g, h[k - 1])]
  BY DEF Sort
<1>4. start.ordered = <<>>
  OBVIOUS
<1> HIDE DEF S, start
<1>5. \A s \in S : Leave(g, s) \in S
  <2> SUFFICES ASSUME NEW s \in S, s.ready # <<>>
               PROVE  Leave(g, s) \in S
    BY DEF Leave
  <2> QED
    BY <1>1, LeaveStep
<1>6. step \in [S -> S]
  BY <1>5
<1>7. PICK f \in [Nat -> S] : f = [k \in Nat |-> IF k = 0 THEN start ELSE step[f[k - 1]]]
  <2> HIDE DEF step
  <2> QED
    BY <1>2, <1>6, Iteration
<1>8. f = [k \in Nat |-> IF k = 0 THEN start ELSE Leave(g, f[k - 1])]
  <2>1. \A k \in Nat : f[k] = IF k = 0 THEN start ELSE step[f[k - 1]]
    BY <1>7
  <2>2. \A k \in Nat : k # 0 => f[k - 1] \in S
    BY <1>7
  <2>3. \A k \in Nat : f[k] = IF k = 0 THEN start ELSE Leave(g, f[k - 1])
    BY <2>1, <2>2
  <2> QED
    BY <1>7, <2>3
<1> DEFINE after == Sort(g, F)
<1>9. after = [k \in Nat |-> IF k = 0 THEN start ELSE Leave(g, after[k - 1])]
  BY <1>3, <1>8
<1> HIDE DEF after, step
<1> DEFINE Good == {k \in Nat : /\ SortInv(g, F, after[k])
                                /\ after[k].ready = <<>> \/ Len(after[k].ordered) = k}
<1>10. 0 \in Good
  <2>1. after[0] = start
    BY <1>9
  <2> QED
    BY <1>1, <1>2, <1>4, <2>1
<1>11. ASSUME NEW k \in Nat, k \in Good
       PROVE  k + 1 \in Good
  <2>1. k + 1 \in Nat /\ k + 1 # 0 /\ (k + 1) - 1 = k
    OBVIOUS
  <2>2. after[k + 1] = Leave(g, after[k])
    BY <1>9, <2>1
  <2>3. SortInv(g, F, after[k])
    BY <1>11
  <2>4. CASE after[k].ready = <<>>
    <3>1. after[k + 1] = after[k]
      BY <2>2, <2>4 DEF Leave
    <3> QED
      BY <2>3, <2>4, <3>1
  <2>5. CASE after[k].ready # <<>>
    <3>1. /\ SortInv(g, F, after[k + 1])
          /\ Len(after[k + 1].ordered) = Len(after[k].ordered) + 1
      BY <2>2, <2>3, <2>5, LeaveStep
    <3>2. Len(after[k].ordered) = k
      BY <1>11, <2>5
    <3> QED
      BY <3>1, <3>2
  <2> QED
    BY <2>4, <2>5
<1> HIDE DEF Good
<1>12. \A k \in Nat : k \in Good
  BY <1>10, <1>11, Induction
<1> QED
  BY <1>12 DEF Good, after

(* When every node has had its turn nothing is ready.                       *)
LEMMA SortEnds ==
    ASSUME NEW g \in Graph, NEW F, IsFiniteSet(F),
           \A e \in DOMAIN g.edges : g.edges[e].to \in F => g.edges[e].from \in F
    PROVE  LET s == Sort(g, F)[Cardinality(F)] IN
           SortInv(g, F, s) /\ s.ready = <<>>
<1> DEFINE c == Cardinality(F)
           s == Sort(g, F)[c]
<1>1. c \in Nat
  BY FS_CardinalityType
<1>2. SortInv(g, F, s) /\ (s.ready = <<>> \/ Len(s.ordered) = c)
  BY <1>1, SortProgress
<1> HIDE DEF s
<1>3. s.ready = <<>>
  <2> SUFFICES ASSUME s.ready # <<>>, Len(s.ordered) = c
               PROVE  FALSE
    BY <1>2
  <2>1. s.ordered \in Seq(F) /\ s.ready \in Seq(F)
    BY <1>2 DEF SortInv, SortStates
  <2>2. s.ordered \in [1..c -> F]
    BY <1>1, <2>1
  <2>3. \A i, j \in 1..c : s.ordered[i] = s.ordered[j] => i = j
    BY <1>2, <2>2 DEF SortInv
  <2>4. s.ordered \in Injection(1..c, F)
    BY <2>2, <2>3 DEF Injection, IsInjective
  <2>5. Cardinality(1..c) = c
    <3> HIDE DEF c
    <3> QED
      BY <1>1, FS_Interval
  <2>6. s.ordered \in Surjection(1..c, F)
    <3>1. Cardinality(1..c) = Cardinality(F)
      BY <2>5
    <3> HIDE DEF c
    <3> QED
      BY <2>4, <3>1, FS_Injection
  <2>7. 1 \in DOMAIN s.ready /\ s.ready[1] \in F
    BY <2>1
  <2>8. s.ready[1] \in Sorted(s)
    BY <2>2, <2>6, <2>7 DEF Surjection, Sorted
  <2> QED
    BY <1>2, <2>7, <2>8 DEF SortInv
<1> QED
  BY <1>2, <1>3 DEF s

(* a was sorted before the j-th.                                            *)
SortedBefore(s, j, a) == \E i \in DOMAIN s.ordered : i < j /\ s.ordered[i] = a

(* Kahn's algorithm takes a node after all that it lies below.              *)
LEMMA SortedAfterAncestors ==
    ASSUME NEW g \in Graph, NEW F, F \subseteq Node, NEW s, SortInv(g, F, s)
    PROVE  \A j \in DOMAIN s.ordered, a \in Node : s.ordered[j] \in Descendants(g, a) =>
              SortedBefore(s, j, a)
<1> SUFFICES ASSUME NEW j \in DOMAIN s.ordered, NEW a \in Node,
                    s.ordered[j] \in Descendants(g, a),
                    \A i \in DOMAIN s.ordered : i < j => s.ordered[i] # a
             PROVE  FALSE
  BY DEF SortedBefore
<1> DEFINE S == Node \ {s.ordered[k] : k \in {i \in DOMAIN s.ordered : i <= j}}
<1>1. DOMAIN s.ordered \subseteq Nat
  BY DEF SortInv, SortStates
<1>2. ASSUME NEW m \in Node,
             \A k \in DOMAIN s.ordered : k < j => s.ordered[k] # m
      PROVE  Successors(g, m) \subseteq S
  <2> SUFFICES ASSUME NEW e \in DOMAIN g.edges, g.edges[e].from = m,
                      NEW k \in DOMAIN s.ordered, k <= j, g.edges[e].to = s.ordered[k]
               PROVE  FALSE
    BY SuccessorsAreNodes DEF Successors, EdgesFrom
  <2>1. e \in EdgesInto(g, s.ordered[k])
    BY DEF EdgesInto
  <2>2. PICK i \in DOMAIN s.ordered : i < k /\ s.ordered[i] = m
    BY <2>1 DEF SortInv
  <2>3. i < j
    BY <1>1, <2>2
  <2> QED
    BY <1>2, <2>2, <2>3
<1>3. Successors(g, a) \subseteq S
  BY <1>2
<1>4. \A m \in S : Successors(g, m) \subseteq S
  <2> SUFFICES ASSUME NEW m \in S
               PROVE  Successors(g, m) \subseteq S
    OBVIOUS
  <2>1. m \in Node /\ \A k \in DOMAIN s.ordered : k < j => s.ordered[k] # m
    BY <1>1
  <2> QED
    BY <1>2, <2>1
<1>5. S \in SUBSET Node
  OBVIOUS
<1>6. s.ordered[j] \notin S
  BY <1>1
<1> HIDE DEF S
<1>7. Descendants(g, a) \subseteq S
  BY <1>3, <1>4, <1>5, DescendantsLeast
<1> QED
  BY <1>6, <1>7

(* A node on a cycle, or behind one, is never sorted; any other is when     *)
(* nothing is ready: of the unsorted ones one with the fewest unsorted ones *)
(* above it would have an edge from another with fewer.                     *)
LEMMA SortedAreOrdered ==
    ASSUME NEW g \in Graph, NEW n \in Node, IsFiniteSet(Above(g, n)),
           \A e \in DOMAIN g.edges :
               g.edges[e].to \in Above(g, n) => g.edges[e].from \in Above(g, n),
           NEW s, SortInv(g, Above(g, n), s), s.ready = <<>>
    PROVE  Sorted(s) = OrderedAncestors(g, n)
<1> DEFINE F == Above(g, n)
           cyclic == {a \in F : a \in Descendants(g, a)}
           behind == UNION {Descendants(g, c) : c \in cyclic}
           Left == F \ (Sorted(s) \cup cyclic \cup behind)
           Up(x) == {z \in Left : x \in Descendants(g, z)}
<1>1. F \subseteq Node /\ IsFiniteSet(F)
  BY DEF Above, Graph
<1>2. OrderedAncestors(g, n) = F \ (cyclic \cup behind)
  BY DEF OrderedAncestors
<1>3. /\ \A a : a \in cyclic <=> a \in F /\ a \in Descendants(g, a)
      /\ \A a : a \in behind <=> \E c \in cyclic : a \in Descendants(g, c)
  OBVIOUS
<1>4. /\ SortInv(g, F, s) /\ s.ordered \in Seq(F)
      /\ \A e \in DOMAIN g.edges : g.edges[e].to \in F => g.edges[e].from \in F
  BY DEF SortInv, SortStates
<1> HIDE DEF F, cyclic, behind
<1>5. \A j \in DOMAIN s.ordered : s.ordered[j] \in F /\ j \in Nat
  BY <1>4
<1>6. \A j \in DOMAIN s.ordered, a \in Node :
          s.ordered[j] \in Descendants(g, a) =>
              \E i \in DOMAIN s.ordered : i < j /\ s.ordered[i] = a
  <2>1. SortInv(g, F, s) /\ F \subseteq Node
    BY <1>1, <1>4
  <2>2. \A j \in DOMAIN s.ordered, a \in Node :
            s.ordered[j] \in Descendants(g, a) => SortedBefore(s, j, a)
    BY <2>1, SortedAfterAncestors
  <2> QED
    BY <2>2 DEF SortedBefore
<1>7. \A j \in DOMAIN s.ordered : s.ordered[j] \notin Descendants(g, s.ordered[j])
  <2> SUFFICES ASSUME NEW j \in DOMAIN s.ordered,
                      s.ordered[j] \in Descendants(g, s.ordered[j])
               PROVE  FALSE
    OBVIOUS
  <2>1. PICK i \in DOMAIN s.ordered : i < j /\ s.ordered[i] = s.ordered[j]
    BY <1>1, <1>5, <1>6
  <2>2. i = j
    BY <1>4, <2>1 DEF SortInv
  <2> QED
    BY <1>5, <2>1, <2>2
<1>8. \A j \in DOMAIN s.ordered : s.ordered[j] \notin cyclic /\ s.ordered[j] \notin behind
  <2> SUFFICES ASSUME NEW j \in DOMAIN s.ordered, NEW c \in cyclic,
                      s.ordered[j] \in Descendants(g, c)
               PROVE  FALSE
    BY <1>3, <1>7
  <2>1. c \in Node /\ c \in Descendants(g, c)
    BY <1>1, <1>3
  <2>2. PICK i \in DOMAIN s.ordered : i < j /\ s.ordered[i] = c
    BY <1>6, <2>1
  <2> QED
    BY <1>7, <2>1, <2>2
<1>9. Sorted(s) \subseteq F \ (cyclic \cup behind)
  BY <1>5, <1>8 DEF Sorted
<1>10. Left \in SUBSET F /\ IsFiniteSet(Left)
  BY <1>1, FS_Subset
<1>11. \A a : a \in Left <=> a \in F /\ a \notin Sorted(s) /\ a \notin cyclic /\ a \notin behind
  OBVIOUS
<1>12. \A x, z : z \in Up(x) <=> z \in Left /\ x \in Descendants(g, z)
  OBVIOUS
<1>13. \A x : Up(x) \in SUBSET Left
  OBVIOUS
<1> HIDE DEF Left, Up
<1>14. \A x : IsFiniteSet(Up(x)) /\ Cardinality(Up(x)) \in Nat
  BY <1>10, <1>13, FS_Subset, FS_CardinalityType
<1>15. ASSUME NEW x \in Left
       PROVE  \E y \in Left : Cardinality(Up(y)) < Cardinality(Up(x))
  <2>1. x \in F /\ x \notin Sorted(s) /\ ~IsReady(s, x)
    BY <1>11 DEF IsReady
  <2>2. Remaining(g, s, x) # {}
    <3>1. s.inDegree[x] = Cardinality(Remaining(g, s, x)) /\ s.inDegree[x] # 0
      BY <1>4, <2>1 DEF SortInv
    <3> QED
      BY <3>1, FS_EmptySet
  <2>3. PICK e \in DOMAIN g.edges : g.edges[e].to = x /\ g.edges[e].from \notin Sorted(s)
    BY <2>2 DEF Remaining, EdgesInto
  <2> DEFINE y == g.edges[e].from
  <2>4. y \in F /\ y \in Node /\ x \in Node
    BY <1>1, <1>4, <2>1, <2>3
  <2>5. x \in Descendants(g, y)
    BY <2>3, <2>4, EdgesLeadDown
  <2>6. y \notin cyclic
    BY <1>3, <1>11, <2>5
  <2>7. y \notin behind
    <3> SUFFICES ASSUME NEW c \in cyclic, y \in Descendants(g, c)
                 PROVE  FALSE
      BY <1>3
    <3>1. c \in Node
      BY <1>1, <1>3
    <3>2. x \in Descendants(g, c)
      BY <2>5, <3>1, DescendantsTransitive
    <3> QED
      BY <1>3, <1>11, <3>2
  <2>8. y \in Left
    BY <1>11, <2>3, <2>4, <2>6, <2>7
  <2>9. Up(y) \subseteq Up(x) \ {y}
    <3> SUFFICES ASSUME NEW z \in Up(y)
                 PROVE  z \in Up(x) /\ z # y
      OBVIOUS
    <3>1. z \in Left /\ y \in Descendants(g, z) /\ z \in Node
      BY <1>1, <1>11, <1>12
    <3>2. x \in Descendants(g, z)
      BY <2>5, <3>1, DescendantsTransitive
    <3>3. y \notin Descendants(g, y)
      BY <1>3, <2>4, <2>6
    <3> QED
      BY <1>12, <3>1, <3>2, <3>3
  <2>10. y \in Up(x)
    BY <1>12, <2>5, <2>8
  <2> HIDE DEF y
  <2>11. Cardinality(Up(y)) < Cardinality(Up(x))
    <3> DEFINE A == Up(x)
               B == Up(y)
    <3>1. IsFiniteSet(A) /\ Cardinality(A) \in Nat /\ Cardinality(B) \in Nat
      BY <1>14
    <3>2. B \in SUBSET (A \ {y}) /\ y \in A
      BY <2>9, <2>10
    <3> HIDE DEF A, B
    <3>3. IsFiniteSet(A \ {y}) /\ Cardinality(A \ {y}) = Cardinality(A) - 1
      BY <3>1, <3>2, FS_RemoveElement
    <3>4. Cardinality(B) <= Cardinality(A \ {y})
      BY <3>2, <3>3, FS_Subset
    <3>5. Cardinality(B) < Cardinality(A)
      BY <3>1, <3>3, <3>4
    <3> QED
      BY <3>5 DEF A, B
  <2> QED
    BY <2>8, <2>11
<1>16. Left = {}
  <2> SUFFICES ASSUME Left # {}
               PROVE  FALSE
    OBVIOUS
  <2> DEFINE Counts == {Cardinality(Up(x)) : x \in Left}
  <2>1. Counts \subseteq Nat /\ Counts # {}
    BY <1>14
  <2>2. \A x \in Left : Cardinality(Up(x)) \in Counts
    OBVIOUS
  <2>3. \A k \in Counts : \E x \in Left : k = Cardinality(Up(x))
    OBVIOUS
  <2> HIDE DEF Counts
  <2>4. PICK m \in Counts : \A k \in Counts : m <= k
    BY <2>1, LeastNatural
  <2>5. PICK x \in Left : m = Cardinality(Up(x))
    BY <2>3
  <2>6. PICK y \in Left : Cardinality(Up(y)) < Cardinality(Up(x))
    BY <1>15
  <2>7. m <= Cardinality(Up(y))
    BY <2>2, <2>4
  <2> QED
    BY <1>14, <2>5, <2>6, <2>7
<1>17. F \ (cyclic \cup behind) \subseteq Sorted(s)
  BY <1>11, <1>16
<1> QED
  BY <1>2, <1>9, <1>17

(* computeAncestors lists what lies above a node, in data-flow order: about *)
(* the contract in the comment of topology.ts:34-37.                        *)
LEMMA AncestorsAreInOrder ==
    ASSUME NEW g \in Graph, \A e \in DOMAIN g.edges : g.edges[e].from \in g.nodes
    PROVE  AncestorsInOrder(g)
<1> SUFFICES ASSUME NEW n \in g.nodes
             PROVE  LET result == computeAncestors(g, n) IN
                    /\ ToSet(result) = OrderedAncestors(g, n)
                    /\ \A i, j \in DOMAIN result : result[i] = result[j] => i = j
                    /\ InDataFlowOrder(g, result)
  BY DEF AncestorsInOrder
<1> DEFINE F == Ancestors(g, n)
           s == Sort(g, F)[Cardinality(F)]
<1>1. n \in Node
  BY DEF Graph
<1>2. /\ F = Above(g, n) /\ IsFiniteSet(F)
      /\ \A e \in DOMAIN g.edges : g.edges[e].to \in F => g.edges[e].from \in F
  BY <1>1, AncestorsAreAbove
<1>3. computeAncestors(g, n) = s.ordered
  BY DEF computeAncestors
<1>4. F \subseteq Node
  BY <1>2 DEF Above, Graph
<1> HIDE DEF F
<1>5. SortInv(g, F, s) /\ s.ready = <<>>
  BY <1>2, SortEnds
<1> HIDE DEF s
<1>6. ToSet(s.ordered) = OrderedAncestors(g, n)
  BY <1>1, <1>2, <1>5, SortedAreOrdered DEF Sorted, ToSet
<1>7. \A i, j \in DOMAIN s.ordered : s.ordered[i] = s.ordered[j] => i = j
  BY <1>5 DEF SortInv
<1>8. InDataFlowOrder(g, s.ordered)
  <2> SUFFICES ASSUME NEW i \in DOMAIN s.ordered, NEW j \in DOMAIN s.ordered,
                      s.ordered[j] \in Descendants(g, s.ordered[i])
               PROVE  i < j
    BY DEF InDataFlowOrder
  <2>1. s.ordered[i] \in Node
    BY <1>4, <1>5 DEF SortInv, SortStates
  <2>2. SortedBefore(s, j, s.ordered[i])
    BY <1>4, <1>5, <2>1, SortedAfterAncestors
  <2>3. PICK k \in DOMAIN s.ordered : k < j /\ s.ordered[k] = s.ordered[i]
    BY <2>2 DEF SortedBefore
  <2> QED
    BY <1>7, <2>3
<1> QED
  BY <1>3, <1>6, <1>7, <1>8

(* On every graph that compiles computeAncestors finds the nodes above a    *)
(* node but those on a cycle or behind one, once each, and each after all   *)
(* it depends on: about topology.ts:34-74, for graphs of any size.          *)
THEOREM AncestorsAreFound == ExecSpec => []AncestorsOfGraph
<1>1. ExecInv => AncestorsOfGraph
  <2> SUFFICES ASSUME ExecInv
               PROVE  AncestorsInOrder(graph)
    BY DEF AncestorsOfGraph
  <2>1. graph \in Graph /\ \A e \in DOMAIN graph.edges : graph.edges[e].from \in graph.nodes
    BY GraphsAssumption DEF ExecInv, SchedTypeOK, Compilable, StateGraphAccepts
  <2> QED
    BY <2>1, AncestorsAreInOrder
<1> QED
  BY <1>1, ExecInvariant, PTL

(* Of an acyclic graph no ancestor is left out.                             *)
LEMMA AllAncestorsOfAcyclic ==
    ASSUME NEW g \in Graph, Acyclic(g), NEW n
    PROVE  OrderedAncestors(g, n) = Above(g, n)
  BY DEF OrderedAncestors, Acyclic, Above

-----------------------------------------------------------------------------
(* An execution has only so many moves left: in a superstep each of its     *)
(* nodes completes, and it begins and ends once.                            *)
Turns ==
    {t \in {"begin", "complete", "end"} \X (0..RecursionLimit) \X graph.nodes :
        \/ t[2] > superstep
        \/ /\ t[2] = superstep
           /\ \/ t[1] = "complete" /\ t[3] \in active \ done
              \/ t[1] = "end" /\ active # {}}

(* Taking something from a finite set leaves fewer members.                 *)
LEMMA FewerMembers ==
    ASSUME NEW S, IsFiniteSet(S), NEW T, T \subseteq S
    PROVE  /\ IsFiniteSet(T) /\ Cardinality(S) \in Nat /\ Cardinality(T) \in Nat
           /\ Cardinality(T) <= Cardinality(S)
           /\ T # S => Cardinality(T) < Cardinality(S)
<1>1. /\ IsFiniteSet(T) /\ Cardinality(T) <= Cardinality(S)
      /\ Cardinality(S) = Cardinality(T) => S = T
  BY FS_Subset
<1>2. Cardinality(S) \in Nat /\ Cardinality(T) \in Nat
  BY <1>1, FS_CardinalityType
<1> QED
  BY <1>1, <1>2

(* A product of three finite sets is finite.                                *)
LEMMA TriplesAreFinite ==
    ASSUME NEW A, IsFiniteSet(A), NEW B, IsFiniteSet(B), NEW C, IsFiniteSet(C)
    PROVE  IsFiniteSet(A \X B \X C)
<1> DEFINE P == (A \X B) \X C
           T == A \X B \X C
           f == [p \in P |-> <<p[1][1], p[1][2], p[2]>>]
<1>1. IsFiniteSet(P)
  BY FS_Product
<1>2. f \in [P -> T]
  OBVIOUS
<1>3. \A t \in T : \E p \in P : f[p] = t
  <2> SUFFICES ASSUME NEW t \in T
               PROVE  \E p \in P : f[p] = t
    OBVIOUS
  <2> DEFINE p == <<<<t[1], t[2]>>, t[3]>>
  <2>1. t[1] \in A /\ t[2] \in B /\ t[3] \in C /\ t = <<t[1], t[2], t[3]>>
    OBVIOUS
  <2>2. p \in P /\ f[p] = <<t[1], t[2], t[3]>>
    BY <2>1
  <2> QED
    BY <2>1, <2>2
<1>4. f \in Surjection(P, T)
  BY <1>2, <1>3 DEF Surjection
<1> HIDE DEF P, T, f
<1>5. IsFiniteSet(T)
  BY <1>1, <1>4, FS_Surjection
<1> QED
  BY <1>5 DEF T

(* A graph with finitely many nodes leaves finitely many moves.             *)
LEMMA TurnsAreFinite ==
    ASSUME IsFiniteSet(graph.nodes), LimitAssumption
    PROVE  IsFiniteSet(Turns)
<1> DEFINE A == {"begin", "complete", "end"}
           B == 0..RecursionLimit
<1>1. IsFiniteSet(A)
  <2>1. IsFiniteSet({} \cup {"begin"})
    BY FS_EmptySet, FS_AddElement
  <2>2. IsFiniteSet(({} \cup {"begin"}) \cup {"complete"})
    BY <2>1, FS_AddElement
  <2>3. IsFiniteSet((({} \cup {"begin"}) \cup {"complete"}) \cup {"end"})
    BY <2>2, FS_AddElement
  <2>4. A = (({} \cup {"begin"}) \cup {"complete"}) \cup {"end"}
    OBVIOUS
  <2> HIDE DEF A
  <2> QED
    BY <2>3, <2>4
<1>2. IsFiniteSet(B)
  BY FS_Interval DEF LimitAssumption
<1>3. Turns \subseteq A \X B \X graph.nodes
  BY DEF Turns
<1> HIDE DEF A, B
<1>4. IsFiniteSet(A \X B \X graph.nodes)
  BY <1>1, <1>2, TriplesAreFinite
<1> QED
  BY <1>3, <1>4, FS_Subset

(* Each step takes moves away and adds none.                                *)
LEMMA FewerTurns ==
    ASSUME SchedTypeOK, LimitAssumption,
           \/ BeginSuperstep
           \/ \E n \in active : \E b \in Branches(graph, n) : Complete(n, b)
           \/ EndSuperstep
    PROVE  Turns' \subseteq Turns /\ Turns' # Turns
<1>1. /\ graph' = graph /\ superstep \in 0..RecursionLimit /\ RecursionLimit \in Nat
      /\ active \subseteq graph.nodes /\ ready \cup held \subseteq graph.nodes
  BY DEF SchedTypeOK, LimitAssumption, BeginSuperstep, Complete, EndSuperstep
<1>2. CASE BeginSuperstep
  <2>1. superstep' = superstep + 1 /\ superstep + 1 \in 0..RecursionLimit
    BY <1>1, <1>2 DEF BeginSuperstep, NextSuperstep
  <2>2. PICK n \in graph.nodes : TRUE
    BY <1>1, <1>2 DEF BeginSuperstep
  <2>3. Turns' \subseteq Turns
    BY <1>1, <2>1 DEF Turns
  <2>4. <<"begin", superstep + 1, n>> \in Turns \ Turns'
    BY <1>1, <2>1 DEF Turns
  <2> QED
    BY <2>3, <2>4
<1>3. ASSUME NEW n \in active, NEW b \in Branches(graph, n), Complete(n, b)
      PROVE  Turns' \subseteq Turns /\ Turns' # Turns
  <2>1. /\ superstep' = superstep /\ active' = active /\ done' = done \cup {n}
        /\ n \in active \ done
    BY <1>3 DEF Complete
  <2>2. Turns' \subseteq Turns
    BY <1>1, <2>1 DEF Turns
  <2>3. <<"complete", superstep, n>> \in Turns \ Turns'
    BY <1>1, <2>1 DEF Turns
  <2> QED
    BY <2>2, <2>3
<1>4. CASE EndSuperstep
  <2>1. /\ superstep' = superstep /\ active' = {} /\ active # {}
    BY <1>4 DEF EndSuperstep
  <2>2. PICK n \in active : TRUE
    BY <2>1
  <2>3. Turns' \subseteq Turns
    BY <1>1, <2>1 DEF Turns
  <2>4. <<"end", superstep, n>> \in Turns \ Turns'
    BY <1>1, <2>1 DEF Turns
  <2> QED
    BY <2>3, <2>4
<1> QED
  BY <1>2, <1>3, <1>4

(* An execution of a graph with finitely many nodes has only finitely many  *)
(* steps, also when the graph is cyclic: the safety part of Terminates,     *)
(* about the recursionLimit of runtime/src/index.ts.                        *)
THEOREM ExecutionIsFinite ==
    ASSUME \A g \in Graphs : IsFiniteSet(g.nodes)
    PROVE  ExecSpec => /\ [](Cardinality(Turns) \in Nat)
                       /\ [][Cardinality(Turns') < Cardinality(Turns)]_execVars
<1>1. ExecInv => IsFiniteSet(Turns) /\ Cardinality(Turns) \in Nat
  <2> SUFFICES ASSUME ExecInv
               PROVE  IsFiniteSet(Turns) /\ Cardinality(Turns) \in Nat
    OBVIOUS
  <2>1. IsFiniteSet(graph.nodes)
    BY DEF ExecInv, SchedTypeOK
  <2> QED
    BY <2>1, LimitAssumption, TurnsAreFinite, FS_CardinalityType
<1>2. ExecInv /\ [ExecNext]_execVars => [Cardinality(Turns') < Cardinality(Turns)]_execVars
  <2> SUFFICES ASSUME ExecInv, ExecNext
               PROVE  Cardinality(Turns') < Cardinality(Turns)
    OBVIOUS
  <2>1. Turns' \subseteq Turns /\ Turns' # Turns
    BY LimitAssumption, FewerTurns DEF ExecInv, ExecNext
  <2> QED
    BY <1>1, <2>1, FewerMembers
<1> QED
  BY <1>1, <1>2, ExecInvariant, PTL DEF ExecSpec

=============================================================================
