--------------------------- MODULE PipelineGraph ---------------------------
(***************************************************************************)
(* The pipeline graph and what compilation makes of it: the topology of    *)
(* core/src/topology.ts and the wiring of nodes/src/compiler.ts.           *)
(***************************************************************************)
EXTENDS Naturals, Sequences, FiniteSets

CONSTANT Node   \* every id a graph may mention, known or dangling

Labels == {"true", "false", "none"}

(* A persisted graph: its node ids; its edges in order (a dangling edge has *)
(* an end outside nodes); the nodes with nodeType IF; those whose key       *)
(* starts with "mcp:"; those with an auto-bound input slot.                 *)
Graph == [nodes : SUBSET Node,
          edges : Seq([from : Node, to : Node, label : Labels]),
          ifs   : SUBSET Node,
          mcp   : SUBSET Node,
          auto  : SUBSET Node]

(* The ways out of a completed node: an IF node routes on its output, any   *)
(* other node has one unlabelled way out.                                   *)
Branches(g, n) == IF n \in g.ifs THEN {"true", "false"} ELSE {"none"}

-----------------------------------------------------------------------------
(* analyzeTopology: one predecessor and one successor entry per edge.       *)

EdgesInto(g, n) == {i \in DOMAIN g.edges : g.edges[i].to = n}
EdgesFrom(g, n) == {i \in DOMAIN g.edges : g.edges[i].from = n}

Predecessors(g, n) == {g.edges[i].from : i \in EdgesInto(g, n)}
Successors(g, n) == {g.edges[i].to : i \in EdgesFrom(g, n)}

EntryNodes(g) == {n \in g.nodes : EdgesInto(g, n) = {}}
ExitNodes(g) == {n \in g.nodes : EdgesFrom(g, n) = {}}

(* In-degree at least two: the node is added with `defer: true`. The        *)
(* variant forgets the barrier.                                             *)
NoBarrier(g, n) == FALSE
IsFanIn(g, n) == \E i, j \in EdgesInto(g, n) : i # j

-----------------------------------------------------------------------------
(* compile: wiring. Of an IF node only its labelled edges are wired, and    *)
(* the last edge with a label replaces the earlier ones.                    *)

BranchEdges(g, n, b) == {i \in EdgesFrom(g, n) : g.edges[i].label = b}

BranchTarget(g, n, b) ==
    {g.edges[i].to :
        i \in {i \in BranchEdges(g, n, b) :
                 \A j \in BranchEdges(g, n, b) : j <= i}}

(* The nodes triggered by a node that completes on branch b.                *)
Targets(g, n, b) ==
    IF n \in g.ifs THEN BranchTarget(g, n, b) ELSE Successors(g, n)

(* An IF node without any edge is an exit like any other; one with an edge  *)
(* needs both labels.                                                       *)
MissingBranch(g) ==
    \E n \in g.ifs \ ExitNodes(g), b \in {"true", "false"} :
        BranchEdges(g, n, b) = {}

WiredTargets(g) ==
    UNION {Targets(g, n, b) : n \in g.nodes, b \in Labels}

(* External: StateGraph.compile rejects an edge with an unknown end and a   *)
(* node that neither START nor a wired edge reaches. The variant accepts    *)
(* anything.                                                                *)
AcceptAnything(g) == TRUE
StateGraphAccepts(g) ==
    /\ \A i \in DOMAIN g.edges : g.edges[i].from \in g.nodes
    /\ WiredTargets(g) \subseteq g.nodes
    /\ g.nodes \subseteq EntryNodes(g) \cup WiredTargets(g)

(* The checks every graph must pass whatever the host's registry and        *)
(* validator say.                                                           *)
Compilable(g) ==
    /\ EntryNodes(g) # {}
    /\ ExitNodes(g) # {}
    /\ ~MissingBranch(g)
    /\ StateGraphAccepts(g)

-----------------------------------------------------------------------------
(* Not in the code: reachability along edges, for stating properties.       *)

(* The nodes reachable from n by at least one edge: what is in every set    *)
(* that keeps to the edges of n and of its own members.                     *)
Descendants(g, n) ==
    LET next == [m \in Node |-> Successors(g, m)]
        Closed(S) == \A m \in {n} \cup S : next[m] \subseteq S
    IN  {m \in Node : \A S \in SUBSET Node : Closed(S) => m \in S}

Above(g, n) == {a \in g.nodes : n \in Descendants(g, a)}

(* Nodes at positions, each after all it depends on.                        *)
InDataFlowOrder(g, s) ==
    \A i, j \in DOMAIN s : s[j] \in Descendants(g, s[i]) => i < j

Acyclic(g) == \A n \in g.nodes : n \notin Descendants(g, n)

NoGraph == [nodes |-> {}, edges |-> <<>>, ifs |-> {}, mcp |-> {}, auto |-> {}]

(* Whenever one fan-in node leads to another, everything that enters the    *)
(* second comes from the first.                                             *)
WellNested(g) ==
    \A d \in g.nodes : IsFanIn(g, d) =>
        \A e \in Descendants(g, d) : IsFanIn(g, e) =>
            Predecessors(g, e) \subseteq {d} \cup Descendants(g, d)

=============================================================================
