-------------------------- MODULE MCGraphExecution --------------------------
(***************************************************************************)
(* GraphExecution on every acyclic graph of a given size, every choice of  *)
(* IF nodes among the nodes with two edges out, and on a few graphs with   *)
(* cycles.                                                                 *)
(***************************************************************************)
EXTENDS GraphExecution, FiniteSetsExt

CONSTANT Size       \* nodes are 1..Size

MCNode == 1..Size

ForwardEdges == {e \in MCNode \X MCNode : e[1] < e[2]}
OutOf(E, n) == {e \in E : e[1] = n}
MayBranch(E) == {n \in MCNode : Cardinality(OutOf(E, n)) = 2}

(* The first edge out of an IF node is its true branch, the second its      *)
(* false branch.                                                            *)
LabelOf(E, I, e) ==
    IF e[1] \notin I THEN "none"
    ELSE IF \A f \in OutOf(E, e[1]) : e[2] <= f[2] THEN "true" ELSE "false"

GraphOf(E, I) ==
    [nodes |-> MCNode,
     edges |-> FoldSet(LAMBDA e, s :
                         Append(s, [from |-> e[1], to |-> e[2], label |-> LabelOf(E, I, e)]),
                       <<>>, E),
     ifs |-> I, mcp |-> {}, auto |-> {}]

Dags == UNION {{GraphOf(E, I) : I \in SUBSET MayBranch(E)} : E \in SUBSET ForwardEdges}

(* Graphs on four nodes that pass the topology check and have a cycle: a    *)
(* plain loop, a loop left by an IF node, and a loop through a fan-in node  *)
(* that has a plain predecessor too.                                        *)
Cyclic ==
    {GraphOf({<<1, 2>>, <<2, 3>>, <<3, 2>>, <<3, 4>>}, {}),
     GraphOf({<<1, 2>>, <<2, 3>>, <<3, 2>>, <<3, 4>>}, {3}),
     GraphOf({<<1, 2>>, <<1, 3>>, <<2, 3>>, <<3, 2>>, <<2, 4>>}, {2})}

(* An IF node with more edges than branches: the later true edge wins, and  *)
(* the node of the earlier one is reached another way.                      *)
Edge(f, t, l) == [from |-> f, to |-> t, label |-> l]
Relabelled ==
    {[nodes |-> MCNode,
      edges |-> <<Edge(1, 2, "true"), Edge(1, 3, "false"), Edge(1, 4, "true"),
                  Edge(1, 4, "none"), Edge(4, 2, "none")>>,
      ifs |-> {1}, mcp |-> {}, auto |-> {}]}

(* An edge to a node that is not in the graph.                              *)
Dangling ==
    {[nodes |-> {1, 2}, edges |-> <<Edge(1, 2, "none"), Edge(1, 3, "none")>>,
      ifs |-> {}, mcp |-> {}, auto |-> {}]}

AllGraphs == Dags \cup Cyclic \cup Relabelled \cup Dangling

=============================================================================
