---------------------------- MODULE MCPipelineRun ----------------------------
(***************************************************************************)
(* PipelineRun, with the MCP catalog loader, on a handful of small graphs. *)
(***************************************************************************)
EXTENDS NodeInputs

MCNode == 1..4

Edge(f, t, l) == [from |-> f, to |-> t, label |-> l]

GraphWith(nodes, edges, ifs, mcp, auto) ==
    [nodes |-> nodes, edges |-> edges, ifs |-> ifs, mcp |-> mcp, auto |-> auto]

(* Two parallel nodes between a first and a fan-in node; one of them needs  *)
(* the param resolver.                                                      *)
Diamond ==
    GraphWith(1..4,
              <<Edge(1, 2, "none"), Edge(1, 3, "none"),
                Edge(2, 4, "none"), Edge(3, 4, "none")>>, {}, {}, {2})

(* An IF node whose branches meet again, and an MCP node on one of them.    *)
Branch ==
    GraphWith(1..4,
              <<Edge(1, 2, "true"), Edge(1, 3, "false"),
                Edge(2, 4, "none"), Edge(3, 4, "none")>>, {1}, {2}, {})

(* Two isolated nodes, one of them an MCP node.                             *)
Parallel == GraphWith(1..2, <<>>, {}, {1}, {})

(* A loop behind an entry node, left by an IF node.                         *)
Loop ==
    GraphWith(1..4,
              <<Edge(1, 2, "none"), Edge(2, 3, "true"), Edge(2, 4, "false"),
                Edge(3, 2, "none")>>, {2}, {}, {})

(* A fan-in node that leads to another one, which then runs twice.          *)
Nested ==
    GraphWith(1..4,
              <<Edge(1, 3, "none"), Edge(2, 3, "none"),
                Edge(3, 4, "none"), Edge(1, 4, "none")>>, {}, {}, {})

(* A fan-in node one of whose edges is a shortcut past the other.           *)
Shortcut ==
    GraphWith(1..3, <<Edge(1, 2, "none"), Edge(2, 3, "none"), Edge(1, 3, "none")>>,
              {}, {}, {})

(* An IF node without a false branch does not compile.                      *)
HalfBranch == GraphWith(1..2, <<Edge(1, 2, "true")>>, {1}, {}, {})

(* Neither does an edge to a node that was deleted.                         *)
Dangling == GraphWith(1..2, <<Edge(1, 2, "none"), Edge(1, 3, "none")>>, {}, {}, {})

MCGraphs == {Diamond, Branch, Shortcut, Parallel, Loop, Nested, HalfBranch, Dangling}
SmallGraphs == {Branch, Parallel, HalfBranch}

CONSTANTS s1, s2

OnePage == [s \in {s1, s2} |-> 1]

MixedPages == [s \in {s1, s2} |-> IF s = s1 THEN 1 ELSE 2]

(* A server with more tools than it lists at once.                          *)
TwoPages == [s \in {s1} |-> 2]

(* Both servers would do: the MCP nodes use one of them.                    *)
FirstServer == [n \in MCNode |-> s1]

=============================================================================
