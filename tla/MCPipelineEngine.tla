-------------------------- MODULE MCPipelineEngine --------------------------
(* Three runs of one pipeline and one of another: enough for concurrent     *)
(* misses of one graph, a hit between two of them, and a miss that evicts.  *)
EXTENDS PipelineEngine, TLC

CONSTANTS a, b, a1, a2, a3, b1, tools, mcp

MCPipelineOf == a1 :> a @@ a2 :> a @@ a3 :> a @@ b1 :> b

RunsOfOnePipeline == Permutations({a1, a2, a3})

=============================================================================
