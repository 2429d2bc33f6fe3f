------------------------------- MODULE DagRun -------------------------------
(***************************************************************************)
(* What a run of an acyclic pipeline promises, without supersteps and      *)
(* without deferral: every node that is reached is executed exactly once,  *)
(* and only when nothing that could still feed it is left to execute       *)
(* (compiler.ts: fan-in nodes "run once, after all reachable parents       *)
(* complete").                                                             *)
(***************************************************************************)
EXTENDS PipelineGraph

VARIABLES
    graph,      \* the graph of this run
    pending,    \* reached, not executed yet
    executed    \* executed

vars == <<graph, pending, executed>>

Init ==
    /\ graph \in Graph
    /\ pending = EntryNodes(graph)
    /\ executed = {}

(* Nothing pending can reach n any more.                                    *)
Settled(n) == \A m \in pending : n \notin Descendants(graph, m)

Execute(n, b) ==
    /\ n \in pending \ executed
    /\ Settled(n)
    /\ executed' = executed \cup {n}
    /\ pending' = (pending \ {n}) \cup Targets(graph, n, b)
    /\ UNCHANGED graph

Next == \E n \in graph.nodes : \E b \in Branches(graph, n) : Execute(n, b)

Spec == Init /\ [][Next]_vars /\ WF_vars(Next)

=============================================================================
