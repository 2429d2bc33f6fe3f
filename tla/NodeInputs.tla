----------------------------- MODULE NodeInputs -----------------------------
(***************************************************************************)
(* The state a node of a served run gets to see when its inputs are        *)
(* resolved: what its state bindings resolve to                            *)
(* (nodes/src/value-binding-resolver.ts) and the outputs its param         *)
(* resolver is shown (extractPredecessorOutputs of                         *)
(* nodes/src/node-runner.ts). A runner has the state its superstep began   *)
(* with; the output of a node is named after its step, as in RunLedger.    *)
(***************************************************************************)
EXTENDS ServedRun

Undefined == 0      \* no step

(* At outputs.<m>: a path that leads nowhere is no error.                   *)
getByPath(m) == IF m \in DOMAIN latest THEN latest[m] ELSE Undefined

(* The state bindings of a node, to outputs of the nodes ms.                *)
resolveExplicit(ms) == [m \in ms |-> getByPath(m)]

(* Of all the outputs, those of the ancestors, entered in data-flow order.  *)
(* The variant stops at the direct predecessors.                            *)
OutputsOf(ids) ==
    [i \in {i \in DOMAIN ids : ids[i] \in DOMAIN latest} |->
        [id |-> ids[i], output |-> latest[ids[i]]]]
DirectPredecessorOutputs(n) ==
    OutputsOf(SelectSeq(computeAncestors(graph, n), LAMBDA a : a \in Predecessors(graph, n)))
extractPredecessorOutputs(n) == OutputsOf(computeAncestors(graph, n))

-----------------------------------------------------------------------------
(* A node whose inputs are about to be resolved has all that will ever be   *)
(* known of the nodes before it: none of them is still to run, the resolver *)
(* is shown the last output of every one that ran, each after those it      *)
(* depends on, and a binding to it yields what its last step put out. On    *)
(* acyclic graphs in which no fan-in node has a way around an earlier one   *)
(* to a later one (node-runner.ts:80-120).                                  *)
SeesAncestors ==
    Ordered =>
        \A n \in {n \in graph.nodes : pc[n] = "started"} :
            LET ran == {steps[i].node : i \in DOMAIN steps} \cap Above(graph, n)
                shownTo == extractPredecessorOutputs(n)
            IN
            /\ Above(graph, n) \cap (ready \cup held \cup active \cup fired) = {}
            /\ {shownTo[i].id : i \in DOMAIN shownTo} = ran
            /\ InDataFlowOrder(graph, [i \in DOMAIN shownTo |-> shownTo[i].id])
            /\ \A i \in DOMAIN shownTo : LastStep(shownTo[i].id, shownTo[i].output)
            /\ \A m \in ran : LastStep(m, resolveExplicit(ran)[m])

=============================================================================
