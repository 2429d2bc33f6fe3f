------------------------------ MODULE Topology ------------------------------
(***************************************************************************)
(* computeAncestors of core/src/topology.ts, which decides the outputs the *)
(* param resolver of a node gets to see (extractPredecessorOutputs of      *)
(* nodes/src/node-runner.ts), in data-flow order. Each of its loops is a   *)
(* function of the number of iterations; a loop that has ended stands      *)
(* still.                                                                  *)
(***************************************************************************)
EXTENDS PipelineGraph, SequencesExt

EdgesFromOutside(g, n, found) == {i \in EdgesInto(g, n) : g.edges[i].from \notin found}

(* The reverse breadth-first search. The queue has an entry per edge: a     *)
(* node that is entered a second time is skipped when its turn comes.       *)
Visit(g, s) ==
    IF s.queue = <<>> THEN s
    ELSE LET id == g.edges[Head(s.queue)].from
             ancestors == s.found \cup {id}
         IN  IF id \in s.found THEN [s EXCEPT !.queue = Tail(@)]
             ELSE [queue |-> Tail(s.queue) \o SetToSeq(EdgesFromOutside(g, id, ancestors)),
                   found |-> ancestors]

Search(g, n) ==
    LET after[k \in Nat] ==
            IF k = 0 THEN [queue |-> SetToSeq(EdgesInto(g, n)), found |-> {}]
            ELSE Visit(g, after[k - 1])
    IN  after

(* Every edge is entered at most once for n and once for the node it leads  *)
(* to.                                                                      *)
Ancestors(g, n) == Search(g, n)[2 * Len(g.edges)].found

(* inDegree counts edges, not nodes: parallel edges count twice. The        *)
(* variant counts nodes.                                                    *)
NodesBetween(g, from, n) == Cardinality(Predecessors(g, n) \cap from)
EdgesBetween(g, from, n) == Cardinality({i \in EdgesInto(g, n) : g.edges[i].from \in from})

(* Kahn's sort: ready nodes leave in turn, each edge out of them lowers the *)
(* degree of its end, and an end whose degree reaches 0 becomes ready.      *)
Leave(g, s) ==
    IF s.ready = <<>> THEN s
    ELSE LET id == Head(s.ready)
             lowered == [a \in DOMAIN s.inDegree |->
                           s.inDegree[a] - Cardinality(EdgesFrom(g, id) \cap EdgesInto(g, a))]
             freed == {a \in DOMAIN lowered : s.inDegree[a] > 0 /\ lowered[a] = 0}
         IN  [inDegree |-> lowered,
              ready |-> Tail(s.ready) \o SetToSeq(freed),
              ordered |-> Append(s.ordered, id)]

Sort(g, found) ==
    LET inDegree == [a \in found |-> EdgesBetween(g, found, a)]
        after[k \in Nat] ==
            IF k = 0 THEN [inDegree |-> inDegree,
                           ready |-> SetToSeq({a \in found : inDegree[a] = 0}),
                           ordered |-> <<>>]
            ELSE Leave(g, after[k - 1])
    IN  after

(* Every ancestor leaves at most once.                                      *)
computeAncestors(g, n) ==
    LET found == Ancestors(g, n) IN Sort(g, found)[Cardinality(found)].ordered

-----------------------------------------------------------------------------
(* The ancestors of n that neither lie on a cycle nor behind one.           *)
OrderedAncestors(g, n) ==
    LET cyclic == {a \in Above(g, n) : a \in Descendants(g, a)}
    IN  Above(g, n) \ (cyclic \cup UNION {Descendants(g, c) : c \in cyclic})

(* A node's ancestors come out once each and after all they depend on; none *)
(* is missing but those on a cycle or behind one, which on an acyclic graph *)
(* is none (topology.ts:34-37).                                             *)
AncestorsInOrder(g) ==
    \A n \in g.nodes :
        LET result == computeAncestors(g, n) IN
        /\ ToSet(result) = OrderedAncestors(g, n)
        /\ \A i, j \in DOMAIN result : result[i] = result[j] => i = j
        /\ InDataFlowOrder(g, result)

=============================================================================
