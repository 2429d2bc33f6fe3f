---------------------------- MODULE MCPrismaSave ----------------------------
(* A pipeline is created and saved again by several calls at once, another  *)
(* one may be created, and drafts of both may name the same node.           *)
EXTENDS PrismaSave, TLC

CONSTANTS p1, p2, x, y, z, s1, s2, s3, s4, l1, l2

Draft(id, ns, es) == [id |-> id, nodes |-> ns, edges |-> es]

MCDrafts ==
    {Draft(Nothing, <<x, y>>, {<<x, y>>}),
     Draft(Nothing, <<z>>, {}),
     Draft(p1, <<y, x>>, {<<y, x>>}),
     Draft(p1, <<y, z>>, {<<y, z>>}),
     Draft(p1, <<x>>, {<<x, y>>})}

Calls == Permutations({s1, s2, s3, s4}) \cup Permutations({l1, l2})

=============================================================================
