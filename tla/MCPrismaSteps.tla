---------------------------- MODULE MCPrismaSteps ----------------------------
(* Two runs: three calls queue up in one, the other has a queue of its own. *)
EXTENDS PrismaSteps

CONSTANTS r1, r2, c1, c2, c3, d1

MCRuns == {r1, r2}
MCCalls == {c1, c2, c3, d1}
MCRunOf == [c \in MCCalls |-> IF c = d1 THEN r2 ELSE r1]

=============================================================================
