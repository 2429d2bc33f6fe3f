---------------------------- MODULE MCPlayground ----------------------------
(* The backend's seed: two nodes and an edge without a label                *)
(* (examples/playground/backend.ts). One more edge and one more pipeline    *)
(* may come to be, and two saves may be under way at once.                  *)
EXTENDS Playground, TLC

CONSTANTS seed, new, u, r, e1, e2, s1, s2

StarterGraph ==
    [id |-> seed, name |-> "starter", nodes |-> u :> "a" @@ r :> "a",
     edges |-> {[id |-> e1, from |-> u, to |-> r, label |-> "undefined"]}]

(* Calls of save() differ in nothing but their name.                        *)
AlikeCalls == Permutations(SaveCalls)

=============================================================================
