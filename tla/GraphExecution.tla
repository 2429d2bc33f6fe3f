--------------------------- MODULE GraphExecution ---------------------------
(***************************************************************************)
(* The compiled graph under its scheduler. The wiring is the project's     *)
(* (compiler.ts); the scheduler is LangGraph's, outside the repository, as *)
(* the code relies on it: nodes run in supersteps, a superstep ends when   *)
(* every node of it has completed, its outputs then reach the state and    *)
(* the nodes its edges lead to form the next one. A deferred node is held  *)
(* back until a superstep would otherwise be empty; all the held nodes are *)
(* then released together.                                                 *)
(***************************************************************************)
EXTENDS PipelineGraph, Topology

CONSTANTS
    Graphs,             \* the graphs a run may be started on
    RecursionLimit      \* the superstep limit (100 in runtime/src/index.ts)

ASSUME GraphsAssumption == Graphs \subseteq Graph
ASSUME LimitAssumption == RecursionLimit \in Nat \ {0}

VARIABLES
    graph,      \* the graph of this run
    ready,      \* triggered, to run in the next superstep
    held,       \* triggered and deferred
    active,     \* the nodes of the current superstep
    done,       \* those of them that have completed
    fired,      \* what the completed ones trigger
    outputs,    \* the nodes with an output in the run state
    superstep   \* supersteps begun

schedVars == <<ready, held, active, done, fired, outputs, superstep>>
execVars == <<graph, ready, held, active, done, fired, outputs, superstep>>

SchedTypeOK ==
    /\ graph \in Graphs
    /\ ready \subseteq graph.nodes
    /\ held \subseteq graph.nodes
    /\ active \subseteq graph.nodes
    /\ done \subseteq active
    /\ fired \subseteq graph.nodes
    /\ outputs \subseteq graph.nodes
    /\ superstep \in 0..RecursionLimit

Unscheduled ==
    /\ graph \in Graphs
    /\ ready = {} /\ held = {} /\ active = {}
    /\ done = {} /\ fired = {} /\ outputs = {}
    /\ superstep = 0

-----------------------------------------------------------------------------
(* START leads to every entry node.                                         *)
Invoke ==
    /\ Compilable(graph)
    /\ ready' = EntryNodes(graph)
    /\ UNCHANGED <<graph, held, active, done, fired, outputs, superstep>>

(* The held nodes are released only when nothing else is triggered, all of  *)
(* them at once. The variant releases them with whatever comes next.        *)
ReleaseEagerly == ready \cup held
Released == IF ready # {} THEN ready ELSE held

(* The variant does not count towards the limit.                            *)
SameSuperstep == superstep
NextSuperstep == superstep + 1

BeginSuperstep ==
    /\ active = {}
    /\ ready \cup held # {}
    /\ superstep < RecursionLimit
    /\ superstep' = NextSuperstep
    /\ active' = Released
    /\ ready' = {}
    /\ held' = held \ Released
    /\ UNCHANGED <<graph, done, fired, outputs>>

(* A node of the superstep completes on branch b.                           *)
Complete(n, b) ==
    /\ n \in active \ done
    /\ b \in Branches(graph, n)
    /\ done' = done \cup {n}
    /\ fired' = fired \cup Targets(graph, n, b)
    /\ UNCHANGED <<graph, ready, held, active, outputs, superstep>>

(* Newly triggered fan-in nodes join the held ones. The variant replaces    *)
(* them.                                                                    *)
ReplaceHeld == {n \in fired : IsFanIn(graph, n)}
AddHeld == held \cup {n \in fired : IsFanIn(graph, n)}

(* The superstep's writes are applied all at once.                          *)
EndSuperstep ==
    /\ active # {}
    /\ done = active
    /\ outputs' = outputs \cup active
    /\ ready' = {n \in fired : ~IsFanIn(graph, n)}
    /\ held' = AddHeld
    /\ active' = {} /\ done' = {} /\ fired' = {}
    /\ UNCHANGED <<graph, superstep>>

(* Nothing left to run.                                                     *)
Finished == active = {} /\ ready = {} /\ held = {}

(* GraphRecursionError. A run that needs exactly RecursionLimit supersteps  *)
(* may end either way.                                                      *)
OutOfSteps == active = {} /\ superstep = RecursionLimit

-----------------------------------------------------------------------------
(* The scheduler alone, every node completing sooner or later.              *)

ExecInit ==
    /\ graph \in Graphs
    /\ Compilable(graph)
    /\ ready = EntryNodes(graph)
    /\ held = {} /\ active = {} /\ done = {} /\ fired = {} /\ outputs = {}
    /\ superstep = 0

ExecNext ==
    \/ BeginSuperstep
    \/ \E n \in active : \E b \in Branches(graph, n) : Complete(n, b)
    \/ EndSuperstep

ExecSpec == ExecInit /\ [][ExecNext]_execVars /\ WF_execVars(ExecNext)

-----------------------------------------------------------------------------
(* Triggered, whether or not it has been executed since.                    *)
Reached == outputs \cup active \cup ready \cup held \cup fired

(* A finished run lost nothing on the way: every entry node has an output,  *)
(* and every node with an output handed over to all the nodes of one of its *)
(* branches, which have outputs too. About applying a superstep's triggers  *)
(* and releasing the held fan-in nodes (compiler.ts).                       *)
NothingLost ==
    Finished =>
        /\ EntryNodes(graph) \subseteq outputs
        /\ \A n \in outputs :
              \E b \in Branches(graph, n) : Targets(graph, n, b) \subseteq outputs

(* Execution always comes to an end, on a cyclic graph by the superstep     *)
(* limit of runtime/src/index.ts.                                           *)
Terminates == <>(Finished \/ OutOfSteps)

(* A fan-in node runs once (compiler.ts: deferred "so they run once, after  *)
(* all reachable parents complete").                                        *)
FanInRunsOnce == \A n \in active : IsFanIn(graph, n) => n \notin outputs

(* computeAncestors finds what it should on every graph that compiled; it   *)
(* is looked at once, before anything runs.                                 *)
AncestorsOfGraph == superstep = 0 /\ active = {} => AncestorsInOrder(graph)

(* On a well-nested acyclic graph, supersteps and deferral implement        *)
(* dependency order: the execution is one of DagRun, in which every reached *)
(* node executes exactly once and after everything that could still feed    *)
(* it. Any other graph counts as one without nodes, of which nothing is     *)
(* asked.                                                                   *)
OrderedGraphs == {g \in Graphs : Acyclic(g) /\ WellNested(g)}
Ordered == graph \in OrderedGraphs

Dag == INSTANCE DagRun WITH
          graph    <- IF Ordered THEN graph ELSE NoGraph,
          pending  <- IF Ordered THEN ready \cup held \cup (active \ done) \cup fired
                      ELSE {},
          executed <- IF Ordered THEN outputs \cup done ELSE {}

DagSpec == Dag!Spec

=============================================================================
