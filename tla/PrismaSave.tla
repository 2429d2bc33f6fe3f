----------------------------- MODULE PrismaSave -----------------------------
(***************************************************************************)
(* How PrismaPipelineStore saves and loads pipelines                       *)
(* (store-prisma/src/index.ts): save() is an interactive transaction,      *)
(* load() a few queries outside any transaction. PostgreSQL runs them at   *)
(* READ COMMITTED: a statement sees what was committed before it and what  *)
(* its own transaction wrote. An action is one statement.                  *)
(*                                                                         *)
(* What a row holds besides its keys is named by the save that wrote it.   *)
(***************************************************************************)
EXTENDS Sequences, FiniteSets, Functions

CONSTANTS
    Pipelines,  \* the ids pipelines may have
    NodeIds,
    Drafts,     \* [id, nodes, edges]: what save() may be called with
    Saves,      \* the calls of save()
    Loads,      \* the calls of load()
    Nothing

ASSUME DraftsAssumption ==
    Drafts \subseteq [id : Pipelines \cup {Nothing},
                      nodes : Seq(NodeIds),
                      edges : SUBSET (NodeIds \X NodeIds)]
VARIABLES
    pipelineRow,    \* the save each pipeline's row was written by
    nodeRow,        \* the rows of pipeline_node
    edgeRow,        \* the rows of pipeline_edge
    tx,             \* the transaction of each call of save()
    loads           \* what each call of load() has read

vars == <<pipelineRow, nodeRow, edgeRow, tx, loads>>

NodeRow == [pipelineId : Pipelines, isDeleted : BOOLEAN, by : Saves]
EdgeRow == [pipelineId : Pipelines, from : NodeIds, to : NodeIds]

ASSUME NothingAssumption == Nothing \notin Pipelines \cup Saves \cup Drafts \cup NodeRow

(* The names of the open states say which statement is next.                *)
TxState == {"idle", "pipeline", "createMany", "deleteEdges", "findNodes",
            "softDelete", "nodes", "edges", "commit", "committed", "rejected"}
Open == TxState \ {"idle", "pipeline", "committed", "rejected"}

Tx == [state : TxState,
       draft : Drafts \cup {Nothing},
       pipelineId : Pipelines \cup {Nothing},
       existing : SUBSET NodeIds,                   \* existingIds
       left : Seq(NodeIds),                         \* the draft nodes yet to write
       nodes : [NodeIds -> NodeRow \cup {Nothing}], \* node rows written
       gone : SUBSET EdgeRow,                       \* edge rows deleted
       new : SUBSET EdgeRow]                        \* edge rows created

Load == [state : {"idle", "pipeline", "nodes", "edges", "resolved", "rejected"},
         pipelineId : Pipelines \cup {Nothing},
         row : Saves \cup {Nothing},
         nodes : SUBSET (NodeIds \X Saves),
         edges : SUBSET (NodeIds \X NodeIds)]

TypeOK ==
    /\ pipelineRow \in [Pipelines -> Saves \cup {Nothing}]
    /\ nodeRow \in [NodeIds -> NodeRow \cup {Nothing}]
    /\ edgeRow \subseteq EdgeRow
    /\ tx \in [Saves -> Tx]
    /\ loads \in [Loads -> Load]

NoTx == [state |-> "idle", draft |-> Nothing, pipelineId |-> Nothing,
         existing |-> {}, left |-> <<>>, nodes |-> [n \in NodeIds |-> Nothing],
         gone |-> {}, new |-> {}]

Init ==
    /\ pipelineRow = [p \in Pipelines |-> Nothing]
    /\ nodeRow = [n \in NodeIds |-> Nothing]
    /\ edgeRow = {}
    /\ tx = [s \in Saves |-> NoTx]
    /\ loads = [l \in Loads |-> [state |-> "idle", pipelineId |-> Nothing,
                                 row |-> Nothing, nodes |-> {}, edges |-> {}]]

-----------------------------------------------------------------------------
(* The database.                                                            *)

Tables == <<pipelineRow, nodeRow, edgeRow>>
Others(s) == {t \in Saves \ {s} : tx[t].state \in Open}

(* Nobody else holds the lock on the pipeline's row, which its update takes *)
(* and the transaction keeps. In the variant the row is not written.        *)
NoLock(s, p) == TRUE
RowIsFree(s, p) == \A t \in Others(s) : tx[t].pipelineId # p

(* A row another transaction has inserted makes an insert with the same key *)
(* wait; one that is committed makes it fail, whatever pipeline it is of.   *)
KeyIsFree(s, n) == nodeRow[n] = Nothing /\ \A t \in Others(s) : tx[t].nodes[n] = Nothing

NodeSeen(s, n) == IF tx[s].nodes[n] # Nothing THEN tx[s].nodes[n] ELSE nodeRow[n]

Statement(s, change) ==
    /\ tx' = [tx EXCEPT ![s] = change]
    /\ UNCHANGED <<Tables, loads>>

Written(s) == [pipelineId |-> tx[s].pipelineId, isDeleted |-> FALSE, by |-> s]
DraftNodes(s) == Range(tx[s].draft.nodes)

EdgesOf(s) ==
    {[pipelineId |-> tx[s].pipelineId, from |-> e[1], to |-> e[2]] : e \in tx[s].draft.edges}

-----------------------------------------------------------------------------
(* save().                                                                  *)
Save(s) ==
    /\ tx[s].state = "idle"
    /\ \E d \in Drafts :
          Statement(s, [tx[s] EXCEPT !.state = "pipeline", !.draft = d, !.left = d.nodes])

(* createPipeline: a row with a new id, and the nodes in one statement.     *)
CreatePipeline(s) ==
    /\ tx[s].state = "pipeline"
    /\ tx[s].draft.id = Nothing
    /\ \E p \in Pipelines :
          /\ pipelineRow[p] = Nothing
          /\ RowIsFree(s, p)
          /\ Statement(s, [tx[s] EXCEPT !.state = "createMany", !.pipelineId = p])

CreateNodes(s) ==
    /\ tx[s].state = "createMany"
    /\ \A n \in DraftNodes(s) : KeyIsFree(s, n)
    /\ Statement(s, [tx[s] EXCEPT
            !.state = "edges",
            !.left = <<>>,
            !.nodes = [n \in NodeIds |-> IF n \in DraftNodes(s) THEN Written(s) ELSE Nothing]])

(* updatePipeline: the row's update comes first.                            *)
UpdatePipeline(s) ==
    LET p == tx[s].draft.id IN
    /\ tx[s].state = "pipeline"
    /\ p # Nothing
    /\ pipelineRow[p] # Nothing
    /\ RowIsFree(s, p)
    /\ Statement(s, [tx[s] EXCEPT !.state = "deleteEdges", !.pipelineId = p])

DeleteEdges(s) ==
    /\ tx[s].state = "deleteEdges"
    /\ Statement(s, [tx[s] EXCEPT
            !.state = "findNodes",
            !.gone = {e \in edgeRow : e.pipelineId = tx[s].pipelineId}])

(* findMany, where the pipeline is the one saved. The variant has no where. *)
AllNodes(p) == {n \in NodeIds : nodeRow[n] # Nothing}
NodesOf(p) == {n \in AllNodes(p) : nodeRow[n].pipelineId = p}
FoundNodes(p) == NodesOf(p)

FindNodes(s) ==
    /\ tx[s].state = "findNodes"
    /\ Statement(s, [tx[s] EXCEPT
            !.state = "softDelete", !.existing = FoundNodes(tx[s].pipelineId)])

SoftDelete(s) ==
    /\ tx[s].state = "softDelete"
    /\ Statement(s, [tx[s] EXCEPT
            !.state = "nodes",
            !.nodes = [n \in NodeIds |->
                IF n \in tx[s].existing \ DraftNodes(s)
                THEN [nodeRow[n] EXCEPT !.isDeleted = TRUE] ELSE Nothing]])

(* The loop over the draft's nodes: update a node that was found, also one  *)
(* that was soft-deleted, or create it.                                     *)
WriteNode(s) ==
    LET n == Head(tx[s].left) IN
    /\ tx[s].state = "nodes"
    /\ tx[s].left # <<>>
    /\ n \in tx[s].existing \/ (KeyIsFree(s, n) /\ tx[s].nodes[n] = Nothing)
    /\ Statement(s, [tx[s] EXCEPT !.left = Tail(@), !.nodes[n] = Written(s)])

(* createMany on the edges; their nodes must exist, soft-deleted or not, in *)
(* this pipeline or another.                                                *)
CreateEdges(s) ==
    /\ tx[s].state \in {"nodes", "edges"}
    /\ tx[s].left = <<>>
    /\ \A e \in EdgesOf(s) : NodeSeen(s, e.from) # Nothing /\ NodeSeen(s, e.to) # Nothing
    /\ Statement(s, [tx[s] EXCEPT !.state = "commit", !.new = EdgesOf(s)])

Commit(s) ==
    /\ tx[s].state = "commit"
    /\ pipelineRow' = [pipelineRow EXCEPT ![tx[s].pipelineId] = s]
    /\ nodeRow' = [n \in NodeIds |-> NodeSeen(s, n)]
    /\ edgeRow' = (edgeRow \ tx[s].gone) \cup tx[s].new
    /\ tx' = [tx EXCEPT ![s] = [NoTx EXCEPT !.state = "committed"]]
    /\ UNCHANGED loads

(* A statement fails, the transaction times out or is chosen to break a     *)
(* deadlock: nothing of it remains.                                         *)
Rollback(s) ==
    /\ tx[s].state \in Open \cup {"pipeline"}
    /\ Statement(s, [NoTx EXCEPT !.state = "rejected"])

-----------------------------------------------------------------------------
(* What the tables say of a pipeline.                                       *)
LiveNodes(p) == {<<n, nodeRow[n].by>> : n \in {m \in NodesOf(p) : ~nodeRow[m].isDeleted}}
Edges(p) == {<<e.from, e.to>> : e \in {f \in edgeRow : f.pipelineId = p}}

Read(l, change) ==
    /\ loads' = [loads EXCEPT ![l] = change]
    /\ UNCHANGED <<Tables, tx>>

(* load(): findUnique reads the row and then each relation it includes. The *)
(* variant reads the row again at the end.                                  *)
LoadPipeline(l) ==
    /\ loads[l].state = "idle"
    /\ \E p \in Pipelines :
          Read(l, IF pipelineRow[p] = Nothing
                  THEN [loads[l] EXCEPT !.state = "rejected"]
                  ELSE [loads[l] EXCEPT !.state = "nodes", !.pipelineId = p,
                                        !.row = pipelineRow[p]])

LoadNodes(l) ==
    /\ loads[l].state = "nodes"
    /\ Read(l, [loads[l] EXCEPT !.state = "edges", !.nodes = LiveNodes(loads[l].pipelineId)])

KeyAtEnd(l) == pipelineRow[loads[l].pipelineId]
KeyOf(l) == loads[l].row

LoadEdges(l) ==
    /\ loads[l].state = "edges"
    /\ Read(l, [loads[l] EXCEPT !.state = "resolved", !.row = KeyOf(l),
                                !.edges = Edges(loads[l].pipelineId)])

-----------------------------------------------------------------------------
SaveStep(s) ==
    \/ Save(s)
    \/ CreatePipeline(s) \/ CreateNodes(s)
    \/ UpdatePipeline(s) \/ DeleteEdges(s) \/ FindNodes(s) \/ SoftDelete(s) \/ WriteNode(s)
    \/ CreateEdges(s)
    \/ Commit(s) \/ Rollback(s)

LoadStep(l) == LoadPipeline(l) \/ LoadNodes(l) \/ LoadEdges(l)

Next == (\E s \in Saves : SaveStep(s)) \/ (\E l \in Loads : LoadStep(l))

Spec == Init /\ [][Next]_vars

-----------------------------------------------------------------------------
(* What is stored of a pipeline is one draft: its nodes and edges, those    *)
(* and no others, are what the save that wrote the row was called with.     *)
(* However saves interleave, a step leaves every pipeline alone or replaces *)
(* one with the draft of the call it commits (index.ts:162, "no data        *)
(* loss").                                                                  *)
SavesAreAtomic ==
    [][\A p \in Pipelines :
          <<pipelineRow[p], LiveNodes(p), Edges(p)>>' # <<pipelineRow[p], LiveNodes(p), Edges(p)>> =>
             \E s \in Saves :
                /\ tx[s].state = "commit" /\ tx[s].pipelineId = p
                /\ pipelineRow'[p] = s
                /\ LiveNodes(p)' = DraftNodes(s) \X {s}
                /\ Edges(p)' = tx[s].draft.edges]_vars

(* A node row stays for good, and with its pipeline: the steps of old runs  *)
(* refer to it (the soft delete, index.ts:186), and a draft that names a    *)
(* node of another pipeline does not take it away.                          *)
NodesStay ==
    [][\A n \in NodeIds :
          nodeRow[n] # Nothing =>
             nodeRow'[n] # Nothing /\ nodeRow'[n].pipelineId = nodeRow[n].pipelineId]_vars

(* A load that a save overtakes may return nodes of one draft with edges of *)
(* another, but never under the `updatedAt` the row has now: what the       *)
(* compiler caches under the current key is the graph that was saved        *)
(* (index.ts:79, nodes/src/compiler.ts:65).                                 *)
CurrentKeyIsTrue ==
    \A l \in Loads :
        loads[l].state = "resolved" /\ loads[l].row = pipelineRow[loads[l].pipelineId] =>
            /\ loads[l].nodes = LiveNodes(loads[l].pipelineId)
            /\ loads[l].edges = Edges(loads[l].pipelineId)

-----------------------------------------------------------------------------
(* Why, as an inductive invariant.                                          *)

IsOpen(s) == tx[s].state \in Open
WrittenBy(s) == {n \in NodeIds : tx[s].nodes[n] # Nothing}
EdgesIn(p) == {e \in edgeRow : e.pipelineId = p}

(* The lock on the row keeps the saves of a pipeline apart, unique keys     *)
(* keep the others from writing the same nodes.                             *)
SavesAreApart ==
    \A s, t \in Saves :
        s # t /\ IsOpen(s) /\ IsOpen(t) =>
            /\ tx[s].pipelineId # tx[t].pipelineId
            /\ WrittenBy(s) \cap WrittenBy(t) = {}

NothingBeforeItsPipeline ==
    \A p \in Pipelines : pipelineRow[p] = Nothing => NodesOf(p) = {} /\ EdgesIn(p) = {}

(* What a transaction has read of its pipeline is still so.                 *)
ViewIsCurrent(s) ==
    /\ tx[s].pipelineId \in Pipelines /\ tx[s].draft \in Drafts
    /\ tx[s].state \in {"createMany", "edges"} => pipelineRow[tx[s].pipelineId] = Nothing
    /\ tx[s].state # "deleteEdges" => tx[s].gone = EdgesIn(tx[s].pipelineId)
    /\ tx[s].state \notin {"deleteEdges", "findNodes"} =>
          tx[s].existing = NodesOf(tx[s].pipelineId)

(* A transaction begins with nothing read or written.                       *)
StartsClean(s) ==
    /\ tx[s].state \in {"idle", "pipeline"} =>
          tx[s].existing = {} /\ tx[s].gone = {} /\ WrittenBy(s) = {}
    /\ tx[s].state = "pipeline" => tx[s].draft \in Drafts /\ tx[s].left = tx[s].draft.nodes

(* What it has written is its own or new, and as far as the draft goes.     *)
WritesAreOwn(s) ==
    /\ tx[s].state \in {"createMany", "deleteEdges", "findNodes", "softDelete"} =>
          WrittenBy(s) = {} /\ tx[s].left = tx[s].draft.nodes
    /\ \A n \in WrittenBy(s) :
          /\ tx[s].nodes[n].pipelineId = tx[s].pipelineId
          /\ n \in tx[s].existing \/ nodeRow[n] = Nothing
    /\ tx[s].state \in {"nodes", "edges", "commit"} =>
          /\ Range(tx[s].left) \subseteq DraftNodes(s)
          /\ WrittenBy(s) \subseteq tx[s].existing \cup DraftNodes(s)
          /\ \A n \in tx[s].existing \ DraftNodes(s) :
                tx[s].nodes[n] # Nothing /\ tx[s].nodes[n].isDeleted
          /\ \A n \in DraftNodes(s) \ Range(tx[s].left) : tx[s].nodes[n] = Written(s)
    /\ tx[s].state = "edges" => tx[s].left = <<>>
    /\ tx[s].state = "commit" => tx[s].left = <<>> /\ tx[s].new = EdgesOf(s)

(* A key names a save that has committed, so no later one brings it back.   *)
KeysAreCommitted ==
    /\ \A p \in Pipelines :
          pipelineRow[p] # Nothing => tx[pipelineRow[p]].state = "committed"
    /\ \A l \in Loads : loads[l].row # Nothing => tx[loads[l].row].state = "committed"

(* What a load has read under the current key is current.                   *)
LoadsAreTrue ==
    \A l \in Loads :
        loads[l].state \in {"nodes", "edges", "resolved"} =>
            /\ loads[l].pipelineId \in Pipelines /\ loads[l].row # Nothing
            /\ loads[l].row = pipelineRow[loads[l].pipelineId] =>
                  /\ loads[l].state # "nodes" => loads[l].nodes = LiveNodes(loads[l].pipelineId)
                  /\ loads[l].state = "resolved" => loads[l].edges = Edges(loads[l].pipelineId)

(* Saves of one pipeline at a time, each on what the last one left, and     *)
(* nobody touches the rows of another pipeline (index.ts:162-225).          *)
SaveInv ==
    /\ TypeOK
    /\ SavesAreApart
    /\ NothingBeforeItsPipeline
    /\ \A s \in Saves :
          StartsClean(s) /\ (IsOpen(s) => ViewIsCurrent(s) /\ WritesAreOwn(s))
    /\ KeysAreCommitted
    /\ LoadsAreTrue

=============================================================================
