---------------------------- MODULE BuilderStore ----------------------------
(***************************************************************************)
(* The pipeline builder's store (react/src/store/builder-store.ts) as the  *)
(* canvas drives it (react/src/canvas/BuilderCanvas.tsx): each action is   *)
(* one set() call. Ids are fresh random ids, so nodes and edges are kept   *)
(* by id; the order of the arrays is left out.                             *)
(***************************************************************************)
EXTENDS Integers, FiniteSets

CONSTANTS
    NodeIds,
    EdgeIds,
    PipelineIds,
    Data,       \* what a node has beside its id: label, inputs, position
    Names,      \* name and description of a pipeline
    Branches,   \* the edge labels of IF nodes in use
    StartMarker,
    EndMarker,
    None        \* null

Markers == {StartMarker, EndMarker}

(* The id of a marker edge is made of its node's.                           *)
startEdgeIdFor(n) == <<"start", n>>
endEdgeIdFor(n) == <<"end", n>>

(* A draft: a pipeline as it is edited and saved. An edge that is no branch *)
(* has label null or, in a draft that did not spell it, undefined.          *)
Labels == Branches \cup {"null", "undefined"}
Edges == [id : EdgeIds, from : NodeIds, to : NodeIds, label : Labels]
NodeMaps == UNION {[ids -> Data] : ids \in SUBSET NodeIds}
Drafts ==
    [id : PipelineIds \cup {None}, name : Names \cup {""},
     nodes : NodeMaps, edges : SUBSET Edges]

ASSUME BuilderAssumption ==
    /\ StartMarker # EndMarker
    /\ Markers \cap (NodeIds \cup EdgeIds) = {}
    /\ None \notin NodeIds \cup PipelineIds \cup Markers \cup Drafts
    /\ \A n \in NodeIds \cup Markers :
          {startEdgeIdFor(n), endEdgeIdFor(n)} \cap EdgeIds = {}

VARIABLES pipelineId, name, nodes, edges, startTargets, endSources, selectedNodeId, dirty

graphVars == <<name, nodes, edges>>
storeVars == <<pipelineId, graphVars, startTargets, endSources, selectedNodeId, dirty>>

Init ==
    /\ pipelineId = None
    /\ name = ""
    /\ nodes = [n \in {} |-> None]
    /\ edges = {}
    /\ startTargets = {}
    /\ endSources = {}
    /\ selectedNodeId = None
    /\ dirty = FALSE

-----------------------------------------------------------------------------
(* deriveEntryExit.                                                         *)
Entries(ids, es) == {n \in ids : \A e \in es : e.to # n}
Exits(ids, es) == {n \in ids : \A e \in es : e.from # n}

LoadDraft(d) ==
    /\ pipelineId' = d.id
    /\ name' = d.name
    /\ nodes' = d.nodes
    /\ edges' = d.edges
    /\ startTargets' = Entries(DOMAIN d.nodes, d.edges)
    /\ endSources' = Exits(DOMAIN d.nodes, d.edges)
    /\ selectedNodeId' = None
    /\ dirty' = FALSE

(* toDraft spells a label that is undefined.                                *)
WithNull(e) == IF e.label = "undefined" THEN [e EXCEPT !.label = "null"] ELSE e

toDraft == [id |-> pipelineId, name |-> name, nodes |-> nodes,
            edges |-> {WithNull(e) : e \in edges}]

markClean ==
    /\ dirty' = FALSE
    /\ UNCHANGED <<pipelineId, graphVars, startTargets, endSources, selectedNodeId>>

-----------------------------------------------------------------------------
(* setName, setDescription.                                                 *)
SetName(text) ==
    /\ name' = text
    /\ dirty' = TRUE
    /\ UNCHANGED <<pipelineId, nodes, edges, startTargets, endSources, selectedNodeId>>

AddNode(n, data) ==
    /\ n \notin DOMAIN nodes
    /\ nodes' = [m \in DOMAIN nodes \cup {n} |-> IF m = n THEN data ELSE nodes[m]]
    /\ dirty' = TRUE
    /\ UNCHANGED <<pipelineId, name, edges, startTargets, endSources, selectedNodeId>>

(* The edges that stay when n is removed. The variant forgets those into n. *)
EdgesNotFrom(n) == {e \in edges : e.from # n}
EdgesWithout(n) == {e \in edges : e.from # n /\ e.to # n}

RemoveNode(n) ==
    /\ n \in DOMAIN nodes
    /\ nodes' = [m \in DOMAIN nodes \ {n} |-> nodes[m]]
    /\ edges' = EdgesWithout(n)
    /\ startTargets' = startTargets \ {n}
    /\ endSources' = endSources \ {n}
    /\ selectedNodeId' = IF selectedNodeId = n THEN None ELSE selectedNodeId
    /\ dirty' = TRUE
    /\ UNCHANGED <<pipelineId, name>>

(* setNodePositions, and for a single node updateNodePosition,              *)
(* updateNodeLabel, updateNodeInput and removeNodeInput.                    *)
UpdateNodes(ids, data) ==
    /\ ids \cap DOMAIN nodes # {}
    /\ nodes' = [m \in DOMAIN nodes |-> IF m \in ids THEN data ELSE nodes[m]]
    /\ dirty' = TRUE
    /\ UNCHANGED <<pipelineId, name, edges, startTargets, endSources, selectedNodeId>>

(* A marker's position is in no draft, and yet an edit.                     *)
UpdateMarkerPosition ==
    /\ dirty' = TRUE
    /\ UNCHANGED <<pipelineId, graphVars, startTargets, endSources, selectedNodeId>>

(* An edge with the same ends and label is a duplicate.                     *)
IsDuplicate(e) ==
    \E f \in edges : f.from = e.from /\ f.to = e.to /\ f.label = e.label

(* What an edge or a selection does to the dirty flag; the variant forgets. *)
Untouched == dirty
Touched == TRUE

AddEdge(e) ==
    /\ ~IsDuplicate(e)
    /\ edges' = edges \cup {e}
    /\ dirty' = Touched
    /\ UNCHANGED <<pipelineId, name, nodes, startTargets, endSources, selectedNodeId>>

RemoveEdge(e) ==
    /\ e \in edges
    /\ edges' = edges \ {e}
    /\ dirty' = TRUE
    /\ UNCHANGED <<pipelineId, name, nodes, startTargets, endSources, selectedNodeId>>

AddStartTarget(n) ==
    /\ n \notin startTargets
    /\ startTargets' = startTargets \cup {n}
    /\ dirty' = TRUE
    /\ UNCHANGED <<pipelineId, graphVars, endSources, selectedNodeId>>

AddEndSource(n) ==
    /\ n \notin endSources
    /\ endSources' = endSources \cup {n}
    /\ dirty' = TRUE
    /\ UNCHANGED <<pipelineId, graphVars, startTargets, selectedNodeId>>

RemoveStartTarget(n) ==
    /\ n \in startTargets
    /\ startTargets' = startTargets \ {n}
    /\ dirty' = TRUE
    /\ UNCHANGED <<pipelineId, graphVars, endSources, selectedNodeId>>

RemoveEndSource(n) ==
    /\ n \in endSources
    /\ endSources' = endSources \ {n}
    /\ dirty' = TRUE
    /\ UNCHANGED <<pipelineId, graphVars, startTargets, selectedNodeId>>

SelectNode(n) ==
    /\ selectedNodeId' = n
    /\ UNCHANGED <<pipelineId, graphVars, startTargets, endSources, dirty>>

-----------------------------------------------------------------------------
(* What the canvas draws: the nodes between two markers, and an edge from   *)
(* or to a marker for every entry and exit (buildDisplayNodes,              *)
(* buildDisplayEdges).                                                      *)
displayNodes == Markers \cup DOMAIN nodes

Drawn(id, source, target, label) ==
    [id |-> id, source |-> source, target |-> target, label |-> label]

displayEdges ==
    {Drawn(e.id, e.from, e.to, e.label) : e \in edges}
      \cup {Drawn(startEdgeIdFor(n), StartMarker, n, "none") : n \in startTargets}
      \cup {Drawn(endEdgeIdFor(n), n, EndMarker, "none") : n \in endSources}

-----------------------------------------------------------------------------
(* What the user does on the canvas, and in the palette and the inspector.  *)

(* The delete button or key on an edge: a marker edge names its node.       *)
handleDeleteEdge(id) ==
    \/ \E n \in NodeIds \cup {EndMarker} :
          id = startEdgeIdFor(n) /\ RemoveStartTarget(n)
    \/ \E n \in NodeIds : id = endEdgeIdFor(n) /\ RemoveEndSource(n)
    \/ \E e \in edges : id = e.id /\ RemoveEdge(e)

(* A drag that ends, or the delete key: the markers can only be dragged.    *)
handleNodesChange(id) ==
    \/ id \in Markers /\ UpdateMarkerPosition
    \/ id \in NodeIds /\ RemoveNode(id)
    \/ \E data \in Data : id \in NodeIds /\ UpdateNodes({id}, data)

(* The handles of an IF node give the label; any other connection has none. *)
Handles == Branches \cup {"undefined"}
sourceLabelFromHandle(h) == IF h \in Branches THEN h ELSE "null"

(* A new connection, under a fresh id. START has no way in, END no way out. *)
handleConnect(source, handle, target) ==
    /\ source # EndMarker /\ target # StartMarker
    /\ \/ source = StartMarker /\ AddStartTarget(target)
       \/ source # StartMarker /\ target = EndMarker /\ AddEndSource(source)
       \/ /\ source # StartMarker /\ target # EndMarker
          /\ \E id \in EdgeIds \ {e.id : e \in edges} :
                AddEdge([id |-> id, from |-> source, to |-> target,
                         label |-> sourceLabelFromHandle(handle)])

Edit ==
    \/ \E text \in Names : SetName(text)
    \/ \E n \in NodeIds, data \in Data : AddNode(n, data)
    \/ \E ids \in SUBSET NodeIds, data \in Data : UpdateNodes(ids, data)
    \/ \E id \in displayNodes : handleNodesChange(id)
    \/ \E d \in displayEdges : handleDeleteEdge(d.id)
    \/ \E source, target \in displayNodes, handle \in Handles :
          handleConnect(source, handle, target)

=============================================================================
