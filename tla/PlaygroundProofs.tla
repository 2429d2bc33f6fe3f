-------------------------- MODULE PlaygroundProofs --------------------------
(***************************************************************************)
(* Theorems about the builder and its host: what the canvas draws hangs    *)
(* together, a clean builder is saved and a run executes what was shown,   *)
(* unless something else happened while a save was under way.              *)
(***************************************************************************)
EXTENDS Playground, TLAPS

-----------------------------------------------------------------------------
(* The builder's graph, which is what the canvas draws without the markers. *)
IntactInv ==
    /\ IntactDraft([nodes |-> nodes, edges |-> edges])
    /\ startTargets \subseteq DOMAIN nodes \cup {EndMarker}
    /\ endSources \subseteq DOMAIN nodes
    /\ selectedNodeId \in displayNodes \cup {None}

(* The server keeps a pipeline under its own id, and until the builder has  *)
(* loaded the seed no save can overwrite it: none has an id.                *)
ServerInv ==
    /\ \A p \in PipelineIds : server[p] # None => server[p].id = p
    /\ seeding = "fetching" =>
          /\ pipelineId = None
          /\ server[Seed] = SeedGraph
          /\ \A c \in Saving : saves[c].draft.id = None

(* A pipeline the server has, and with which graph.                         *)
HasDraft(p, d) == server[p] # None /\ Saved(p) = [d EXCEPT !.id = p]

(* A save that is still alone is the only one, carries what the builder     *)
(* holds, and once stored is what the server has.                           *)
AloneInv ==
    \A c \in Saving : saves[c].alone =>
        /\ Saving = {c}
        /\ saves[c].draft = toDraft
        /\ saves[c].state = "stored" => HasDraft(saves[c].id, toDraft)

(* A clean builder whose last save was not raced is what the server has,    *)
(* and no save that is still to be stored can change that.                  *)
CleanInv ==
    ~raced /\ ~dirty /\ appPipelineId # None =>
        /\ HasDraft(appPipelineId, toDraft)
        /\ \A c \in Saving : saves[c].state = "posted" =>
              saves[c].draft.id = None \/ saves[c].draft = toDraft

(* No label of d is left to be spelled out.                                 *)
Spelled(d) == {WithNull(e) : e \in d.edges} = d.edges

(* A run that nothing interfered with: the only save under way is its own,  *)
(* and what it will load is what was shown.                                 *)
RunInv ==
    run.alone /\ run.state # "idle" =>
        /\ run.shown \in Drafts /\ run.shown.id = run.id /\ Spelled(run.shown)
        /\ Saving = IF run.state = "saving" THEN {run.save} ELSE {}
        /\ run.state = "saving" =>
              /\ saves[run.save].draft = run.shown
              /\ saves[run.save].state = "stored" => HasDraft(run.id, run.shown)
        /\ run.state = "requested" => HasDraft(run.id, run.shown)
        /\ RunsWhatIsShown

Inv == TypeOK /\ IntactInv /\ ServerInv /\ AloneInv /\ CleanInv /\ RunInv

-----------------------------------------------------------------------------
(* A map of nodes has some of the ids as its domain.                        *)
LEMMA NodeMap ==
    \A m : m \in NodeMaps <=> DOMAIN m \in SUBSET NodeIds /\ m \in [DOMAIN m -> Data]
  <1> SUFFICES ASSUME NEW m
               PROVE  m \in NodeMaps <=>
                          DOMAIN m \in SUBSET NodeIds /\ m \in [DOMAIN m -> Data]
      OBVIOUS
  <1>1. ASSUME m \in NodeMaps
        PROVE  DOMAIN m \in SUBSET NodeIds /\ m \in [DOMAIN m -> Data]
    <2>1. PICK ids \in SUBSET NodeIds : m \in [ids -> Data]
      BY <1>1 DEF NodeMaps
    <2>2. DOMAIN m = ids
      BY <2>1
    <2> QED
      BY <2>1, <2>2
  <1>2. ASSUME DOMAIN m \in SUBSET NodeIds, m \in [DOMAIN m -> Data]
        PROVE  m \in NodeMaps
    BY <1>2 DEF NodeMaps
  <1> QED
    BY <1>1, <1>2

(* A label that is spelled out stays as it is.                              *)
LEMMA SpelledEdge ==
    \A e \in Edges : WithNull(e) \in Edges /\ WithNull(WithNull(e)) = WithNull(e)
  <1> SUFFICES ASSUME NEW e \in Edges
               PROVE  WithNull(e) \in Edges /\ WithNull(WithNull(e)) = WithNull(e)
      OBVIOUS
  <1>1. CASE e.label = "undefined"
    <2>1. [e EXCEPT !.label = "null"] \in Edges /\ [e EXCEPT !.label = "null"].label = "null"
      BY DEF Edges, Labels
    <2> QED
      BY <1>1, <2>1 DEF WithNull
  <1>2. CASE e.label # "undefined"
    BY <1>2 DEF WithNull
  <1> QED
    BY <1>1, <1>2

LEMMA SpelledTwice ==
    ASSUME NEW es \in SUBSET Edges
    PROVE  LET spelled == {WithNull(e) : e \in es}
           IN  spelled \in SUBSET Edges /\ {WithNull(e) : e \in spelled} = spelled
  <1>1. \A e \in es : WithNull(e) \in Edges /\ WithNull(WithNull(e)) = WithNull(e)
    BY SpelledEdge
  <1> QED
    BY <1>1

(* What the user does on the canvas comes down to these actions of the      *)
(* store, with these arguments.                                             *)
LEMMA EditCases ==
    ASSUME TypeOK, Edit
    PROVE  \/ \E text \in Names : SetName(text)
           \/ \E n \in NodeIds, data \in Data : AddNode(n, data)
           \/ \E ids \in SUBSET NodeIds, data \in Data : UpdateNodes(ids, data)
           \/ UpdateMarkerPosition
           \/ \E n \in NodeIds : RemoveNode(n)
           \/ \E e \in edges : RemoveEdge(e)
           \/ \E n \in NodeIds \cup {EndMarker} : RemoveStartTarget(n)
           \/ \E n \in NodeIds : RemoveEndSource(n)
           \/ \E n \in DOMAIN nodes \cup {EndMarker} : AddStartTarget(n)
           \/ \E n \in DOMAIN nodes : AddEndSource(n)
           \/ \E e \in Edges :
                 /\ {e.from, e.to} \subseteq DOMAIN nodes
                 /\ \A f \in edges : f.id # e.id
                 /\ AddEdge(e)
  <1>1. CASE \/ \E text \in Names : SetName(text)
             \/ \E n \in NodeIds, data \in Data : AddNode(n, data)
             \/ \E ids \in SUBSET NodeIds, data \in Data : UpdateNodes(ids, data)
    BY <1>1
  <1>2. CASE \E id \in displayNodes : handleNodesChange(id)
    BY <1>2 DEF handleNodesChange
  <1>3. CASE \E d \in displayEdges : handleDeleteEdge(d.id)
    BY <1>3 DEF handleDeleteEdge
  <1>4. CASE \E source, target \in displayNodes, handle \in Handles :
                handleConnect(source, handle, target)
    <2>1. PICK source \in displayNodes, target \in displayNodes, handle \in Handles :
                handleConnect(source, handle, target)
      BY <1>4
    <2>2. source # EndMarker /\ target # StartMarker
      BY <2>1 DEF handleConnect
    <2>3. CASE source = StartMarker /\ AddStartTarget(target)
      BY <2>2, <2>3 DEF displayNodes, Markers
    <2>4. CASE source # StartMarker /\ target = EndMarker /\ AddEndSource(source)
      BY <2>2, <2>4 DEF displayNodes, Markers
    <2>5. CASE /\ source # StartMarker /\ target # EndMarker
               /\ \E id \in EdgeIds \ {e.id : e \in edges} :
                     AddEdge([id |-> id, from |-> source, to |-> target,
                              label |-> sourceLabelFromHandle(handle)])
      <3>1. {source, target} \subseteq DOMAIN nodes
        BY <2>2, <2>5 DEF displayNodes, Markers
      <3>2. DOMAIN nodes \subseteq NodeIds
        BY NodeMap DEF TypeOK, toDraft, Drafts
      <3>3. sourceLabelFromHandle(handle) \in Labels
        BY DEF sourceLabelFromHandle, Labels
      <3>4. PICK id \in EdgeIds \ {e.id : e \in edges} :
                AddEdge([id |-> id, from |-> source, to |-> target,
                         label |-> sourceLabelFromHandle(handle)])
        BY <2>5
      <3>5. [id |-> id, from |-> source, to |-> target,
             label |-> sourceLabelFromHandle(handle)] \in Edges
        BY <3>1, <3>2, <3>3, <3>4 DEF Edges
      <3> QED
        BY <3>1, <3>4, <3>5
    <2> QED
      BY <2>1, <2>3, <2>4, <2>5 DEF handleConnect
  <1> QED
    BY <1>1, <1>2, <1>3, <1>4 DEF Edit

-----------------------------------------------------------------------------
(* The state of the builder, apart from its flag.                           *)
BuilderTypes ==
    /\ toDraft \in Drafts /\ edges \in SUBSET Edges
    /\ startTargets \subseteq NodeIds \cup {EndMarker}
    /\ endSources \subseteq NodeIds
    /\ selectedNodeId \in NodeIds \cup Markers \cup {None}

LEMMA DraftTypes ==
    ASSUME edges \in SUBSET Edges
    PROVE  toDraft \in Drafts <=>
              /\ pipelineId \in PipelineIds \cup {None}
              /\ name \in Names \cup {""}
              /\ nodes \in NodeMaps
  <1>1. {WithNull(e) : e \in edges} \in SUBSET Edges
    BY SpelledEdge
  <1> QED
    BY <1>1 DEF toDraft, Drafts

(* An edit keeps the types, and the builder is dirty after it.              *)
LEMMA EditTypes ==
    ASSUME TypeOK, Edit
    PROVE  BuilderTypes' /\ dirty' = TRUE /\ pipelineId' = pipelineId
  <1>1. /\ pipelineId \in PipelineIds \cup {None}
        /\ name \in Names \cup {""}
        /\ DOMAIN nodes \subseteq NodeIds /\ nodes \in [DOMAIN nodes -> Data]
    BY DraftTypes, NodeMap DEF TypeOK
  <1>2. /\ pipelineId' = pipelineId
        /\ name' \in Names \cup {""}
        /\ DOMAIN nodes' \subseteq NodeIds /\ nodes' \in [DOMAIN nodes' -> Data]
        /\ edges' \in SUBSET Edges
        /\ startTargets' \subseteq NodeIds \cup {EndMarker}
        /\ endSources' \subseteq NodeIds
        /\ selectedNodeId' \in NodeIds \cup Markers \cup {None}
        /\ dirty' = TRUE
    <2>1. CASE \E text \in Names : SetName(text)
      BY <1>1, <2>1 DEF SetName, TypeOK
    <2>2. CASE \E n \in NodeIds, data \in Data : AddNode(n, data)
      <3>1. PICK n \in NodeIds, data \in Data : AddNode(n, data)
        BY <2>2
      <3>2. DOMAIN nodes' = DOMAIN nodes \cup {n} /\ nodes' \in [DOMAIN nodes' -> Data]
        BY <1>1, <3>1 DEF AddNode
      <3> QED
        BY <1>1, <3>1, <3>2 DEF AddNode, TypeOK
    <2>3. CASE \E ids \in SUBSET NodeIds, data \in Data : UpdateNodes(ids, data)
      BY <1>1, <2>3 DEF UpdateNodes, TypeOK
    <2>4. CASE UpdateMarkerPosition
      BY <1>1, <2>4 DEF UpdateMarkerPosition, graphVars, TypeOK
    <2>5. CASE \E n \in NodeIds : RemoveNode(n)
      BY <1>1, <2>5 DEF RemoveNode, EdgesWithout, TypeOK
    <2>6. CASE \E e \in edges : RemoveEdge(e)
      BY <1>1, <2>6 DEF RemoveEdge, TypeOK
    <2>7. CASE \E n \in NodeIds \cup {EndMarker} : RemoveStartTarget(n)
      BY <1>1, <2>7 DEF RemoveStartTarget, graphVars, TypeOK
    <2>8. CASE \E n \in NodeIds : RemoveEndSource(n)
      BY <1>1, <2>8 DEF RemoveEndSource, graphVars, TypeOK
    <2>9. CASE \E n \in DOMAIN nodes \cup {EndMarker} : AddStartTarget(n)
      BY <1>1, <2>9 DEF AddStartTarget, graphVars, TypeOK
    <2>10. CASE \E n \in DOMAIN nodes : AddEndSource(n)
      BY <1>1, <2>10 DEF AddEndSource, graphVars, TypeOK
    <2>11. CASE \E e \in Edges : AddEdge(e)
      BY <1>1, <2>11 DEF AddEdge, Touched, TypeOK
    <2> QED
      BY <2>1, <2>2, <2>3, <2>4, <2>5, <2>6, <2>7, <2>8, <2>9, <2>10, <2>11, EditCases
  <1>3. nodes' \in NodeMaps
    BY <1>2, NodeMap
  <1>4. {WithNull(e) : e \in edges'} \in SUBSET Edges
    BY <1>2, SpelledEdge
  <1> QED
    BY <1>1, <1>2, <1>3, <1>4 DEF BuilderTypes, toDraft, Drafts

(* An edit leaves no edge, no marker's edge and no selection behind of a    *)
(* node that it removes, and adds no edge twice.                            *)
LEMMA EditIntact ==
    ASSUME TypeOK, IntactInv, Edit
    PROVE  IntactInv'
  <1>1. CASE \E text \in Names : SetName(text)
    BY <1>1 DEF SetName, IntactInv, IntactDraft, displayNodes
  <1>2. CASE \E n \in NodeIds, data \in Data : AddNode(n, data)
    <2>1. PICK n \in NodeIds, data \in Data : AddNode(n, data)
      BY <1>2
    <2>2. DOMAIN nodes' = DOMAIN nodes \cup {n}
      BY <2>1 DEF AddNode
    <2> QED
      BY <2>1, <2>2 DEF AddNode, IntactInv, IntactDraft, displayNodes
  <1>3. CASE \E ids \in SUBSET NodeIds, data \in Data : UpdateNodes(ids, data)
    <2>1. DOMAIN nodes' = DOMAIN nodes
      BY <1>3 DEF UpdateNodes
    <2> QED
      BY <1>3, <2>1 DEF UpdateNodes, IntactInv, IntactDraft, displayNodes
  <1>4. CASE UpdateMarkerPosition
    BY <1>4 DEF UpdateMarkerPosition, graphVars, IntactInv, IntactDraft, displayNodes
  <1>5. CASE \E n \in NodeIds : RemoveNode(n)
    <2>1. PICK n \in NodeIds : RemoveNode(n)
      BY <1>5
    <2>2. DOMAIN nodes' = DOMAIN nodes \ {n}
      BY <2>1 DEF RemoveNode
    <2>3. edges' = {e \in edges : e.from # n /\ e.to # n}
      BY <2>1 DEF RemoveNode, EdgesWithout, IntactInv, IntactDraft, displayNodes
    <2>4. IntactDraft([nodes |-> nodes', edges |-> edges'])
      BY <2>2, <2>3 DEF IntactInv, IntactDraft, displayNodes
    <2>5. startTargets' \subseteq DOMAIN nodes' \cup {EndMarker} /\ endSources' \subseteq DOMAIN nodes'
      BY <2>1, <2>2 DEF RemoveNode, IntactInv, IntactDraft, displayNodes
    <2>6. selectedNodeId' \in Markers \cup DOMAIN nodes' \cup {None}
      BY <2>1, <2>2 DEF RemoveNode, IntactInv, IntactDraft, displayNodes
    <2> QED
      BY <2>4, <2>5, <2>6 DEF IntactInv, IntactDraft, displayNodes
  <1>6. CASE \E e \in edges : RemoveEdge(e)
    BY <1>6 DEF RemoveEdge, IntactInv, IntactDraft, displayNodes
  <1>7. CASE \E n \in NodeIds \cup {EndMarker} : RemoveStartTarget(n)
    BY <1>7 DEF RemoveStartTarget, graphVars, IntactInv, IntactDraft, displayNodes
  <1>8. CASE \E n \in NodeIds : RemoveEndSource(n)
    BY <1>8 DEF RemoveEndSource, graphVars, IntactInv, IntactDraft, displayNodes
  <1>9. CASE \E n \in DOMAIN nodes \cup {EndMarker} : AddStartTarget(n)
    BY <1>9 DEF AddStartTarget, graphVars, IntactInv, IntactDraft, displayNodes
  <1>10. CASE \E n \in DOMAIN nodes : AddEndSource(n)
    BY <1>10 DEF AddEndSource, graphVars, IntactInv, IntactDraft, displayNodes
  <1>11. CASE \E e \in Edges : /\ {e.from, e.to} \subseteq DOMAIN nodes
                               /\ \A f \in edges : f.id # e.id
                               /\ AddEdge(e)
    <2>1. PICK new \in Edges : /\ {new.from, new.to} \subseteq DOMAIN nodes
                               /\ \A f \in edges : f.id # new.id
                               /\ AddEdge(new)
      BY <1>11
    <2>2. /\ edges' = edges \cup {new}
          /\ UNCHANGED <<nodes, startTargets, endSources, selectedNodeId>>
      BY <2>1 DEF AddEdge
    <2>3. \A f \in edges :
             ~(f.from = new.from /\ f.to = new.to /\ f.label = new.label)
      BY <2>1 DEF AddEdge, IsDuplicate
    <2>4. IntactDraft([nodes |-> nodes, edges |-> edges'])
      BY <2>1, <2>2, <2>3 DEF IntactInv, IntactDraft, displayNodes
    <2> QED
      BY <2>2, <2>4 DEF IntactInv, IntactDraft, displayNodes
  <1> QED
    BY <1>1, <1>2, <1>3, <1>4, <1>5, <1>6, <1>7, <1>8, <1>9, <1>10, <1>11, EditCases

-----------------------------------------------------------------------------
(* Whatever disturbs the saves under way only makes them not alone.         *)
LEMMA DisturbedSaves ==
    ASSUME TypeOK
    PROVE  /\ Disturbed \in [SaveCalls -> SaveRecords]
           /\ \A c \in SaveCalls :
                 /\ Disturbed[c].state = saves[c].state
                 /\ Disturbed[c].draft = saves[c].draft
                 /\ Disturbed[c].id = saves[c].id
                 /\ Disturbed[c].alone => saves[c].state = "idle"
  <1> SUFFICES ASSUME NEW c \in SaveCalls
               PROVE  /\ Disturbed[c] \in SaveRecords
                      /\ Disturbed[c].state = saves[c].state
                      /\ Disturbed[c].draft = saves[c].draft
                      /\ Disturbed[c].id = saves[c].id
                      /\ Disturbed[c].alone => saves[c].state = "idle"
    BY DEF Disturbed
  <1>1. saves[c] \in SaveRecords
    BY DEF TypeOK
  <1>2. Disturbed[c] = [saves[c] EXCEPT !.alone = saves[c].state = "idle"]
    BY DEF Disturbed
  <1>3. (saves[c].state = "idle") \in BOOLEAN
    OBVIOUS
  <1> QED
    BY <1>1, <1>2, <1>3 DEF SaveRecords

(* A call of save() takes the draft that the builder holds.                 *)
LEMMA PostedSaves ==
    ASSUME TypeOK, NEW c \in SaveCalls, Post(c)
    PROVE  /\ saves' \in [SaveCalls -> SaveRecords]
           /\ saves'[c].state = "posted" /\ saves'[c].draft = toDraft
           /\ saves'[c].alone => Saving = {}
           /\ \A b \in SaveCalls \ {c} :
                 /\ saves'[b].state = saves[b].state
                 /\ saves'[b].draft = saves[b].draft
                 /\ saves'[b].id = saves[b].id
                 /\ saves'[b].alone => saves[b].state = "idle"
  <1> DEFINE posted ==
        [state |-> "posted", draft |-> toDraft, id |-> None, alone |-> Saving = {}]
  <1>1. saves' = [Disturbed EXCEPT ![c] = posted]
    BY DEF Post
  <1>2. posted \in SaveRecords
    <2>1. (Saving = {}) \in BOOLEAN
      OBVIOUS
    <2> QED
      BY <2>1 DEF SaveRecords, TypeOK
  <1> QED
    BY <1>1, <1>2, DisturbedSaves

(* Init and every step keep the types.                                      *)
LEMMA InitTypes == HostInit => TypeOK
  <1> SUFFICES ASSUME HostInit
               PROVE  TypeOK
      OBVIOUS
  <1> USE DEF HostInit, Init
  <1>1. toDraft \in Drafts /\ edges \in SUBSET Edges
    <2>1. nodes \in NodeMaps
      BY NodeMap
    <2> QED
      BY <2>1, DraftTypes
  <1>2. server \in [PipelineIds -> Drafts \cup {None}]
    BY PlaygroundAssumption DEF Seeded
  <1>3. saves \in [SaveCalls -> SaveRecords] /\ \A c \in SaveCalls : saves[c].state = "idle"
    BY DEF NoSave, SaveRecords
  <1>4. run \in RunRecords /\ run.state = "idle" /\ run.save = None
    BY DEF NoRun, RunRecords
  <1>5. edits \in 0..MaxEdits
    <2>1. edits = 0
      OBVIOUS
    <2> HIDE DEF HostInit, Init
    <2> QED
      BY <2>1, PlaygroundAssumption
  <1>6. /\ startTargets = {} /\ endSources = {} /\ selectedNodeId = None
        /\ dirty = FALSE /\ raced = FALSE
        /\ appPipelineId = None /\ seeding = "fetching"
    OBVIOUS
  <1> HIDE DEF HostInit, Init
  <1> QED
    BY <1>1, <1>2, <1>3, <1>4, <1>5, <1>6 DEF TypeOK

LEMMA NextTypes ==
    ASSUME TypeOK, [Next]_vars, seeding = "fetching" => server[Seed] \in Drafts
    PROVE  TypeOK'
  <1>t. /\ BuilderTypes /\ dirty \in BOOLEAN
        /\ saves \in [SaveCalls -> SaveRecords]
        /\ run \in RunRecords
        /\ run.state # "idle" => run.id \in PipelineIds
        /\ run.save # None => run.state = "saving"
    BY DEF TypeOK, BuilderTypes
  <1>b. ASSUME UNCHANGED <<pipelineId, graphVars, startTargets, endSources, selectedNodeId>>
        PROVE  BuilderTypes'
    BY <1>t, <1>b DEF BuilderTypes, graphVars, toDraft
  <1>1. CASE EditGraph
    <2>1. BuilderTypes' /\ dirty' = TRUE
      BY <1>1, EditTypes DEF EditGraph
    <2>2. /\ saves' = Disturbed
          /\ edits' = edits + 1 /\ edits < MaxEdits
          /\ UNCHANGED <<appPipelineId, server, seeding, run, raced>>
      BY <1>1 DEF EditGraph
    <2>3. edits' \in 0..MaxEdits
      BY <2>2, PlaygroundAssumption DEF TypeOK
    <2> QED
      BY <2>1, <2>2, <2>3, DisturbedSaves DEF TypeOK, BuilderTypes
  <1>2. CASE Select
    <2>1. PICK n \in displayNodes \cup {None} : SelectNode(n)
      BY <1>2 DEF Select
    <2>2. n \in NodeIds \cup Markers \cup {None}
      BY <2>1, <1>t, DraftTypes, NodeMap DEF BuilderTypes, displayNodes
    <2>3. UNCHANGED <<pipelineId, graphVars, startTargets, endSources, dirty>> /\ selectedNodeId' = n
      BY <2>1 DEF SelectNode
    <2>4. BuilderTypes'
      BY <1>t, <2>2, <2>3 DEF BuilderTypes, graphVars, toDraft
    <2> QED
      BY <1>2, <2>3, <2>4 DEF TypeOK, BuilderTypes, Select, hostVars
  <1>3. CASE SeedArrives
    <2>1. server[Seed] \in Drafts /\ seeding = "fetching"
      BY <1>3 DEF SeedArrives
    <2> DEFINE d == server[Seed]
    <2>2. /\ LoadDraft(d)
          /\ seeding' = "done" /\ appPipelineId' = Seed
          /\ saves' = Disturbed /\ raced' = FALSE
          /\ UNCHANGED <<server, run, edits>>
      BY <1>3 DEF SeedArrives, getPipeline
    <2>3. /\ d.id \in PipelineIds \cup {None} /\ d.name \in Names \cup {""}
          /\ d.nodes \in NodeMaps /\ d.edges \in SUBSET Edges
      BY <2>1 DEF Drafts
    <2>4. DOMAIN d.nodes \subseteq NodeIds
      BY <2>3, NodeMap
    <2>5. {WithNull(e) : e \in d.edges} \in SUBSET Edges
      BY <2>3, SpelledEdge
    <2>6. /\ pipelineId' = d.id /\ name' = d.name
          /\ nodes' = d.nodes /\ edges' = d.edges
          /\ startTargets' \subseteq DOMAIN d.nodes /\ endSources' \subseteq DOMAIN d.nodes
          /\ selectedNodeId' = None /\ dirty' = FALSE
      BY <2>2 DEF LoadDraft, Entries, Exits
    <2>7. toDraft' \in Drafts
      BY <2>3, <2>5, <2>6 DEF toDraft, Drafts
    <2> QED
      BY <2>2, <2>3, <2>4, <2>6, <2>7, DisturbedSaves, PlaygroundAssumption DEF TypeOK
  <1>4. ASSUME NEW c \in SaveCalls, ClickSave(c)
        PROVE  TypeOK'
    <2>1. /\ Post(c) /\ run' = [run EXCEPT !.alone = FALSE]
          /\ UNCHANGED <<storeVars, appPipelineId, server, seeding, raced, edits>>
      BY <1>4 DEF ClickSave
    <2>2. run' \in RunRecords /\ run'.state = run.state /\ run'.id = run.id /\ run'.save = run.save
      BY <2>1, <1>t DEF RunRecords
    <2>3. BuilderTypes' /\ dirty' = dirty
      BY <2>1, <1>b DEF storeVars
    <2>4. \A b \in SaveCalls :
             /\ saves'[b].state # "idle" => saves'[b].draft \in Drafts
             /\ saves'[b].state = "stored" => saves'[b].id \in PipelineIds
      BY <2>1, PostedSaves DEF TypeOK
    <2> QED
      BY <2>1, <2>2, <2>3, <2>4, PostedSaves DEF TypeOK, BuilderTypes
  <1>5. ASSUME NEW c \in SaveCalls, Store(c)
        PROVE  TypeOK'
    <2>1. /\ saves[c].state = "posted"
          /\ UNCHANGED <<storeVars, appPipelineId, seeding, run, raced, edits>>
      BY <1>5 DEF Store
    <2>2. PICK p \in IdFor(saves[c].draft) :
                /\ server' = [server EXCEPT ![p] = [saves[c].draft EXCEPT !.id = p]]
                /\ saves' = [saves EXCEPT ![c].state = "stored", ![c].id = p]
      BY <1>5 DEF Store
    <2>3. saves[c].draft \in Drafts /\ saves[c] \in SaveRecords
      BY <2>1 DEF TypeOK
    <2>4. p \in PipelineIds
      BY <2>2, <2>3 DEF IdFor, Drafts
    <2>5. [saves[c].draft EXCEPT !.id = p] \in Drafts
      BY <2>3, <2>4 DEF Drafts
    <2>6. [saves[c] EXCEPT !.state = "stored", !.id = p] \in SaveRecords
      BY <2>3, <2>4 DEF SaveRecords
    <2>7. saves' = [saves EXCEPT ![c] = [saves[c] EXCEPT !.state = "stored", !.id = p]]
      BY <2>2, <1>t
    <2>8. BuilderTypes' /\ dirty' = dirty
      BY <2>1, <1>b DEF storeVars
    <2>9. /\ saves' \in [SaveCalls -> SaveRecords]
          /\ saves'[c] = [saves[c] EXCEPT !.state = "stored", !.id = p]
          /\ \A b \in SaveCalls \ {c} : saves'[b] = saves[b]
      BY <2>6, <2>7, <1>t
    <2>10. saves'[c].draft = saves[c].draft /\ saves'[c].id = p
      BY <2>3, <2>9 DEF SaveRecords
    <2> QED
      BY <2>1, <2>2, <2>3, <2>4, <2>5, <2>8, <2>9, <2>10 DEF TypeOK, BuilderTypes
  <1>6. ASSUME NEW c \in SaveCalls, SaveEnds(c) \/ SaveFails(c)
        PROVE  TypeOK'
    <2>1. saves' = [saves EXCEPT ![c] = NoSave]
      BY <1>6 DEF SaveEnds, SaveFails
    <2>2. /\ NoSave \in SaveRecords /\ NoSave.state = "idle"
          /\ NoRun \in RunRecords /\ NoRun.state = "idle" /\ NoRun.save = None
      BY DEF NoSave, NoRun, SaveRecords, RunRecords
    <2>3. /\ run' \in RunRecords
          /\ run'.state # "idle" => run'.id \in PipelineIds
          /\ run'.save # None => run'.state = "saving"
      <3> DEFINE resumed == [run EXCEPT !.state = "requested", !.save = None]
      <3>1. resumed \in RunRecords /\ resumed.id = run.id /\ resumed.save = None
        BY <1>t DEF RunRecords
      <3>2. run.save = c => run.state # "idle"
        BY <1>t, PlaygroundAssumption
      <3> QED
        BY <1>t, <1>6, <2>2, <3>1, <3>2 DEF SaveEnds, SaveFails, Resume
    <2>4. BuilderTypes' /\ dirty' \in BOOLEAN
      BY <1>t, <1>6, <1>b DEF SaveEnds, SaveFails, markClean, storeVars
    <2>5. appPipelineId' \in PipelineIds \cup {None} /\ raced' \in BOOLEAN
      BY <1>6 DEF SaveEnds, SaveFails, TypeOK, SaveRecords
    <2>6. UNCHANGED <<server, seeding, edits>>
      BY <1>6 DEF SaveEnds, SaveFails
    <2> QED
      BY <2>1, <2>2, <2>3, <2>4, <2>5, <2>6 DEF TypeOK, BuilderTypes
  <1>7. CASE ClickRun
    <2> DEFINE called == [NoRun EXCEPT
                 !.id = appPipelineId,
                 !.shown = toDraft,
                 !.alone = Saving = {} /\ ~raced /\ pipelineId = appPipelineId]
    <2>1. UNCHANGED <<storeVars, appPipelineId, server, seeding, raced, edits>>
      BY <1>7 DEF ClickRun
    <2>2. called \in RunRecords /\ called.id \in PipelineIds /\ called.save = None
      <3>1. (Saving = {} /\ ~raced /\ pipelineId = appPipelineId) \in BOOLEAN
        OBVIOUS
      <3> QED
        BY <1>7, <3>1 DEF NoRun, RunRecords, TypeOK, ClickRun
    <2>3. BuilderTypes' /\ dirty' = dirty
      BY <2>1, <1>b DEF storeVars
    <2>4. CASE \E c \in SaveCalls :
                  Post(c) /\ run' = [called EXCEPT !.state = "saving", !.save = c]
      <3>1. PICK c \in SaveCalls :
                  Post(c) /\ run' = [called EXCEPT !.state = "saving", !.save = c]
        BY <2>4
      <3>2. run' \in RunRecords /\ run'.id \in PipelineIds /\ run'.state = "saving"
        BY <2>2, <3>1 DEF RunRecords
      <3>3. \A b \in SaveCalls :
               /\ saves'[b].state # "idle" => saves'[b].draft \in Drafts
               /\ saves'[b].state = "stored" => saves'[b].id \in PipelineIds
        BY <3>1, PostedSaves DEF TypeOK
      <3> QED
        BY <2>1, <2>3, <3>1, <3>2, <3>3, PostedSaves DEF TypeOK, BuilderTypes
    <2>5. CASE run' = [called EXCEPT !.state = "requested"] /\ UNCHANGED saves
      <3>1. run' \in RunRecords /\ run'.id \in PipelineIds /\ run'.save = None
        BY <2>2, <2>5 DEF RunRecords
      <3> QED
        BY <2>1, <2>3, <2>5, <3>1 DEF TypeOK, BuilderTypes
    <2> QED
      BY <1>7, <2>4, <2>5 DEF ClickRun
  <1>8. CASE Execute
    <2>1. /\ run' = [run EXCEPT !.state = "streaming", !.executed = server[run.id]]
          /\ UNCHANGED <<storeVars, appPipelineId, server, seeding, saves, raced, edits>>
          /\ run.id \in PipelineIds /\ run.save = None
      BY <1>t, <1>8 DEF Execute, getPipeline
    <2>2. BuilderTypes' /\ dirty' = dirty
      BY <2>1, <1>b DEF storeVars
    <2>3. run' \in RunRecords /\ run'.id \in PipelineIds /\ run'.save = None
      <3>1. server[run.id] \in Drafts \cup {None}
        BY <2>1 DEF TypeOK
      <3> QED
        BY <1>t, <2>1, <3>1 DEF RunRecords
    <2> QED
      BY <2>1, <2>2, <2>3 DEF TypeOK, BuilderTypes
  <1>9. CASE StreamEnds \/ UNCHANGED vars
    <2>1. UNCHANGED <<storeVars, appPipelineId, server, seeding, saves, raced, edits>>
      BY <1>9 DEF StreamEnds, vars, hostVars
    <2>2. BuilderTypes' /\ dirty' = dirty
      BY <2>1, <1>b DEF storeVars
    <2>3. /\ run' \in RunRecords
          /\ run'.state # "idle" => run'.id \in PipelineIds
          /\ run'.save # None => run'.state = "saving"
      <3>1. NoRun \in RunRecords /\ NoRun.state = "idle" /\ NoRun.save = None
        BY DEF NoRun, RunRecords
      <3> QED
        BY <1>t, <1>9, <3>1 DEF StreamEnds, vars, hostVars
    <2> QED
      BY <2>1, <2>2, <2>3 DEF TypeOK, BuilderTypes
  <1> QED
    BY <1>1, <1>2, <1>3, <1>4, <1>5, <1>6, <1>7, <1>8, <1>9 DEF Next

-----------------------------------------------------------------------------
(* The graph stays intact: only the load replaces it, by the seed.          *)
LEMMA NextIntact ==
    ASSUME TypeOK, IntactInv, ServerInv, [Next]_vars
    PROVE  IntactInv'
  <1>b. ASSUME UNCHANGED storeVars
        PROVE  IntactInv'
    BY <1>b DEF storeVars, graphVars, IntactInv, IntactDraft, displayNodes
  <1>1. CASE EditGraph
    BY <1>1, EditIntact DEF EditGraph
  <1>2. CASE Select
    <2>1. PICK n \in displayNodes \cup {None} : SelectNode(n)
      BY <1>2 DEF Select
    <2> QED
      BY <2>1 DEF SelectNode, graphVars, IntactInv, IntactDraft, displayNodes
  <1>3. CASE SeedArrives
    <2>1. server[Seed] = SeedGraph
      BY <1>3 DEF SeedArrives, ServerInv
    <2>2. LoadDraft(SeedGraph)
      BY <1>3, <2>1 DEF SeedArrives, getPipeline
    <2>3. /\ nodes' = SeedGraph.nodes /\ edges' = SeedGraph.edges
          /\ startTargets' \subseteq DOMAIN SeedGraph.nodes
          /\ endSources' \subseteq DOMAIN SeedGraph.nodes
          /\ selectedNodeId' = None
      BY <2>2 DEF LoadDraft, Entries, Exits
    <2>4. IntactDraft([nodes |-> SeedGraph.nodes, edges |-> SeedGraph.edges])
      BY PlaygroundAssumption DEF IntactDraft
    <2> QED
      BY <2>3, <2>4 DEF IntactInv, displayNodes
  <1>4. CASE \E c \in SaveCalls : ClickSave(c) \/ Store(c) \/ SaveFails(c)
    BY <1>4, <1>b DEF ClickSave, Store, SaveFails
  <1>5. CASE \E c \in SaveCalls : SaveEnds(c)
    BY <1>5 DEF SaveEnds, markClean, graphVars, IntactInv, IntactDraft, displayNodes
  <1>6. CASE ClickRun \/ Execute \/ StreamEnds \/ UNCHANGED vars
    BY <1>6, <1>b DEF ClickRun, Execute, StreamEnds, vars
  <1> QED
    BY <1>1, <1>2, <1>3, <1>4, <1>5, <1>6 DEF Next

(* What a step does to the saves: it disturbs all, posts one, stores one or *)
(* ends one, or it leaves them alone.                                       *)
LEMMA SaveSteps ==
    ASSUME TypeOK, [Next]_vars
    PROVE  \/ (EditGraph \/ SeedArrives) /\ saves' = Disturbed
           \/ \E c \in SaveCalls : Post(c) /\ (ClickSave(c) \/ ClickRun)
           \/ \E c \in SaveCalls : Store(c)
           \/ \E c \in SaveCalls : SaveEnds(c) \/ SaveFails(c)
           \/ /\ Select \/ ClickRun \/ Execute \/ StreamEnds \/ UNCHANGED vars
              /\ UNCHANGED saves
  BY DEF Next, EditGraph, SeedArrives, ClickSave, ClickRun, Select, hostVars, Execute,
         StreamEnds, vars

(* The draft that a save stores, and where.                                 *)
LEMMA StoreStep ==
    ASSUME TypeOK, NEW c \in SaveCalls, Store(c)
    PROVE  \E p \in PipelineIds, d \in Drafts :
              /\ c \in Saving /\ saves[c].state = "posted"
              /\ d = saves[c].draft
              /\ IF d.id # None THEN p = d.id ELSE server[p] = None
              /\ server' = [server EXCEPT ![p] = [d EXCEPT !.id = p]]
              /\ [d EXCEPT !.id = p] \in Drafts
              /\ saves'[c].state = "stored" /\ saves'[c].id = p
              /\ saves'[c].draft = d /\ saves'[c].alone = saves[c].alone
              /\ \A b \in SaveCalls \ {c} : saves'[b] = saves[b]
              /\ Saving' = Saving
  <1>1. saves[c].state = "posted" /\ saves[c] \in SaveRecords /\ saves[c].draft \in Drafts
    BY DEF Store, TypeOK
  <1>2. PICK d \in Drafts : d = saves[c].draft
    BY <1>1
  <1>3. PICK p \in IdFor(d) :
              /\ server' = [server EXCEPT ![p] = [d EXCEPT !.id = p]]
              /\ saves' = [saves EXCEPT ![c].state = "stored", ![c].id = p]
    BY <1>2 DEF Store
  <1>4. p \in PipelineIds /\ IF d.id # None THEN p = d.id ELSE server[p] = None
    BY <1>3 DEF IdFor, Drafts
  <1>5. saves \in [SaveCalls -> SaveRecords]
    BY DEF TypeOK
  <1>6. /\ saves'[c] = [saves[c] EXCEPT !.state = "stored", !.id = p]
        /\ \A b \in SaveCalls \ {c} : saves'[b] = saves[b]
    BY <1>3, <1>5
  <1>7. /\ saves'[c].state = "stored" /\ saves'[c].id = p
        /\ saves'[c].draft = d /\ saves'[c].alone = saves[c].alone
    BY <1>1, <1>2, <1>6 DEF SaveRecords
  <1>8. c \in Saving /\ Saving' = Saving
    BY <1>1, <1>6, <1>7 DEF Saving
  <1>9. [d EXCEPT !.id = p] \in Drafts
    BY <1>4 DEF Drafts
  <1> QED
    BY <1>1, <1>2, <1>3, <1>4, <1>6, <1>7, <1>8, <1>9

(* A draft that is stored is what the server has.                           *)
LEMMA DraftStored ==
    ASSUME NEW d \in Drafts, Spelled(d), NEW p \in PipelineIds,
           server'[p] = [d EXCEPT !.id = p]
    PROVE  HasDraft(p, d)'
  <1>1. [d EXCEPT !.id = p] \in Drafts /\ [d EXCEPT !.id = p].edges = d.edges
    BY DEF Drafts
  <1>2. server'[p] # None
    BY <1>1, BuilderAssumption
  <1>3. {WithNull(e) : e \in server'[p].edges} = server'[p].edges
    BY <1>1 DEF Spelled
  <1>4. Saved(p)' = [server'[p] EXCEPT !.edges = server'[p].edges]
    BY <1>3 DEF Saved
  <1>5. [server'[p] EXCEPT !.edges = server'[p].edges] = server'[p]
    BY <1>1 DEF Drafts
  <1> QED
    BY <1>2, <1>4, <1>5 DEF HasDraft

(* A draft is its fields.                                                   *)
LEMMA SameDraft ==
    ASSUME NEW c \in Drafts, NEW d \in Drafts,
           c.id = d.id, c.name = d.name, c.nodes = d.nodes, c.edges = d.edges
    PROVE  c = d
  <1>1. c = [id |-> c.id, name |-> c.name, nodes |-> c.nodes, edges |-> c.edges]
    BY DEF Drafts
  <1>2. d = [id |-> d.id, name |-> d.name, nodes |-> d.nodes, edges |-> d.edges]
    BY DEF Drafts
  <1> QED
    BY <1>1, <1>2

LEMMA WithEdges ==
    ASSUME NEW d \in Drafts, NEW es \in SUBSET Edges
    PROVE  /\ [d EXCEPT !.edges = es] \in Drafts
           /\ [d EXCEPT !.edges = es].id = d.id
           /\ [d EXCEPT !.edges = es].name = d.name
           /\ [d EXCEPT !.edges = es].nodes = d.nodes
           /\ [d EXCEPT !.edges = es].edges = es
  BY DEF Drafts

LEMMA DraftSpelled == TypeOK => Spelled(toDraft)
  BY SpelledTwice DEF TypeOK, toDraft, Spelled

-----------------------------------------------------------------------------
(* Before the seed arrives every save is of a pipeline without an id, and   *)
(* is stored under a new one.                                               *)
LEMMA NextServer ==
    ASSUME TypeOK, ServerInv, [Next]_vars
    PROVE  ServerInv'
  <1>1. CASE \E c \in SaveCalls : Store(c)
    <2>1. PICK c \in SaveCalls : Store(c)
      BY <1>1
    <2>2. PICK p \in PipelineIds, d \in Drafts :
              /\ c \in Saving /\ d = saves[c].draft
              /\ IF d.id # None THEN p = d.id ELSE server[p] = None
              /\ server' = [server EXCEPT ![p] = [d EXCEPT !.id = p]]
              /\ saves'[c].draft = d
              /\ \A b \in SaveCalls \ {c} : saves'[b] = saves[b]
              /\ Saving' = Saving
      BY <2>1, StoreStep
    <2>3. [d EXCEPT !.id = p].id = p
      BY DEF Drafts
    <2>4. server' = [q \in PipelineIds |-> IF q = p THEN [d EXCEPT !.id = p] ELSE server[q]]
      BY <2>2 DEF TypeOK
    <2>5. \A q \in PipelineIds : server'[q] # None => server'[q].id = q
      BY <2>3, <2>4 DEF ServerInv
    <2>6. ASSUME seeding' = "fetching"
          PROVE  /\ pipelineId' = None /\ server'[Seed] = SeedGraph
                 /\ \A b \in Saving' : saves'[b].draft.id = None
      <3>1. seeding = "fetching" /\ pipelineId' = pipelineId
        BY <2>1, <2>6 DEF Store, storeVars
      <3>2. server[Seed] = SeedGraph /\ \A b \in Saving : saves[b].draft.id = None
        BY <3>1 DEF ServerInv
      <3>3. p # Seed
        BY <2>2, <3>2, BuilderAssumption, PlaygroundAssumption
      <3>4. server'[Seed] = SeedGraph
        BY <2>4, <3>2, <3>3, PlaygroundAssumption
      <3> QED
        BY <2>2, <3>1, <3>2, <3>4 DEF ServerInv, Saving
    <2> QED
      BY <2>5, <2>6 DEF ServerInv
  <1>2. CASE \E c \in SaveCalls : Post(c) /\ (ClickSave(c) \/ ClickRun)
    <2>1. PICK c \in SaveCalls : Post(c) /\ (ClickSave(c) \/ ClickRun)
      BY <1>2
    <2>2. UNCHANGED <<pipelineId, server, seeding>>
      BY <2>1 DEF ClickSave, ClickRun, storeVars
    <2>3. saves'[c].draft.id = pipelineId
      <3>1. toDraft.id = pipelineId
        BY DEF toDraft
      <3> QED
        BY <2>1, <3>1, PostedSaves
    <2>4. \A b \in SaveCalls \ {c} :
             saves'[b].state = saves[b].state /\ saves'[b].draft = saves[b].draft
      BY <2>1, PostedSaves
    <2> QED
      BY <2>2, <2>3, <2>4 DEF ServerInv, Saving
  <1>3. CASE (EditGraph \/ SeedArrives) /\ saves' = Disturbed
    <2>1. Saving' = Saving /\ \A c \in Saving : saves'[c].draft = saves[c].draft
      BY <1>3, DisturbedSaves DEF Saving
    <2>2. CASE EditGraph
      BY <2>1, <2>2, EditTypes DEF EditGraph, ServerInv
    <2>3. CASE SeedArrives
      BY <2>3 DEF SeedArrives, ServerInv
    <2> QED
      BY <1>3, <2>2, <2>3
  <1>4. CASE \E c \in SaveCalls : SaveEnds(c) \/ SaveFails(c)
    <2>1. PICK c \in SaveCalls : SaveEnds(c) \/ SaveFails(c)
      BY <1>4
    <2>2. UNCHANGED <<pipelineId, server, seeding>>
      BY <2>1 DEF SaveEnds, SaveFails, markClean, storeVars
    <2>3. Saving' \subseteq Saving \ {c} /\ \A b \in SaveCalls \ {c} : saves'[b] = saves[b]
      BY <2>1 DEF SaveEnds, SaveFails, NoSave, Saving, TypeOK
    <2> QED
      BY <2>2, <2>3 DEF ServerInv, Saving
  <1>5. CASE /\ Select \/ ClickRun \/ Execute \/ StreamEnds \/ UNCHANGED vars
             /\ UNCHANGED saves
    <2>1. UNCHANGED <<pipelineId, server, seeding, saves>>
      BY <1>5 DEF Select, SelectNode, ClickRun, Execute, StreamEnds, vars, hostVars, storeVars
    <2> QED
      BY <2>1 DEF ServerInv, Saving
  <1> QED
    BY <1>1, <1>2, <1>3, <1>4, <1>5, SaveSteps

(* A save that is alone when it is posted stays the only one until an edit, *)
(* the load or another save disturbs it.                                    *)
LEMMA NextAlone ==
    ASSUME TypeOK, AloneInv, [Next]_vars
    PROVE  AloneInv'
  <1>1. CASE \E c \in SaveCalls : Store(c)
    <2>1. PICK c \in SaveCalls : Store(c)
      BY <1>1
    <2>2. PICK p \in PipelineIds, d \in Drafts :
              /\ c \in Saving /\ d = saves[c].draft
              /\ server' = [server EXCEPT ![p] = [d EXCEPT !.id = p]]
              /\ saves'[c].id = p
              /\ saves'[c].draft = d /\ saves'[c].alone = saves[c].alone
              /\ \A b \in SaveCalls \ {c} : saves'[b] = saves[b]
              /\ Saving' = Saving
      BY <2>1, StoreStep
    <2>3. toDraft' = toDraft
      BY <2>1 DEF Store, storeVars, graphVars, toDraft
    <2>4. SUFFICES ASSUME NEW b \in Saving, saves'[b].alone
                   PROVE  /\ Saving = {b}
                          /\ saves'[b].draft = toDraft
                          /\ saves'[b].state = "stored" => HasDraft(saves[b].id, toDraft)'
      BY <2>2, <2>3 DEF AloneInv
    <2>5. saves[b].alone
      BY <2>2, <2>4 DEF Saving
    <2>6. Saving = {b} /\ saves[b].draft = toDraft
      BY <2>5 DEF AloneInv
    <2>7. b = c /\ d = toDraft
      BY <2>2, <2>6
    <2>8. Spelled(d)
      BY <2>7, DraftSpelled
    <2>9. server'[p] = [d EXCEPT !.id = p]
      BY <2>2 DEF TypeOK
    <2>10. HasDraft(p, d)'
      BY <2>8, <2>9, DraftStored
    <2>11. HasDraft(saves[b].id, toDraft)'
      BY <2>2, <2>3, <2>7, <2>10 DEF HasDraft
    <2> QED
      BY <2>2, <2>6, <2>7, <2>11
  <1>2. CASE \E c \in SaveCalls : Post(c) /\ (ClickSave(c) \/ ClickRun)
    <2>1. PICK c \in SaveCalls : Post(c) /\ (ClickSave(c) \/ ClickRun)
      BY <1>2
    <2>2. toDraft' = toDraft
      BY <2>1 DEF ClickSave, ClickRun, storeVars, graphVars, toDraft
    <2>3. /\ saves'[c].state = "posted" /\ saves'[c].draft = toDraft
          /\ saves'[c].alone => Saving = {}
          /\ \A b \in SaveCalls \ {c} :
                /\ saves'[b].state = saves[b].state
                /\ saves'[b].alone => saves[b].state = "idle"
      BY <2>1, PostedSaves
    <2>4. ASSUME NEW b \in Saving', saves'[b].alone
          PROVE  b = c /\ Saving' = {c}
      BY <2>3, <2>4 DEF Saving
    <2> QED
      BY <2>2, <2>3, <2>4 DEF AloneInv
  <1>3. CASE (EditGraph \/ SeedArrives) /\ saves' = Disturbed
    BY <1>3, DisturbedSaves DEF AloneInv, Saving
  <1>4. CASE \E c \in SaveCalls : SaveEnds(c) \/ SaveFails(c)
    <2>1. PICK c \in SaveCalls : SaveEnds(c) \/ SaveFails(c)
      BY <1>4
    <2>2. c \in Saving
      BY <2>1 DEF SaveEnds, SaveFails, Saving
    <2>3. Saving' \subseteq Saving \ {c} /\ \A b \in SaveCalls \ {c} : saves'[b] = saves[b]
      BY <2>1 DEF SaveEnds, SaveFails, NoSave, Saving, TypeOK
    <2> QED
      BY <2>2, <2>3 DEF AloneInv, Saving
  <1>5. CASE /\ Select \/ ClickRun \/ Execute \/ StreamEnds \/ UNCHANGED vars
             /\ UNCHANGED saves
    <2>1. UNCHANGED <<pipelineId, graphVars, server, saves>>
      BY <1>5 DEF Select, SelectNode, ClickRun, Execute, StreamEnds, vars, hostVars, storeVars
    <2> QED
      BY <2>1 DEF AloneInv, Saving, HasDraft, Saved, toDraft, graphVars
  <1> QED
    BY <1>1, <1>2, <1>3, <1>4, <1>5, SaveSteps

(* A clean builder stays saved: a save that is stored meanwhile creates a   *)
(* new pipeline or writes what is there already.                            *)
LEMMA NextClean ==
    ASSUME TypeOK, ServerInv, AloneInv, CleanInv, [Next]_vars
    PROVE  CleanInv'
  <1>1. CASE \E c \in SaveCalls : Store(c)
    <2>1. PICK c \in SaveCalls : Store(c)
      BY <1>1
    <2>2. PICK p \in PipelineIds, d \in Drafts :
              /\ c \in Saving /\ saves[c].state = "posted" /\ d = saves[c].draft
              /\ IF d.id # None THEN p = d.id ELSE server[p] = None
              /\ server' = [server EXCEPT ![p] = [d EXCEPT !.id = p]]
              /\ saves'[c].state = "stored" /\ saves'[c].draft = d
              /\ \A b \in SaveCalls \ {c} : saves'[b] = saves[b]
              /\ Saving' = Saving
      BY <2>1, StoreStep
    <2>3. UNCHANGED <<storeVars, appPipelineId, raced>>
      BY <2>1 DEF Store
    <2>4. toDraft' = toDraft
      BY <2>3 DEF storeVars, graphVars, toDraft
    <2>5. SUFFICES ASSUME ~raced, ~dirty, appPipelineId # None
                   PROVE  HasDraft(appPipelineId, toDraft)'
      <3>1. ~raced /\ ~dirty /\ appPipelineId # None =>
               \A b \in Saving : saves[b].state = "posted" =>
                  saves[b].draft.id = None \/ saves[b].draft = toDraft
        BY DEF CleanInv
      <3>2. \A b \in Saving' : saves'[b].state = "posted" => b # c /\ saves'[b] = saves[b]
        BY <2>2 DEF Saving
      <3> QED
        BY <2>2, <2>3, <2>4, <3>1, <3>2 DEF CleanInv, storeVars
    <2>6. HasDraft(appPipelineId, toDraft) /\ (d.id = None \/ d = toDraft)
      BY <2>2, <2>5 DEF CleanInv
    <2>7. appPipelineId \in PipelineIds
      BY <2>5 DEF TypeOK
    <2>8. CASE p = appPipelineId
      <3>1. d = toDraft
        BY <2>2, <2>6, <2>8 DEF HasDraft
      <3>2. HasDraft(p, d)'
        <4>1. server'[p] = [d EXCEPT !.id = p]
          BY <2>2 DEF TypeOK
        <4> QED
          BY <3>1, <4>1, DraftSpelled, DraftStored
      <3> QED
        BY <2>3, <2>4, <2>8, <3>1, <3>2 DEF HasDraft
    <2>9. CASE p # appPipelineId
      <3>1. server'[appPipelineId] = server[appPipelineId]
        BY <2>2, <2>7, <2>9 DEF TypeOK
      <3> QED
        BY <2>3, <2>4, <2>6, <3>1 DEF HasDraft, Saved
    <2> QED
      BY <2>8, <2>9
  <1>2. CASE \E c \in SaveCalls : Post(c) /\ (ClickSave(c) \/ ClickRun)
    <2>1. PICK c \in SaveCalls : Post(c) /\ (ClickSave(c) \/ ClickRun)
      BY <1>2
    <2>2. UNCHANGED <<storeVars, appPipelineId, server, raced>>
      BY <2>1 DEF ClickSave, ClickRun
    <2>3. toDraft' = toDraft
      BY <2>2 DEF storeVars, graphVars, toDraft
    <2>4. /\ saves'[c].draft = toDraft
          /\ \A b \in SaveCalls \ {c} :
                saves'[b].state = saves[b].state /\ saves'[b].draft = saves[b].draft
      BY <2>1, PostedSaves
    <2> QED
      BY <2>2, <2>3, <2>4 DEF CleanInv, Saving, HasDraft, Saved, storeVars
  <1>3. CASE EditGraph
    BY <1>3, EditTypes DEF EditGraph, CleanInv
  <1>4. CASE SeedArrives
    <2>1. /\ server[Seed] = SeedGraph
          /\ \A c \in Saving : saves[c].draft.id = None
      BY <1>4 DEF SeedArrives, ServerInv
    <2>2. /\ appPipelineId' = Seed /\ server' = server
          /\ saves' = Disturbed /\ LoadDraft(SeedGraph)
      BY <1>4, <2>1 DEF SeedArrives, getPipeline
    <2>3. toDraft' = [id |-> SeedGraph.id, name |-> SeedGraph.name, nodes |-> SeedGraph.nodes,
                      edges |-> {WithNull(e) : e \in SeedGraph.edges}]
      BY <2>2 DEF LoadDraft, toDraft
    <2>4. HasDraft(Seed, toDraft)'
      <3>1. SeedGraph # None
        BY PlaygroundAssumption, BuilderAssumption
      <3>2. [SeedGraph EXCEPT !.edges = {WithNull(e) : e \in SeedGraph.edges}]
              = [toDraft' EXCEPT !.id = Seed]
        <4>1. SeedGraph \in Drafts /\ SeedGraph.id = Seed
          BY PlaygroundAssumption
        <4>2. PICK es \in SUBSET Edges : es = {WithNull(e) : e \in SeedGraph.edges}
          <5>1. {WithNull(e) : e \in SeedGraph.edges} \in SUBSET Edges
            BY <4>1, SpelledEdge DEF Drafts
          <5> QED
            BY <5>1
        <4>3. PICK d : d = [id |-> Seed, name |-> SeedGraph.name, nodes |-> SeedGraph.nodes,
                            edges |-> es]
          OBVIOUS
        <4>4. d \in Drafts
          BY <4>1, <4>3 DEF Drafts
        <4>5. toDraft' = d
          BY <2>3, <4>1, <4>2, <4>3
        <4>6. [d EXCEPT !.id = Seed] = d
          BY <4>3
        <4>7. [SeedGraph EXCEPT !.edges = es] = d
          <5>1. /\ d.id = SeedGraph.id /\ d.name = SeedGraph.name
                /\ d.nodes = SeedGraph.nodes /\ d.edges = es
            BY <4>1, <4>3
          <5>2. PICK c : c = [SeedGraph EXCEPT !.edges = es]
            OBVIOUS
          <5>3. /\ c \in Drafts
                /\ c.id = SeedGraph.id /\ c.name = SeedGraph.name
                /\ c.nodes = SeedGraph.nodes /\ c.edges = es
            BY <4>1, <5>2, WithEdges
          <5>4. c = d
            BY <4>4, <5>1, <5>3, SameDraft
          <5> QED
            BY <5>2, <5>4
        <4>8. [SeedGraph EXCEPT !.edges = {WithNull(e) : e \in SeedGraph.edges}] = d
          BY <4>2, <4>7
        <4>9. [toDraft' EXCEPT !.id = Seed] = d
          BY <4>5, <4>6
        <4> QED
          BY <4>8, <4>9, Zenon
      <3> QED
        BY <2>1, <2>2, <3>1, <3>2 DEF HasDraft, Saved
    <2>5. \A c \in Saving' : saves'[c].draft.id = None
      BY <2>1, <2>2, DisturbedSaves DEF Saving
    <2> QED
      BY <2>2, <2>4, <2>5 DEF CleanInv, HasDraft
  <1>5. ASSUME NEW c \in SaveCalls, SaveEnds(c)
        PROVE  CleanInv'
    <2>1. /\ saves[c].state = "stored" /\ c \in Saving
          /\ appPipelineId' = saves[c].id
          /\ raced' = ~saves[c].alone
          /\ server' = server
          /\ UNCHANGED <<pipelineId, graphVars>>
      BY <1>5 DEF SaveEnds, markClean, Saving
    <2>2. toDraft' = toDraft
      BY <2>1 DEF graphVars, toDraft
    <2>3. CASE ~saves[c].alone
      BY <2>1, <2>3 DEF CleanInv
    <2>4. CASE saves[c].alone
      <3>1. Saving = {c} /\ HasDraft(saves[c].id, toDraft)
        BY <2>1, <2>4 DEF AloneInv
      <3>2. Saving' = {}
        BY <1>5, <3>1 DEF SaveEnds, NoSave, Saving, TypeOK
      <3>3. HasDraft(appPipelineId, toDraft)'
        BY <2>1, <2>2, <3>1 DEF HasDraft, Saved
      <3> QED
        BY <3>2, <3>3 DEF CleanInv
    <2> QED
      BY <2>3, <2>4
  <1>6. CASE \E c \in SaveCalls : SaveFails(c)
    <2>1. PICK c \in SaveCalls : SaveFails(c)
      BY <1>6
    <2>2. UNCHANGED <<storeVars, appPipelineId, server, raced>>
      BY <2>1 DEF SaveFails
    <2>3. Saving' \subseteq Saving \ {c} /\ \A b \in SaveCalls \ {c} : saves'[b] = saves[b]
      BY <2>1 DEF SaveFails, NoSave, Saving, TypeOK
    <2>4. toDraft' = toDraft
      BY <2>2 DEF storeVars, graphVars, toDraft
    <2> QED
      BY <2>2, <2>3, <2>4 DEF CleanInv, Saving, HasDraft, Saved, storeVars
  <1>7. CASE /\ Select \/ ClickRun \/ Execute \/ StreamEnds \/ UNCHANGED vars
             /\ UNCHANGED saves
    <2>1. UNCHANGED <<pipelineId, graphVars, dirty, appPipelineId, server, saves, raced>>
      BY <1>7 DEF Select, SelectNode, ClickRun, Execute, StreamEnds, vars, hostVars, storeVars
    <2> QED
      BY <2>1 DEF CleanInv, Saving, HasDraft, Saved, toDraft, graphVars
  <1> QED
    BY <1>1, <1>2, <1>3, <1>4, <1>5, <1>6, <1>7, SaveSteps

(* What a run that nothing interfered with has to be for RunInv.            *)
LEMMA RunSteps ==
    ASSUME TypeOK, ServerInv, AloneInv, CleanInv, RunInv, [Next]_vars,
           run'.alone, run'.state # "idle"
    PROVE  /\ run'.shown \in Drafts /\ run'.shown.id = run'.id /\ Spelled(run.shown)'
           /\ Saving' = IF run'.state = "saving" THEN {run'.save} ELSE {}
           /\ run'.state = "saving" =>
                 /\ saves'[run'.save].draft = run'.shown
                 /\ saves'[run'.save].state = "stored" => HasDraft(run.id, run.shown)'
           /\ run'.state = "requested" => HasDraft(run.id, run.shown)'
           /\ RunsWhatIsShown'
  <1>t. run \in RunRecords
    BY DEF TypeOK
  <1>1. CASE \E c \in SaveCalls : Store(c)
    <2>1. PICK c \in SaveCalls : Store(c)
      BY <1>1
    <2>2. PICK p \in PipelineIds, d \in Drafts :
              /\ c \in Saving /\ d = saves[c].draft
              /\ IF d.id # None THEN p = d.id ELSE server[p] = None
              /\ server' = [server EXCEPT ![p] = [d EXCEPT !.id = p]]
              /\ saves'[c].draft = d
              /\ Saving' = Saving
      BY <2>1, StoreStep
    <2>3. run' = run
      BY <2>1 DEF Store
    <2>4. /\ run.shown \in Drafts /\ run.shown.id = run.id /\ Spelled(run.shown)
          /\ Saving = IF run.state = "saving" THEN {run.save} ELSE {}
          /\ run.state = "saving" => saves[run.save].draft = run.shown
          /\ RunsWhatIsShown
      BY <2>3 DEF RunInv
    <2>5. run.state = "saving" /\ c = run.save /\ d = run.shown
      BY <2>2, <2>4
    <2>6. p = run.id
      BY <2>2, <2>3, <2>4, <2>5, BuilderAssumption DEF TypeOK
    <2>7. HasDraft(p, d)'
      <3>1. server'[p] = [d EXCEPT !.id = p]
        BY <2>2 DEF TypeOK
      <3> QED
        BY <2>4, <2>5, <3>1, DraftStored
    <2>8. HasDraft(run.id, run.shown)'
      BY <2>3, <2>5, <2>6, <2>7 DEF HasDraft
    <2> QED
      BY <2>2, <2>3, <2>4, <2>5, <2>8 DEF Spelled, RunsWhatIsShown
  <1>2. CASE \E c \in SaveCalls : Post(c) /\ (ClickSave(c) \/ ClickRun)
    <2>1. PICK c \in SaveCalls : Post(c) /\ (ClickSave(c) \/ ClickRun)
      BY <1>2
    <2>2. CASE ClickSave(c)
      BY <1>t, <2>2 DEF ClickSave, RunRecords
    <2>3. CASE ClickRun /\ UNCHANGED saves
      BY <2>1, <2>3, PostedSaves DEF Post
    <2>4. CASE ClickRun /\ ~UNCHANGED saves
      <3> DEFINE called == [NoRun EXCEPT
                   !.id = appPipelineId,
                   !.shown = toDraft,
                   !.alone = Saving = {} /\ ~raced /\ pipelineId = appPipelineId]
      <3>1. PICK b \in SaveCalls :
                   Post(b) /\ run' = [called EXCEPT !.state = "saving", !.save = b]
        BY <2>4 DEF ClickRun
      <3>2. /\ run'.state = "saving" /\ run'.save = b
            /\ run'.id = appPipelineId /\ run'.shown = toDraft
            /\ run'.alone = (Saving = {} /\ ~raced /\ pipelineId = appPipelineId)
        BY <3>1 DEF NoRun
      <3>3. Saving = {} /\ pipelineId = appPipelineId
        BY <3>2
      <3>4. /\ saves'[b].state = "posted" /\ saves'[b].draft = toDraft
            /\ \A a \in SaveCalls \ {b} : saves'[a].state = saves[a].state
        BY <3>1, PostedSaves
      <3>5. Saving' = {b}
        BY <3>3, <3>4 DEF Saving
      <3>6. toDraft \in Drafts /\ toDraft.id = pipelineId
        BY DEF TypeOK, toDraft
      <3>7. Spelled(run.shown)'
        BY <3>2, DraftSpelled DEF Spelled
      <3> QED
        BY <3>2, <3>3, <3>4, <3>5, <3>6, <3>7 DEF RunsWhatIsShown
    <2> QED
      BY <2>1, <2>2, <2>3, <2>4
  <1>3. CASE (EditGraph \/ SeedArrives) /\ saves' = Disturbed
    <2>1. UNCHANGED <<run, server>>
      BY <1>3 DEF EditGraph, SeedArrives
    <2>2. /\ Saving' = Saving
          /\ \A c \in SaveCalls : saves'[c].state = saves[c].state /\ saves'[c].draft = saves[c].draft
      BY <1>3, DisturbedSaves DEF Saving
    <2>3. run.state = "saving" => run.save \in SaveCalls
      BY <2>1 DEF RunInv, Saving
    <2> QED
      BY <2>1, <2>2, <2>3 DEF RunInv, HasDraft, Saved, Spelled, RunsWhatIsShown
  <1>4. CASE \E c \in SaveCalls : SaveEnds(c) \/ SaveFails(c)
    <2>1. PICK c \in SaveCalls : SaveEnds(c) \/ SaveFails(c)
      BY <1>4
    <2>2. c \in Saving
      BY <2>1 DEF SaveEnds, SaveFails, Saving
    <2>3. NoRun.state = "idle"
      BY DEF NoRun
    <2>4. CASE SaveEnds(c)
      <3> DEFINE resumed == [run EXCEPT !.state = "requested", !.save = None]
      <3>1. /\ resumed.state = "requested" /\ resumed.id = run.id
            /\ resumed.shown = run.shown /\ resumed.alone = run.alone
        BY <1>t DEF RunRecords
      <3>2. saves[c].state = "stored" /\ server' = server
            /\ run' = IF run.save = c THEN resumed ELSE run
        BY <2>4 DEF SaveEnds, Resume
      <3>3. run.alone /\ run.state # "idle"
        <4>1. run.save = c => run.state = "saving"
          BY PlaygroundAssumption DEF TypeOK
        <4> QED
          BY <3>1, <3>2, <4>1
      <3>4. /\ run.shown \in Drafts /\ run.shown.id = run.id /\ Spelled(run.shown)
            /\ run.state = "saving" /\ Saving = {run.save} /\ c = run.save
            /\ HasDraft(run.id, run.shown)
        BY <2>2, <3>2, <3>3 DEF RunInv
      <3>5. run' = resumed
        BY <3>2, <3>4
      <3>6. Saving' = {}
        BY <2>4, <3>4 DEF SaveEnds, NoSave, Saving, TypeOK
      <3>7. HasDraft(run.id, run.shown)' /\ Spelled(run.shown)'
        BY <3>1, <3>2, <3>4, <3>5 DEF HasDraft, Saved, Spelled
      <3> QED
        BY <3>1, <3>4, <3>5, <3>6, <3>7 DEF RunsWhatIsShown
    <2>5. CASE SaveFails(c)
      <3>1. run' = IF run.save = c THEN NoRun ELSE run
        BY <2>5 DEF SaveFails
      <3>2. run' = run /\ run.save # c
        BY <2>3, <3>1
      <3> QED
        BY <2>2, <3>2 DEF RunInv
    <2> QED
      BY <2>1, <2>4, <2>5
  <1>5. CASE ClickRun /\ UNCHANGED saves
    <2> DEFINE called == [NoRun EXCEPT
                 !.id = appPipelineId,
                 !.shown = toDraft,
                 !.alone = Saving = {} /\ ~raced /\ pipelineId = appPipelineId]
    <2>1. CASE SavesFirst
      <3>1. PICK b \in SaveCalls : Post(b)
        BY <1>5, <2>1 DEF ClickRun
      <3> QED
        BY <1>5, <3>1, PostedSaves DEF Post
    <2>2. CASE ~SavesFirst
      <3>1. run' = [called EXCEPT !.state = "requested"] /\ appPipelineId # None /\ server' = server
        BY <1>5, <2>2 DEF ClickRun
      <3>2. /\ run'.state = "requested"
            /\ run'.id = appPipelineId /\ run'.shown = toDraft
            /\ run'.alone = (Saving = {} /\ ~raced /\ pipelineId = appPipelineId)
        BY <3>1 DEF NoRun
      <3>3. Saving = {} /\ ~raced /\ pipelineId = appPipelineId
        BY <3>2
      <3>4. HasDraft(appPipelineId, toDraft)
        BY <2>2, <3>1, <3>3 DEF CleanInv, SavesFirst
      <3>5. HasDraft(run.id, run.shown)' /\ Spelled(run.shown)'
        BY <3>1, <3>2, <3>4, DraftSpelled DEF HasDraft, Saved, Spelled
      <3>6. toDraft \in Drafts /\ toDraft.id = pipelineId
        BY DEF TypeOK, toDraft
      <3> QED
        BY <1>5, <3>2, <3>3, <3>5, <3>6 DEF RunsWhatIsShown, Saving
    <2> QED
      BY <2>1, <2>2
  <1>6. CASE Execute
    <2>1. /\ run.state = "requested"
          /\ run' = [run EXCEPT !.state = "streaming", !.executed = server[run.id]]
          /\ UNCHANGED <<server, saves>>
      BY <1>6 DEF Execute, getPipeline
    <2>2. /\ run'.state = "streaming" /\ run'.executed = server[run.id]
          /\ run'.id = run.id /\ run'.shown = run.shown /\ run'.alone = run.alone
      BY <1>t, <2>1 DEF RunRecords
    <2>3. /\ run.shown \in Drafts /\ run.shown.id = run.id /\ Spelled(run.shown)
          /\ Saving = {} /\ HasDraft(run.id, run.shown)
      BY <2>1, <2>2 DEF RunInv
    <2>4. [run.shown EXCEPT !.id = run.id] = run.shown
      <3>1. PICK d \in Drafts : d = run.shown
        BY <2>3
      <3>2. [d EXCEPT !.id = d.id] = d
        BY DEF Drafts
      <3> QED
        BY <2>3, <3>1, <3>2
    <2>5. Saved(run.id) = run.shown
      BY <2>3, <2>4 DEF HasDraft
    <2>6. RunsWhatIsShown'
      BY <2>2, <2>5 DEF RunsWhatIsShown, Saved
    <2> QED
      BY <2>1, <2>2, <2>3, <2>6 DEF Spelled, Saving
  <1>7. CASE /\ Select \/ StreamEnds \/ UNCHANGED vars
             /\ UNCHANGED saves
    <2>1. UNCHANGED <<run, server, saves>>
      BY <1>7 DEF Select, StreamEnds, NoRun, vars, hostVars
    <2> QED
      BY <2>1 DEF RunInv, HasDraft, Saved, Spelled, RunsWhatIsShown, Saving
  <1> QED
    BY <1>1, <1>2, <1>3, <1>4, <1>5, <1>6, <1>7, SaveSteps

-----------------------------------------------------------------------------
LEMMA InitInv == HostInit => Inv
  <1> SUFFICES ASSUME HostInit
               PROVE  Inv
      OBVIOUS
  <1>1. TypeOK
    BY InitTypes
  <1>2. /\ pipelineId = None /\ nodes = [n \in {} |-> None] /\ edges = {}
        /\ startTargets = {} /\ endSources = {} /\ selectedNodeId = None
        /\ appPipelineId = None /\ server = Seeded
        /\ saves = [c \in SaveCalls |-> NoSave] /\ run = NoRun
    BY DEF HostInit, Init
  <1>3. Saving = {}
    BY <1>2 DEF Saving, NoSave
  <1>4. IntactInv
    BY <1>2 DEF IntactInv, IntactDraft
  <1>5. ServerInv
    <2>1. \A p \in PipelineIds : server[p] = IF p = Seed THEN SeedGraph ELSE None
      BY <1>2 DEF Seeded
    <2> QED
      BY <1>2, <1>3, <2>1, PlaygroundAssumption DEF ServerInv
  <1>6. run.state = "idle"
    BY <1>2 DEF NoRun
  <1> QED
    BY <1>1, <1>2, <1>3, <1>4, <1>5, <1>6 DEF Inv, AloneInv, CleanInv, RunInv

LEMMA NextInv == Inv /\ [Next]_vars => Inv'
  <1> SUFFICES ASSUME Inv, [Next]_vars
               PROVE  Inv'
      OBVIOUS
  <1> USE DEF Inv
  <1>1. seeding = "fetching" => server[Seed] \in Drafts
    BY PlaygroundAssumption DEF ServerInv
  <1>2. TypeOK'
    BY <1>1, NextTypes
  <1>3. RunInv'
    BY RunSteps DEF RunInv
  <1> QED
    BY <1>2, <1>3, NextIntact, NextServer, NextAlone, NextClean

(* The edge of a marker is named for its node, and for the marker.          *)
LEMMA MarkerEdgeIds ==
    \A m, n :
        /\ startEdgeIdFor(m) = startEdgeIdFor(n) => m = n
        /\ endEdgeIdFor(m) = endEdgeIdFor(n) => m = n
        /\ startEdgeIdFor(m) # endEdgeIdFor(n)
  BY DEF startEdgeIdFor, endEdgeIdFor

LEMMA PlaygroundInv == Spec => []Inv
  BY InitInv, NextInv, PTL DEF Spec

(* The builder's and the host's state have their types                      *)
(* (builder-store.ts:26-40, App.tsx:18-25).                                 *)
THEOREM PlaygroundTypes == Spec => []TypeOK
  BY PlaygroundInv, PTL DEF Inv

(* Whatever the user does, every edge that the canvas draws joins two nodes *)
(* that are drawn and is there once, and the selection is drawn             *)
(* (builder-store.ts:147, 214, BuilderCanvas.tsx:108).                      *)
THEOREM CanvasIntact == Spec => []GraphIntact
  <1>1. Inv => GraphIntact
    <2> SUFFICES ASSUME TypeOK, IntactInv
                 PROVE  GraphIntact
      BY DEF Inv
    <2> DEFINE inner == {Drawn(e.id, e.from, e.to, e.label) : e \in edges}
               entry == {Drawn(startEdgeIdFor(n), StartMarker, n, "none") : n \in startTargets}
               exit == {Drawn(endEdgeIdFor(n), n, EndMarker, "none") : n \in endSources}
    <2>1. /\ edges \subseteq Edges
          /\ DOMAIN nodes \subseteq NodeIds
          /\ startTargets \subseteq DOMAIN nodes \cup {EndMarker}
          /\ endSources \subseteq DOMAIN nodes
      BY NodeMap, DraftTypes DEF TypeOK, IntactInv
    <2>2. \A e \in edges : {e.from, e.to} \subseteq DOMAIN nodes /\ e.id \in EdgeIds
      BY <2>1 DEF IntactInv, IntactDraft, Edges
    <2>3. StartMarker \notin DOMAIN nodes /\ EndMarker \notin DOMAIN nodes
      BY <2>1, BuilderAssumption DEF Markers
    <2>4. \A d \in inner :
             /\ {d.source, d.target} \subseteq DOMAIN nodes /\ d.id \in EdgeIds
             /\ \E e \in edges : d = Drawn(e.id, e.from, e.to, e.label)
      BY <2>2 DEF Drawn
    <2>5. \A d \in entry :
             /\ d.source = StartMarker /\ d.target \in DOMAIN nodes \cup {EndMarker}
             /\ d.id = startEdgeIdFor(d.target) /\ d.id \notin EdgeIds
             /\ d = Drawn(startEdgeIdFor(d.target), StartMarker, d.target, "none")
      BY <2>1, BuilderAssumption DEF Drawn, Markers
    <2>6. \A d \in exit :
             /\ d.source \in DOMAIN nodes /\ d.target = EndMarker
             /\ d.id = endEdgeIdFor(d.source) /\ d.id \notin EdgeIds
             /\ d = Drawn(endEdgeIdFor(d.source), d.source, EndMarker, "none")
      BY <2>1, BuilderAssumption DEF Drawn, Markers
    <2>7. displayEdges = inner \cup entry \cup exit
      BY DEF displayEdges
    <2> HIDE DEF inner, entry, exit
    <2>8. \A d \in displayEdges : {d.source, d.target} \subseteq displayNodes
      BY <2>4, <2>5, <2>6, <2>7 DEF displayNodes, Markers
    <2>9. ASSUME NEW c \in displayEdges, NEW d \in displayEdges,
                 \/ c.id = d.id
                 \/ c.source = d.source /\ c.target = d.target /\ c.label = d.label
          PROVE  c = d
      <3>1. CASE c \in inner /\ d \in inner
        <4>1. PICK e \in edges : c = Drawn(e.id, e.from, e.to, e.label)
          BY <2>4, <3>1
        <4>2. PICK f \in edges : d = Drawn(f.id, f.from, f.to, f.label)
          BY <2>4, <3>1
        <4>3. /\ c.id = e.id /\ c.source = e.from /\ c.target = e.to /\ c.label = e.label
              /\ d.id = f.id /\ d.source = f.from /\ d.target = f.to /\ d.label = f.label
          BY <4>1, <4>2 DEF Drawn
        <4>4. e = f
          BY <2>9, <4>3 DEF IntactInv, IntactDraft
        <4> QED
          BY <4>1, <4>2, <4>4
      <3>2. CASE c \in entry /\ d \in entry
        <4>1. c.target = d.target
          BY <2>5, <2>9, <3>2, MarkerEdgeIds
        <4> QED
          BY <2>5, <3>2, <4>1
      <3>3. CASE c \in exit /\ d \in exit
        <4>1. c.source = d.source
          BY <2>6, <2>9, <3>3, MarkerEdgeIds
        <4> QED
          BY <2>6, <3>3, <4>1
      <3>4. ASSUME NEW i \in inner, NEW m \in entry \cup exit
            PROVE  i.id # m.id /\ ~(i.source = m.source /\ i.target = m.target)
        <4>1. i.id \in EdgeIds /\ i.source \in DOMAIN nodes /\ i.target \in DOMAIN nodes
          BY <2>4
        <4>2. m.id \notin EdgeIds /\ (m.source = StartMarker \/ m.target = EndMarker)
          BY <2>5, <2>6
        <4> QED
          BY <2>3, <4>1, <4>2
      <3>5. ASSUME NEW m \in entry, NEW n \in exit
            PROVE  m.id # n.id /\ m.source # n.source
        BY <2>3, <2>5, <2>6, MarkerEdgeIds
      <3> QED
        BY <2>7, <2>9, <3>1, <3>2, <3>3, <3>4, <3>5
    <2> QED
      BY <2>8, <2>9 DEF GraphIntact, IntactInv
  <1> QED
    BY <1>1, PlaygroundInv, PTL

(* A builder that is not dirty holds what the server has, unless something  *)
(* else happened while its last save was under way                          *)
(* (builder-store.ts:37, App.tsx:51-61).                                    *)
THEOREM CleanBuilderIsSaved == Spec => []CleanUnlessRaced
  <1>1. Inv => CleanUnlessRaced
    <2> SUFFICES ASSUME Inv, ~raced, ~dirty, appPipelineId # None
                 PROVE  IsSaved
      BY DEF CleanUnlessRaced, CleanMeansSaved, Inv, TypeOK
    <2>1. HasDraft(appPipelineId, toDraft)
      BY DEF Inv, CleanInv
    <2>2. appPipelineId \in PipelineIds
      BY DEF Inv, TypeOK
    <2> QED
      BY <2>1, <2>2 DEF IsSaved, HasDraft
  <1> QED
    BY <1>1, PlaygroundInv, PTL

(* A run that no other save interferes with executes what the canvas showed *)
(* when it was clicked, whatever is edited meanwhile (App.tsx:64-70).       *)
THEOREM RunExecutesShown == Spec => []RunsWhatIsShown
  <1>1. Inv => RunsWhatIsShown
    BY DEF Inv, RunInv, RunsWhatIsShown
  <1> QED
    BY <1>1, PlaygroundInv, PTL

=============================================================================
