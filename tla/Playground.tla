----------------------------- MODULE Playground -----------------------------
(***************************************************************************)
(* The reference host of the builder (examples/playground/src/App.tsx):    *)
(* it loads the seed pipeline, saves drafts and runs pipelines over HTTP,  *)
(* while the user goes on editing. Requests in flight may be served and    *)
(* answered in any order.                                                  *)
(***************************************************************************)
EXTENDS BuilderStore

CONSTANTS
    SaveCalls,  \* calls of save() under way at once
    Seed,       \* id of the pipeline the server was seeded with
    SeedGraph,
    MaxEdits    \* bound on the edits in a behaviour

(* The ends of d's edges are nodes of it, and no edge is there twice.       *)
IntactDraft(d) ==
    /\ \A e \in d.edges : {e.from, e.to} \subseteq DOMAIN d.nodes
    /\ \A e, f \in d.edges :
          \/ e.id = f.id
          \/ e.from = f.from /\ e.to = f.to /\ e.label = f.label
          => e = f

ASSUME PlaygroundAssumption ==
    /\ None \notin SaveCalls
    /\ Seed \in PipelineIds
    /\ SeedGraph \in Drafts /\ SeedGraph.id = Seed
    /\ IntactDraft(SeedGraph)
    /\ MaxEdits \in Nat

VARIABLES
    appPipelineId,  \* the App's pipelineId
    server,         \* the draft stored for each pipeline, None if there is none
    seeding,        \* the effect that loads the seed
    saves,          \* each call of save(): its draft, and the id it was stored under
    run,            \* the call of run()
    raced,          \* history: the last save to end was not alone
    edits           \* history: the number of edits

hostVars == <<appPipelineId, server, seeding, saves, run, raced>>
vars == <<storeVars, hostVars, edits>>

(* A save is alone unless an edit, a load or another save happens while it  *)
(* is under way.                                                            *)
NoSave == [state |-> "idle", draft |-> None, id |-> None, alone |-> TRUE]
NoRun == [state |-> "idle", save |-> None, id |-> None, shown |-> None,
          executed |-> None, alone |-> TRUE]

(* The backend saves a starter pipeline before it serves anything.          *)
Seeded == [p \in PipelineIds |-> IF p = Seed THEN SeedGraph ELSE None]

HostInit ==
    /\ Init
    /\ appPipelineId = None
    /\ server = Seeded
    /\ seeding = "fetching"
    /\ saves = [c \in SaveCalls |-> NoSave]
    /\ run = NoRun
    /\ raced = FALSE
    /\ edits = 0

Saving == {c \in SaveCalls : saves[c].state # "idle"}

Disturbed == [c \in SaveCalls |-> [saves[c] EXCEPT !.alone = saves[c].state = "idle"]]

-----------------------------------------------------------------------------
(* The user edits or selects.                                               *)
EditGraph ==
    /\ edits < MaxEdits
    /\ edits' = edits + 1
    /\ Edit
    /\ saves' = Disturbed
    /\ UNCHANGED <<appPipelineId, server, seeding, run, raced>>

(* The inspector follows the selection; a marker can be selected as well.   *)
Select ==
    /\ \E n \in displayNodes \cup {None} : SelectNode(n)
    /\ UNCHANGED <<hostVars, edits>>

(* GET /pipeline/:id, which the engine answers from its store.              *)
getPipeline(p) == server[p]

(* The effect's last answer arrives: whatever the builder held is replaced. *)
SeedArrives ==
    /\ seeding = "fetching"
    /\ seeding' = "done"
    /\ LoadDraft(getPipeline(Seed))
    /\ appPipelineId' = Seed
    /\ saves' = Disturbed
    /\ raced' = FALSE
    /\ UNCHANGED <<server, run, edits>>

-----------------------------------------------------------------------------
(* save() up to its fetch.                                                  *)
Post(c) ==
    /\ saves[c].state = "idle"
    /\ saves' = [Disturbed EXCEPT ![c] =
            [state |-> "posted", draft |-> toDraft, id |-> None, alone |-> Saving = {}]]

ClickSave(c) ==
    /\ Post(c)
    /\ run' = [run EXCEPT !.alone = FALSE]
    /\ UNCHANGED <<storeVars, appPipelineId, server, seeding, raced, edits>>

(* The server stores the draft, under a new id if it has none.              *)
IdFor(draft) ==
    IF draft.id # None THEN {draft.id} ELSE {p \in PipelineIds : server[p] = None}

Store(c) ==
    /\ saves[c].state = "posted"
    /\ \E p \in IdFor(saves[c].draft) :
          /\ server' = [server EXCEPT ![p] = [saves[c].draft EXCEPT !.id = p]]
          /\ saves' = [saves EXCEPT ![c].state = "stored", ![c].id = p]
    /\ UNCHANGED <<storeVars, appPipelineId, seeding, run, raced, edits>>

(* run() goes on after its save, with the pipelineId it was called with.    *)
Resume(c) ==
    IF run.save = c THEN [run EXCEPT !.state = "requested", !.save = None] ELSE run

(* The answer arrives and the builder is marked clean.                      *)
SaveEnds(c) ==
    /\ saves[c].state = "stored"
    /\ appPipelineId' = saves[c].id
    /\ markClean
    /\ saves' = [saves EXCEPT ![c] = NoSave]
    /\ run' = Resume(c)
    /\ raced' = ~saves[c].alone
    /\ UNCHANGED <<server, seeding, edits>>

(* fetch rejects, before the server has stored the draft or after.          *)
SaveFails(c) ==
    /\ saves[c].state # "idle"
    /\ saves' = [saves EXCEPT ![c] = NoSave]
    /\ run' = IF run.save = c THEN NoRun ELSE run
    /\ UNCHANGED <<storeVars, appPipelineId, server, seeding, raced, edits>>

-----------------------------------------------------------------------------
(* run(): a dirty builder is saved first. The variant skips that.           *)
NeverSaves == FALSE
SavesFirst == dirty

ClickRun ==
    LET called == [NoRun EXCEPT
            !.id = appPipelineId,
            !.shown = toDraft,
            !.alone = Saving = {} /\ ~raced /\ pipelineId = appPipelineId]
    IN
    /\ run.state = "idle"
    /\ appPipelineId # None
    /\ IF SavesFirst
       THEN \E c \in SaveCalls :
               /\ Post(c)
               /\ run' = [called EXCEPT !.state = "saving", !.save = c]
       ELSE run' = [called EXCEPT !.state = "requested"] /\ UNCHANGED saves
    /\ UNCHANGED <<storeVars, appPipelineId, server, seeding, raced, edits>>

(* The server starts the run: the engine loads the pipeline.                *)
Execute ==
    /\ run.state = "requested"
    /\ run' = [run EXCEPT !.state = "streaming", !.executed = getPipeline(run.id)]
    /\ UNCHANGED <<storeVars, appPipelineId, server, seeding, saves, raced, edits>>

StreamEnds ==
    /\ run.state = "streaming"
    /\ run' = NoRun
    /\ UNCHANGED <<storeVars, appPipelineId, server, seeding, saves, raced, edits>>

Next ==
    \/ EditGraph
    \/ Select
    \/ SeedArrives
    \/ \E c \in SaveCalls : ClickSave(c) \/ Store(c) \/ SaveEnds(c) \/ SaveFails(c)
    \/ ClickRun
    \/ Execute
    \/ StreamEnds

Spec == HostInit /\ [][Next]_vars

-----------------------------------------------------------------------------
SaveRecords ==
    [state : {"idle", "posted", "stored"}, draft : Drafts \cup {None},
     id : PipelineIds \cup {None}, alone : BOOLEAN]

RunRecords ==
    [state : {"idle", "saving", "requested", "streaming"},
     save : SaveCalls \cup {None}, id : PipelineIds \cup {None},
     shown : Drafts \cup {None}, executed : Drafts \cup {None}, alone : BOOLEAN]

(* Types of the builder's and the host's state. A save has a draft as soon  *)
(* as it is posted, an id as soon as it is stored, and no run is started    *)
(* without an id (App.tsx:51-65).                                           *)
TypeOK ==
    /\ toDraft \in Drafts /\ edges \in SUBSET Edges
    /\ startTargets \subseteq NodeIds \cup {EndMarker}
    /\ endSources \subseteq NodeIds
    /\ selectedNodeId \in NodeIds \cup Markers \cup {None}
    /\ dirty \in BOOLEAN /\ raced \in BOOLEAN
    /\ appPipelineId \in PipelineIds \cup {None}
    /\ server \in [PipelineIds -> Drafts \cup {None}]
    /\ seeding \in {"fetching", "done"}
    /\ saves \in [SaveCalls -> SaveRecords]
    /\ \A c \in SaveCalls :
          /\ saves[c].state # "idle" => saves[c].draft \in Drafts
          /\ saves[c].state = "stored" => saves[c].id \in PipelineIds
    /\ run \in RunRecords
    /\ run.state # "idle" => run.id \in PipelineIds
    /\ run.save # None => run.state = "saving"
    /\ edits \in 0..MaxEdits

(* What the canvas draws hangs together: every edge, those of the START and *)
(* END markers too, connects two nodes that are drawn, deletes nothing but  *)
(* itself and is there once, and the selection is a node that is drawn      *)
(* (builder-store.ts:147, 214, BuilderCanvas.tsx:108).                      *)
GraphIntact ==
    /\ \A d \in displayEdges : {d.source, d.target} \subseteq displayNodes
    /\ \A c, d \in displayEdges :
          \/ c.id = d.id
          \/ c.source = d.source /\ c.target = d.target /\ c.label = d.label
          => c = d
    /\ selectedNodeId \in displayNodes \cup {None}

(* What a loaded draft would be saved as.                                   *)
Saved(p) == [server[p] EXCEPT !.edges = {WithNull(e) : e \in @}]

IsSaved ==
    \E p \in PipelineIds :
        server[p] # None /\ Saved(p) = [toDraft EXCEPT !.id = p]

(* A builder that is not dirty holds what the server has ("Has the graph    *)
(* changed since the last save?", builder-store.ts:37), once it has loaded  *)
(* or saved anything.                                                       *)
CleanMeansSaved == ~dirty /\ appPipelineId # None => IsSaved

(* It does unless something else happened while a save was under way.       *)
CleanUnlessRaced == raced \/ CleanMeansSaved

(* Run executes what the canvas showed when it was clicked, unless another  *)
(* save interferes or the builder has no pipeline of its own                *)
(* (App.tsx:64-70).                                                         *)
RunsWhatIsShown ==
    run.state = "streaming" /\ run.alone =>
        [run.executed EXCEPT !.edges = {WithNull(e) : e \in @}] = run.shown

=============================================================================
