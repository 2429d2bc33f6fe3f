-------------------------- MODULE PrismaSaveProofs --------------------------
(***************************************************************************)
(* Proofs about PrismaSave, for every set of pipelines, drafts and calls.  *)
(***************************************************************************)
EXTENDS PrismaSave, TLAPS

(* The nodes of a draft are nodes; the first element of a sequence is the   *)
(* only one its tail may lack.                                              *)
LEMMA RangeOfSeq ==
    ASSUME NEW S, NEW q \in Seq(S)
    PROVE  /\ Range(q) \subseteq S
           /\ q = <<>> => Range(q) = {}
           /\ q # <<>> => /\ Head(q) \in S /\ Tail(q) \in Seq(S)
                          /\ Range(q) = {Head(q)} \cup Range(Tail(q))
<1>1. Range(q) = {q[i] : i \in 1..Len(q)}
  BY DEF Range
<1>2. CASE q = <<>>
  BY <1>1, <1>2
<1>3. CASE q # <<>>
  <2>1. /\ Head(q) = q[1] /\ Head(q) \in S
        /\ Tail(q) \in Seq(S) /\ Len(Tail(q)) = Len(q) - 1 /\ Len(q) \in Nat
        /\ \A i \in 1..(Len(q) - 1) : Tail(q)[i] = q[i + 1]
    BY <1>3
  <2>2. Range(Tail(q)) = {Tail(q)[i] : i \in 1..(Len(q) - 1)}
    <3>1. DOMAIN Tail(q) = 1..Len(Tail(q))
      BY <2>1
    <3> QED
      BY <2>1, <3>1 DEF Range
  <2>3. ASSUME NEW i \in 1..Len(q), i # 1
        PROVE  q[i] \in Range(Tail(q))
    <3>1. i - 1 \in 1..(Len(q) - 1) /\ (i - 1) + 1 = i
      BY <2>1, <2>3
    <3>2. Tail(q)[i - 1] = q[i]
      BY <2>1, <3>1
    <3> QED
      BY <2>2, <3>1, <3>2
  <2>4. Range(Tail(q)) \subseteq Range(q)
    <3>1. \A i \in 1..(Len(q) - 1) : i + 1 \in 1..Len(q)
      BY <2>1
    <3> QED
      BY <1>1, <2>1, <2>2, <3>1
  <2>5. Head(q) \in Range(q)
    BY <1>1, <1>3, <2>1
  <2> QED
    BY <1>1, <1>3, <2>1, <2>3, <2>4, <2>5
<1> QED
  BY <1>2, <1>3

LEMMA DraftFacts ==
    ASSUME NEW d \in Drafts
    PROVE  /\ d.id \in Pipelines \cup {Nothing}
           /\ d.nodes \in Seq(NodeIds) /\ Range(d.nodes) \subseteq NodeIds
           /\ d.edges \subseteq NodeIds \X NodeIds
  BY DraftsAssumption, RangeOfSeq

-----------------------------------------------------------------------------
LEMMA InitSafe == Init => SaveInv
<1> SUFFICES ASSUME Init PROVE SaveInv
  OBVIOUS
<1>1. NoTx \in Tx
  <2>1. <<>> \in Seq(NodeIds)
    OBVIOUS
  <2> QED
    BY <2>1 DEF NoTx, Tx, TxState
<1>2. TypeOK
  BY <1>1 DEF Init, TypeOK, Load
<1>3. \A s \in Saves : StartsClean(s) /\ ~IsOpen(s)
  BY DEF Init, NoTx, StartsClean, IsOpen, Open, TxState, WrittenBy
<1>4. NothingBeforeItsPipeline /\ KeysAreCommitted /\ LoadsAreTrue
  BY DEF Init, NothingBeforeItsPipeline, KeysAreCommitted, LoadsAreTrue, NodesOf, AllNodes, EdgesIn
<1> QED
  BY <1>2, <1>3, <1>4 DEF SaveInv, SavesAreApart

(* A statement that leaves the tables alone disturbs only its transaction.  *)
LEMMA StatementIs ==
    ASSUME SaveInv, NEW s \in Saves, NEW change, Statement(s, change)
    PROVE  /\ pipelineRow' = pipelineRow /\ nodeRow' = nodeRow /\ edgeRow' = edgeRow
           /\ loads' = loads
           /\ tx'[s] = change /\ tx[s] \in Tx
           /\ \A t \in Saves \ {s} : tx'[t] = tx[t]
  BY DEF Statement, Tables, SaveInv, TypeOK

LEMMA WrittenIsRow ==
    ASSUME NEW s \in Saves, ViewIsCurrent(s)
    PROVE  /\ Written(s) \in NodeRow /\ Written(s) # Nothing
           /\ Written(s).pipelineId = tx[s].pipelineId
           /\ ~Written(s).isDeleted /\ Written(s).by = s
<1>1. Written(s) \in NodeRow
  BY DEF Written, NodeRow, ViewIsCurrent
<1> QED
  BY <1>1, NothingAssumption DEF Written

LEMMA StatementSafe ==
    ASSUME SaveInv, NEW s \in Saves, NEW change \in Tx,
           Statement(s, change),
           tx[s].state # "committed",
           StartsClean(s)',
           change.state \in Open =>
              /\ ViewIsCurrent(s)' /\ WritesAreOwn(s)'
              /\ \A t \in Others(s) :
                    /\ tx[t].pipelineId # change.pipelineId
                    /\ \A n \in NodeIds :
                          change.nodes[n] # Nothing => tx[t].nodes[n] = Nothing
    PROVE  SaveInv'
<1>1. /\ tx' = [tx EXCEPT ![s] = change]
      /\ pipelineRow' = pipelineRow /\ nodeRow' = nodeRow /\ edgeRow' = edgeRow
      /\ loads' = loads
  BY DEF Statement, Tables
<1>2. /\ TypeOK' /\ tx'[s] = change
      /\ \A t \in Saves \ {s} : tx'[t] = tx[t]
  BY <1>1 DEF SaveInv, TypeOK
<1>3. SavesAreApart'
  BY <1>2 DEF SaveInv, SavesAreApart, IsOpen, WrittenBy, Others
<1>4. NothingBeforeItsPipeline'
  BY <1>1 DEF SaveInv, NothingBeforeItsPipeline, NodesOf, AllNodes, EdgesIn
<1>5. ASSUME NEW t \in Saves
      PROVE  (StartsClean(t) /\ (IsOpen(t) => ViewIsCurrent(t) /\ WritesAreOwn(t)))'
  <2>1. CASE t = s
    BY <1>2, <2>1 DEF IsOpen
  <2>2. CASE t # s
    BY <1>1, <1>2, <2>2 DEF SaveInv, StartsClean, IsOpen, ViewIsCurrent, WritesAreOwn,
       WrittenBy, EdgesIn, NodesOf, AllNodes, DraftNodes, Written, EdgesOf
  <2> QED
    BY <2>1, <2>2
<1>6. KeysAreCommitted'
  BY <1>1, <1>2 DEF SaveInv, TypeOK, KeysAreCommitted, Load
<1>7. LoadsAreTrue'
  BY <1>1 DEF SaveInv, LoadsAreTrue, LiveNodes, NodesOf, AllNodes, Edges
<1> QED
  BY <1>2, <1>3, <1>4, <1>5, <1>6, <1>7 DEF SaveInv

(* A save writes no node that the pipeline of another one has.              *)
LEMMA OthersKeepOff ==
    ASSUME SaveInv, NEW s \in Saves, IsOpen(s), NEW t \in Others(s),
           NEW n \in NodesOf(tx[s].pipelineId)
    PROVE  tx[t].nodes[n] = Nothing
<1>1. /\ tx[t].pipelineId # tx[s].pipelineId
      /\ t \in Saves /\ ViewIsCurrent(t) /\ WritesAreOwn(t)
      /\ tx[t] \in Tx /\ tx[t].state \in Open
  BY DEF SaveInv, TypeOK, SavesAreApart, Others, IsOpen
<1>2. n \in NodeIds /\ nodeRow[n] # Nothing /\ nodeRow[n].pipelineId = tx[s].pipelineId
  BY DEF NodesOf, AllNodes
<1> SUFFICES ASSUME tx[t].nodes[n] # Nothing PROVE FALSE
  OBVIOUS
<1>3. n \in tx[t].existing
  BY <1>1, <1>2 DEF WritesAreOwn, WrittenBy
<1>4. tx[t].existing = NodesOf(tx[t].pipelineId)
  BY <1>1, <1>2 DEF ViewIsCurrent, WritesAreOwn, WrittenBy
<1> QED
  BY <1>1, <1>2, <1>3, <1>4 DEF NodesOf

-----------------------------------------------------------------------------
(* The statements of save(), one lemma each.                                *)
LEMMA SaveSafe == ASSUME SaveInv, NEW s \in Saves, Save(s) PROVE SaveInv'
<1>1. PICK d \in Drafts :
          Statement(s, [tx[s] EXCEPT !.state = "pipeline", !.draft = d, !.left = d.nodes])
  BY DEF Save
<1> DEFINE change == [tx[s] EXCEPT !.state = "pipeline", !.draft = d, !.left = d.nodes]
<1>2. tx'[s] = change /\ tx[s] \in Tx /\ tx[s].state = "idle" /\ StartsClean(s)
  BY <1>1, StatementIs DEF Save, SaveInv
<1>3. change \in Tx /\ change.state \notin Open
  BY <1>2, DraftFacts DEF Tx, TxState, Open
<1>4. StartsClean(s)'
  BY <1>2 DEF StartsClean, WrittenBy, Tx
<1> QED
  BY <1>1, <1>2, <1>3, <1>4, StatementSafe

LEMMA CreatePipelineSafe == ASSUME SaveInv, NEW s \in Saves, CreatePipeline(s) PROVE SaveInv'
<1>1. PICK p \in Pipelines :
          /\ pipelineRow[p] = Nothing
          /\ RowIsFree(s, p)
          /\ Statement(s, [tx[s] EXCEPT !.state = "createMany", !.pipelineId = p])
  BY DEF CreatePipeline
<1> DEFINE change == [tx[s] EXCEPT !.state = "createMany", !.pipelineId = p]
<1>2. /\ tx'[s] = change /\ tx[s] \in Tx /\ tx[s].state = "pipeline" /\ StartsClean(s)
      /\ pipelineRow' = pipelineRow /\ nodeRow' = nodeRow /\ edgeRow' = edgeRow
  BY <1>1, StatementIs DEF CreatePipeline, SaveInv
<1>3. change \in Tx
  BY <1>2 DEF Tx, TxState
<1>4. StartsClean(s)'
  BY <1>2 DEF StartsClean, Tx
<1>5. NodesOf(p) = {} /\ EdgesIn(p) = {}
  BY <1>1 DEF SaveInv, NothingBeforeItsPipeline
<1>6. ViewIsCurrent(s)'
  BY <1>1, <1>2, <1>5 DEF ViewIsCurrent, StartsClean, NodesOf, AllNodes, EdgesIn, Tx
<1>7. WritesAreOwn(s)'
  BY <1>2 DEF WritesAreOwn, StartsClean, WrittenBy, Tx
<1>8. \A t \in Others(s) :
          /\ tx[t].pipelineId # change.pipelineId
          /\ \A n \in NodeIds : change.nodes[n] # Nothing => tx[t].nodes[n] = Nothing
  BY <1>1, <1>2 DEF RowIsFree, StartsClean, WrittenBy, Tx
<1> QED
  BY <1>1, <1>2, <1>3, <1>4, <1>6, <1>7, <1>8, StatementSafe

LEMMA CreateNodesSafe == ASSUME SaveInv, NEW s \in Saves, CreateNodes(s) PROVE SaveInv'
<1> DEFINE nodes == [n \in NodeIds |-> IF n \in DraftNodes(s) THEN Written(s) ELSE Nothing]
           change == [tx[s] EXCEPT !.state = "edges", !.left = <<>>, !.nodes = nodes]
<1>1. /\ Statement(s, change)
      /\ tx[s].state = "createMany"
      /\ \A n \in DraftNodes(s) : KeyIsFree(s, n)
  BY DEF CreateNodes
<1>2. /\ tx'[s] = change /\ tx[s] \in Tx /\ IsOpen(s)
      /\ ViewIsCurrent(s) /\ WritesAreOwn(s) /\ TypeOK
      /\ pipelineRow' = pipelineRow /\ nodeRow' = nodeRow /\ edgeRow' = edgeRow
  BY <1>1, StatementIs DEF SaveInv, IsOpen, Open, TxState
<1>3. Written(s) \in NodeRow /\ Written(s) # Nothing
  BY <1>2, WrittenIsRow
<1>4. change \in Tx
  <2>1. nodes \in [NodeIds -> NodeRow \cup {Nothing}] /\ <<>> \in Seq(NodeIds)
    BY <1>3
  <2> QED
    BY <1>2, <2>1 DEF Tx, TxState
<1>5. StartsClean(s)'
  BY <1>2 DEF StartsClean, Tx
<1>6. ViewIsCurrent(s)'
  BY <1>1, <1>2 DEF ViewIsCurrent, NodesOf, AllNodes, EdgesIn, Tx
<1>7. /\ DraftNodes(s)' = DraftNodes(s) /\ Written(s)' = Written(s)
      /\ WrittenBy(s)' = DraftNodes(s) \cap NodeIds
  BY <1>2, <1>3 DEF DraftNodes, Written, WrittenBy, Tx
<1>8. WritesAreOwn(s)'
  <2>1. tx[s].existing = {}
    BY <1>1, <1>2 DEF ViewIsCurrent, SaveInv, NothingBeforeItsPipeline
  <2>2. \A n \in WrittenBy(s)' : tx'[s].nodes[n] = Written(s) /\ nodeRow[n] = Nothing
    BY <1>1, <1>2, <1>7 DEF KeyIsFree, Tx
  <2>3. DraftNodes(s) \subseteq NodeIds
    BY <1>2, DraftFacts DEF DraftNodes, ViewIsCurrent
  <2>4. tx'[s].left = <<>> /\ Range(tx'[s].left) = {}
    <3>1. <<>> \in Seq(NodeIds)
      OBVIOUS
    <3> QED
      BY <1>2, <3>1, RangeOfSeq DEF Tx
  <2> QED
    BY <1>2, <1>7, <2>1, <2>2, <2>3, <2>4 DEF WritesAreOwn, Written, Tx
<1>9. \A t \in Others(s) :
          /\ tx[t].pipelineId # change.pipelineId
          /\ \A n \in NodeIds : change.nodes[n] # Nothing => tx[t].nodes[n] = Nothing
  BY <1>1, <1>2 DEF SaveInv, SavesAreApart, Others, IsOpen, KeyIsFree, Tx
<1> QED
  BY <1>1, <1>2, <1>4, <1>5, <1>6, <1>8, <1>9, StatementSafe

LEMMA UpdatePipelineSafe == ASSUME SaveInv, NEW s \in Saves, UpdatePipeline(s) PROVE SaveInv'
<1> DEFINE p == tx[s].draft.id
           change == [tx[s] EXCEPT !.state = "deleteEdges", !.pipelineId = p]
<1>1. /\ tx[s].state = "pipeline" /\ p # Nothing
      /\ RowIsFree(s, p)
      /\ Statement(s, change)
  BY DEF UpdatePipeline
<1>2. /\ tx'[s] = change /\ tx[s] \in Tx /\ StartsClean(s)
      /\ pipelineRow' = pipelineRow /\ nodeRow' = nodeRow /\ edgeRow' = edgeRow
  BY <1>1, StatementIs DEF SaveInv
<1>3. tx[s].draft \in Drafts /\ p \in Pipelines
  BY <1>1, <1>2, DraftFacts DEF StartsClean
<1>4. change \in Tx
  BY <1>2, <1>3 DEF Tx, TxState
<1>5. StartsClean(s)'
  BY <1>2 DEF StartsClean, Tx
<1>6. ViewIsCurrent(s)'
  BY <1>2, <1>3 DEF ViewIsCurrent, Tx
<1>7. WritesAreOwn(s)'
  BY <1>1, <1>2 DEF WritesAreOwn, StartsClean, WrittenBy, Tx
<1>8. \A t \in Others(s) :
          /\ tx[t].pipelineId # change.pipelineId
          /\ \A n \in NodeIds : change.nodes[n] # Nothing => tx[t].nodes[n] = Nothing
  BY <1>1, <1>2 DEF RowIsFree, StartsClean, WrittenBy, Tx
<1> QED
  BY <1>1, <1>2, <1>4, <1>5, <1>6, <1>7, <1>8, StatementSafe

LEMMA DeleteEdgesSafe == ASSUME SaveInv, NEW s \in Saves, DeleteEdges(s) PROVE SaveInv'
<1> DEFINE change == [tx[s] EXCEPT !.state = "findNodes", !.gone = EdgesIn(tx[s].pipelineId)]
<1>1. Statement(s, change) /\ tx[s].state = "deleteEdges"
  BY DEF DeleteEdges, EdgesIn
<1>2. /\ tx'[s] = change /\ tx[s] \in Tx /\ IsOpen(s) /\ TypeOK
      /\ ViewIsCurrent(s) /\ WritesAreOwn(s)
      /\ pipelineRow' = pipelineRow /\ nodeRow' = nodeRow /\ edgeRow' = edgeRow
  BY <1>1, StatementIs DEF SaveInv, IsOpen, Open, TxState
<1>3. change \in Tx
  BY <1>2 DEF Tx, TxState, TypeOK, EdgesIn
<1>4. StartsClean(s)'
  BY <1>2 DEF StartsClean, Tx
<1>5. ViewIsCurrent(s)'
  BY <1>1, <1>2 DEF ViewIsCurrent, EdgesIn, Tx
<1>6. WritesAreOwn(s)'
  BY <1>1, <1>2 DEF WritesAreOwn, WrittenBy, Tx
<1>7. \A t \in Others(s) :
          /\ tx[t].pipelineId # change.pipelineId
          /\ \A n \in NodeIds : change.nodes[n] # Nothing => tx[t].nodes[n] = Nothing
  BY <1>1, <1>2 DEF SaveInv, SavesAreApart, Others, IsOpen, WritesAreOwn, WrittenBy, Tx
<1> QED
  BY <1>1, <1>2, <1>3, <1>4, <1>5, <1>6, <1>7, StatementSafe

LEMMA FindNodesSafe == ASSUME SaveInv, NEW s \in Saves, FindNodes(s) PROVE SaveInv'
<1> DEFINE change == [tx[s] EXCEPT !.state = "softDelete", !.existing = NodesOf(tx[s].pipelineId)]
<1>1. Statement(s, change) /\ tx[s].state = "findNodes"
  BY DEF FindNodes, FoundNodes
<1>2. /\ tx'[s] = change /\ tx[s] \in Tx /\ IsOpen(s)
      /\ ViewIsCurrent(s) /\ WritesAreOwn(s)
      /\ pipelineRow' = pipelineRow /\ nodeRow' = nodeRow /\ edgeRow' = edgeRow
  BY <1>1, StatementIs DEF SaveInv, IsOpen, Open, TxState
<1>3. change \in Tx
  BY <1>2 DEF Tx, TxState, NodesOf, AllNodes
<1>4. StartsClean(s)'
  BY <1>2 DEF StartsClean, Tx
<1>5. ViewIsCurrent(s)'
  BY <1>1, <1>2 DEF ViewIsCurrent, EdgesIn, NodesOf, AllNodes, Tx
<1>6. WritesAreOwn(s)'
  BY <1>1, <1>2 DEF WritesAreOwn, WrittenBy, Tx
<1>7. \A t \in Others(s) :
          /\ tx[t].pipelineId # change.pipelineId
          /\ \A n \in NodeIds : change.nodes[n] # Nothing => tx[t].nodes[n] = Nothing
  BY <1>1, <1>2 DEF SaveInv, SavesAreApart, Others, IsOpen, WritesAreOwn, WrittenBy, Tx
<1> QED
  BY <1>1, <1>2, <1>3, <1>4, <1>5, <1>6, <1>7, StatementSafe

LEMMA SoftDeleteSafe == ASSUME SaveInv, NEW s \in Saves, SoftDelete(s) PROVE SaveInv'
<1> DEFINE gone == tx[s].existing \ DraftNodes(s)
           row(n) == [nodeRow[n] EXCEPT !.isDeleted = TRUE]
           nodes == [n \in NodeIds |-> IF n \in gone THEN row(n) ELSE Nothing]
           change == [tx[s] EXCEPT !.state = "nodes", !.nodes = nodes]
<1>1. Statement(s, change) /\ tx[s].state = "softDelete"
  BY DEF SoftDelete
<1>2. /\ tx'[s] = change /\ tx[s] \in Tx /\ IsOpen(s) /\ TypeOK
      /\ ViewIsCurrent(s) /\ WritesAreOwn(s)
      /\ pipelineRow' = pipelineRow /\ nodeRow' = nodeRow /\ edgeRow' = edgeRow
  BY <1>1, StatementIs DEF SaveInv, IsOpen, Open, TxState
<1>3. tx[s].existing = NodesOf(tx[s].pipelineId)
  BY <1>1, <1>2 DEF ViewIsCurrent
<1>4. ASSUME NEW n \in gone
      PROVE  /\ n \in NodeIds /\ row(n) \in NodeRow /\ row(n) # Nothing
             /\ row(n).pipelineId = tx[s].pipelineId /\ row(n).isDeleted
  <2>1. n \in NodeIds /\ nodeRow[n] \in NodeRow /\ nodeRow[n].pipelineId = tx[s].pipelineId
    BY <1>2, <1>3 DEF NodesOf, AllNodes, TypeOK
  <2>2. row(n) \in NodeRow /\ row(n).pipelineId = tx[s].pipelineId /\ row(n).isDeleted
    BY <2>1 DEF NodeRow
  <2> QED
    BY <2>1, <2>2, NothingAssumption
<1>5. change \in Tx
  <2>1. nodes \in [NodeIds -> NodeRow \cup {Nothing}]
    BY <1>4
  <2> HIDE DEF nodes
  <2> QED
    BY <1>2, <2>1 DEF Tx, TxState
<1>6. StartsClean(s)'
  BY <1>2 DEF StartsClean, Tx
<1>7. ViewIsCurrent(s)'
  BY <1>1, <1>2 DEF ViewIsCurrent, EdgesIn, NodesOf, AllNodes, Tx
<1>8. tx'[s].nodes = nodes /\ tx'[s].existing = tx[s].existing /\ tx'[s].left = tx[s].left
      /\ tx'[s].state = "nodes" /\ tx'[s].pipelineId = tx[s].pipelineId
      /\ tx'[s].draft = tx[s].draft
  BY <1>2 DEF Tx
<1>9. WritesAreOwn(s)'
  <2>1. WrittenBy(s)' = gone /\ \A n \in gone : nodes[n] = row(n)
    <3>1. /\ \A n \in gone : nodes[n] = row(n)
          /\ \A n \in NodeIds \ gone : nodes[n] = Nothing
      BY <1>4
    <3> HIDE DEF nodes, row, gone
    <3> QED
      BY <1>4, <1>8, <3>1 DEF WrittenBy
  <2>2. tx[s].left = tx[s].draft.nodes /\ DraftNodes(s)' = DraftNodes(s)
    BY <1>1, <1>2, <1>8 DEF WritesAreOwn, DraftNodes
  <2>3. Range(tx'[s].left) = DraftNodes(s)
    BY <1>8, <2>2 DEF DraftNodes
  <2> HIDE DEF nodes, row
  <2> QED
    BY <1>4, <1>8, <2>1, <2>2, <2>3 DEF WritesAreOwn
<1>10. \A t \in Others(s) :
          /\ tx[t].pipelineId # change.pipelineId
          /\ \A n \in NodeIds : change.nodes[n] # Nothing => tx[t].nodes[n] = Nothing
  <2> SUFFICES ASSUME NEW t \in Others(s)
               PROVE  /\ tx[t].pipelineId # tx[s].pipelineId
                      /\ \A n \in gone : tx[t].nodes[n] = Nothing
    BY <1>2 DEF Tx
  <2>1. tx[t].pipelineId # tx[s].pipelineId
    BY <1>2 DEF SaveInv, SavesAreApart, Others, IsOpen
  <2>2. ASSUME NEW n \in gone
        PROVE  tx[t].nodes[n] = Nothing
    BY <1>2, <1>3, OthersKeepOff
  <2> QED
    BY <2>1, <2>2
<1> QED
  BY <1>1, <1>2, <1>5, <1>6, <1>7, <1>9, <1>10, StatementSafe

LEMMA WriteNodeSafe == ASSUME SaveInv, NEW s \in Saves, WriteNode(s) PROVE SaveInv'
<1> DEFINE n == Head(tx[s].left)
           nodes == [tx[s].nodes EXCEPT ![n] = Written(s)]
           change == [tx[s] EXCEPT !.left = Tail(@), !.nodes[n] = Written(s)]
<1>1. /\ Statement(s, change)
      /\ tx[s].state = "nodes" /\ tx[s].left # <<>>
      /\ n \in tx[s].existing \/ (KeyIsFree(s, n) /\ tx[s].nodes[n] = Nothing)
  BY DEF WriteNode
<1>2. /\ tx'[s] = change /\ tx[s] \in Tx /\ IsOpen(s) /\ TypeOK
      /\ ViewIsCurrent(s) /\ WritesAreOwn(s)
      /\ pipelineRow' = pipelineRow /\ nodeRow' = nodeRow /\ edgeRow' = edgeRow
  BY <1>1, StatementIs DEF SaveInv, IsOpen, Open, TxState
<1>3. /\ tx[s].left \in Seq(NodeIds) /\ tx[s].nodes \in [NodeIds -> NodeRow \cup {Nothing}]
      /\ tx[s].existing = NodesOf(tx[s].pipelineId)
  BY <1>1, <1>2 DEF Tx, ViewIsCurrent
<1>4. /\ n \in NodeIds /\ Tail(tx[s].left) \in Seq(NodeIds)
      /\ Range(tx[s].left) = {n} \cup Range(Tail(tx[s].left))
  BY <1>1, <1>3, RangeOfSeq
<1>5. /\ nodes \in [NodeIds -> NodeRow \cup {Nothing}] /\ nodes[n] = Written(s)
      /\ \A m \in NodeIds \ {n} : nodes[m] = tx[s].nodes[m]
  BY <1>2, <1>3, <1>4, WrittenIsRow
<1>6. /\ tx'[s].nodes = nodes /\ tx'[s].left = Tail(tx[s].left) /\ tx'[s].state = "nodes"
      /\ tx'[s].existing = tx[s].existing /\ tx'[s].pipelineId = tx[s].pipelineId
      /\ tx'[s].draft = tx[s].draft /\ tx'[s].gone = tx[s].gone /\ tx'[s].new = tx[s].new
  BY <1>1, <1>2 DEF Tx
<1>7. change \in Tx
  BY <1>2, <1>4, <1>5 DEF Tx
<1>8. StartsClean(s)'
  BY <1>6 DEF StartsClean
<1>9. ViewIsCurrent(s)'
  BY <1>1, <1>2, <1>6 DEF ViewIsCurrent, EdgesIn, NodesOf, AllNodes
<1>10. WritesAreOwn(s)'
  <2>1. /\ DraftNodes(s)' = DraftNodes(s) /\ Written(s)' = Written(s)
        /\ WrittenBy(s)' = WrittenBy(s) \cup {n}
    BY <1>2, <1>4, <1>5, <1>6, WrittenIsRow DEF DraftNodes, Written, WrittenBy
  <2>2. n \in DraftNodes(s) /\ Range(tx'[s].left) \subseteq DraftNodes(s)
    BY <1>1, <1>2, <1>4, <1>6 DEF WritesAreOwn
  <2>3. \A m \in WrittenBy(s)' :
            /\ tx'[s].nodes[m].pipelineId = tx[s].pipelineId
            /\ m \in tx[s].existing \/ nodeRow[m] = Nothing
    BY <1>1, <1>2, <1>5, <1>6, <2>1, WrittenIsRow DEF WritesAreOwn, WrittenBy, KeyIsFree
  <2>4. WrittenBy(s)' \subseteq tx[s].existing \cup DraftNodes(s)
    BY <1>1, <1>2, <2>1, <2>2 DEF WritesAreOwn
  <2>5. \A m \in tx[s].existing \ DraftNodes(s) :
            tx'[s].nodes[m] # Nothing /\ tx'[s].nodes[m].isDeleted
    <3>1. tx[s].existing \subseteq NodeIds
      BY <1>2 DEF Tx
    <3> QED
      BY <1>1, <1>2, <1>5, <1>6, <2>2, <3>1 DEF WritesAreOwn
  <2>6. \A m \in DraftNodes(s) \ Range(tx'[s].left) : tx'[s].nodes[m] = Written(s)
    <3>1. DraftNodes(s) \subseteq NodeIds
      BY <1>2, DraftFacts DEF DraftNodes, ViewIsCurrent
    <3> QED
      BY <1>1, <1>2, <1>4, <1>5, <1>6, <3>1 DEF WritesAreOwn
  <2> QED
    BY <1>2, <1>6, <2>1, <2>2, <2>3, <2>4, <2>5, <2>6 DEF WritesAreOwn
<1>11. \A t \in Others(s) :
          /\ tx[t].pipelineId # change.pipelineId
          /\ \A m \in NodeIds : change.nodes[m] # Nothing => tx[t].nodes[m] = Nothing
  <2> SUFFICES ASSUME NEW t \in Others(s)
               PROVE  /\ tx[t].pipelineId # tx[s].pipelineId
                      /\ \A m \in NodeIds : nodes[m] # Nothing => tx[t].nodes[m] = Nothing
    BY <1>2, <1>6
  <2>1. /\ tx[t].pipelineId # tx[s].pipelineId
        /\ \A m \in NodeIds : tx[s].nodes[m] # Nothing => tx[t].nodes[m] = Nothing
    BY <1>2 DEF SaveInv, SavesAreApart, Others, IsOpen, WrittenBy
  <2>2. tx[t].nodes[n] = Nothing
    BY <1>1, <1>2, <1>3, OthersKeepOff DEF KeyIsFree
  <2> QED
    BY <1>5, <2>1, <2>2
<1> QED
  BY <1>1, <1>6, <1>7, <1>8, <1>9, <1>10, <1>11, StatementSafe

LEMMA CreateEdgesSafe == ASSUME SaveInv, NEW s \in Saves, CreateEdges(s) PROVE SaveInv'
<1> DEFINE change == [tx[s] EXCEPT !.state = "commit", !.new = EdgesOf(s)]
<1>1. /\ Statement(s, change)
      /\ tx[s].state \in {"nodes", "edges"} /\ tx[s].left = <<>>
  BY DEF CreateEdges
<1>2. /\ tx'[s] = change /\ tx[s] \in Tx /\ IsOpen(s)
      /\ ViewIsCurrent(s) /\ WritesAreOwn(s)
      /\ pipelineRow' = pipelineRow /\ nodeRow' = nodeRow /\ edgeRow' = edgeRow
  BY <1>1, StatementIs DEF SaveInv, IsOpen, Open, TxState
<1>3. EdgesOf(s) \subseteq EdgeRow
  BY <1>2, DraftFacts DEF EdgesOf, EdgeRow, ViewIsCurrent
<1>4. change \in Tx
  BY <1>2, <1>3 DEF Tx, TxState
<1>5. StartsClean(s)'
  BY <1>2 DEF StartsClean, Tx
<1>6. ViewIsCurrent(s)'
  BY <1>1, <1>2 DEF ViewIsCurrent, EdgesIn, NodesOf, AllNodes, Tx
<1>7. /\ DraftNodes(s)' = DraftNodes(s) /\ Written(s)' = Written(s) /\ EdgesOf(s)' = EdgesOf(s)
      /\ WrittenBy(s)' = WrittenBy(s)
  BY <1>2 DEF DraftNodes, Written, EdgesOf, WrittenBy, Tx
<1>8. WritesAreOwn(s)'
  BY <1>1, <1>2, <1>7 DEF WritesAreOwn, Tx
<1>9. \A t \in Others(s) :
          /\ tx[t].pipelineId # change.pipelineId
          /\ \A n \in NodeIds : change.nodes[n] # Nothing => tx[t].nodes[n] = Nothing
  BY <1>1, <1>2 DEF SaveInv, SavesAreApart, Others, IsOpen, WrittenBy, Tx
<1> QED
  BY <1>1, <1>2, <1>4, <1>5, <1>6, <1>8, <1>9, StatementSafe

LEMMA RollbackSafe == ASSUME SaveInv, NEW s \in Saves, Rollback(s) PROVE SaveInv'
<1> DEFINE change == [NoTx EXCEPT !.state = "rejected"]
<1>1. Statement(s, change) /\ tx[s].state # "committed"
  BY DEF Rollback, Open, TxState
<1>2. tx'[s] = change
  BY <1>1, StatementIs
<1>3. change \in Tx /\ change.state \notin Open
  <2>1. <<>> \in Seq(NodeIds)
    OBVIOUS
  <2> QED
    BY <2>1 DEF NoTx, Tx, TxState, Open
<1>4. StartsClean(s)'
  BY <1>2 DEF StartsClean, NoTx
<1> QED
  BY <1>1, <1>3, <1>4, StatementSafe

-----------------------------------------------------------------------------
(* What a commit does to the pipeline it saves and to the others.           *)
LEMMA CommitFacts ==
    ASSUME SaveInv, NEW s \in Saves, Commit(s), NEW p, p = tx[s].pipelineId
    PROVE  /\ p \in Pipelines
           /\ TypeOK'
           /\ \A q \in Pipelines \ {p} :
                 /\ pipelineRow'[q] = pipelineRow[q]
                 /\ NodesOf(q)' = NodesOf(q) /\ LiveNodes(q)' = LiveNodes(q)
                 /\ EdgesIn(q)' = EdgesIn(q) /\ Edges(q)' = Edges(q)
           /\ pipelineRow'[p] = s
           /\ LiveNodes(p)' = DraftNodes(s) \X {s}
           /\ Edges(p)' = tx[s].draft.edges
           /\ \A n \in NodeIds : tx[s].nodes[n] = Nothing => nodeRow'[n] = nodeRow[n]
           /\ \A n \in NodeIds :
                 nodeRow[n] # Nothing =>
                    nodeRow'[n] # Nothing /\ nodeRow'[n].pipelineId = nodeRow[n].pipelineId
<1>1. /\ tx[s].state = "commit" /\ tx[s] \in Tx /\ IsOpen(s) /\ TypeOK
      /\ ViewIsCurrent(s) /\ WritesAreOwn(s)
  BY DEF Commit, SaveInv, TypeOK, IsOpen, Open, TxState
<1>2. p \in Pipelines
  BY <1>1 DEF ViewIsCurrent
<1>3. /\ \A n \in NodeIds : nodeRow'[n] = NodeSeen(s, n)
      /\ edgeRow' = (edgeRow \ EdgesIn(p)) \cup EdgesOf(s)
      /\ pipelineRow' = [pipelineRow EXCEPT ![p] = s]
      /\ loads' = loads /\ tx' = [tx EXCEPT ![s] = [NoTx EXCEPT !.state = "committed"]]
  BY <1>1 DEF Commit, ViewIsCurrent, WritesAreOwn
<1>4. /\ tx[s].existing = NodesOf(p) /\ tx[s].left = <<>> /\ Range(tx[s].left) = {}
      /\ DraftNodes(s) \subseteq NodeIds
  BY <1>1, RangeOfSeq, DraftFacts DEF Tx, ViewIsCurrent, WritesAreOwn, DraftNodes
<1>5. ASSUME NEW n \in NodeIds
      PROVE  /\ n \in DraftNodes(s) => nodeRow'[n] = Written(s)
             /\ n \in NodesOf(p) \ DraftNodes(s) =>
                   /\ nodeRow'[n] # Nothing /\ nodeRow'[n].pipelineId = p
                   /\ nodeRow'[n].isDeleted
             /\ n \notin NodesOf(p) \cup DraftNodes(s) => nodeRow'[n] = nodeRow[n]
  <2>1. n \in DraftNodes(s) => tx[s].nodes[n] = Written(s)
    BY <1>1, <1>4 DEF WritesAreOwn
  <2>2. n \in NodesOf(p) \ DraftNodes(s) =>
            /\ tx[s].nodes[n] # Nothing /\ tx[s].nodes[n].isDeleted
            /\ tx[s].nodes[n].pipelineId = p
    BY <1>1, <1>4 DEF WritesAreOwn, WrittenBy
  <2>3. n \notin NodesOf(p) \cup DraftNodes(s) => tx[s].nodes[n] = Nothing
    BY <1>1, <1>4 DEF WritesAreOwn, WrittenBy
  <2> QED
    BY <1>1, <1>3, <2>1, <2>2, <2>3, WrittenIsRow DEF NodeSeen
<1>6. \A n \in DraftNodes(s) : n \in NodesOf(p) \/ nodeRow[n] = Nothing
  BY <1>1, <1>4, WrittenIsRow DEF WritesAreOwn, WrittenBy
<1>7. /\ Written(s) # Nothing /\ Written(s).pipelineId = p
      /\ ~Written(s).isDeleted /\ Written(s).by = s
  BY <1>1, WrittenIsRow
<1>8. ASSUME NEW q \in Pipelines \ {p}
      PROVE  /\ NodesOf(q)' = NodesOf(q)
             /\ \A n \in NodesOf(q) : nodeRow'[n] = nodeRow[n]
  <2>1. \A n \in NodesOf(q) : n \in NodeIds /\ n \notin NodesOf(p) \cup DraftNodes(s)
    BY <1>6 DEF NodesOf, AllNodes
  <2>2. \A n \in NodesOf(q) : nodeRow'[n] = nodeRow[n]
    BY <1>5, <2>1
  <2>3. \A n \in NodeIds : n \in NodesOf(q)' => n \in NodesOf(q)
    BY <1>5, <1>7 DEF NodesOf, AllNodes
  <2> QED
    BY <2>1, <2>2, <2>3 DEF NodesOf, AllNodes
<1>9. ASSUME NEW q \in Pipelines \ {p}
      PROVE  LiveNodes(q)' = LiveNodes(q)
  BY <1>8 DEF LiveNodes
<1>10. ASSUME NEW q \in Pipelines \ {p}
       PROVE  EdgesIn(q)' = EdgesIn(q) /\ Edges(q)' = Edges(q)
  <2>1. \A e \in EdgesOf(s) : e.pipelineId = p
    BY DEF EdgesOf
  <2>2. EdgesIn(q)' = EdgesIn(q)
    BY <1>3, <2>1 DEF EdgesIn
  <2> QED
    BY <2>2 DEF Edges, EdgesIn
<1>11. NodesOf(p)' = NodesOf(p) \cup DraftNodes(s)
  BY <1>4, <1>5, <1>7 DEF NodesOf, AllNodes
<1>12. LiveNodes(p)' = DraftNodes(s) \X {s}
  <2>1. {m \in NodesOf(p)' : ~nodeRow'[m].isDeleted} = DraftNodes(s)
    <3>1. NodesOf(p) \subseteq NodeIds
      BY DEF NodesOf, AllNodes
    <3> QED
      BY <1>4, <1>5, <1>7, <1>11, <3>1
  <2>2. LiveNodes(p)' = {<<n, nodeRow'[n].by>> : n \in DraftNodes(s)}
    BY <2>1 DEF LiveNodes
  <2>3. \A n \in DraftNodes(s) : nodeRow'[n].by = s
    BY <1>4, <1>5, <1>7
  <2> QED
    BY <2>2, <2>3
<1>13. Edges(p)' = tx[s].draft.edges
  <2>1. {f \in edgeRow' : f.pipelineId = p} = EdgesOf(s)
    <3>1. \A e \in EdgesOf(s) : e.pipelineId = p
      BY DEF EdgesOf
    <3> QED
      BY <1>3, <3>1 DEF EdgesIn
  <2>2. Edges(p)' = {<<e.from, e.to>> : e \in EdgesOf(s)}
    BY <2>1 DEF Edges
  <2>3. tx[s].draft.edges \subseteq NodeIds \X NodeIds
    BY <1>1, DraftFacts DEF ViewIsCurrent
  <2>4. Edges(p)' = {<<x[1], x[2]>> : x \in tx[s].draft.edges}
    <3> DEFINE row(x) == [pipelineId |-> p, from |-> x[1], to |-> x[2]]
    <3>1. EdgesOf(s) = {row(x) : x \in tx[s].draft.edges}
      BY DEF EdgesOf
    <3>2. \A x : row(x).from = x[1] /\ row(x).to = x[2]
      OBVIOUS
    <3> HIDE DEF row
    <3> QED
      BY <2>2, <3>1, <3>2
  <2>5. \A x \in tx[s].draft.edges : <<x[1], x[2]>> = x
    BY <2>3
  <2> QED
    BY <2>4, <2>5
<1>14. TypeOK'
  <2>1. nodeRow' \in [NodeIds -> NodeRow \cup {Nothing}]
    BY <1>1, <1>3 DEF Commit, NodeSeen, TypeOK, Tx
  <2>2. edgeRow' \subseteq EdgeRow
    BY <1>1, <1>3 DEF Commit, TypeOK, Tx
  <2>3. tx' \in [Saves -> Tx]
    <3>1. <<>> \in Seq(NodeIds)
      OBVIOUS
    <3>2. [NoTx EXCEPT !.state = "committed"] \in Tx
      BY <3>1 DEF NoTx, Tx, TxState
    <3> QED
      BY <1>1, <1>3, <3>2 DEF TypeOK
  <2> QED
    BY <1>1, <1>2, <1>3, <2>1, <2>2, <2>3 DEF TypeOK
<1>15. \A q \in Pipelines \ {p} : pipelineRow'[q] = pipelineRow[q]
  BY <1>1, <1>3 DEF TypeOK
<1>16. pipelineRow'[p] = s
  BY <1>1, <1>2, <1>3 DEF TypeOK
<1>17. \A n \in NodeIds : tx[s].nodes[n] = Nothing => nodeRow'[n] = nodeRow[n]
  BY <1>3 DEF NodeSeen
<1>18. ASSUME NEW n \in NodeIds, nodeRow[n] # Nothing
       PROVE  nodeRow'[n] # Nothing /\ nodeRow'[n].pipelineId = nodeRow[n].pipelineId
  <2>1. n \in NodesOf(p) => nodeRow[n].pipelineId = p
    BY DEF NodesOf
  <2> QED
    BY <1>5, <1>6, <1>7, <1>18, <2>1
<1> QED
  BY <1>2, <1>8, <1>9, <1>10, <1>12, <1>13, <1>14, <1>15, <1>16, <1>17, <1>18

LEMMA CommitSafe == ASSUME SaveInv, NEW s \in Saves, Commit(s) PROVE SaveInv'
<1>1. PICK p : p = tx[s].pipelineId
  OBVIOUS
<1>2. /\ p \in Pipelines /\ TypeOK'
      /\ \A q \in Pipelines \ {p} :
            /\ pipelineRow'[q] = pipelineRow[q]
            /\ NodesOf(q)' = NodesOf(q) /\ LiveNodes(q)' = LiveNodes(q)
            /\ EdgesIn(q)' = EdgesIn(q) /\ Edges(q)' = Edges(q)
      /\ pipelineRow'[p] = s
      /\ \A n \in NodeIds : tx[s].nodes[n] = Nothing => nodeRow'[n] = nodeRow[n]
  BY <1>1, CommitFacts
<1>3. /\ tx[s].state = "commit" /\ IsOpen(s) /\ TypeOK
      /\ tx'[s].state = "committed" /\ loads' = loads
      /\ \A t \in Saves \ {s} : tx'[t] = tx[t]
  BY DEF Commit, SaveInv, TypeOK, IsOpen, Open, TxState, NoTx
<1>4. s # Nothing
  BY NothingAssumption
<1>5. SavesAreApart'
  BY <1>3 DEF SaveInv, SavesAreApart, IsOpen, Open, WrittenBy
<1>6. NothingBeforeItsPipeline'
  BY <1>2, <1>4 DEF SaveInv, NothingBeforeItsPipeline
<1>7. ASSUME NEW t \in Saves
      PROVE  (StartsClean(t) /\ (IsOpen(t) => ViewIsCurrent(t) /\ WritesAreOwn(t)))'
  <2>1. CASE t = s
    BY <1>3, <2>1 DEF IsOpen, Open, StartsClean
  <2>2. CASE t # s
    <3>1. tx'[t] = tx[t] /\ StartsClean(t)'
      BY <1>3, <2>2 DEF SaveInv, StartsClean, WrittenBy
    <3> SUFFICES ASSUME IsOpen(t) PROVE ViewIsCurrent(t)' /\ WritesAreOwn(t)'
      BY <3>1 DEF IsOpen
    <3>2. /\ ViewIsCurrent(t) /\ WritesAreOwn(t)
          /\ tx[t].pipelineId # p /\ WrittenBy(s) \cap WrittenBy(t) = {}
      BY <1>1, <1>3, <2>2 DEF SaveInv, SavesAreApart
    <3>3. ViewIsCurrent(t)'
      BY <1>2, <3>1, <3>2 DEF ViewIsCurrent
    <3>4. \A n \in WrittenBy(t) : nodeRow'[n] = nodeRow[n]
      BY <1>2, <3>2 DEF WrittenBy
    <3>5. /\ DraftNodes(t)' = DraftNodes(t) /\ Written(t)' = Written(t) /\ EdgesOf(t)' = EdgesOf(t)
          /\ WrittenBy(t)' = WrittenBy(t)
      BY <3>1 DEF DraftNodes, Written, EdgesOf, WrittenBy
    <3>6. WritesAreOwn(t)'
      BY <3>1, <3>2, <3>4, <3>5 DEF WritesAreOwn
    <3> QED
      BY <3>3, <3>6
  <2> QED
    BY <2>1, <2>2
<1>8. KeysAreCommitted'
  <2>1. \A q \in Pipelines : pipelineRow'[q] # Nothing => tx'[pipelineRow'[q]].state = "committed"
    BY <1>2, <1>3 DEF SaveInv, KeysAreCommitted, TypeOK
  <2>2. \A l \in Loads : loads'[l].row # Nothing => tx'[loads'[l].row].state = "committed"
    BY <1>3 DEF SaveInv, KeysAreCommitted, TypeOK, Load
  <2> QED
    BY <2>1, <2>2 DEF KeysAreCommitted
<1>9. LoadsAreTrue'
  <2> SUFFICES ASSUME NEW l \in Loads, loads[l].state \in {"nodes", "edges", "resolved"}
               PROVE  /\ loads[l].pipelineId \in Pipelines /\ loads[l].row # Nothing
                      /\ loads[l].row = pipelineRow'[loads[l].pipelineId] =>
                            /\ loads[l].state # "nodes" =>
                                  loads[l].nodes = LiveNodes(loads[l].pipelineId)'
                            /\ loads[l].state = "resolved" =>
                                  loads[l].edges = Edges(loads[l].pipelineId)'
    BY <1>3 DEF LoadsAreTrue
  <2>1. /\ loads[l].pipelineId \in Pipelines /\ loads[l].row # Nothing
        /\ loads[l].row # s
    BY <1>3 DEF SaveInv, LoadsAreTrue, KeysAreCommitted
  <2>2. CASE loads[l].pipelineId = p
    BY <1>2, <2>1, <2>2
  <2>3. CASE loads[l].pipelineId # p
    <3>1. PICK q \in Pipelines \ {p} : q = loads[l].pipelineId
      BY <2>1, <2>3
    <3>2. loads'[l].pipelineId = q
      BY <1>3, <3>1
    <3> QED
      BY <1>2, <1>3, <2>1, <3>1, <3>2 DEF SaveInv, LoadsAreTrue
  <2> QED
    BY <2>2, <2>3
<1> QED
  BY <1>2, <1>5, <1>6, <1>7, <1>8, <1>9 DEF SaveInv

-----------------------------------------------------------------------------
(* The queries of load().                                                   *)
LEMMA ReadSafe ==
    ASSUME SaveInv, NEW l \in Loads, NEW change \in Load, Read(l, change),
           change.row # Nothing => tx[change.row].state = "committed",
           change.state \in {"nodes", "edges", "resolved"} =>
              /\ change.pipelineId \in Pipelines /\ change.row # Nothing
              /\ change.row = pipelineRow[change.pipelineId] =>
                    /\ change.state # "nodes" => change.nodes = LiveNodes(change.pipelineId)
                    /\ change.state = "resolved" => change.edges = Edges(change.pipelineId)
    PROVE  SaveInv'
<1>1. /\ loads'[l] = change /\ \A k \in Loads \ {l} : loads'[k] = loads[k]
      /\ pipelineRow' = pipelineRow /\ nodeRow' = nodeRow /\ edgeRow' = edgeRow /\ tx' = tx
      /\ TypeOK'
  BY DEF Read, Tables, SaveInv, TypeOK
<1>2. SavesAreApart' /\ NothingBeforeItsPipeline'
  BY <1>1 DEF SaveInv, SavesAreApart, NothingBeforeItsPipeline, IsOpen, WrittenBy, NodesOf,
     AllNodes, EdgesIn
<1>3. (\A s \in Saves : StartsClean(s) /\ (IsOpen(s) => ViewIsCurrent(s) /\ WritesAreOwn(s)))'
  BY <1>1 DEF SaveInv, StartsClean, IsOpen, ViewIsCurrent, WritesAreOwn,
     WrittenBy, EdgesIn, NodesOf, AllNodes, DraftNodes, Written, EdgesOf
<1>4. KeysAreCommitted'
  BY <1>1 DEF SaveInv, KeysAreCommitted
<1>5. \A p \in Pipelines : LiveNodes(p)' = LiveNodes(p) /\ Edges(p)' = Edges(p)
  BY <1>1 DEF LiveNodes, NodesOf, AllNodes, Edges
<1>6. LoadsAreTrue'
  <2> SUFFICES ASSUME NEW k \in Loads, NEW r, r = loads'[k],
                      r.state \in {"nodes", "edges", "resolved"}
               PROVE  /\ r.pipelineId \in Pipelines /\ r.row # Nothing
                      /\ r.row = pipelineRow[r.pipelineId] =>
                            /\ r.state # "nodes" => r.nodes = LiveNodes(r.pipelineId)
                            /\ r.state = "resolved" => r.edges = Edges(r.pipelineId)
    BY <1>1, <1>5 DEF LoadsAreTrue
  <2>1. CASE k = l
    BY <1>1, <2>1
  <2>2. CASE k # l
    BY <1>1, <2>2 DEF SaveInv, LoadsAreTrue
  <2> QED
    BY <2>1, <2>2
<1> QED
  BY <1>1, <1>2, <1>3, <1>4, <1>6 DEF SaveInv

LEMMA LoadStepSafe == ASSUME SaveInv, NEW l \in Loads, LoadStep(l) PROVE SaveInv'
<1>1. loads[l] \in Load /\ TypeOK
  BY DEF SaveInv, TypeOK
<1>2. loads[l].row # Nothing => tx[loads[l].row].state = "committed"
  BY DEF SaveInv, KeysAreCommitted
<1>3. loads[l].state \in {"nodes", "edges", "resolved"} =>
          /\ loads[l].pipelineId \in Pipelines /\ loads[l].row # Nothing
          /\ loads[l].row = pipelineRow[loads[l].pipelineId] =>
                (loads[l].state # "nodes" => loads[l].nodes = LiveNodes(loads[l].pipelineId))
  BY DEF SaveInv, LoadsAreTrue
<1>4. CASE LoadPipeline(l)
  <2>1. PICK p \in Pipelines :
            Read(l, IF pipelineRow[p] = Nothing
                    THEN [loads[l] EXCEPT !.state = "rejected"]
                    ELSE [loads[l] EXCEPT !.state = "nodes", !.pipelineId = p,
                                          !.row = pipelineRow[p]])
    BY <1>4 DEF LoadPipeline
  <2>2. CASE pipelineRow[p] = Nothing
    <3> DEFINE change == [loads[l] EXCEPT !.state = "rejected"]
    <3>1. Read(l, change)
      BY <2>1, <2>2
    <3>2. change \in Load /\ change.state = "rejected" /\ change.row = loads[l].row
      BY <1>1 DEF Load
    <3> QED
      BY <1>2, <3>1, <3>2, ReadSafe
  <2>3. CASE pipelineRow[p] # Nothing
    <3> DEFINE change == [loads[l] EXCEPT !.state = "nodes", !.pipelineId = p,
                                          !.row = pipelineRow[p]]
    <3>1. Read(l, change)
      BY <2>1, <2>3
    <3>2. /\ change \in Load /\ change.state = "nodes"
          /\ change.row = pipelineRow[p] /\ change.pipelineId = p
      BY <1>1, <2>3 DEF Load, TypeOK
    <3>3. tx[pipelineRow[p]].state = "committed"
      BY <2>3 DEF SaveInv, KeysAreCommitted
    <3> QED
      BY <2>3, <3>1, <3>2, <3>3, ReadSafe
  <2> QED
    BY <2>2, <2>3
<1>5. CASE LoadNodes(l)
  <2> DEFINE change == [loads[l] EXCEPT !.state = "edges", !.nodes = LiveNodes(loads[l].pipelineId)]
  <2>1. Read(l, change) /\ loads[l].state = "nodes"
    BY <1>5 DEF LoadNodes
  <2>2. LiveNodes(loads[l].pipelineId) \subseteq NodeIds \X Saves
    BY <1>1 DEF LiveNodes, NodesOf, AllNodes, TypeOK, NodeRow
  <2>3. /\ change \in Load /\ change.state = "edges"
        /\ change.row = loads[l].row /\ change.pipelineId = loads[l].pipelineId
        /\ change.nodes = LiveNodes(loads[l].pipelineId)
    BY <1>1, <2>2 DEF Load
  <2> HIDE DEF change
  <2> QED
    BY <1>2, <1>3, <2>1, <2>3, ReadSafe
<1>6. CASE LoadEdges(l)
  <2> DEFINE change == [loads[l] EXCEPT !.state = "resolved", !.row = loads[l].row,
                                        !.edges = Edges(loads[l].pipelineId)]
  <2>1. Read(l, change) /\ loads[l].state = "edges"
    BY <1>6 DEF LoadEdges, KeyOf
  <2>2. Edges(loads[l].pipelineId) \subseteq NodeIds \X NodeIds
    BY <1>1 DEF Edges, TypeOK, EdgeRow
  <2>3. /\ change \in Load /\ change.state = "resolved"
        /\ change.row = loads[l].row /\ change.pipelineId = loads[l].pipelineId
        /\ change.nodes = loads[l].nodes /\ change.edges = Edges(loads[l].pipelineId)
    BY <1>1, <2>2 DEF Load
  <2> HIDE DEF change
  <2> QED
    BY <1>2, <1>3, <2>1, <2>3, ReadSafe
<1> QED
  BY <1>4, <1>5, <1>6 DEF LoadStep

-----------------------------------------------------------------------------
LEMMA SaveStepSafe == ASSUME SaveInv, NEW s \in Saves, SaveStep(s) PROVE SaveInv'
  BY SaveSafe, CreatePipelineSafe, CreateNodesSafe, UpdatePipelineSafe, DeleteEdgesSafe,
     FindNodesSafe, SoftDeleteSafe, WriteNodeSafe, CreateEdgesSafe, CommitSafe, RollbackSafe
     DEF SaveStep

LEMMA NextSafe == SaveInv /\ [Next]_vars => SaveInv'
<1> SUFFICES ASSUME SaveInv, [Next]_vars PROVE SaveInv'
  OBVIOUS
<1>1. CASE Next
  BY <1>1, SaveStepSafe, LoadStepSafe DEF Next
<1>2. CASE UNCHANGED vars
  <2>1. /\ TypeOK' /\ SavesAreApart' /\ NothingBeforeItsPipeline' /\ KeysAreCommitted'
        /\ LoadsAreTrue'
    BY <1>2 DEF SaveInv, vars, TypeOK, SavesAreApart, NothingBeforeItsPipeline, KeysAreCommitted,
       LoadsAreTrue, IsOpen, WrittenBy, NodesOf, AllNodes, EdgesIn, LiveNodes, Edges
  <2>2. (\A s \in Saves : StartsClean(s) /\ (IsOpen(s) => ViewIsCurrent(s) /\ WritesAreOwn(s)))'
    BY <1>2 DEF SaveInv, vars, StartsClean, IsOpen, ViewIsCurrent, WritesAreOwn,
       WrittenBy, EdgesIn, NodesOf, AllNodes, DraftNodes, Written, EdgesOf
  <2> QED
    BY <2>1, <2>2 DEF SaveInv
<1> QED
  BY <1>1, <1>2

(* Whatever the drafts and however many calls overlap, saves of a pipeline  *)
(* run one at a time from its row's lock on, and each works on what the     *)
(* last one left (PrismaPipelineStore.save).                                *)
THEOREM SaveIsSafe == Spec => []SaveInv
<1>1. Init => SaveInv
  BY InitSafe
<1>2. SaveInv /\ [Next]_vars => SaveInv'
  BY NextSafe
<1> QED
  BY <1>1, <1>2, PTL DEF Spec

(* What a load returns under the `updatedAt` the row has now is what the    *)
(* row's save was called with (PrismaPipelineStore.load, compiler.ts:65).   *)
THEOREM CurrentKeyIsAlwaysTrue == Spec => []CurrentKeyIsTrue
<1>1. SaveInv => CurrentKeyIsTrue
  BY DEF SaveInv, LoadsAreTrue, CurrentKeyIsTrue
<1> QED
  BY <1>1, SaveIsSafe, PTL

-----------------------------------------------------------------------------
(* Only a commit changes the tables.                                        *)
LEMMA OnlyCommits ==
    ASSUME [Next]_vars
    PROVE  \/ pipelineRow' = pipelineRow /\ nodeRow' = nodeRow /\ edgeRow' = edgeRow
           \/ \E s \in Saves : Commit(s)
  BY DEF Next, vars, SaveStep, LoadStep, Statement, Read, Tables,
     Save, CreatePipeline, CreateNodes, UpdatePipeline, DeleteEdges, FindNodes, SoftDelete,
     WriteNode, CreateEdges, Rollback, LoadPipeline, LoadNodes, LoadEdges

(* A pipeline is left alone, or one draft replaces it whole.                *)
THEOREM SaveIsAtomic == Spec => SavesAreAtomic
<1> DEFINE Stored(p) == <<pipelineRow[p], LiveNodes(p), Edges(p)>>
           Atomic == \A p \in Pipelines :
                        Stored(p)' # Stored(p) =>
                           \E s \in Saves :
                              /\ tx[s].state = "commit" /\ tx[s].pipelineId = p
                              /\ pipelineRow'[p] = s
                              /\ LiveNodes(p)' = DraftNodes(s) \X {s}
                              /\ Edges(p)' = tx[s].draft.edges
<1>1. SaveInv /\ [Next]_vars => Atomic
  <2> SUFFICES ASSUME SaveInv, [Next]_vars, NEW p \in Pipelines, Stored(p)' # Stored(p)
               PROVE  \E s \in Saves :
                         /\ tx[s].state = "commit" /\ tx[s].pipelineId = p
                         /\ pipelineRow'[p] = s
                         /\ LiveNodes(p)' = DraftNodes(s) \X {s}
                         /\ Edges(p)' = tx[s].draft.edges
    OBVIOUS
  <2>1. ~ (pipelineRow' = pipelineRow /\ nodeRow' = nodeRow /\ edgeRow' = edgeRow)
    BY DEF LiveNodes, NodesOf, AllNodes, Edges
  <2>2. PICK s \in Saves : Commit(s)
    BY <2>1, OnlyCommits
  <2>3. tx[s].pipelineId = p
    <3> SUFFICES ASSUME tx[s].pipelineId # p PROVE FALSE
      OBVIOUS
    <3>1. PICK q : q = tx[s].pipelineId
      OBVIOUS
    <3> QED
      BY <2>2, <3>1, CommitFacts
  <2>4. tx[s].state = "commit"
    BY <2>2 DEF Commit
  <2> QED
    BY <2>2, <2>3, <2>4, CommitFacts
<1> QED
  BY <1>1, SaveIsSafe, PTL DEF Spec, SavesAreAtomic

(* No save removes a node row or moves it to another pipeline.              *)
THEOREM NodesAreKept == Spec => NodesStay
<1> DEFINE Kept == \A n \in NodeIds :
                      nodeRow[n] # Nothing =>
                         nodeRow'[n] # Nothing /\ nodeRow'[n].pipelineId = nodeRow[n].pipelineId
<1>1. SaveInv /\ [Next]_vars => Kept
  <2> SUFFICES ASSUME SaveInv, [Next]_vars PROVE Kept
    OBVIOUS
  <2>1. CASE \E s \in Saves : Commit(s)
    BY <2>1, CommitFacts
  <2> QED
    BY <2>1, OnlyCommits
<1> QED
  BY <1>1, SaveIsSafe, PTL DEF Spec, NodesStay

=============================================================================
