-------------------------- MODULE PipelineRunProofs --------------------------
(***************************************************************************)
(* Proofs about PipelineRun for every set of graphs, every option and a    *)
(* store that may fail.                                                    *)
(***************************************************************************)
EXTENDS PipelineRunProperties, GraphExecutionProofs, SequenceTheorems

Row == [node : graph.nodes, status : StepStatus]

-----------------------------------------------------------------------------
(* finalizeStaleSteps keeps every row, its node and a SUCCESS status, and   *)
(* leaves no other row RUNNING.                                             *)
LEMMA MarkStaleRows ==
    ASSUME NEW N, NEW rows \in Seq([node : N, status : StepStatus])
    PROVE  /\ MarkStale(rows) \in Seq([node : N, status : StepStatus])
           /\ DOMAIN MarkStale(rows) = DOMAIN rows
           /\ \A i \in DOMAIN rows :
                 /\ MarkStale(rows)[i].node = rows[i].node
                 /\ IF rows[i].status = "SUCCESS" THEN MarkStale(rows)[i] = rows[i]
                    ELSE MarkStale(rows)[i].status = "FAILED"
<1> DEFINE R == [node : N, status : StepStatus]
           m == MarkStale(rows)
<1>1. /\ Len(rows) \in Nat
      /\ DOMAIN rows = 1..Len(rows)
      /\ \A i \in DOMAIN rows : rows[i] \in R
  BY LenProperties, ElementOfSeq
<1>2. /\ m \in [1..Len(rows) -> R]
      /\ \A i \in DOMAIN rows :
            /\ m[i].node = rows[i].node
            /\ IF rows[i].status = "SUCCESS" THEN m[i] = rows[i]
               ELSE m[i].status = "FAILED"
  BY <1>1 DEF MarkStale, StepStatus
<1>3. m \in Seq(R)
  BY <1>1, <1>2
<1> QED
  BY <1>1, <1>2, <1>3

(* start() appends a row.                                                   *)
LEMMA AppendRow ==
    ASSUME NEW N, NEW rows \in Seq([node : N, status : StepStatus]), NEW n \in N
    PROVE  LET new == Append(rows, [node |-> n, status |-> "RUNNING"]) IN
           /\ new \in Seq([node : N, status : StepStatus])
           /\ Len(new) \in Nat
           /\ Len(new) \in DOMAIN new
           /\ DOMAIN rows \subseteq DOMAIN new
           /\ DOMAIN new = DOMAIN rows \cup {Len(new)}
           /\ new[Len(new)] = [node |-> n, status |-> "RUNNING"]
           /\ \A i \in DOMAIN rows : new[i] = rows[i]
<1> DEFINE R == [node : N, status : StepStatus]
           row == [node |-> n, status |-> "RUNNING"]
           new == Append(rows, row)
<1>1. row \in R
  BY DEF StepStatus
<1>2. /\ new \in Seq(R)
      /\ Len(new) = Len(rows) + 1
      /\ \A i \in 1..Len(rows) : new[i] = rows[i]
      /\ new[Len(rows) + 1] = row
  BY <1>1, AppendProperties
<1>3. /\ Len(rows) \in Nat
      /\ DOMAIN rows = 1..Len(rows)
      /\ DOMAIN new = 1..Len(new)
  BY <1>2, LenProperties
<1> QED
  BY <1>2, <1>3

-----------------------------------------------------------------------------
(* Type correctness. TypeOK alone is not inductive: that the triggered      *)
(* nodes are nodes of the graph holds because only a graph that compiles is *)
(* streamed.                                                                *)
TypeInv == TypeOK /\ (phase = "streaming" => Compilable(graph))

(* A run that has not begun has the types: about Init.                      *)
LEMMA TypeInit == LimitAssumption /\ Init => TypeInv
<1> SUFFICES ASSUME LimitAssumption, Init PROVE TypeInv
  OBVIOUS
<1>1. SchedTypeOK
  BY DEF Init, SchedTypeOK, Unscheduled, LimitAssumption
<1>2. steps \in Seq([node : graph.nodes, status : StepStatus])
  BY EmptySeq DEF Init
<1>3. /\ pc \in [graph.nodes -> RunnerState]
      /\ stepOf \in [graph.nodes -> Nat]
      /\ \A n \in graph.nodes : pc[n] \notin InFlight
  BY DEF Init, RunnerState, InFlight
<1>4. /\ phase \in Phases
      /\ phase # "streaming"
  BY DEF Init, Phases
<1> QED
  BY <1>1, <1>2, <1>3, <1>4 DEF Init, TypeInv, TypeOK, Outcomes

(* A step of a runner: one program counter moves, and the rows stay as they *)
(* are, get one more, or one of them a new status.                          *)
Moves(n, from, to) ==
    /\ pc[n] \in from
    /\ \E t \in to : pc' = [pc EXCEPT ![n] = t]
Appends(n) == steps' = Append(steps, [node |-> n, status |-> "RUNNING"])

(* Every action of a runner is one of the six kinds the store can tell      *)
(* apart.                                                                   *)
LEMMA RunnerCases ==
    ASSUME NEW n \in graph.nodes, RunnerStep(n) \/ HostStep(n)
    PROVE  /\ UNCHANGED <<execVars, engineVars, aborted>>
           /\ \/ /\ Moves(n, {"starting"}, {"started"})
                 /\ Appends(n)
                 /\ stepOf' = [stepOf EXCEPT ![n] = Len(steps')]
              \/ /\ StoreFails
                 /\ Moves(n, {"starting"}, {"threw"})
                 /\ UNCHANGED steps \/ Appends(n)
                 /\ UNCHANGED stepOf
              \/ /\ Moves(n, {"started", "resolving", "handling"},
                           {"resolving", "handling", "recordingSuccess", "recordingFailure"})
                 /\ UNCHANGED <<steps, stepOf>>
              \/ /\ Moves(n, {"recordingSuccess"}, {"returned"})
                 /\ SetStatus(n, "SUCCESS")
                 /\ UNCHANGED stepOf
              \/ /\ StoreFails
                 /\ Moves(n, {"recordingSuccess"}, {"recordingFailure"})
                 /\ UNCHANGED steps \/ SetStatus(n, "SUCCESS")
                 /\ UNCHANGED stepOf
              \/ /\ Moves(n, {"recordingFailure"}, {"threw"})
                 /\ (StoreFails /\ UNCHANGED steps) \/ SetStatus(n, "FAILED")
                 /\ UNCHANGED stepOf
<1> USE DEF Step, Moves
<1>1. CASE RecordStart(n)
  BY <1>1 DEF RecordStart, Appends
<1>2. CASE RecordStartFails(n)
  BY <1>2 DEF RecordStartFails, Appends
<1>3. CASE Resolve(n) \/ NodeThrows(n) \/ HostStep(n)
  BY <1>3 DEF Resolve, NodeThrows, HostStep, ResolverSettles, HandlerSettles, HostCallThrows
<1>4. CASE RecordSuccess(n)
  BY <1>4 DEF RecordSuccess
<1>5. CASE RecordSuccessFails(n)
  BY <1>5 DEF RecordSuccessFails
<1>6. CASE RecordFailure(n) \/ RecordFailureFails(n)
  BY <1>6 DEF RecordFailure, RecordFailureFails
<1> QED
  BY <1>1, <1>2, <1>3, <1>4, <1>5, <1>6 DEF RunnerStep

(* What a step of a runner does to the rows it may write.                   *)
LEMMA RunnerRows ==
    ASSUME TypeOK, NEW n \in graph.nodes, RunnerStep(n) \/ HostStep(n)
    PROVE  /\ steps' \in Seq(Row)
           /\ DOMAIN steps \subseteq DOMAIN steps'
           /\ pc[n] = "starting" /\ ~UNCHANGED steps =>
                 /\ Len(steps') \in Nat \cap DOMAIN steps'
                 /\ DOMAIN steps' = DOMAIN steps \cup {Len(steps')}
                 /\ steps'[Len(steps')] = [node |-> n, status |-> "RUNNING"]
                 /\ \A i \in DOMAIN steps : steps'[i] = steps[i]
           /\ pc[n] # "starting" =>
                 /\ DOMAIN steps' = DOMAIN steps
                 /\ \A i \in DOMAIN steps :
                       /\ steps'[i].node = steps[i].node
                       /\ i # stepOf[n] => steps'[i] = steps[i]
                 /\ pc'[n] = "returned" => steps'[stepOf[n]].status = "SUCCESS"
<1>1. /\ steps \in Seq(Row)
      /\ pc \in [graph.nodes -> RunnerState]
      /\ pc[n] \in InFlight \ {"starting"} => stepOf[n] \in DOMAIN steps
  BY DEF TypeOK, Row
<1>2. CASE pc[n] = "starting" /\ UNCHANGED steps
  BY <1>1, <1>2
<1>3. CASE pc[n] = "starting" /\ ~UNCHANGED steps
  <2>1. Appends(n)
    BY <1>3, RunnerCases DEF Moves
  <2> QED
    BY <1>1, <1>3, <2>1, AppendRow DEF Appends, Row
<1>4. CASE pc[n] # "starting"
  <2>1. /\ pc[n] \in InFlight
        /\ \/ UNCHANGED steps /\ pc'[n] # "returned"
           \/ SetStatus(n, "SUCCESS")
           \/ SetStatus(n, "FAILED") /\ pc'[n] # "returned"
    BY <1>1, <1>4, RunnerCases DEF Moves, InFlight, RunnerState
  <2>2. stepOf[n] \in DOMAIN steps
    BY <1>1, <1>4, <2>1
  <2>3. CASE UNCHANGED steps /\ pc'[n] # "returned"
    BY <1>1, <1>4, <2>3
  <2>4. ASSUME NEW s \in {"SUCCESS", "FAILED"}, SetStatus(n, s), s = "FAILED" => pc'[n] # "returned"
        PROVE  /\ steps' \in Seq(Row)
               /\ DOMAIN steps' = DOMAIN steps
               /\ \A i \in DOMAIN steps :
                     steps'[i].node = steps[i].node /\ (i # stepOf[n] => steps'[i] = steps[i])
               /\ steps'[stepOf[n]].status = s
    <3>1. s \in StepStatus
      BY DEF StepStatus
    <3>2. /\ Len(steps) \in Nat
          /\ DOMAIN steps = 1..Len(steps)
          /\ steps \in [1..Len(steps) -> Row]
          /\ \A i \in DOMAIN steps : steps[i] \in Row
      BY <1>1, LenProperties, ElementOfSeq
    <3>3. steps' = [steps EXCEPT ![stepOf[n]].status = s]
      BY <2>4 DEF SetStatus
    <3>4. [steps[stepOf[n]] EXCEPT !.status = s] \in Row
      BY <2>2, <3>1, <3>2 DEF Row
    <3>5. steps' \in [1..Len(steps) -> Row]
      BY <2>2, <3>2, <3>3, <3>4
    <3>6. steps' \in Seq(Row)
      BY <3>2, <3>5
    <3>7. /\ DOMAIN steps' = DOMAIN steps
          /\ steps'[stepOf[n]].status = s
          /\ \A i \in DOMAIN steps :
                /\ steps'[i].node = steps[i].node
                /\ i # stepOf[n] => steps'[i] = steps[i]
      BY <2>2, <3>2, <3>3, <3>5 DEF Row
    <3> QED
      BY <3>6, <3>7
  <2> QED
    BY <1>4, <2>1, <2>3, <2>4
<1> QED
  BY <1>2, <1>3, <1>4

(* A step of a runner, or of the host code it calls, keeps the types.       *)
LEMMA TypeRunner ==
    ASSUME TypeInv, NEW n \in graph.nodes, RunnerStep(n) \/ HostStep(n)
    PROVE  TypeInv'
<1>1. /\ UNCHANGED <<graph, ready, held, active, done, fired, outputs, superstep>>
      /\ UNCHANGED <<phase, outcome, timer, catalog, runStatus, announced, result, aborted>>
  BY RunnerCases DEF execVars, engineVars
<1>2. /\ pc \in [graph.nodes -> RunnerState]
      /\ stepOf \in [graph.nodes -> Nat]
      /\ TypeOK
      /\ \A m \in graph.nodes :
            pc[m] \in InFlight \ {"starting"} => stepOf[m] \in DOMAIN steps
  BY DEF TypeInv, TypeOK
<1>3. /\ steps' \in Seq([node : graph.nodes, status : StepStatus])
      /\ DOMAIN steps \subseteq DOMAIN steps'
  BY <1>2, RunnerRows DEF Row
<1>4. /\ pc' \in [graph.nodes -> RunnerState]
      /\ \A m \in graph.nodes \ {n} : pc'[m] = pc[m]
      /\ pc[n] = "starting" => pc'[n] \in {"started", "threw"}
      /\ pc'[n] # "starting"
      /\ pc'[n] \in InFlight => pc[n] \in InFlight
  BY <1>2, RunnerCases DEF Moves, RunnerState, InFlight
<1>5. /\ stepOf' \in [graph.nodes -> Nat]
      /\ \A m \in graph.nodes \ {n} : stepOf'[m] = stepOf[m]
      /\ IF pc[n] = "starting" /\ pc'[n] = "started"
         THEN stepOf'[n] \in DOMAIN steps'
         ELSE stepOf' = stepOf
  <2>1. CASE pc[n] = "starting" /\ pc'[n] = "started"
    <3>1. /\ Appends(n)
          /\ stepOf' = [stepOf EXCEPT ![n] = Len(steps')]
      BY <1>2, <2>1, RunnerCases DEF Moves
    <3>2. Len(steps') \in Nat \cap DOMAIN steps'
      BY <1>2, <3>1, AppendRow DEF Appends, TypeOK
    <3> QED
      BY <1>2, <2>1, <3>1, <3>2
  <2>2. CASE ~(pc[n] = "starting" /\ pc'[n] = "started")
    BY <1>2, <2>2, RunnerCases DEF Moves
  <2> QED
    BY <2>1, <2>2
<1>6. \A m \in graph.nodes :
        pc'[m] \in InFlight \ {"starting"} => stepOf'[m] \in DOMAIN steps'
  BY <1>2, <1>3, <1>4, <1>5 DEF InFlight
<1> QED
  BY <1>1, <1>2, <1>3, <1>4, <1>5, <1>6 DEF TypeInv, TypeOK, SchedTypeOK

(* The steps of the engine while the stream runs.                           *)
LEMMA TypeStream ==
    ASSUME TypeInv, LimitAssumption,
           \/ StartSuperstep \/ ApplySuperstep
           \/ \E n \in graph.nodes :
                 RouterThrows(n) \/ \E b \in Branches(graph, n) : TakeOutput(n, b)
    PROVE  TypeInv'
<1> USE DEF TypeInv
<1>1. phase = "streaming" /\ Compilable(graph)
  BY DEF StartSuperstep, ApplySuperstep, RouterThrows, TakeOutput
<1>2. /\ SchedTypeOK' /\ graph' = graph
      /\ UNCHANGED <<phase, outcome, timer, catalog, runStatus, announced, result,
                     stepOf, steps, aborted>>
  <2>1. CASE \E n \in graph.nodes : RouterThrows(n)
    BY <2>1 DEF RouterThrows, Step, execVars, engineVars, TypeOK, SchedTypeOK
  <2>2. CASE StartSuperstep
    BY <1>1, <2>2, SchedType DEF StartSuperstep, engineVars, TypeOK
  <2>3. CASE ApplySuperstep
    BY <1>1, <2>3, SchedType DEF ApplySuperstep, engineVars, runnerVars, TypeOK
  <2>4. CASE \E n \in graph.nodes : \E b \in Branches(graph, n) : TakeOutput(n, b)
    BY <1>1, <2>4, SchedType DEF TakeOutput, engineVars, TypeOK
  <2> QED
    BY <2>1, <2>2, <2>3, <2>4
<1>3. /\ pc' \in [graph.nodes -> RunnerState]
      /\ \A n \in graph.nodes :
            pc'[n] \in InFlight \ {"starting"} => pc'[n] = pc[n]
  <2>1. pc \in [graph.nodes -> RunnerState]
    BY DEF TypeOK
  <2>2. CASE StartSuperstep
    BY <2>1, <2>2 DEF StartSuperstep, RunnerState, InFlight
  <2>3. CASE ApplySuperstep
    BY <2>1, <2>3 DEF ApplySuperstep, runnerVars
  <2>4. CASE \E n \in graph.nodes :
                RouterThrows(n) \/ \E b \in Branches(graph, n) : TakeOutput(n, b)
    BY <2>1, <2>4 DEF RouterThrows, Step, TakeOutput, RunnerState, InFlight
  <2> QED
    BY <2>2, <2>3, <2>4
<1> QED
  BY <1>1, <1>2, <1>3 DEF TypeOK

(* All the other steps leave the runners alone.                             *)
LEMMA TypeEngine ==
    ASSUME TypeInv,
           \/ StartRun \/ StartRunFails \/ CatalogStep
           \/ Compile \/ CompileFails \/ StreamEnds \/ StreamThrows
           \/ CompleteSuccess \/ CompleteSuccessFails
           \/ Finalize \/ FinalizeFails \/ CloseRun \/ CloseRunFails
           \/ Cleanup \/ Timeout \/ Abort
    PROVE  TypeInv'
<1> USE DEF TypeInv
<1>1. /\ UNCHANGED <<graph, held, active, done, fired, outputs, superstep, pc, stepOf>>
      /\ ready' = ready \/ (ready' = EntryNodes(graph) /\ Compilable(graph))
      /\ steps' = steps \/ steps' = MarkStale(steps)
      /\ phase' = "streaming" => phase = "streaming" \/ Compilable(graph)
  BY DEF StartRun, StartRunFails, CatalogStep, CatalogLoads, CatalogLoadFails,
     Compile, Invoke, CompileFails, StreamEnds, StreamThrows,
     CompleteSuccess, CompleteSuccessFails, Finalize, FinalizeFails, CloseRun, CloseRunFails,
     Cleanup, Timeout, Abort, Catch, EnterFinally, execVars, engineVars, runnerVars
<1>2. SchedTypeOK'
  BY <1>1 DEF TypeOK, SchedTypeOK, EntryNodes
<1>3. /\ phase' \in Phases
      /\ outcome' \in {"none", "FAILED", "ABORTED"}
      /\ aborted' \in BOOLEAN
      /\ timer' \in {"unset", "armed", "fired", "cleared"}
      /\ catalog' \in {"none", "open", "released"}
  BY DEF StartRun, StartRunFails, CatalogStep, CatalogLoads, CatalogLoadFails,
     Compile, CompileFails, StreamEnds, StreamThrows,
     CompleteSuccess, CompleteSuccessFails, Finalize, FinalizeFails, CloseRun, CloseRunFails,
     Cleanup, Timeout, Abort, Catch, EnterFinally, engineVars, TypeOK, Phases
<1>4. /\ runStatus' \in Outcomes \cup {"none", "RUNNING"}
      /\ announced' \in Outcomes \cup {"none"}
      /\ result' \in Outcomes \cup {"none", "rejected"}
  BY DEF StartRun, StartRunFails, CatalogStep, CatalogLoads, CatalogLoadFails,
     Compile, CompileFails, StreamEnds, StreamThrows,
     CompleteSuccess, CompleteSuccessFails, Finalize, FinalizeFails, CloseRun, CloseRunFails,
     Cleanup, Timeout, Abort, Catch, EnterFinally, engineVars, TypeOK, Outcomes
<1>5. /\ steps' \in Seq([node : graph.nodes, status : StepStatus])
      /\ DOMAIN steps' = DOMAIN steps
  BY <1>1, MarkStaleRows DEF TypeOK
<1> QED
  BY <1>1, <1>2, <1>3, <1>4, <1>5 DEF TypeOK

(* The variables have their types: about every step of a run, whatever the  *)
(* graphs, the options and the failures of the store.                       *)
THEOREM TypeCorrect == Spec => []TypeOK
<1>1. Init => TypeInv
  BY TypeInit, LimitAssumption
<1>2. TypeInv /\ [Next]_vars => TypeInv'
  <2> SUFFICES ASSUME TypeInv, [Next]_vars PROVE TypeInv'
    OBVIOUS
  <2>1. CASE UNCHANGED vars
    BY <2>1 DEF TypeInv, TypeOK, SchedTypeOK, vars, execVars, engineVars, runnerVars
  <2>2. CASE Next
    BY <2>2, TypeRunner, TypeStream, TypeEngine, LimitAssumption DEF Next, EngineStep
  <2> QED
    BY <2>1, <2>2
<1>3. TypeInv => TypeOK
  BY DEF TypeInv
<1> QED
  BY <1>1, <1>2, <1>3, PTL DEF Spec

-----------------------------------------------------------------------------
(* The inductive invariant behind the safety properties, in named parts.    *)

(* Before the stream nothing has been scheduled and nothing recorded.       *)
FreshInv ==
    phase \in {"idle", "loadingCatalog", "compiling"} =>
        /\ ready = {} /\ held = {} /\ active = {}
        /\ done = {} /\ fired = {} /\ outputs = {}
        /\ \A n \in graph.nodes : pc[n] = "idle"
        /\ DOMAIN steps = {}

(* A runner that has a step has one of its own node: no two share a step.   *)
OwnStepInv ==
    \A n \in graph.nodes :
        pc[n] \in InFlight \ {"starting"} => steps[stepOf[n]].node = n

HasStep(n) == \E i \in DOMAIN steps : steps[i].node = n

(* While the stream runs: the runners are those of the nodes that have not  *)
(* completed; unless one has thrown, every step that is not SUCCESS has a   *)
(* runner at work; every output has a step; and what was triggered has not  *)
(* been lost.                                                               *)
StreamInv ==
    phase = "streaming" =>
        /\ \A n \in graph.nodes : pc[n] # "idle" <=> n \in active \ done
        /\ (\A n \in graph.nodes : pc[n] # "threw") =>
              \A i \in DOMAIN steps :
                 steps[i].status = "SUCCESS" \/ \E n \in graph.nodes : Owns(n, i)
        /\ \A n \in graph.nodes :
              n \in outputs \cup done \/ pc[n] = "returned" => HasStep(n)
        /\ FlowInv

(* The row says SUCCESS only once the stream has ended.                     *)
StatusInv ==
    phase \in {"idle", "loadingCatalog", "compiling", "streaming"} =>
        runStatus # "SUCCESS"

(* The result, the row and the event are decided together, in the catch     *)
(* block or at the end of the try block.                                    *)
OutcomeInv ==
    /\ phase \in {"finalizing", "closing"} => outcome \in {"FAILED", "ABORTED"}
    /\ phase \in {"cleanup", "settled"} <=> result # "none"
    /\ result \in {"none", "rejected"} => announced = "none"
    /\ result \in Outcomes => runStatus = result /\ announced = result

CatalogInv ==
    /\ phase \in {"idle", "loadingCatalog"} => catalog = "none"
    /\ phase \in {"compiling", "streaming", "completing"} /\ graph.mcp # {} =>
          catalog = "open"
    /\ phase = "settled" => catalog # "open"

(* With a store that does not fail, the step of a runner at work is RUNNING *)
(* until finalizeStaleSteps has been called and not SUCCESS after that, and *)
(* a RUNNING step has a runner at work.                                     *)
ReliableInv ==
    ~StoreFails =>
        /\ \A n \in graph.nodes :
              pc[n] \in InFlight \ {"starting"} =>
                 /\ steps[stepOf[n]].status # "SUCCESS"
                 /\ StaleStepsFailed \/ steps[stepOf[n]].status = "RUNNING"
        /\ NoOrphanStep

RunInv ==
    /\ TypeInv /\ FreshInv /\ OwnStepInv /\ StreamInv /\ StatusInv
    /\ SuccessMeansAllDone /\ OutcomeInv /\ CatalogInv /\ ReliableInv

(* The consequences of a runner's step that the invariant's parts rest on.  *)
LEMMA RunnerEffect ==
    ASSUME TypeOK, NEW n \in graph.nodes, RunnerStep(n) \/ HostStep(n)
    PROVE  /\ pc[n] \in InFlight
           /\ pc'[n] \in RunnerState \ {"idle", "starting"}
           /\ \A m \in graph.nodes \ {n} : pc'[m] = pc[m] /\ stepOf'[m] = stepOf[m]
           /\ \A i \in DOMAIN steps :
                 i \in DOMAIN steps' /\ steps'[i].node = steps[i].node
           /\ pc[n] = "starting" =>
                 /\ pc'[n] \in {"started", "threw"}
                 /\ pc'[n] = "threw" => StoreFails
                 /\ \A i \in DOMAIN steps : steps'[i] = steps[i]
                 /\ pc'[n] = "started" =>
                       /\ DOMAIN steps' = DOMAIN steps \cup {stepOf'[n]}
                       /\ stepOf'[n] \in DOMAIN steps'
                       /\ steps'[stepOf'[n]] = [node |-> n, status |-> "RUNNING"]
           /\ pc[n] # "starting" =>
                 /\ stepOf'[n] = stepOf[n]
                 /\ stepOf[n] \in DOMAIN steps
                 /\ DOMAIN steps' = DOMAIN steps
                 /\ \A i \in DOMAIN steps \ {stepOf[n]} : steps'[i] = steps[i]
                 /\ pc'[n] = "returned" => steps'[stepOf[n]].status = "SUCCESS"
                 /\ ~StoreFails /\ pc'[n] \in InFlight => steps' = steps
                 /\ ~StoreFails /\ pc'[n] = "threw" => steps'[stepOf[n]].status = "FAILED"
<1>1. /\ pc \in [graph.nodes -> RunnerState]
      /\ stepOf \in [graph.nodes -> Nat]
      /\ pc[n] \in InFlight \ {"starting"} => stepOf[n] \in DOMAIN steps
  BY DEF TypeOK
<1>2. /\ pc[n] \in InFlight
      /\ pc'[n] \in RunnerState \ {"idle", "starting"}
      /\ \A m \in graph.nodes \ {n} : pc'[m] = pc[m] /\ stepOf'[m] = stepOf[m]
      /\ pc[n] = "starting" =>
            /\ pc'[n] \in {"started", "threw"}
            /\ pc'[n] = "threw" => StoreFails
            /\ pc'[n] = "started" => stepOf'[n] = Len(steps') /\ Appends(n)
      /\ pc[n] # "starting" => stepOf'[n] = stepOf[n]
  BY <1>1, RunnerCases DEF Moves, InFlight, RunnerState
<1>3. pc[n] = "starting" /\ pc'[n] = "started" =>
         /\ DOMAIN steps' = DOMAIN steps \cup {stepOf'[n]}
         /\ stepOf'[n] \in DOMAIN steps'
         /\ steps'[stepOf'[n]] = [node |-> n, status |-> "RUNNING"]
  BY <1>2, AppendRow DEF Appends, TypeOK
<1>4. CASE pc[n] = "starting"
  BY <1>2, <1>3, <1>4, RunnerRows
<1>5. CASE pc[n] # "starting"
  <2>1. /\ ~StoreFails /\ pc'[n] \in InFlight => steps' = steps
        /\ ~StoreFails /\ pc'[n] = "threw" => SetStatus(n, "FAILED")
    BY <1>1, <1>5, RunnerCases DEF Moves, InFlight, RunnerState
  <2>2. stepOf[n] \in DOMAIN steps
    BY <1>1, <1>2, <1>5
  <2>3. steps[stepOf[n]] \in [node : graph.nodes, status : StepStatus]
    BY <2>2, ElementOfSeq, LenProperties DEF TypeOK
  <2>4. SetStatus(n, "FAILED") => steps'[stepOf[n]].status = "FAILED"
    BY <2>2, <2>3 DEF SetStatus
  <2> QED
    BY <1>2, <1>5, <2>1, <2>2, <2>4, RunnerRows
<1> QED
  BY <1>4, <1>5

(* A step of a runner, in the stream or after it.                           *)
LEMMA RunnerKeepsRunInv ==
    ASSUME RunInv, NEW n \in graph.nodes, RunnerStep(n) \/ HostStep(n)
    PROVE  RunInv'
<1>1. TypeInv /\ TypeOK /\ TypeInv'
  BY TypeRunner DEF RunInv, TypeInv
<1>2. /\ UNCHANGED <<graph, ready, held, active, done, fired, outputs, superstep>>
      /\ UNCHANGED <<phase, outcome, timer, catalog, runStatus, announced, result, aborted>>
  BY RunnerCases DEF execVars, engineVars
<1>3. /\ pc[n] \in InFlight
      /\ pc[n] # "idle" /\ pc[n] # "threw" /\ pc[n] # "returned"
      /\ pc'[n] # "idle" /\ pc'[n] # "starting"
      /\ \A m \in graph.nodes \ {n} : pc'[m] = pc[m] /\ stepOf'[m] = stepOf[m]
      /\ \A i \in DOMAIN steps : i \in DOMAIN steps' /\ steps'[i].node = steps[i].node
  BY <1>1, RunnerEffect DEF InFlight
<1>4. FreshInv'
  BY <1>2, <1>3 DEF RunInv, FreshInv
<1>5. OwnStepInv'
  <2> SUFFICES ASSUME NEW m \in graph.nodes, pc'[m] \in InFlight \ {"starting"}
               PROVE  steps'[stepOf'[m]].node = m
    BY <1>2 DEF OwnStepInv
  <2>1. CASE m # n
    <3>1. pc[m] \in InFlight \ {"starting"} /\ stepOf[m] \in DOMAIN steps
      BY <1>1, <1>3, <2>1 DEF TypeOK
    <3> QED
      BY <1>3, <2>1, <3>1 DEF RunInv, OwnStepInv
  <2>2. CASE m = n /\ pc[n] = "starting"
    <3>1. pc'[n] = "started"
      BY <1>1, <2>2, RunnerEffect DEF InFlight
    <3>2. steps'[stepOf'[n]] = [node |-> n, status |-> "RUNNING"]
      BY <1>1, <2>2, <3>1, RunnerEffect
    <3> QED
      BY <2>2, <3>2
  <2>3. CASE m = n /\ pc[n] # "starting"
    <3>1. stepOf'[n] = stepOf[n] /\ stepOf[n] \in DOMAIN steps
      BY <1>1, <2>3, RunnerEffect
    <3> QED
      BY <1>3, <2>3, <3>1 DEF RunInv, OwnStepInv
  <2> QED
    BY <2>1, <2>2, <2>3
<1>6. \A m \in graph.nodes : HasStep(m) => HasStep(m)'
  BY <1>2, <1>3 DEF HasStep
<1>7. pc'[n] = "returned" => HasStep(n)'
  <2> SUFFICES ASSUME pc'[n] = "returned" PROVE HasStep(n)'
    OBVIOUS
  <2>1. pc[n] # "starting" /\ stepOf[n] \in DOMAIN steps
    BY <1>1, RunnerEffect
  <2>2. steps[stepOf[n]].node = n
    BY <1>3, <2>1 DEF RunInv, OwnStepInv
  <2> QED
    BY <1>6, <2>1, <2>2 DEF HasStep
<1>8. (\A m \in graph.nodes : pc[m] # "threw") /\ pc'[n] # "threw" =>
         ((\A i \in DOMAIN steps :
              steps[i].status = "SUCCESS" \/ \E m \in graph.nodes : Owns(m, i))
          => \A i \in DOMAIN steps' :
                steps'[i].status = "SUCCESS" \/ \E m \in graph.nodes : Owns(m, i)')
  <2> SUFFICES ASSUME pc'[n] # "threw",
                      \A i \in DOMAIN steps :
                         steps[i].status = "SUCCESS" \/ \E m \in graph.nodes : Owns(m, i),
                      NEW i \in DOMAIN steps'
               PROVE  steps'[i].status = "SUCCESS" \/ \E m \in graph.nodes : Owns(m, i)'
    OBVIOUS
  <2>1. CASE pc[n] = "starting"
    <3>1. pc'[n] = "started" /\ DOMAIN steps' = DOMAIN steps \cup {stepOf'[n]}
      BY <1>1, <2>1, RunnerEffect
    <3>2. CASE i = stepOf'[n]
      BY <3>1, <3>2 DEF Owns, InFlight, RunnerState
    <3>3. CASE i \in DOMAIN steps
      <4>1. steps'[i] = steps[i]
        BY <1>1, <2>1, <3>3, RunnerEffect
      <4>2. ASSUME NEW m \in graph.nodes, Owns(m, i) PROVE Owns(m, i)'
        BY <1>3, <2>1, <4>2 DEF Owns
      <4> QED
        BY <3>3, <4>1, <4>2
    <3> QED
      BY <3>1, <3>2, <3>3
  <2>2. CASE pc[n] # "starting"
    <3>1. /\ stepOf'[n] = stepOf[n]
          /\ DOMAIN steps' = DOMAIN steps
          /\ i # stepOf[n] => steps'[i] = steps[i]
          /\ pc'[n] = "returned" => steps'[stepOf[n]].status = "SUCCESS"
      BY <1>1, <2>2, RunnerEffect
    <3>2. CASE i = stepOf[n]
      <4>1. pc'[n] = "returned" \/ pc'[n] \in InFlight \ {"starting"}
        BY <1>1, <1>3, RunnerEffect DEF InFlight
      <4> QED
        BY <3>1, <3>2, <4>1 DEF Owns
    <3>3. CASE i # stepOf[n]
      <4>1. ASSUME NEW m \in graph.nodes, Owns(m, i) PROVE Owns(m, i)'
        BY <1>3, <3>3, <4>1 DEF Owns
      <4> QED
        BY <3>1, <3>3, <4>1
    <3> QED
      BY <3>2, <3>3
  <2> QED
    BY <2>1, <2>2
<1>9. StreamInv'
  <2> SUFFICES ASSUME phase = "streaming" PROVE StreamInv'
    BY <1>2 DEF StreamInv
  <2>1. \A m \in graph.nodes : pc'[m] # "idle" <=> m \in active' \ done'
    BY <1>2, <1>3 DEF RunInv, StreamInv
  <2>2. (\A m \in graph.nodes : pc'[m] # "threw") =>
          \A i \in DOMAIN steps' :
             steps'[i].status = "SUCCESS" \/ \E m \in graph.nodes : Owns(m, i)'
    <3>1. (\A m \in graph.nodes : pc'[m] # "threw") =>
            (\A m \in graph.nodes : pc[m] # "threw") /\ pc'[n] # "threw"
      BY <1>3
    <3> QED
      BY <1>8, <3>1 DEF RunInv, StreamInv
  <2>3. \A m \in graph.nodes :
          m \in outputs' \cup done' \/ pc'[m] = "returned" => HasStep(m)'
    BY <1>2, <1>3, <1>6, <1>7 DEF RunInv, StreamInv
  <2>4. FlowInv'
    BY <1>2 DEF RunInv, StreamInv, FlowInv, Reached
  <2> QED
    BY <1>2, <2>1, <2>2, <2>3, <2>4 DEF StreamInv
<1>10. StatusInv' /\ OutcomeInv' /\ CatalogInv'
  BY <1>2 DEF RunInv, StatusInv, OutcomeInv, CatalogInv
<1>11. SuccessMeansAllDone'
  BY <1>2, <1>3 DEF RunInv, SuccessMeansAllDone
<1>12. ReliableInv'
  <2> SUFFICES ASSUME ~StoreFails
               PROVE  /\ \A m \in graph.nodes :
                            pc'[m] \in InFlight \ {"starting"} =>
                               /\ steps'[stepOf'[m]].status # "SUCCESS"
                               /\ StaleStepsFailed' \/ steps'[stepOf'[m]].status = "RUNNING"
                      /\ NoOrphanStep'
    BY <1>2 DEF ReliableInv
  <2>1. /\ \A m \in graph.nodes :
              pc[m] \in InFlight \ {"starting"} =>
                 /\ stepOf[m] \in DOMAIN steps
                 /\ steps[stepOf[m]].node = m
                 /\ steps[stepOf[m]].status # "SUCCESS"
                 /\ StaleStepsFailed' \/ steps[stepOf[m]].status = "RUNNING"
        /\ \A i \in DOMAIN steps :
              steps[i].status = "RUNNING" => \E m \in graph.nodes : Owns(m, i)
    BY <1>1, <1>2 DEF RunInv, ReliableInv, OwnStepInv, NoOrphanStep, TypeOK, StaleStepsFailed
  <2>2. CASE pc[n] = "starting"
    <3>1. /\ pc'[n] = "started"
          /\ DOMAIN steps' = DOMAIN steps \cup {stepOf'[n]}
          /\ steps'[stepOf'[n]] = [node |-> n, status |-> "RUNNING"]
          /\ \A i \in DOMAIN steps : steps'[i] = steps[i]
      BY <1>1, <2>2, RunnerEffect DEF InFlight
    <3>2. ASSUME NEW m \in graph.nodes, pc'[m] \in InFlight \ {"starting"}
          PROVE  /\ steps'[stepOf'[m]].status # "SUCCESS"
                 /\ StaleStepsFailed' \/ steps'[stepOf'[m]].status = "RUNNING"
      BY <1>3, <2>1, <3>1, <3>2
    <3>3. ASSUME NEW i \in DOMAIN steps', steps'[i].status = "RUNNING"
          PROVE  \E m \in graph.nodes : Owns(m, i)'
      <4>1. CASE i = stepOf'[n]
        BY <3>1, <4>1 DEF Owns, InFlight, RunnerState
      <4>2. CASE i \in DOMAIN steps
        <5>1. PICK m \in graph.nodes : Owns(m, i)
          BY <2>1, <3>1, <3>3, <4>2
        <5> QED
          BY <1>3, <2>2, <5>1 DEF Owns
      <4> QED
        BY <3>1, <4>1, <4>2
    <3> QED
      BY <1>2, <3>2, <3>3 DEF NoOrphanStep
  <2>3. CASE pc[n] # "starting"
    <3>1. /\ stepOf'[n] = stepOf[n] /\ stepOf[n] \in DOMAIN steps
          /\ DOMAIN steps' = DOMAIN steps
          /\ \A i \in DOMAIN steps \ {stepOf[n]} : steps'[i] = steps[i]
          /\ pc'[n] = "returned" => steps'[stepOf[n]].status = "SUCCESS"
          /\ pc'[n] \in InFlight => steps' = steps
          /\ pc'[n] = "threw" => steps'[stepOf[n]].status = "FAILED"
          /\ pc[n] \in InFlight \ {"starting"}
      BY <1>1, <1>3, <2>3, RunnerEffect
    <3>2. ASSUME NEW m \in graph.nodes, pc'[m] \in InFlight \ {"starting"}
          PROVE  /\ steps'[stepOf'[m]].status # "SUCCESS"
                 /\ StaleStepsFailed' \/ steps'[stepOf'[m]].status = "RUNNING"
      <4>1. CASE m = n
        BY <2>1, <3>1, <3>2, <4>1
      <4>2. CASE m # n
        <5>1. pc[m] \in InFlight \ {"starting"} /\ stepOf'[m] = stepOf[m]
          BY <1>3, <3>2, <4>2
        <5>2. stepOf[m] # stepOf[n]
          BY <2>1, <3>1, <4>2, <5>1
        <5> QED
          BY <2>1, <3>1, <5>1, <5>2
      <4> QED
        BY <4>1, <4>2
    <3>3. ASSUME NEW i \in DOMAIN steps', steps'[i].status = "RUNNING"
          PROVE  \E m \in graph.nodes : Owns(m, i)'
      <4>1. CASE i = stepOf[n]
        <5>1. pc'[n] \in InFlight \ {"starting"}
          BY <1>1, <1>3, <3>1, <3>3, <4>1, RunnerEffect DEF InFlight
        <5> QED
          BY <3>1, <4>1, <5>1 DEF Owns
      <4>2. CASE i # stepOf[n]
        <5>1. PICK m \in graph.nodes : Owns(m, i)
          BY <2>1, <3>1, <3>3, <4>2
        <5> QED
          BY <1>3, <4>2, <5>1 DEF Owns
      <4> QED
        BY <4>1, <4>2
    <3> QED
      BY <1>2, <3>2, <3>3 DEF NoOrphanStep
  <2> QED
    BY <2>2, <2>3
<1> QED
  BY <1>1, <1>4, <1>5, <1>9, <1>10, <1>11, <1>12 DEF RunInv

(* The steps of the stream itself.                                          *)
LEMMA StreamKeepsRunInv ==
    ASSUME RunInv,
           \/ StartSuperstep \/ ApplySuperstep
           \/ \E n \in graph.nodes :
                 RouterThrows(n) \/ \E b \in Branches(graph, n) : TakeOutput(n, b)
    PROVE  RunInv'
<1>1. /\ TypeOK /\ SchedTypeOK /\ TypeInv'
      /\ phase = "streaming"
      /\ UNCHANGED <<graph, phase, outcome, timer, catalog, runStatus, announced, result,
                     stepOf, steps, aborted>>
  BY TypeStream, LimitAssumption DEF RunInv, TypeInv, TypeOK, StartSuperstep, ApplySuperstep,
     RouterThrows, TakeOutput, Step, BeginSuperstep, EndSuperstep, Complete, execVars, engineVars,
     runnerVars
<1>2. /\ pc \in [graph.nodes -> RunnerState]
      /\ \A n \in graph.nodes : pc[n] # "idle" <=> n \in active \ done
      /\ (\A n \in graph.nodes : pc[n] # "threw") =>
            \A i \in DOMAIN steps :
               steps[i].status = "SUCCESS" \/ \E n \in graph.nodes : Owns(n, i)
      /\ \A n \in graph.nodes :
            n \in outputs \cup done \/ pc[n] = "returned" => HasStep(n)
      /\ FlowInv
  BY <1>1 DEF RunInv, StreamInv, TypeOK
<1>3. /\ FlowInv'
      /\ \A n \in outputs' \cup done' :
            n \in outputs \cup done \/ (n \in active /\ pc[n] = "returned")
  <2>1. CASE StartSuperstep
    BY <1>1, <1>2, <2>1, SchedFlow DEF StartSuperstep, BeginSuperstep
  <2>2. CASE ApplySuperstep
    <3>1. EndSuperstep
      BY <2>2 DEF ApplySuperstep
    <3> QED
      BY <1>1, <1>2, <3>1, SchedFlow DEF EndSuperstep
  <2>3. CASE \E n \in graph.nodes : RouterThrows(n)
    BY <1>2, <2>3 DEF RouterThrows, Step, execVars, FlowInv, Reached
  <2>4. ASSUME NEW n \in graph.nodes, NEW b \in Branches(graph, n), TakeOutput(n, b)
        PROVE  /\ FlowInv'
               /\ \A m \in outputs' \cup done' :
                     m \in outputs \cup done \/ (m \in active /\ pc[m] = "returned")
    <3>1. Complete(n, b) /\ pc[n] = "returned"
      BY <2>4 DEF TakeOutput
    <3> QED
      BY <1>1, <1>2, <3>1, SchedFlow DEF Complete
  <2> QED
    BY <2>1, <2>2, <2>3, <2>4
<1>4. /\ \A n \in graph.nodes : pc'[n] # "idle" <=> n \in active' \ done'
      /\ \A n \in graph.nodes : pc'[n] \in InFlight \ {"starting"} <=> pc[n] \in InFlight \ {"starting"}
      /\ \A n \in graph.nodes : pc[n] = "threw" => pc'[n] = "threw"
      /\ \A n \in graph.nodes : pc'[n] = "returned" => pc[n] = "returned"
  <2> USE DEF InFlight, RunnerState
  <2>1. CASE StartSuperstep
    <3>1. /\ active = {} /\ done = {}
          /\ done' = done
          /\ pc' = [n \in graph.nodes |-> IF n \in active' THEN "starting" ELSE pc[n]]
      BY <1>1, <2>1 DEF StartSuperstep, BeginSuperstep, SchedTypeOK
    <3>2. \A n \in graph.nodes : pc[n] = "idle"
      BY <1>2, <3>1
    <3> QED
      BY <3>1, <3>2
  <2>2. CASE ApplySuperstep
    <3>1. /\ done = active /\ active' = {} /\ done' = {} /\ pc' = pc
      BY <2>2 DEF ApplySuperstep, EndSuperstep, runnerVars
    <3> QED
      BY <1>2, <3>1
  <2>3. ASSUME NEW n \in graph.nodes, RouterThrows(n)
        PROVE  /\ pc[n] = "returned" /\ pc' = [pc EXCEPT ![n] = "threw"]
               /\ active' = active /\ done' = done
    BY <2>3 DEF RouterThrows, Step, execVars
  <2>4. ASSUME NEW n \in graph.nodes, NEW b \in Branches(graph, n), TakeOutput(n, b)
        PROVE  /\ pc[n] = "returned" /\ pc' = [pc EXCEPT ![n] = "idle"]
               /\ active' = active /\ done' = done \cup {n}
    BY <2>4 DEF TakeOutput, Complete
  <2>5. CASE \E n \in graph.nodes : RouterThrows(n)
    BY <1>2, <2>3, <2>5
  <2>6. CASE \E n \in graph.nodes : \E b \in Branches(graph, n) : TakeOutput(n, b)
    BY <1>2, <2>4, <2>6
  <2> QED
    BY <2>1, <2>2, <2>5, <2>6
<1>5. \A n \in graph.nodes, i \in DOMAIN steps : Owns(n, i)' <=> Owns(n, i)
  BY <1>1, <1>4 DEF Owns
<1>6. \A n \in graph.nodes : HasStep(n)' <=> HasStep(n)
  BY <1>1 DEF HasStep
<1>7. StreamInv'
  <2>1. (\A n \in graph.nodes : pc'[n] # "threw") =>
          \A i \in DOMAIN steps :
             steps[i].status = "SUCCESS" \/ \E n \in graph.nodes : Owns(n, i)'
    BY <1>2, <1>4, <1>5
  <2>2. \A n \in graph.nodes :
          n \in outputs' \cup done' \/ pc'[n] = "returned" => HasStep(n)'
    BY <1>2, <1>3, <1>4, <1>6
  <2> QED
    BY <1>1, <1>3, <1>4, <2>1, <2>2 DEF StreamInv
<1>8. FreshInv' /\ StatusInv' /\ OutcomeInv' /\ CatalogInv' /\ SuccessMeansAllDone'
  BY <1>1 DEF RunInv, FreshInv, StatusInv, OutcomeInv, CatalogInv, SuccessMeansAllDone
<1>9. OwnStepInv' /\ ReliableInv'
  BY <1>1, <1>4, <1>5 DEF RunInv, OwnStepInv, ReliableInv, NoOrphanStep, StaleStepsFailed
<1> QED
  BY <1>1, <1>7, <1>8, <1>9 DEF RunInv

(* The other steps of the engine: what they leave alone, and how they end   *)
(* the stream or begin it.                                                  *)
EngineOnly ==
    \/ StartRun \/ StartRunFails \/ CatalogStep
    \/ Compile \/ CompileFails \/ StreamEnds \/ StreamThrows
    \/ CompleteSuccess \/ CompleteSuccessFails
    \/ Finalize \/ FinalizeFails \/ CloseRun \/ CloseRunFails
    \/ Cleanup \/ Timeout \/ Abort

(* What the steps outside the stream leave alone: the schedule, the runners *)
(* and, but for finalizeStaleSteps, the rows.                               *)
LEMMA EngineEffect ==
    ASSUME EngineOnly
    PROVE  /\ UNCHANGED <<graph, held, active, done, fired, outputs, superstep, pc, stepOf>>
           /\ steps' = steps \/ (phase = "finalizing" /\ steps' = MarkStale(steps))
           /\ \/ Compile
              \/ phase' = "streaming" => phase = "streaming" /\ UNCHANGED <<ready, steps>>
           /\ ready' = ready \/ Compile
           /\ phase' \in {"idle", "loadingCatalog", "compiling"} =>
                 /\ phase \in {"idle", "loadingCatalog", "compiling"}
                 /\ UNCHANGED <<ready, steps>>
           /\ phase' = "completing" \/ runStatus' = "SUCCESS" =>
                 phase = "completing" \/ runStatus = "SUCCESS" \/ outcome = "SUCCESS" \/ StreamEnds
           /\ StaleStepsFailed' \/ (~StaleStepsFailed /\ UNCHANGED steps)
<1> USE DEF Catch, EnterFinally, execVars, engineVars, runnerVars, StaleStepsFailed
<1>1. CASE StartRun \/ StartRunFails \/ CatalogStep \/ Compile \/ CompileFails
  BY <1>1 DEF StartRun, StartRunFails, CatalogStep, CatalogLoads, CatalogLoadFails, Compile, Invoke,
     CompileFails
<1>2. CASE StreamEnds \/ StreamThrows \/ CompleteSuccess \/ CompleteSuccessFails
  BY <1>2 DEF StreamEnds, StreamThrows, CompleteSuccess, CompleteSuccessFails
<1>3. CASE Finalize \/ FinalizeFails \/ CloseRun \/ CloseRunFails
  BY <1>3 DEF Finalize, FinalizeFails, CloseRun, CloseRunFails
<1>4. CASE Cleanup \/ Timeout \/ Abort
  BY <1>4 DEF Cleanup, Timeout, Abort
<1> QED
  BY <1>1, <1>2, <1>3, <1>4 DEF EngineOnly

(* The steps of run(), execute(), the timer and an abort.                   *)
LEMMA EngineKeepsRunInv ==
    ASSUME RunInv, EngineOnly
    PROVE  RunInv'
<1>1. TypeInv /\ TypeOK /\ TypeInv'
  BY TypeEngine DEF RunInv, TypeInv, EngineOnly
<1>2. /\ UNCHANGED <<graph, held, active, done, fired, outputs, superstep, pc, stepOf>>
      /\ ready' = ready \/ Compile
  BY EngineEffect
<1>3. /\ DOMAIN steps' = DOMAIN steps
      /\ \A i \in DOMAIN steps :
            /\ steps'[i].node = steps[i].node
            /\ steps[i].status = "SUCCESS" <=> steps'[i].status = "SUCCESS"
            /\ steps'[i].status = "RUNNING" => steps[i].status = "RUNNING"
  <2>1. CASE steps' = steps
    BY <2>1
  <2>2. CASE steps' = MarkStale(steps)
    BY <1>1, <2>2, MarkStaleRows DEF TypeOK
  <2> QED
    BY <2>1, <2>2, EngineEffect
<1>4. \A n \in graph.nodes, i \in DOMAIN steps : Owns(n, i)' <=> Owns(n, i)
  BY <1>2 DEF Owns
<1>5. FreshInv'
  BY <1>2, EngineEffect DEF RunInv, FreshInv
<1>6. OwnStepInv' /\ ReliableInv'
  <2>1. StaleStepsFailed' \/ (~StaleStepsFailed /\ UNCHANGED steps)
    BY EngineEffect
  <2> QED
    BY <1>1, <1>2, <1>3, <1>4, <2>1 DEF RunInv, OwnStepInv, ReliableInv, NoOrphanStep, TypeOK
<1>7. StreamInv'
  <2>1. CASE Compile
    <3>1. /\ phase = "compiling" /\ ready' = EntryNodes(graph)
          /\ UNCHANGED <<graph, held, active, done, fired, outputs, pc, steps, stepOf>>
      BY <2>1 DEF Compile, Invoke, runnerVars
    <3>2. /\ active = {} /\ done = {} /\ fired = {} /\ outputs = {}
          /\ \A n \in graph.nodes : pc[n] = "idle"
          /\ DOMAIN steps = {}
      BY <3>1 DEF RunInv, FreshInv
    <3> QED
      BY <3>1, <3>2 DEF StreamInv, FlowInv, Reached
  <2>2. CASE ~Compile
    <3>1. phase' = "streaming" => phase = "streaming" /\ UNCHANGED <<ready, steps>>
      BY <2>2, EngineEffect
    <3> QED
      BY <1>2, <3>1 DEF RunInv, StreamInv, FlowInv, HasStep, Owns, Reached
  <2> QED
    BY <2>1, <2>2
<1>8. StatusInv' /\ OutcomeInv' /\ CatalogInv'
  <2> USE DEF Catch, EnterFinally, execVars, engineVars, runnerVars, Outcomes,
          RunInv, StatusInv, OutcomeInv, CatalogInv
  <2>1. CASE StartRun \/ StartRunFails \/ CatalogStep \/ Compile \/ CompileFails
    BY <1>2, <2>1 DEF StartRun, StartRunFails, CatalogStep, CatalogLoads, CatalogLoadFails,
       Compile, CompileFails
  <2>2. CASE StreamEnds \/ StreamThrows \/ CompleteSuccess \/ CompleteSuccessFails
    BY <1>2, <2>2 DEF StreamEnds, StreamThrows, CompleteSuccess, CompleteSuccessFails
  <2>3. CASE Finalize \/ FinalizeFails \/ CloseRun \/ CloseRunFails
    BY <1>2, <2>3 DEF Finalize, FinalizeFails, CloseRun, CloseRunFails
  <2>4. CASE Cleanup \/ Timeout \/ Abort
    BY <1>2, <2>4 DEF Cleanup, Timeout, Abort
  <2> QED
    BY <2>1, <2>2, <2>3, <2>4 DEF EngineOnly
<1>9. SuccessMeansAllDone'
  <2> SUFFICES ASSUME phase' = "completing" \/ runStatus' = "SUCCESS"
               PROVE  SuccessMeansAllDone'
    BY DEF SuccessMeansAllDone
  <2>1. phase = "completing" \/ runStatus = "SUCCESS" \/ StreamEnds
    BY <1>1, EngineEffect DEF TypeOK
  <2>2. /\ Finished /\ NothingLost
        /\ \A n \in graph.nodes : pc[n] = "idle"
        /\ \A i \in DOMAIN steps : steps[i].status = "SUCCESS"
        /\ \A n \in outputs : HasStep(n)
        /\ ready' = ready
    <3>1. CASE phase = "completing" \/ runStatus = "SUCCESS"
      <4>1. phase # "compiling"
        BY <3>1 DEF RunInv, StatusInv
      <4> QED
        BY <1>2, <3>1, <4>1 DEF RunInv, SuccessMeansAllDone, HasStep, Compile
    <3>2. CASE StreamEnds
      <4>1. phase = "streaming" /\ Finished /\ ready' = ready
        BY <3>2 DEF StreamEnds, execVars
      <4>2. /\ active = {} /\ done = {} /\ fired = {} /\ ready = {} /\ held = {}
            /\ outputs \subseteq graph.nodes
        BY <1>1, <4>1 DEF RunInv, StreamInv, FlowInv, Finished, TypeOK, SchedTypeOK
      <4>3. NothingLost
        BY <1>1, <4>1, FinishedFlow DEF RunInv, StreamInv, TypeOK
      <4>4. \A n \in graph.nodes : pc[n] = "idle"
        BY <4>1, <4>2 DEF RunInv, StreamInv
      <4>5. \A i \in DOMAIN steps : steps[i].status = "SUCCESS"
        BY <4>1, <4>4 DEF RunInv, StreamInv, Owns, InFlight
      <4>6. \A n \in outputs : HasStep(n)
        BY <4>1, <4>2 DEF RunInv, StreamInv
      <4> QED
        BY <4>1, <4>3, <4>4, <4>5, <4>6
    <3> QED
      BY <2>1, <3>1, <3>2
  <2>3. Finished' /\ NothingLost'
    BY <1>2, <2>2 DEF Finished, NothingLost
  <2> QED
    BY <1>2, <1>3, <2>2, <2>3 DEF SuccessMeansAllDone, HasStep
<1> QED
  BY <1>1, <1>5, <1>6, <1>7, <1>8, <1>9 DEF RunInv

(* The invariant holds before run() is called ...                           *)
LEMMA RunInvInit == Init => RunInv
<1> SUFFICES ASSUME Init PROVE RunInv
  OBVIOUS
<1>1. TypeInv
  BY TypeInit, LimitAssumption
<1>2. DOMAIN steps = {} /\ \A n \in graph.nodes : pc[n] = "idle"
  BY DEF Init
<1>3. FreshInv /\ OwnStepInv /\ ReliableInv
  BY <1>2 DEF Init, Unscheduled, FreshInv, OwnStepInv, ReliableInv, NoOrphanStep, InFlight
<1>4. StreamInv /\ StatusInv /\ SuccessMeansAllDone /\ OutcomeInv /\ CatalogInv
  BY DEF Init, StreamInv, StatusInv, SuccessMeansAllDone, OutcomeInv, CatalogInv, Outcomes
<1> QED
  BY <1>1, <1>3, <1>4 DEF RunInv

(* ... and every step of the program keeps it.                              *)
LEMMA RunInvNext == RunInv /\ [Next]_vars => RunInv'
<1> SUFFICES ASSUME RunInv, [Next]_vars PROVE RunInv'
  OBVIOUS
<1>1. CASE UNCHANGED vars
  <2>1. /\ UNCHANGED <<graph, ready, held, active, done, fired, outputs, superstep>>
        /\ UNCHANGED <<phase, outcome, timer, catalog, runStatus, announced, result, aborted,
                       pc, stepOf, steps>>
    BY <1>1 DEF vars, execVars, engineVars, runnerVars
  <2>2. TypeInv' /\ FreshInv' /\ OwnStepInv'
    BY <2>1 DEF RunInv, TypeInv, TypeOK, SchedTypeOK, FreshInv, OwnStepInv
  <2>3. StreamInv'
    BY <2>1 DEF RunInv, StreamInv, FlowInv, HasStep, Owns, Reached
  <2>4. StatusInv' /\ OutcomeInv' /\ CatalogInv'
    BY <2>1 DEF RunInv, StatusInv, OutcomeInv, CatalogInv
  <2>5. SuccessMeansAllDone' /\ ReliableInv'
    BY <2>1 DEF RunInv, SuccessMeansAllDone, Finished, NothingLost, ReliableInv, NoOrphanStep,
       Owns, StaleStepsFailed
  <2> QED
    BY <2>2, <2>3, <2>4, <2>5 DEF RunInv
<1>2. CASE Next
  BY <1>2, RunnerKeepsRunInv, StreamKeepsRunInv, EngineKeepsRunInv DEF Next, EngineStep, EngineOnly
<1> QED
  BY <1>1, <1>2

(* The inductive invariant holds throughout every run, whatever the graphs, *)
(* the options and the failures of the store.                               *)
THEOREM RunInvariant == Spec => []RunInv
BY RunInvInit, RunInvNext, PTL DEF Spec

-----------------------------------------------------------------------------
(* What follows from it.                                                    *)

(* A run is recorded SUCCESS, by the end of execute()'s try block, only     *)
(* when every node that was reached has run and every step is SUCCESS.      *)
THEOREM SuccessIsComplete == Spec => []SuccessMeansAllDone
<1>1. RunInv => SuccessMeansAllDone
  BY DEF RunInv
<1> QED
  BY <1>1, RunInvariant, PTL

(* The row, the event and the result of `done` agree, whichever call of the *)
(* store fails: about the two ways out of execute().                        *)
THEOREM OutcomesAgree == Spec => []OutcomeAgrees
<1>1. RunInv => OutcomeAgrees
  BY DEF RunInv, OutcomeInv, OutcomeAgrees, TypeInv, TypeOK, Outcomes
<1> QED
  BY <1>1, RunInvariant, PTL

(* The MCP catalog is open while nodes are run and released on every way    *)
(* out: about execute()'s finally block.                                    *)
THEOREM CatalogIsBracketed == Spec => []CatalogBracketsRun
<1>1. RunInv => CatalogBracketsRun
  BY DEF RunInv, CatalogInv, CatalogBracketsRun
<1> QED
  BY <1>1, RunInvariant, PTL

(* With a store that does not fail, a RUNNING step has a runner at work,    *)
(* before and after the run settles: about the catch block of the node      *)
(* runner.                                                                  *)
THEOREM NoStepIsOrphaned ==
    ASSUME ~StoreFails
    PROVE  Spec => []NoOrphanStep
<1>1. RunInv => NoOrphanStep
  BY DEF RunInv, ReliableInv
<1> QED
  BY <1>1, RunInvariant, PTL

(* The steps of the stream, and those of the engine around it, start no     *)
(* handler and no resolver: about execute().                                *)
LEMMA OnlyRunnersCall ==
    ASSUME TypeOK, NEW n \in graph.nodes,
           \/ EngineOnly
           \/ StartSuperstep \/ ApplySuperstep
           \/ \E m \in graph.nodes :
                 RouterThrows(m) \/ \E b \in Branches(graph, m) : TakeOutput(m, b)
    PROVE  pc'[n] \in {"resolving", "handling", "recordingSuccess"} => pc'[n] = pc[n]
<1>1. pc \in [graph.nodes -> RunnerState]
  BY DEF TypeOK
<1>2. CASE EngineOnly
  BY <1>2, EngineEffect
<1>3. CASE StartSuperstep
  BY <1>1, <1>3 DEF StartSuperstep
<1>4. CASE ApplySuperstep
  BY <1>4 DEF ApplySuperstep, runnerVars
<1>5. ASSUME NEW m \in graph.nodes,
             RouterThrows(m) \/ \E b \in Branches(graph, m) : TakeOutput(m, b)
      PROVE  pc' = [pc EXCEPT ![m] = "threw"] \/ pc' = [pc EXCEPT ![m] = "idle"]
  BY <1>5 DEF RouterThrows, TakeOutput, Step
<1> QED
  BY <1>1, <1>2, <1>3, <1>4, <1>5

(* Once the run is aborted no host code is called any more, by any runner:  *)
(* about the checkAbort calls of the node runner.                           *)
THEOREM AbortIsHeeded == Spec => AbortStartsNothing
<1>1. TypeOK /\ [Next]_vars =>
        [aborted =>
           \A n \in graph.nodes :
              pc'[n] \in {"resolving", "handling", "recordingSuccess"} =>
                 pc[n] = pc'[n]]_vars
  <2> SUFFICES ASSUME TypeOK, Next, aborted, NEW n \in graph.nodes,
                      pc'[n] \in {"resolving", "handling", "recordingSuccess"}
               PROVE  pc[n] = pc'[n]
    OBVIOUS
  <2>1. pc \in [graph.nodes -> RunnerState]
    BY DEF TypeOK
  <2>2. ASSUME NEW m \in graph.nodes, RunnerStep(m) \/ HostStep(m)
        PROVE  \E s \in {"started", "recordingFailure", "returned", "threw"} :
                  pc' = [pc EXCEPT ![m] = s]
    BY <2>2 DEF RunnerStep, HostStep, RecordStart, RecordStartFails, Resolve, NodeThrows,
       RecordSuccess, RecordSuccessFails, RecordFailure, RecordFailureFails,
       ResolverSettles, HandlerSettles, HostCallThrows, CheckAbort, Step
  <2>3. CASE \E m \in graph.nodes : RunnerStep(m) \/ HostStep(m)
    BY <2>1, <2>2, <2>3
  <2>4. CASE ~\E m \in graph.nodes : RunnerStep(m) \/ HostStep(m)
    BY <2>4, OnlyRunnersCall DEF Next, EngineStep, EngineOnly
  <2> QED
    BY <2>3, <2>4
<1> QED
  BY <1>1, TypeCorrect, PTL DEF Spec, AbortStartsNothing

(* With a store that does not fail, a step recorded SUCCESS is never        *)
(* changed again, and one recorded FAILED only by its own runner, which     *)
(* finalizeStaleSteps overtook: about finalizeStaleSteps and the node       *)
(* runner's calls of finish.                                                *)
THEOREM StatusIsFinal ==
    ASSUME ~StoreFails
    PROVE  Spec => FinalStatusStays
<1>1. RunInv /\ [Next]_vars =>
        [\A i \in DOMAIN steps :
            /\ steps[i].status = "SUCCESS" => steps'[i].status = "SUCCESS"
            /\ steps[i].status = "FAILED" =>
                  \/ steps'[i].status = "FAILED"
                  \/ StaleStepsFailed /\ \E n \in graph.nodes : Owns(n, i)]_vars
  <2> SUFFICES ASSUME RunInv, Next, NEW i \in DOMAIN steps,
                      steps[i].status \in {"SUCCESS", "FAILED"},
                      steps'[i].status # steps[i].status
               PROVE  /\ steps[i].status # "SUCCESS"
                      /\ StaleStepsFailed /\ \E n \in graph.nodes : Owns(n, i)
    OBVIOUS
  <2>1. TypeOK
    BY DEF RunInv, TypeInv
  <2>2. ASSUME NEW n \in graph.nodes, RunnerStep(n) \/ HostStep(n)
        PROVE  /\ steps[i].status # "SUCCESS"
               /\ StaleStepsFailed /\ Owns(n, i)
    <3>1. pc[n] \in InFlight \ {"starting"}
      BY <2>1, <2>2, RunnerEffect
    <3>2. i = stepOf[n]
      BY <2>1, <2>2, <3>1, RunnerEffect
    <3>3. /\ steps[i].status # "SUCCESS"
          /\ StaleStepsFailed \/ steps[i].status = "RUNNING"
      BY <3>1, <3>2 DEF RunInv, ReliableInv
    <3> QED
      BY <3>1, <3>2, <3>3 DEF Owns
  <2>3. ~EngineOnly
    <3>1. IF steps[i].status = "SUCCESS" THEN MarkStale(steps)[i] = steps[i]
          ELSE MarkStale(steps)[i].status = "FAILED"
      BY <2>1, MarkStaleRows DEF TypeOK
    <3> QED
      BY <3>1, EngineEffect
  <2>4. ~ \/ StartSuperstep \/ ApplySuperstep
          \/ \E n \in graph.nodes :
                RouterThrows(n) \/ \E b \in Branches(graph, n) : TakeOutput(n, b)
    BY DEF StartSuperstep, ApplySuperstep, RouterThrows, TakeOutput, runnerVars
  <2> QED
    BY <2>2, <2>3, <2>4 DEF Next, EngineStep, EngineOnly
<1> QED
  BY <1>1, RunInvariant, PTL DEF Spec, FinalStatusStays

-----------------------------------------------------------------------------
(* A run with a store that does not fail is one of RunContract.             *)

(* The row through a run: there is none before run() has created it, it     *)
(* says RUNNING until execute() closes it, and a run that awaits its        *)
(* catalog's cleanup has a result.                                          *)
RowInv ==
    /\ phase = "idle" => runStatus = "none"
    /\ phase \in {"loadingCatalog", "compiling", "streaming", "completing",
                  "finalizing", "closing"} => runStatus = "RUNNING"
    /\ phase = "cleanup" => result # "rejected"

(* What a caller sees does not change in the steps of the runners, of the   *)
(* stream, of the timer and of an abort, nor in those of execute() between  *)
(* the first await and the last.                                            *)
Unseen ==
    /\ UNCHANGED <<runStatus, announced, result>>
    /\ \/ phase' = phase
       \/ /\ phase \in {"loadingCatalog", "compiling", "streaming", "finalizing"}
          /\ phase' \in {"compiling", "streaming", "completing", "finalizing", "closing"}

LEMMA UnseenSteps ==
    ASSUME ~StoreFails, [Next]_vars
    PROVE  StartRun \/ StartRunFails \/ CompleteSuccess \/ CloseRun \/ Cleanup \/ Unseen
<1> USE DEF Unseen
<1>1. CASE UNCHANGED vars
  BY <1>1 DEF vars, engineVars
<1>2. CASE \E n \in graph.nodes : RunnerStep(n) \/ HostStep(n)
  BY <1>2, RunnerCases DEF engineVars
<1>3. CASE CatalogStep \/ Compile \/ CompileFails \/ StreamEnds \/ StreamThrows
  BY <1>3 DEF CatalogStep, CatalogLoads, CatalogLoadFails, Compile, CompileFails, StreamEnds,
     StreamThrows, Catch
<1>4. CASE \/ StartSuperstep \/ ApplySuperstep
           \/ \E n \in graph.nodes :
                 RouterThrows(n) \/ \E b \in Branches(graph, n) : TakeOutput(n, b)
  BY <1>4 DEF StartSuperstep, ApplySuperstep, RouterThrows, TakeOutput, Step, engineVars
<1>5. CASE Finalize \/ Timeout \/ Abort
  BY <1>5 DEF Finalize, Timeout, Abort, engineVars
<1>6. CASE CompleteSuccessFails \/ FinalizeFails \/ CloseRunFails
  BY <1>6 DEF CompleteSuccessFails, FinalizeFails, CloseRunFails
<1> QED
  BY <1>1, <1>2, <1>3, <1>4, <1>5, <1>6 DEF Next, EngineStep

LEMMA RowInvNext ==
    ASSUME ~StoreFails, TypeOK, OutcomeInv, RowInv, [Next]_vars
    PROVE  RowInv'
<1> USE DEF RowInv
<1>1. CASE StartRun
  BY <1>1 DEF StartRun, Catch
<1>2. CASE StartRunFails
  BY <1>2 DEF StartRunFails
<1>3. CASE CompleteSuccess
  BY <1>3 DEF CompleteSuccess, EnterFinally
<1>4. CASE CloseRun
  BY <1>4 DEF CloseRun, EnterFinally, OutcomeInv
<1>5. CASE Cleanup
  BY <1>5 DEF Cleanup
<1>6. CASE Unseen
  BY <1>6 DEF Unseen
<1> QED
  BY <1>1, <1>2, <1>3, <1>4, <1>5, <1>6, UnseenSteps

(* Each of the other steps is one of the contract's.                        *)
LEMMA StepOfContract ==
    ASSUME ~StoreFails, TypeOK, OutcomeInv, RowInv, [Next]_vars
    PROVE  [Contract!Next]_(Contract!vars)
<1> USE DEF Contract!Next, Contract!Progress, Contract!vars, Contract!Outcomes, Outcomes
<1>1. CASE StartRun
  <2>1. Contract!Begin
    BY <1>1 DEF StartRun, Catch, RowInv, Contract!Begin
  <2> QED
    BY <2>1
<1>2. CASE StartRunFails
  <2>1. Contract!Reject
    BY <1>2 DEF StartRunFails, RowInv, Contract!Reject
  <2> QED
    BY <2>1
<1>3. CASE CompleteSuccess
  <2>1. Contract!Conclude("SUCCESS")
    BY <1>3 DEF CompleteSuccess, EnterFinally, RowInv, Contract!Conclude
  <2> QED
    BY <2>1
<1>4. CASE CloseRun
  <2>1. outcome \in {"FAILED", "ABORTED"}
    BY <1>4 DEF CloseRun, OutcomeInv
  <2>2. Contract!Conclude(outcome)
    BY <1>4 DEF CloseRun, EnterFinally, RowInv, Contract!Conclude
  <2> QED
    BY <2>1, <2>2
<1>5. CASE Cleanup
  <2>1. result \in Outcomes /\ runStatus = result
    BY <1>5 DEF Cleanup, RowInv, OutcomeInv, TypeOK
  <2>2. Contract!Settle
    BY <1>5, <2>1 DEF Cleanup, Contract!Settle
  <2> QED
    BY <2>2
<1>6. CASE Unseen
  BY <1>6 DEF Unseen
<1> QED
  BY <1>1, <1>2, <1>3, <1>4, <1>5, <1>6, UnseenSteps

(* What a caller of run() is promised, step by step: the row gets one final *)
(* status, the same is announced, and `done` settles with it and not        *)
(* before. The safety part of ContractSpec, about execute().                *)
THEOREM ImplementsContract ==
    ASSUME ~StoreFails
    PROVE  Spec => Contract!Init /\ [][Contract!Next]_(Contract!vars)
<1>1. Init => RowInv /\ Contract!Init
  BY DEF Init, RowInv, Contract!Init
<1>2. RunInv => TypeOK /\ OutcomeInv
  BY DEF RunInv, TypeInv
<1>3. RunInv /\ RowInv /\ [Next]_vars => RowInv'
  BY <1>2, RowInvNext
<1>4. RunInv /\ RowInv /\ [Next]_vars => [Contract!Next]_(Contract!vars)
  BY <1>2, StepOfContract
<1> QED
  BY <1>1, <1>3, <1>4, RunInvariant, PTL DEF Spec

-----------------------------------------------------------------------------
(* The rows of a run on an ordered graph tell its order. In addition to     *)
(* OrderInv of the schedule: a runner is at work only for a node of the     *)
(* superstep that has not completed, also once the stream has been          *)
(* abandoned; a node has a row only if it was executed, or is, and then not *)
(* before its runner called start(); and a node's row says SUCCESS before   *)
(* its output is taken.                                                     *)
AtWork(n) == pc[n] # "idle"

RowsInv ==
    \A i \in DOMAIN steps :
        LET n == steps[i].node IN
        /\ n \in Executed \cup (active \ done)
        /\ pc[n] # "starting"
        /\ n \in Executed \/ pc[n] = "returned" => steps[i].status = "SUCCESS"

RunOrderInv ==
    Ordered =>
        /\ OrderInv
        /\ \A n \in graph.nodes : AtWork(n) => n \in active \ done
        /\ RowsInv
        /\ StepsAreInOrder

(* Nothing has been executed when the graph is invoked.                     *)
LEMMA InvokeKeepsOrder ==
    ASSUME held = {}, active = {}, done = {}, fired = {}, outputs = {}, Invoke
    PROVE  OrderInv'
<1>1. /\ graph' = graph /\ ready' = EntryNodes(graph)
      /\ held' = {} /\ active' = {} /\ done' = {} /\ fired' = {} /\ outputs' = {}
  BY DEF Invoke
<1>2. \A n \in EntryNodes(graph) : ~IsFanIn(graph, n)
  BY DEF EntryNodes, IsFanIn
<1> QED
  BY <1>1, <1>2 DEF OrderInv, Outstanding, Executed

(* start() appends the row of a node nothing executed and nothing at work   *)
(* depends on, and all it depends on has been executed; every other step of *)
(* a runner changes the status of its own row at most.                      *)
LEMMA RunnerKeepsOrder ==
    ASSUME RunInv, RunOrderInv, Ordered, NEW n \in graph.nodes, RunnerStep(n) \/ HostStep(n)
    PROVE  RunOrderInv'
<1>1. /\ UNCHANGED <<graph, ready, held, active, done, fired, outputs, superstep>>
      /\ TypeOK
  BY RunnerCases DEF execVars, RunInv, TypeInv
<1>2. /\ Ordered' /\ OrderInv' /\ OrderInv
      /\ UNCHANGED <<Executed, Outstanding>>
      /\ RowsInv /\ StepsAreInOrder
  BY <1>1 DEF RunOrderInv, Ordered, OrderInv, Outstanding, Executed
<1>3. /\ pc[n] \in InFlight /\ pc'[n] \notin {"idle", "starting"}
      /\ \A m \in graph.nodes \ {n} : pc'[m] = pc[m]
      /\ \A i \in DOMAIN steps : steps[i].node \in graph.nodes
  <2>1. \A i \in DOMAIN steps : steps[i] \in [node : graph.nodes, status : StepStatus]
    BY <1>1, ElementOfSeq, LenProperties DEF TypeOK
  <2> QED
    BY <1>1, <2>1, RunnerEffect
<1>4. n \in active \ done /\ n \in Outstanding
  BY <1>3 DEF RunOrderInv, AtWork, InFlight, Outstanding
<1>5. \A m \in graph.nodes : AtWork(m)' => m \in active' \ done'
  BY <1>1, <1>3, <1>4 DEF RunOrderInv, AtWork
<1>6. n \notin Executed
  BY <1>2, <1>4 DEF OrderInv
<1>7. CASE pc[n] = "starting" /\ UNCHANGED steps
  <2>1. pc'[n] # "returned"
    BY <1>1, <1>7, RunnerEffect
  <2>2. RowsInv'
    BY <1>1, <1>2, <1>3, <1>6, <1>7, <2>1 DEF RowsInv
  <2>3. StepsAreInOrder'
    BY <1>1, <1>2, <1>7 DEF StepsAreInOrder
  <2> QED
    BY <1>1, <1>2, <1>5, <2>2, <2>3 DEF RunOrderInv
<1>8. CASE pc[n] = "starting" /\ ~UNCHANGED steps
  <2> DEFINE k == Len(steps')
  <2>1. /\ k \in Nat /\ DOMAIN steps' = DOMAIN steps \cup {k}
        /\ steps'[k] = [node |-> n, status |-> "RUNNING"]
        /\ \A i \in DOMAIN steps : steps'[i] = steps[i] /\ i \in Nat /\ i < k
        /\ pc'[n] # "returned"
    <3>1. /\ k \in Nat \cap DOMAIN steps' /\ DOMAIN steps' = DOMAIN steps \cup {k}
          /\ steps'[k] = [node |-> n, status |-> "RUNNING"]
          /\ \A i \in DOMAIN steps : steps'[i] = steps[i]
          /\ pc'[n] # "returned"
      BY <1>1, <1>8, RunnerRows, RunnerEffect
    <3>2. Appends(n) /\ Len(steps) \in Nat /\ DOMAIN steps = 1..Len(steps)
      <4>1. Appends(n)
        BY <1>8, RunnerCases DEF Moves
      <4> QED
        BY <1>1, <4>1, LenProperties DEF TypeOK
    <3>3. k = Len(steps) + 1
      <4>1. [node |-> n, status |-> "RUNNING"] \in [node : graph.nodes, status : StepStatus]
        BY DEF StepStatus
      <4> QED
        BY <1>1, <3>2, <4>1, AppendProperties DEF Appends, TypeOK
    <3> QED
      BY <3>1, <3>2, <3>3
  <2> HIDE DEF k
  <2>2. \A i \in DOMAIN steps : steps[i].node # n
    BY <1>8 DEF RowsInv, RunOrderInv
  <2>3. RowsInv'
    <3> SUFFICES ASSUME NEW i \in DOMAIN steps'
                 PROVE  LET m == steps'[i].node IN
                        /\ m \in Executed' \cup (active' \ done')
                        /\ pc'[m] # "starting"
                        /\ m \in Executed' \/ pc'[m] = "returned" => steps'[i].status = "SUCCESS"
      BY DEF RowsInv
    <3>1. CASE i = k
      BY <1>1, <1>2, <1>3, <1>4, <1>6, <2>1, <3>1
    <3>2. CASE i \in DOMAIN steps
      BY <1>1, <1>2, <1>3, <2>1, <2>2, <3>2 DEF RowsInv
    <3> QED
      BY <2>1, <3>1, <3>2
  <2>4. \A i \in DOMAIN steps : steps[i].node \notin Descendants(graph, n)
    BY <1>2, <1>4 DEF RowsInv, OrderInv
  <2>5. \A i \in DOMAIN steps :
           steps[i].status # "SUCCESS" => n \notin Descendants(graph, steps[i].node)
    BY <1>2, <1>4 DEF RowsInv, OrderInv, Outstanding
  <2>6. n \notin Descendants(graph, n)
    BY <1>2, <1>4 DEF OrderInv
  <2>7. StepsAreInOrder'
    <3> SUFFICES ASSUME NEW i \in DOMAIN steps', NEW j \in DOMAIN steps'
                 PROVE  /\ i # j => steps'[i].node # steps'[j].node
                        /\ i >= j \/ steps'[i].status # "SUCCESS" =>
                              steps'[j].node \notin Descendants(graph', steps'[i].node)
      BY DEF StepsAreInOrder
    <3>1. CASE i \in DOMAIN steps /\ j \in DOMAIN steps
      BY <1>1, <1>2, <2>1, <3>1 DEF StepsAreInOrder, RunOrderInv
    <3>2. CASE i = k /\ j \in DOMAIN steps
      BY <1>1, <2>1, <2>2, <2>4, <3>2
    <3>3. CASE i \in DOMAIN steps /\ j = k
      BY <1>1, <2>1, <2>2, <2>5, <3>3
    <3>4. CASE i = k /\ j = k
      BY <1>1, <2>1, <2>6, <3>4
    <3> QED
      BY <2>1, <3>1, <3>2, <3>3, <3>4
  <2> QED
    BY <1>1, <1>2, <1>5, <2>3, <2>7 DEF RunOrderInv
<1>9. CASE pc[n] # "starting"
  <2>1. /\ DOMAIN steps' = DOMAIN steps /\ stepOf[n] \in DOMAIN steps
        /\ \A i \in DOMAIN steps :
              /\ steps'[i].node = steps[i].node
              /\ i # stepOf[n] => steps'[i] = steps[i]
        /\ pc'[n] = "returned" => steps'[stepOf[n]].status = "SUCCESS"
        /\ steps[stepOf[n]].node = n
    <3>1. steps[stepOf[n]].node = n
      BY <1>3, <1>9 DEF RunInv, OwnStepInv
    <3> QED
      BY <1>1, <1>9, <3>1, RunnerEffect
  <2>2. \A i \in DOMAIN steps : steps[i].node = n <=> i = stepOf[n]
    BY <1>2, <2>1 DEF StepsAreInOrder, RunOrderInv
  <2>3. RowsInv'
    BY <1>1, <1>2, <1>3, <1>4, <1>6, <2>1, <2>2 DEF RowsInv
  <2>4. \A i, j \in DOMAIN steps :
           steps'[i].status # "SUCCESS" =>
              steps[j].node \notin Descendants(graph, steps[i].node)
    BY <1>2, <1>4, <2>1, <2>2 DEF RowsInv, OrderInv, StepsAreInOrder, RunOrderInv
  <2>5. StepsAreInOrder'
    BY <1>1, <1>2, <2>1, <2>4 DEF StepsAreInOrder, RunOrderInv
  <2> QED
    BY <1>1, <1>2, <1>5, <2>3, <2>5 DEF RunOrderInv
<1> QED
  BY <1>7, <1>8, <1>9

(* A superstep begins with nodes that have no row, a node is executed once  *)
(* its row says SUCCESS, and the superstep ends with nodes that are.        *)
LEMMA StreamKeepsOrder ==
    ASSUME RunInv, RunOrderInv, Ordered,
           \/ StartSuperstep \/ ApplySuperstep
           \/ \E n \in graph.nodes :
                 RouterThrows(n) \/ \E b \in Branches(graph, n) : TakeOutput(n, b)
    PROVE  RunOrderInv'
<1>1. phase = "streaming"
  BY DEF StartSuperstep, ApplySuperstep, RouterThrows, TakeOutput
<1>2. /\ ExecInv /\ TypeOK
      /\ \A i \in DOMAIN steps : steps[i].node \in graph.nodes
  <2>1. TypeOK /\ ExecInv
    BY <1>1 DEF RunInv, TypeInv, TypeOK, StreamInv, ExecInv
  <2>2. \A i \in DOMAIN steps : steps[i] \in [node : graph.nodes, status : StepStatus]
    BY <2>1, ElementOfSeq, LenProperties DEF TypeOK
  <2> QED
    BY <2>1, <2>2
<1>3. /\ OrderInv /\ RowsInv /\ StepsAreInOrder
      /\ \A n \in graph.nodes : AtWork(n) => n \in active \ done
      /\ pc \in [graph.nodes -> RunnerState]
  BY <1>2 DEF RunOrderInv, TypeOK
<1>4. steps' = steps /\ graph' = graph
  BY DEF StartSuperstep, BeginSuperstep, ApplySuperstep, EndSuperstep, RouterThrows, TakeOutput,
     Complete, Step, runnerVars, execVars
<1>5. StepsAreInOrder'
  BY <1>3, <1>4 DEF StepsAreInOrder, Ordered
<1>6. CASE StartSuperstep
  <2>1. /\ OrderInv' /\ Outstanding' = Outstanding /\ Executed' = Executed
        /\ active = {} /\ active' \subseteq Outstanding /\ done' = done /\ done = {}
        /\ pc' = [n \in graph.nodes |-> IF n \in active' THEN "starting" ELSE pc[n]]
    <3>1. active = {} /\ done = {} /\ done' = done /\ active' \subseteq ready \cup held
      BY <1>2, <1>6 DEF StartSuperstep, BeginSuperstep, Released, ExecInv, SchedTypeOK
    <3> QED
      BY <1>2, <1>3, <1>6, <3>1, BeginKeepsOrder DEF StartSuperstep, Outstanding
  <2>2. \A n \in graph.nodes : AtWork(n)' => n \in active' \ done'
    BY <1>3, <2>1 DEF AtWork
  <2>3. RowsInv'
    BY <1>2, <1>3, <1>4, <2>1 DEF RowsInv, OrderInv
  <2> QED
    BY <1>4, <1>5, <2>1, <2>2, <2>3 DEF RunOrderInv
<1>7. CASE ApplySuperstep
  <2>1. /\ OrderInv' /\ Executed' = Executed /\ active \ done = {} /\ pc' = pc
        /\ active' \ done' = {}
    BY <1>2, <1>3, <1>7, EndKeepsOrder DEF ApplySuperstep, EndSuperstep, runnerVars
  <2>2. RowsInv'
    BY <1>3, <1>4, <2>1 DEF RowsInv
  <2> QED
    BY <1>3, <1>4, <1>5, <2>1, <2>2 DEF RunOrderInv, AtWork
<1>8. ASSUME NEW n \in graph.nodes, RouterThrows(n)
      PROVE  RunOrderInv'
  <2>1. /\ UNCHANGED <<ready, held, active, done, fired, outputs>>
        /\ pc[n] = "returned" /\ pc' = [pc EXCEPT ![n] = "threw"]
    BY <1>8 DEF RouterThrows, Step, execVars
  <2>2. OrderInv' /\ Executed' = Executed
    BY <1>3, <1>4, <2>1 DEF OrderInv, Outstanding, Executed
  <2>3. RowsInv' /\ \A m \in graph.nodes : AtWork(m)' => m \in active' \ done'
    BY <1>2, <1>3, <1>4, <2>1, <2>2 DEF RowsInv, AtWork
  <2> QED
    BY <1>4, <1>5, <2>2, <2>3 DEF RunOrderInv
<1>9. ASSUME NEW n \in graph.nodes, NEW b \in Branches(graph, n), TakeOutput(n, b)
      PROVE  RunOrderInv'
  <2>1. /\ Complete(n, b) /\ pc[n] = "returned" /\ pc' = [pc EXCEPT ![n] = "idle"]
        /\ active' = active /\ done' = done \cup {n} /\ outputs' = outputs
    BY <1>9 DEF TakeOutput, Complete
  <2>2. OrderInv' /\ Executed' = Executed \cup {n}
    BY <1>2, <1>3, <2>1, CompleteKeepsOrder DEF Executed
  <2>3. RowsInv' /\ \A m \in graph.nodes : AtWork(m)' => m \in active' \ done'
    BY <1>2, <1>3, <1>4, <2>1, <2>2 DEF RowsInv, AtWork
  <2> QED
    BY <1>4, <1>5, <2>2, <2>3 DEF RunOrderInv
<1> QED
  BY <1>6, <1>7, <1>8, <1>9

(* The other steps keep the runners, the rows' nodes and those that say     *)
(* SUCCESS; the graph is invoked when nothing has been executed yet.        *)
LEMMA EngineKeepsOrder ==
    ASSUME RunInv, RunOrderInv, Ordered, EngineOnly
    PROVE  RunOrderInv'
<1>1. /\ UNCHANGED <<graph, held, active, done, fired, outputs, superstep, pc, stepOf>>
      /\ ready' = ready \/ Compile
      /\ TypeOK
  BY EngineEffect DEF RunInv, TypeInv
<1>2. /\ OrderInv /\ RowsInv /\ StepsAreInOrder
      /\ \A n \in graph.nodes : AtWork(n) => n \in active \ done
      /\ Executed' = Executed
  BY <1>1 DEF RunOrderInv, Executed
<1>3. /\ DOMAIN steps' = DOMAIN steps
      /\ \A i \in DOMAIN steps :
            /\ steps'[i].node = steps[i].node
            /\ steps[i].status = "SUCCESS" <=> steps'[i].status = "SUCCESS"
  <2>1. CASE steps' = steps
    BY <2>1
  <2>2. CASE steps' = MarkStale(steps)
    BY <1>1, <2>2, MarkStaleRows DEF TypeOK
  <2> QED
    BY <2>1, <2>2, EngineEffect
<1>4. OrderInv'
  <2>1. CASE ready' = ready
    BY <1>1, <1>2, <2>1 DEF OrderInv, Outstanding, Executed
  <2>2. CASE Compile
    BY <2>2, InvokeKeepsOrder DEF Compile, RunInv, FreshInv
  <2> QED
    BY <1>1, <2>1, <2>2
<1>5. RowsInv' /\ \A n \in graph.nodes : AtWork(n)' => n \in active' \ done'
  BY <1>1, <1>2, <1>3 DEF RowsInv, AtWork
<1>6. StepsAreInOrder'
  BY <1>1, <1>2, <1>3 DEF StepsAreInOrder, Ordered
<1> QED
  BY <1>1, <1>4, <1>5, <1>6 DEF RunOrderInv

LEMMA RunOrderInvariant == Spec => []RunOrderInv
<1>1. Init => RunOrderInv
  BY DEF Init, Unscheduled, RunOrderInv, OrderInv, Outstanding, Executed, RowsInv, AtWork,
     StepsAreInOrder
<1>2. RunInv /\ RunOrderInv /\ [Next]_vars => RunOrderInv'
  <2> SUFFICES ASSUME RunInv, RunOrderInv, [Next]_vars PROVE RunOrderInv'
    OBVIOUS
  <2>1. CASE UNCHANGED vars
    BY <2>1 DEF vars, execVars, runnerVars, RunOrderInv, OrderInv, Outstanding, Executed, RowsInv,
       AtWork, StepsAreInOrder, Ordered
  <2>2. CASE Next /\ Ordered
    BY <2>2, RunnerKeepsOrder, StreamKeepsOrder, EngineKeepsOrder DEF Next, EngineStep, EngineOnly
  <2>3. CASE Next /\ ~Ordered
    <3>1. graph' = graph
      <4>1. CASE EngineOnly
        BY <4>1, EngineEffect
      <4>2. CASE \E n \in graph.nodes : RunnerStep(n) \/ HostStep(n)
        BY <4>2, RunnerCases DEF execVars
      <4>3. CASE \/ StartSuperstep \/ ApplySuperstep
                 \/ \E n \in graph.nodes :
                       RouterThrows(n) \/ \E b \in Branches(graph, n) : TakeOutput(n, b)
        BY <4>3 DEF StartSuperstep, BeginSuperstep, ApplySuperstep, EndSuperstep, RouterThrows,
           TakeOutput, Complete, Step, execVars
      <4> QED
        BY <2>3, <4>1, <4>2, <4>3 DEF Next, EngineStep, EngineOnly
    <3> QED
      BY <2>3, <3>1 DEF RunOrderInv, Ordered
  <2> QED
    BY <2>1, <2>2, <2>3
<1> QED
  BY <1>1, <1>2, RunInvariant, PTL DEF Spec

(* On a well-nested acyclic graph each node has one row at most, and has it *)
(* only after every row of a node that leads to it says SUCCESS: about the  *)
(* wiring of compiler.ts under the node runner, with any store, whoever     *)
(* fails or aborts.                                                         *)
THEOREM StepsFollowTheGraph == Spec => []StepsAreInOrder
<1>1. RunOrderInv => StepsAreInOrder
  BY DEF RunOrderInv, StepsAreInOrder
<1> QED
  BY <1>1, RunOrderInvariant, PTL

-----------------------------------------------------------------------------
(* The schedule of a run is one of DagRun. Until the graph is invoked its   *)
(* entry nodes are what DagRun has pending.                                 *)
RunDag == INSTANCE DagRun WITH
             graph    <- IF Ordered THEN graph ELSE NoGraph,
             pending  <- IF ~Ordered THEN {}
                         ELSE IF Outstanding \cup Executed = {} THEN EntryNodes(graph)
                         ELSE Outstanding,
             executed <- IF Ordered THEN Executed ELSE {}

(* The operators of PipelineGraph are the same in DagRun.                   *)
LEMMA RunDagGraph ==
    /\ RunDag!Graph = Graph
    /\ \A g : RunDag!EntryNodes(g) = EntryNodes(g)
    /\ \A g, n : RunDag!Branches(g, n) = Branches(g, n)
    /\ \A g, n, b : RunDag!Targets(g, n, b) = Targets(g, n, b)
    /\ \A g, n : RunDag!Descendants(g, n) = Descendants(g, n)
<1>1. RunDag!Graph = Graph
  BY DEF RunDag!Graph, Graph, RunDag!Labels, Labels
<1>2. /\ \A g, n : RunDag!EdgesInto(g, n) = EdgesInto(g, n)
      /\ \A g, n : RunDag!EdgesFrom(g, n) = EdgesFrom(g, n)
  BY DEF RunDag!EdgesInto, EdgesInto, RunDag!EdgesFrom, EdgesFrom
<1>3. \A g : RunDag!EntryNodes(g) = EntryNodes(g)
  BY <1>2 DEF RunDag!EntryNodes, EntryNodes
<1>4. \A g, n : RunDag!Branches(g, n) = Branches(g, n)
  BY DEF RunDag!Branches, Branches
<1>5. \A g, n : RunDag!Successors(g, n) = Successors(g, n)
  BY <1>2 DEF RunDag!Successors, Successors
<1>6. \A g, n, b : RunDag!Targets(g, n, b) = Targets(g, n, b)
  <2>1. \A g, n, b : RunDag!BranchEdges(g, n, b) = BranchEdges(g, n, b)
    BY <1>2 DEF RunDag!BranchEdges, BranchEdges
  <2>2. \A g, n, b : RunDag!BranchTarget(g, n, b) = BranchTarget(g, n, b)
    BY <2>1 DEF RunDag!BranchTarget, BranchTarget
  <2> QED
    BY <1>5, <2>2 DEF RunDag!Targets, Targets
<1>7. \A g, n : RunDag!Descendants(g, n) = Descendants(g, n)
  BY <1>5 DEF RunDag!Descendants, Descendants
<1> QED
  BY <1>1, <1>3, <1>4, <1>6, <1>7

(* Taking a node's output executes it; no other step, of whatever actor,    *)
(* changes what is executed or pending.                                     *)
LEMMA RunStepOfDag ==
    ASSUME RunInv, RunOrderInv, [Next]_vars
    PROVE  [RunDag!Next]_(RunDag!vars)
<1>1. ASSUME UNCHANGED <<graph, Outstanding, Executed>>
      PROVE  UNCHANGED RunDag!vars
  BY <1>1 DEF RunDag!vars, Ordered, EntryNodes, EdgesInto
<1>2. ASSUME UNCHANGED <<graph, ready, held, active, done, fired, outputs>>
      PROVE  UNCHANGED RunDag!vars
  BY <1>1, <1>2 DEF Outstanding, Executed
<1>3. CASE UNCHANGED vars
  BY <1>2, <1>3 DEF vars, execVars
<1>4. CASE \E n \in graph.nodes : RunnerStep(n) \/ HostStep(n)
  BY <1>2, <1>4, RunnerCases DEF execVars
<1>5. CASE Compile
  <2>1. /\ held = {} /\ active = {} /\ done = {} /\ fired = {} /\ outputs = {}
        /\ Outstanding = {} /\ Executed = {}
    BY <1>5 DEF Compile, RunInv, FreshInv, Outstanding, Executed
  <2>2. graph' = graph /\ Outstanding' = EntryNodes(graph) /\ Executed' = {}
    BY <1>5, <2>1 DEF Compile, Invoke, Outstanding, Executed
  <2>3. (Ordered' <=> Ordered) /\ EntryNodes(graph)' = EntryNodes(graph)
    BY <2>2 DEF Ordered, EntryNodes, EdgesInto
  <2> QED
    BY <2>1, <2>2, <2>3 DEF RunDag!vars
<1>6. CASE EngineOnly /\ ~Compile
  BY <1>2, <1>6, EngineEffect
<1>7. CASE \E n \in graph.nodes : RouterThrows(n)
  BY <1>2, <1>7 DEF RouterThrows, Step, execVars
<1>8. CASE StartSuperstep \/ ApplySuperstep
  <2>1. ExecInv /\ graph' = graph
    BY <1>8 DEF StartSuperstep, ApplySuperstep, BeginSuperstep, EndSuperstep, RunInv, TypeInv,
       TypeOK, StreamInv, ExecInv
  <2>2. CASE ~Ordered
    BY <2>1, <2>2 DEF RunDag!vars, Ordered
  <2>3. CASE Ordered
    <3>1. OrderInv
      BY <2>3 DEF RunOrderInv
    <3>2. Outstanding' = Outstanding /\ Executed' = Executed
      BY <1>8, <2>1, <2>3, <3>1, BeginKeepsOrder, EndKeepsOrder DEF StartSuperstep, ApplySuperstep
    <3> QED
      BY <1>1, <2>1, <3>2
  <2> QED
    BY <2>2, <2>3
<1>9. ASSUME NEW n \in graph.nodes, NEW b \in Branches(graph, n), TakeOutput(n, b)
      PROVE  [RunDag!Next]_(RunDag!vars)
  <2>1. /\ ExecInv /\ Complete(n, b) /\ graph' = graph /\ n \in active \ done
        /\ done' = done \cup {n}
    BY <1>9 DEF TakeOutput, Complete, RunInv, TypeInv, TypeOK, StreamInv, ExecInv
  <2>2. CASE ~Ordered
    BY <2>1, <2>2 DEF RunDag!vars, Ordered
  <2>3. CASE Ordered
    <3>1. OrderInv' /\ Dag!Execute(n, b) /\ Ordered'
      BY <2>1, <2>3, CompleteKeepsOrder DEF RunOrderInv, Ordered
    <3>2. n \in Outstanding /\ n \in Executed'
      BY <2>1 DEF Outstanding, Executed
    <3>3. /\ n \in Outstanding \ Executed
          /\ \A m \in Outstanding : n \notin Descendants(graph, m)
          /\ Executed' = Executed \cup {n}
          /\ Outstanding' = (Outstanding \ {n}) \cup Targets(graph, n, b)
      BY <2>3, <3>1, DagGraph DEF Dag!Execute, Dag!Settled, Outstanding, Executed
    <3>4. RunDag!Execute(n, b)
      BY <2>1, <2>3, <3>1, <3>2, <3>3, RunDagGraph DEF RunDag!Execute, RunDag!Settled
    <3>5. RunDag!Next
      BY <2>3, <3>4, RunDagGraph DEF RunDag!Next
    <3> QED
      BY <3>5
  <2> QED
    BY <2>2, <2>3
<1> QED
  BY <1>3, <1>4, <1>5, <1>6, <1>7, <1>8, <1>9 DEF Next, EngineStep, EngineOnly

(* Whatever fails or aborts, the nodes of a run are executed as DagRun has  *)
(* it, on every well-nested acyclic graph: each once, and after everything  *)
(* that could still feed it (compiler.ts, `defer`, under the node runner).  *)
THEOREM RunImplementsDag == Spec => RunDag!Init /\ [][RunDag!Next]_(RunDag!vars)
<1>1. Init => RunDag!Init
  <2> SUFFICES ASSUME Init PROVE RunDag!Init
    OBVIOUS
  <2>1. NoGraph \in Graph /\ EntryNodes(NoGraph) = {}
    BY DEF NoGraph, Graph, EntryNodes
  <2>2. graph \in Graph /\ Outstanding = {} /\ Executed = {}
    BY GraphsAssumption DEF Init, Unscheduled, Outstanding, Executed
  <2> QED
    BY <2>1, <2>2, RunDagGraph DEF RunDag!Init
<1>2. RunInv /\ RunOrderInv /\ [Next]_vars => [RunDag!Next]_(RunDag!vars)
  BY RunStepOfDag
<1> QED
  BY <1>1, <1>2, RunInvariant, RunOrderInvariant, PTL DEF Spec

-----------------------------------------------------------------------------
(* A run has only so many steps to make. Of its schedule it has the Turns   *)
(* left, of its runners the awaits they may still come to, in this          *)
(* superstep and in later ones, and of execute() the stages to come; the    *)
(* timer and the signal fire once.                                          *)
AwaitsLeft(state) ==
    CASE state = "starting" -> 7
      [] state = "started" -> 6
      [] state = "resolving" -> 5
      [] state = "handling" -> 4
      [] state = "recordingSuccess" -> 3
      [] state = "recordingFailure" -> 2
      [] state = "returned" -> 1
      [] OTHER -> 0

Awaits ==
    {a \in (0..RecursionLimit) \X graph.nodes \X (1..7) :
        a[1] > superstep \/ (a[1] = superstep /\ a[3] <= AwaitsLeft(pc[a[2]]))}

StagesLeft ==
    CASE phase = "idle" -> 8
      [] phase = "loadingCatalog" -> 7
      [] phase = "compiling" -> 6
      [] phase = "streaming" -> 5
      [] phase = "completing" -> 4
      [] phase = "finalizing" -> 3
      [] phase = "closing" -> 2
      [] phase = "cleanup" -> 1
      [] OTHER -> 0
TimerLeft == CASE timer = "unset" -> 2 [] timer = "armed" -> 1 [] OTHER -> 0
AbortLeft == IF aborted THEN 0 ELSE 1
EngineLeft == StagesLeft + TimerLeft + AbortLeft

StepsLeft == Cardinality(Turns) + Cardinality(Awaits) + EngineLeft

(* A run that has not begun has no timer and no signal.                     *)
IdleInv == phase = "idle" => timer = "unset" /\ ~aborted

(* No step but StartRun, which ends the idle phase, arms or aborts.         *)
LEMMA IdleInvNext ==
    ASSUME IdleInv, [Next]_vars
    PROVE  IdleInv'
<1> USE DEF IdleInv
<1>1. CASE UNCHANGED vars
  BY <1>1 DEF vars, engineVars
<1>2. CASE \E n \in graph.nodes : RunnerStep(n) \/ HostStep(n)
  BY <1>2, RunnerCases DEF engineVars
<1>3. CASE EngineOnly
  BY <1>3 DEF EngineOnly, StartRun, StartRunFails, CatalogStep, CatalogLoads, CatalogLoadFails,
     Compile, CompileFails, StreamEnds, StreamThrows,
     CompleteSuccess, CompleteSuccessFails, Finalize, FinalizeFails, CloseRun, CloseRunFails,
     Cleanup, Timeout, Abort, Catch, EnterFinally, engineVars
<1>4. CASE \/ StartSuperstep \/ ApplySuperstep
           \/ \E n \in graph.nodes :
                 RouterThrows(n) \/ \E b \in Branches(graph, n) : TakeOutput(n, b)
  BY <1>4 DEF StartSuperstep, ApplySuperstep, RouterThrows, TakeOutput, Step, engineVars
<1> QED
  BY <1>1, <1>2, <1>3, <1>4 DEF Next, EngineStep, EngineOnly

(* A runner has at most seven awaits to come.                               *)
LEMMA AwaitsLeftType == \A s : AwaitsLeft(s) \in 0..7
  BY DEF AwaitsLeft

(* What is left of execute() is a number.                                   *)
LEMMA EngineLeftType == EngineLeft \in Nat
  BY DEF EngineLeft, StagesLeft, TimerLeft, AbortLeft

(* The stages of execute() follow each other, and nothing is armed twice.   *)
LEMMA EngineLeftDecreases ==
    ASSUME TypeOK, IdleInv, EngineOnly
    PROVE  EngineLeft' < EngineLeft
<1> USE DEF EngineLeft, StagesLeft, TimerLeft, AbortLeft, Catch, EnterFinally, IdleInv, TypeOK,
            engineVars
<1>1. CASE StartRun
  BY <1>1 DEF StartRun
<1>2. CASE StartRunFails \/ CatalogStep \/ Compile \/ CompileFails
  BY <1>2 DEF StartRunFails, CatalogStep, CatalogLoads, CatalogLoadFails, Compile, CompileFails
<1>3. CASE StreamEnds \/ StreamThrows
  BY <1>3 DEF StreamEnds, StreamThrows
<1>4. CASE CompleteSuccess \/ CompleteSuccessFails
  BY <1>4 DEF CompleteSuccess, CompleteSuccessFails
<1>5. CASE Finalize \/ FinalizeFails
  BY <1>5 DEF Finalize, FinalizeFails
<1>6. CASE CloseRun \/ CloseRunFails
  BY <1>6 DEF CloseRun, CloseRunFails
<1>7. CASE Cleanup \/ Timeout \/ Abort
  BY <1>7 DEF Cleanup, Timeout, Abort
<1> QED
  BY <1>1, <1>2, <1>3, <1>4, <1>5, <1>6, <1>7 DEF EngineOnly

(* A graph with finitely many nodes leaves finitely many awaits.            *)
LEMMA AwaitsAreFinite ==
    ASSUME IsFiniteSet(graph.nodes), LimitAssumption
    PROVE  IsFiniteSet(Awaits)
<1> DEFINE A == 0..RecursionLimit
           C == 1..7
<1>1. IsFiniteSet(A)
  BY FS_Interval DEF LimitAssumption
<1>4. IsFiniteSet(C)
  <2>1. 1 \in Int /\ 7 \in Int
    OBVIOUS
  <2> QED
    BY <2>1, FS_Interval, Zenon
<1>2. Awaits \subseteq A \X graph.nodes \X C
  BY DEF Awaits
<1> HIDE DEF A, C
<1>3. IsFiniteSet(A \X graph.nodes \X C)
  BY <1>1, <1>4, TriplesAreFinite
<1> QED
  BY <1>2, <1>3, FS_Subset

(* A runner moves on, never back.                                           *)
LEMMA RunnerAwaitsLess ==
    ASSUME TypeOK, LimitAssumption, NEW n \in graph.nodes,
           NEW to, pc' = [pc EXCEPT ![n] = to],
           AwaitsLeft(to) < AwaitsLeft(pc[n]), UNCHANGED <<graph, superstep>>
    PROVE  Awaits' \subseteq Awaits /\ Awaits' # Awaits
<1>1. /\ superstep \in 0..RecursionLimit /\ RecursionLimit \in Nat
      /\ pc \in [graph.nodes -> RunnerState]
  BY DEF TypeOK, SchedTypeOK, LimitAssumption
<1> DEFINE k == AwaitsLeft(pc[n])
<1>2. /\ k \in 1..7 /\ AwaitsLeft(to) \in Nat
      /\ pc'[n] = to /\ \A m \in graph.nodes \ {n} : pc'[m] = pc[m]
  BY <1>1, AwaitsLeftType
<1>3. ASSUME NEW a \in Awaits'
      PROVE  a \in Awaits
  <2>1. /\ a \in (0..RecursionLimit) \X graph.nodes \X (1..7)
        /\ a[1] > superstep \/ (a[1] = superstep /\ a[3] <= AwaitsLeft(pc'[a[2]]))
    BY DEF Awaits
  <2>2. AwaitsLeft(pc'[a[2]]) <= AwaitsLeft(pc[a[2]])
    BY <1>2, <2>1, AwaitsLeftType
  <2>3. a[3] <= AwaitsLeft(pc'[a[2]]) => a[3] <= AwaitsLeft(pc[a[2]])
    BY <2>1, <2>2, AwaitsLeftType
  <2> QED
    BY <2>1, <2>3 DEF Awaits
<1>4. <<superstep, n, k>> \in Awaits
  BY <1>1, <1>2 DEF Awaits
<1>5. <<superstep, n, k>> \notin Awaits'
  <2>2. AwaitsLeft(pc'[n]) = AwaitsLeft(to)
    BY <1>2
  <2>3. ~(k <= AwaitsLeft(to))
    BY <1>2
  <2>1. ~(k <= AwaitsLeft(pc'[n]))
    BY <2>2, <2>3, Zenon
  <2> QED
    BY <1>1, <2>1 DEF Awaits
<1> QED
  BY <1>3, <1>4, <1>5

(* Every step of a runner brings it nearer to its end.                      *)
LEMMA RunnerGoesOn ==
    ASSUME NEW n \in graph.nodes, RunnerStep(n) \/ HostStep(n)
    PROVE  \E to : pc' = [pc EXCEPT ![n] = to] /\ AwaitsLeft(to) < AwaitsLeft(pc[n])
<1> USE DEF Step, AwaitsLeft
<1>1. CASE RecordStart(n) \/ RecordStartFails(n)
  <2>1. pc[n] = "starting" /\ \E to \in {"started", "threw"} : pc' = [pc EXCEPT ![n] = to]
    BY <1>1 DEF RecordStart, RecordStartFails
  <2> HIDE DEF AwaitsLeft
  <2>2. AwaitsLeft("started") < AwaitsLeft("starting") /\ AwaitsLeft("threw") < AwaitsLeft("starting")
    BY DEF AwaitsLeft
  <2>3. CASE pc' = [pc EXCEPT ![n] = "started"]
    BY <2>1, <2>2, <2>3
  <2>4. CASE pc' = [pc EXCEPT ![n] = "threw"]
    BY <2>1, <2>2, <2>4
  <2> QED
    BY <2>1, <2>3, <2>4
<1>2. CASE Resolve(n) \/ NodeThrows(n)
  BY <1>2 DEF Resolve, NodeThrows
<1>3. CASE HostStep(n)
  BY <1>3 DEF HostStep, ResolverSettles, HandlerSettles, HostCallThrows
<1>4. CASE RecordSuccess(n) \/ RecordSuccessFails(n) \/ RecordFailure(n) \/ RecordFailureFails(n)
  BY <1>4 DEF RecordSuccess, RecordSuccessFails, RecordFailure, RecordFailureFails
<1> QED
  BY <1>1, <1>2, <1>3, <1>4 DEF RunnerStep

(* Of the schedule, the awaits and the stages, a step takes from one and    *)
(* adds to none: about every action of the run.                             *)
LEMMA StepTakes ==
    ASSUME TypeOK, IdleInv, Next
    PROVE  /\ Turns' \subseteq Turns /\ Awaits' \subseteq Awaits
           /\ EngineLeft' = EngineLeft \/ EngineLeft' < EngineLeft
           /\ Turns' # Turns \/ Awaits' # Awaits \/ EngineLeft' < EngineLeft
<1> USE LimitAssumption
<1>1. /\ superstep \in 0..RecursionLimit /\ RecursionLimit \in Nat
      /\ pc \in [graph.nodes -> RunnerState] /\ SchedTypeOK
  BY DEF TypeOK, SchedTypeOK, LimitAssumption
<1>2. ASSUME NEW n \in graph.nodes, RunnerStep(n) \/ HostStep(n)
      PROVE  /\ Turns' = Turns /\ EngineLeft' = EngineLeft
             /\ Awaits' \subseteq Awaits /\ Awaits' # Awaits
  <2>1. UNCHANGED <<execVars, engineVars, aborted>>
    BY <1>2, RunnerCases
  <2>2. Turns' = Turns
    BY <2>1 DEF Turns, execVars
  <2>3. EngineLeft' = EngineLeft
    BY <2>1 DEF EngineLeft, StagesLeft, TimerLeft, AbortLeft, engineVars
  <2>4. PICK to : pc' = [pc EXCEPT ![n] = to] /\ AwaitsLeft(to) < AwaitsLeft(pc[n])
    BY <1>2, RunnerGoesOn
  <2> QED
    BY <2>1, <2>2, <2>3, <2>4, RunnerAwaitsLess DEF execVars
<1>3. CASE EngineOnly
  <2>1. UNCHANGED <<graph, active, done, superstep, pc>>
    BY <1>3, EngineEffect
  <2>2. Turns' = Turns /\ Awaits' = Awaits
    BY <2>1 DEF Turns, Awaits
  <2> QED
    BY <1>3, <2>2, EngineLeftDecreases
<1>4. CASE StartSuperstep
  <2>1. BeginSuperstep /\ UNCHANGED <<engineVars, aborted>>
    BY <1>4 DEF StartSuperstep
  <2>2. graph' = graph /\ superstep' = superstep + 1
    BY <2>1 DEF BeginSuperstep, NextSuperstep
  <2>3. Awaits' \subseteq Awaits
    BY <1>1, <2>2 DEF Awaits
  <2>4. EngineLeft' = EngineLeft
    BY <2>1 DEF EngineLeft, StagesLeft, TimerLeft, AbortLeft, engineVars
  <2> QED
    BY <1>1, <2>1, <2>3, <2>4, FewerTurns
<1>5. CASE ApplySuperstep
  <2>1. EndSuperstep /\ UNCHANGED <<engineVars, aborted, pc, graph, superstep>>
    BY <1>5 DEF ApplySuperstep, EndSuperstep, runnerVars
  <2>2. Awaits' = Awaits
    BY <2>1 DEF Awaits
  <2>3. EngineLeft' = EngineLeft
    BY <2>1 DEF EngineLeft, StagesLeft, TimerLeft, AbortLeft, engineVars
  <2> QED
    BY <1>1, <2>1, <2>2, <2>3, FewerTurns
<1>6. ASSUME NEW n \in graph.nodes, NEW b \in Branches(graph, n), TakeOutput(n, b)
      PROVE  /\ Turns' \subseteq Turns /\ Turns' # Turns
             /\ Awaits' \subseteq Awaits /\ EngineLeft' = EngineLeft
  <2>1. Complete(n, b) /\ n \in active /\ UNCHANGED <<engineVars, aborted, graph, superstep>>
    BY <1>6 DEF TakeOutput, Complete
  <2>2. pc[n] = "returned" /\ pc' = [pc EXCEPT ![n] = "idle"]
    BY <1>6 DEF TakeOutput
  <2>3. AwaitsLeft("idle") < AwaitsLeft(pc[n])
    BY <2>2 DEF AwaitsLeft
  <2>4. Awaits' \subseteq Awaits
    BY <2>1, <2>2, <2>3, RunnerAwaitsLess
  <2>5. EngineLeft' = EngineLeft
    BY <2>1 DEF EngineLeft, StagesLeft, TimerLeft, AbortLeft, engineVars
  <2> QED
    BY <1>1, <2>1, <2>4, <2>5, FewerTurns
<1>7. ASSUME NEW n \in graph.nodes, RouterThrows(n)
      PROVE  /\ Turns' = Turns /\ EngineLeft' = EngineLeft
             /\ Awaits' \subseteq Awaits /\ Awaits' # Awaits
  <2>1. UNCHANGED <<execVars, engineVars, aborted>>
    BY <1>7 DEF RouterThrows, Step
  <2>2. pc[n] = "returned" /\ pc' = [pc EXCEPT ![n] = "threw"]
    BY <1>7 DEF RouterThrows, Step
  <2>3. AwaitsLeft("threw") < AwaitsLeft(pc[n])
    BY <2>2 DEF AwaitsLeft
  <2>4. Turns' = Turns
    BY <2>1 DEF Turns, execVars
  <2>5. EngineLeft' = EngineLeft
    BY <2>1 DEF EngineLeft, StagesLeft, TimerLeft, AbortLeft, engineVars
  <2> QED
    BY <2>1, <2>2, <2>3, <2>4, <2>5, RunnerAwaitsLess DEF execVars
<1> QED
  BY <1>2, <1>3, <1>4, <1>5, <1>6, <1>7 DEF Next, EngineStep, EngineOnly

(* A run of a graph with finitely many nodes makes only finitely many       *)
(* steps, whatever fails and whoever aborts it: the safety part of          *)
(* RunSettles, about run() and execute() of runtime/src/index.ts, the       *)
(* runners they leave behind included.                                      *)
THEOREM RunIsFinite ==
    ASSUME \A g \in Graphs : IsFiniteSet(g.nodes)
    PROVE  Spec => [](StepsLeft \in Nat) /\ [][StepsLeft' < StepsLeft]_vars
<1>1. TypeOK => /\ IsFiniteSet(Turns) /\ IsFiniteSet(Awaits)
                /\ StepsLeft \in Nat
  <2> SUFFICES ASSUME TypeOK
               PROVE  IsFiniteSet(Turns) /\ IsFiniteSet(Awaits) /\ StepsLeft \in Nat
    OBVIOUS
  <2>1. IsFiniteSet(graph.nodes)
    BY DEF TypeOK, SchedTypeOK
  <2>2. IsFiniteSet(Turns) /\ IsFiniteSet(Awaits)
    BY <2>1, LimitAssumption, TurnsAreFinite, AwaitsAreFinite
  <2>3. Cardinality(Turns) \in Nat /\ Cardinality(Awaits) \in Nat
    BY <2>2, FS_CardinalityType
  <2> QED
    BY <2>2, <2>3, EngineLeftType DEF StepsLeft
<1>2. TypeOK /\ TypeOK' /\ IdleInv /\ [Next]_vars => [StepsLeft' < StepsLeft]_vars
  <2> SUFFICES ASSUME TypeOK, IdleInv, Next
               PROVE  StepsLeft' < StepsLeft
    OBVIOUS
  <2>1. /\ Turns' \subseteq Turns /\ Awaits' \subseteq Awaits
        /\ EngineLeft' = EngineLeft \/ EngineLeft' < EngineLeft
        /\ Turns' # Turns \/ Awaits' # Awaits \/ EngineLeft' < EngineLeft
    BY StepTakes
  <2> DEFINE t == Cardinality(Turns)
             a == Cardinality(Awaits)
             t1 == Cardinality(Turns')
             a1 == Cardinality(Awaits')
             e == EngineLeft
             e1 == EngineLeft'
  <2>2. /\ t \in Nat /\ t1 \in Nat /\ t1 <= t
        /\ Turns' # Turns => t1 < t
    BY <1>1, <2>1, FewerMembers
  <2>3. /\ a \in Nat /\ a1 \in Nat /\ a1 <= a
        /\ Awaits' # Awaits => a1 < a
    BY <1>1, <2>1, FewerMembers
  <2>4. EngineLeft \in Nat /\ EngineLeft' \in Nat
    BY DEF EngineLeft, StagesLeft, TimerLeft, AbortLeft
  <2>5. StepsLeft = t + a + EngineLeft /\ StepsLeft' = t1 + a1 + EngineLeft'
    BY DEF StepsLeft
  <2>9. e \in Nat /\ e1 \in Nat
    BY <2>4
  <2>6. e1 = e \/ e1 < e
    BY <2>1
  <2>7. t1 < t \/ a1 < a \/ e1 < e
    BY <2>1, <2>2, <2>3
  <2> HIDE DEF t, a, t1, a1, e, e1
  <2>8. t1 + a1 + e1 < t + a + e
    BY <2>2, <2>3, <2>6, <2>7, <2>9
  <2> QED
    BY <2>5, <2>8 DEF t, a, t1, a1, e, e1
<1>3. Init => IdleInv
  BY DEF Init, IdleInv
<1> QED
  BY <1>1, <1>2, <1>3, IdleInvNext, TypeCorrect, PTL DEF Spec

-----------------------------------------------------------------------------
(* What the stream waits for: it can end, begin or apply a superstep, or a  *)
(* node of the superstep is at work, has returned or has thrown.            *)
StreamMoves ==
    phase = "streaming" =>
        \/ Finished \/ OutOfSteps
        \/ active = {} /\ ready \cup held # {} /\ superstep < RecursionLimit
        \/ active # {} /\ done = active
        \/ \E n \in active \ done :
              \/ pc[n] \in InFlight \cup {"threw"}
              \/ pc[n] = "returned" /\ Branches(graph, n) # {}

(* The stream never waits for a runner that is gone: with RunIsFinite, a    *)
(* run that does not settle is one whose store, loader or host does not     *)
(* answer. About streamEvents() in execute() of runtime/src/index.ts.       *)
THEOREM StreamIsNeverStuck == Spec => []StreamMoves
<1>1. RunInv => StreamMoves
  <2> SUFFICES ASSUME RunInv, phase = "streaming"
               PROVE  StreamMoves
    BY DEF StreamMoves
  <2>1. /\ superstep \in 0..RecursionLimit /\ RecursionLimit \in Nat
        /\ active \subseteq graph.nodes /\ done \subseteq active
        /\ pc \in [graph.nodes -> RunnerState]
    BY LimitAssumption DEF RunInv, TypeInv, TypeOK, SchedTypeOK
  <2>2. \A n \in graph.nodes : pc[n] # "idle" <=> n \in active \ done
    BY DEF RunInv, StreamInv
  <2>3. CASE active = {}
    BY <2>1, <2>3 DEF StreamMoves, Finished, OutOfSteps
  <2>4. CASE active # {} /\ done # active
    <3>1. PICK n \in active \ done : TRUE
      BY <2>1, <2>4
    <3>2. pc[n] \in InFlight \cup {"threw", "returned"}
      BY <2>1, <2>2, <3>1 DEF RunnerState, InFlight
    <3>3. Branches(graph, n) # {}
      BY DEF Branches
    <3> QED
      BY <3>1, <3>2, <3>3 DEF StreamMoves
  <2> QED
    BY <2>3, <2>4 DEF StreamMoves
<1> QED
  BY <1>1, RunInvariant, PTL

=============================================================================
