-------------------------- MODULE ServedLedgerProofs --------------------------
(***************************************************************************)
(* Proofs about the books of a served run: its outputs and its costs.      *)
(***************************************************************************)
EXTENDS ServedRunProofs, NodeInputs

(* The steps of a run as the books see them. Runners and the superstep that *)
(* ends write to them, the run is completed or closed, the stream moves on, *)
(* or nothing is entered but what the host charges.                         *)
Running(n) ==
    /\ ServedRunnerStep(n) \/ ServedHostStep(n)
    /\ RunnerStep(n) \/ HostStep(n)
    /\ UNCHANGED <<latest, row, answer, cost, charged>>
Early == {"idle", "loadingCatalog", "compiling"}
Pending == {"loadingCatalog", "compiling", "streaming", "completing"}
Applied == ApplySuperstep /\ ApplyOutputs(Returned)
Ended == ServedComplete \/ ServedClose
Moved ==
    /\ \/ StartSuperstep /\ NoEntry
       \/ \E n \in graph.nodes : RouterThrows(n) /\ NoEntry
       \/ ServedTakeOutput
    /\ UNCHANGED <<latest, row, answer, spent, stepCosts, charged>>
Elapsed ==
    /\ EngineOnly \/ UNCHANGED vars
    /\ NoEntry
    /\ runStatus' = runStatus \/ (runStatus' \in {"none", "RUNNING"} /\ phase = "idle")
    /\ result' = "SUCCESS" => result = "SUCCESS"
    /\ phase' = "completing" => phase = "completing" \/ StreamEnds
    /\ phase' \in Early => phase \in Early
    /\ phase' = "idle" => phase = "idle" /\ runStatus' = runStatus
    /\ phase' \in Pending =>
          \/ phase = "idle" /\ runStatus' = "RUNNING"
          \/ phase \in Pending /\ runStatus' = runStatus

LEMMA LedgerCases ==
    ASSUME RunInv, [ServedNext]_servedVars
    PROVE  \/ \E n \in graph.nodes : Running(n)
           \/ Applied \/ Ended \/ Moved \/ Elapsed
           \/ Charge
<1> USE DEF Elapsed, EngineOnly, Early, Pending
<1>1. CASE UNCHANGED servedVars
  BY <1>1 DEF servedVars, mcpVars, vars, engineVars, NoEntry
<1>2. CASE ServedStartRun \/ (Refused /\ NoEntry)
  BY <1>2 DEF ServedStartRun, McpStartRun, StartRun, Catch, Refused, StartRunFails
<1>3. CASE (Loading \/ McpCatalogStep \/ \E s \in Servers : Closing(s)) /\ Elsewhere
  BY <1>3 DEF Loading, McpCatalogStep, CatalogStep, CatalogLoads, CatalogLoadFails, Catch, Closing,
     vars, engineVars, Elsewhere
<1>4. CASE ServedEngineStep
  <2>1. CASE (Compile \/ CompileFails \/ StreamEnds \/ StreamThrows \/ Cleanup) /\ NoEntry
    BY <2>1 DEF Compile, CompileFails, StreamEnds, StreamThrows, Cleanup, Catch
  <2>2. CASE (Finalize \/ FinalizeFails) /\ NoEntry
    BY <2>2 DEF Finalize, FinalizeFails, EnterFinally
  <2>3. CASE ApplySuperstep /\ ApplyOutputs(Returned)
    BY <2>3 DEF Applied
  <2>4. CASE ServedTakeOutput
    BY <2>4 DEF Moved, ServedTakeOutput, AddCost
  <2>5. CASE (StartSuperstep \/ \E n \in graph.nodes : RouterThrows(n)) /\ NoEntry
    BY <2>5 DEF Moved, NoEntry, ledgerVars
  <2> QED
    BY <1>4, <2>1, <2>2, <2>3, <2>4, <2>5 DEF ServedEngineStep, Ended
<1>5. ASSUME NEW n \in graph.nodes, ServedRunnerStep(n) \/ ServedHostStep(n)
      PROVE  Running(n)
  <2>1. RunnerStep(n) \/ HostStep(n)
    BY <1>5 DEF ServedRunnerStep, ServedHostStep, HandlerReports, RunnerStep, HostStep
  <2>2. UNCHANGED <<latest, row, answer, cost, charged>>
    BY <1>5 DEF ServedRunnerStep, ServedHostStep, HandlerReports, StartStep, Spend, NoEntry, ledgerVars
  <2> QED
    BY <1>5, <2>1, <2>2 DEF Running
<1>6. CASE (Timeout \/ ServedAbort) /\ Elsewhere
  BY <1>6 DEF Timeout, ServedAbort, Abort, Elsewhere, engineVars
<1>7. CASE (Listening \/ Settling)
  BY <1>7 DEF Listening, Settling, mcpVars, vars, engineVars
<1> QED
  BY <1>1, <1>2, <1>3, <1>4, <1>5, <1>6, <1>7 DEF ServedNext, ServedAbort, Refused

-----------------------------------------------------------------------------
(* Outputs. While the stream runs, a runner that has started and a node     *)
(* that has completed are at the last step of their node; a node not yet    *)
(* started in this superstep has its last output in the channel, or has     *)
(* never run.                                                               *)
AtLastStep(n) ==
    n \in done \/ pc[n] \in (InFlight \ {"starting"}) \cup {"returned"} => LastStep(n, stepOf[n])
KnownOutput(n) ==
    IF n \in outputs THEN LastStep(n, latest[n]) ELSE ~HasStep(n)

(* What the channel, the row and `done` have.                               *)
OutputsInv ==
    /\ DOMAIN latest = outputs
    /\ row = [cost |-> row.cost, outputs |-> row.outputs]
    /\ runStatus = "SUCCESS" => row.outputs = latest
    /\ result = "SUCCESS" => answer.outputs = latest
    /\ phase = "streaming" =>
          \A n \in graph.nodes :
             /\ AtLastStep(n)
             /\ n \notin active \/ pc[n] = "starting" => KnownOutput(n)
    /\ phase = "completing" \/ runStatus = "SUCCESS" =>
          \A n \in graph.nodes : KnownOutput(n)

(* A step of a runner in the stream: its node gets a new last step, or its  *)
(* last step stays where it is.                                             *)
LEMMA OutputsRunner ==
    ASSUME RunInv, OutputsInv, NEW n \in graph.nodes, RunnerStep(n) \/ HostStep(n),
           UNCHANGED <<latest, row, answer>>
    PROVE  OutputsInv'
<1>1. TypeOK
  BY DEF RunInv, TypeInv
<1>2. /\ UNCHANGED <<graph, outputs, active, done>>
      /\ UNCHANGED <<phase, runStatus, result>>
  BY RunnerCases DEF execVars, engineVars
<1>3. /\ pc[n] \in InFlight /\ pc'[n] \notin {"idle", "starting"}
      /\ \A m \in graph.nodes \ {n} : pc'[m] = pc[m] /\ stepOf'[m] = stepOf[m]
  BY <1>1, RunnerEffect
<1>4. phase # "completing" /\ runStatus # "SUCCESS"
  BY <1>3 DEF RunInv, SuccessMeansAllDone, InFlight
<1>5. ASSUME phase = "streaming", NEW m \in graph.nodes
      PROVE  /\ AtLastStep(m)'
             /\ m \notin active' \/ pc'[m] = "starting" => KnownOutput(m)'
  <2>1. /\ AtLastStep(m)
        /\ m \notin active \/ pc[m] = "starting" => KnownOutput(m)
        /\ n \in active \ done
    BY <1>3, <1>5 DEF OutputsInv, RunInv, StreamInv, InFlight
  <2>2. CASE UNCHANGED <<stepOf>> /\ DOMAIN steps' = DOMAIN steps
             /\ (\A i \in DOMAIN steps : steps'[i].node = steps[i].node)
             /\ pc[n] # "starting"
    <3>1. \A i : LastStep(m, i) => LastStep(m, i)'
      BY <2>2 DEF LastStep
    <3>2. HasStep(m)' => HasStep(m)
      BY <2>2 DEF HasStep
    <3>3. AtLastStep(m)'
      BY <1>2, <1>3, <2>1, <2>2, <3>1 DEF AtLastStep, InFlight
    <3> QED
      BY <1>2, <1>3, <2>1, <2>2, <3>1, <3>2, <3>3 DEF KnownOutput
  <2>3. CASE pc[n] = "starting" /\ Appends(n)
    <3>1. /\ Len(steps') \in Nat /\ DOMAIN steps' = 1..Len(steps')
          /\ DOMAIN steps' = DOMAIN steps \cup {Len(steps')}
          /\ steps'[Len(steps')].node = n
          /\ \A i \in DOMAIN steps : steps'[i] = steps[i]
      BY <1>1, <1>2, <2>3, AppendRow, LenProperties DEF Appends, TypeOK
    <3>2. \A j \in DOMAIN steps' : steps'[j].node = n => j <= Len(steps')
      BY <3>1
    <3>3. m # n => /\ \A i : LastStep(m, i) => LastStep(m, i)'
                   /\ HasStep(m)' => HasStep(m)
      BY <3>1 DEF LastStep, HasStep
    <3>4. CASE m # n
      BY <1>2, <1>3, <2>1, <3>3, <3>4 DEF AtLastStep, KnownOutput
    <3>5. CASE m = n
      <4>1. pc'[n] = "started" => stepOf'[n] = Len(steps')
        BY <1>1, <2>3, RunnerCases DEF Moves, TypeOK, InFlight
      <4>2. pc'[n] \in {"started", "threw"}
        BY <1>1, <2>3, RunnerEffect
      <4>3. pc'[n] = "started" => LastStep(n, stepOf[n])'
        BY <3>1, <3>2, <4>1 DEF LastStep
      <4> QED
        BY <1>2, <2>1, <3>5, <4>2, <4>3 DEF AtLastStep, InFlight
    <3> QED
      BY <3>4, <3>5
  <2>4. CASE pc[n] = "starting" /\ UNCHANGED steps
    <3>1. pc'[n] = "threw"
      <4>1. ~Appends(n)
        BY <1>1, <2>4, AppendRow, LenProperties, AppendProperties DEF Appends, TypeOK
      <4> QED
        BY <1>1, <2>4, <4>1, RunnerCases DEF Moves, TypeOK
    <3>2. (\A i : LastStep(m, i) => LastStep(m, i)') /\ (HasStep(m)' => HasStep(m))
      BY <1>2, <2>4 DEF LastStep, HasStep
    <3> QED
      BY <1>2, <1>3, <2>1, <3>1, <3>2 DEF AtLastStep, KnownOutput, InFlight
  <2>5. pc[n] # "starting" =>
          /\ DOMAIN steps' = DOMAIN steps
          /\ \A i \in DOMAIN steps : steps'[i].node = steps[i].node
          /\ stepOf' = stepOf
    BY <1>1, RunnerCases, RunnerRows DEF Moves
  <2>6. pc[n] = "starting" => Appends(n) \/ UNCHANGED steps
    BY RunnerCases DEF Moves
  <2> QED
    BY <2>2, <2>3, <2>4, <2>5, <2>6
<1> QED
  BY <1>2, <1>4, <1>5 DEF OutputsInv

(* The end of a superstep: every node of it is at its last step.            *)
LEMMA OutputsApplied == ASSUME RunInv, OutputsInv, Applied PROVE OutputsInv'
<1>1. /\ phase = "streaming" /\ done = active
      /\ outputs' = outputs \cup active /\ active' = {} /\ done' = {}
      /\ UNCHANGED <<graph, phase, runStatus, result, pc, stepOf, steps>>
  BY DEF Applied, ApplySuperstep, EndSuperstep, engineVars, runnerVars
<1>2. /\ latest' = [n \in outputs \cup active |-> IF n \in active THEN stepOf[n] ELSE latest[n]]
      /\ UNCHANGED <<row, answer>>
  BY DEF Applied, ApplyOutputs, Spread, Returned, OutputsInv
<1>3. runStatus # "SUCCESS" /\ result # "SUCCESS" /\ \A n \in graph.nodes : pc[n] = "idle"
  BY <1>1 DEF RunInv, StatusInv, OutcomeInv, StreamInv
<1>4. ASSUME NEW n \in graph.nodes
      PROVE  AtLastStep(n)' /\ KnownOutput(n)'
  <2>1. \A i : LastStep(n, i) => LastStep(n, i)'
    BY <1>1 DEF LastStep
  <2>2. n \in active => LastStep(n, stepOf[n])
    BY <1>1 DEF OutputsInv, AtLastStep
  <2>3. n \notin active => KnownOutput(n)
    BY <1>1 DEF OutputsInv
  <2>4. KnownOutput(n)'
    BY <1>1, <1>2, <2>1, <2>2, <2>3 DEF KnownOutput, HasStep, LastStep
  <2>5. AtLastStep(n)'
    BY <1>1, <1>3 DEF AtLastStep, InFlight
  <2> QED
    BY <2>4, <2>5
<1> QED
  BY <1>1, <1>2, <1>3, <1>4 DEF OutputsInv

(* The stream moves on: a superstep begins, a node completes or its router  *)
(* throws.                                                                  *)
LEMMA OutputsMoved == ASSUME RunInv, OutputsInv, Moved PROVE OutputsInv'
<1>1. \/ StartSuperstep
      \/ \E n \in graph.nodes :
            RouterThrows(n) \/ \E b \in Branches(graph, n) : TakeOutput(n, b)
  BY DEF Moved, ServedTakeOutput
<1>2. /\ phase = "streaming"
      /\ UNCHANGED <<graph, phase, runStatus, result, outputs, stepOf, steps>>
      /\ UNCHANGED <<latest, row, answer>>
  BY <1>1 DEF Moved, StartSuperstep, BeginSuperstep, RouterThrows, TakeOutput, Complete, Step,
     execVars, engineVars
<1>3. /\ runStatus # "SUCCESS" /\ pc \in [graph.nodes -> RunnerState]
      /\ done \subseteq active
      /\ \A n \in graph.nodes : pc[n] # "idle" <=> n \in active \ done
  BY <1>2 DEF RunInv, StatusInv, StreamInv, TypeInv, TypeOK, SchedTypeOK
<1>4. ASSUME NEW n \in graph.nodes
      PROVE  AtLastStep(n)' /\ (n \notin active' \/ pc'[n] = "starting" => KnownOutput(n)')
  <2>1. AtLastStep(n) /\ (n \notin active \/ pc[n] = "starting" => KnownOutput(n))
    BY <1>2 DEF OutputsInv
  <2>2. (KnownOutput(n) => KnownOutput(n)') /\ (LastStep(n, stepOf[n]) => LastStep(n, stepOf[n])')
    BY <1>2 DEF KnownOutput, HasStep, LastStep
  <2>3. CASE StartSuperstep
    <3>1. /\ active = {} /\ done = {} /\ done' = {} /\ pc[n] = "idle"
          /\ pc'[n] \in {"idle", "starting"}
      BY <1>3, <2>3 DEF StartSuperstep, BeginSuperstep
    <3> QED
      BY <2>1, <2>2, <3>1 DEF AtLastStep, InFlight
  <2>4. ASSUME NEW m \in graph.nodes, RouterThrows(m)
        PROVE  AtLastStep(n)' /\ (n \notin active' \/ pc'[n] = "starting" => KnownOutput(n)')
    <3>1. /\ pc[m] = "returned" /\ UNCHANGED <<active, done>>
          /\ pc'[n] = IF n = m THEN "threw" ELSE pc[n]
      BY <1>3, <2>4 DEF RouterThrows, Step, execVars
    <3> QED
      BY <2>1, <2>2, <3>1 DEF AtLastStep, InFlight
  <2>5. ASSUME NEW m \in graph.nodes, NEW b \in Branches(graph, m), TakeOutput(m, b)
        PROVE  AtLastStep(n)' /\ (n \notin active' \/ pc'[n] = "starting" => KnownOutput(n)')
    <3>1. /\ pc[m] = "returned" /\ active' = active /\ done' = done \cup {m}
          /\ pc'[n] = IF n = m THEN "idle" ELSE pc[n]
      BY <1>3, <2>5 DEF TakeOutput, Complete
    <3> QED
      BY <2>1, <2>2, <3>1 DEF AtLastStep, InFlight
  <2> QED
    BY <1>1, <2>3, <2>4, <2>5
<1> QED
  BY <1>2, <1>3, <1>4 DEF OutputsInv

(* The run is completed or closed.                                          *)
LEMMA OutputsEnded == ASSUME RunInv, OutputsInv, Ended PROVE OutputsInv'
<1>1. /\ UNCHANGED <<graph, outputs, stepOf, steps, latest>>
      /\ phase \in {"completing", "closing"}
      /\ phase' \notin {"streaming", "completing"}
  BY DEF Ended, ServedComplete, ServedClose, CompleteSuccess, CompleteSuccessFails, CloseRun,
     CloseRunFails, EnterFinally, Catch, RowWritten, execVars, runnerVars
<1>2. \/ /\ phase = "completing"
         /\ \/ runStatus' = "SUCCESS" /\ CompleteRow
            \/ runStatus' = runStatus /\ row' = row
         /\ \/ answer' = answer /\ result' # "SUCCESS"
            \/ Answer
      \/ /\ runStatus' \in {runStatus, "FAILED", "ABORTED"}
         /\ \/ row' = row
            \/ runStatus' # runStatus /\ CloseRow
         /\ answer' = answer /\ result' # "SUCCESS"
  BY DEF Ended, ServedComplete, ServedClose, CompleteSuccess, CompleteSuccessFails, CloseRun,
     CloseRunFails, EnterFinally, Catch, RowWritten, RunInv, OutcomeInv
<1>3. /\ CompleteRow => row'.outputs = latest /\ row' = [cost |-> row'.cost, outputs |-> row'.outputs]
      /\ CloseRow => row' = [cost |-> row'.cost, outputs |-> row'.outputs]
      /\ Answer => answer'.outputs = latest
  BY DEF CompleteRow, CloseRow, Answer, OutputsInv
<1>4. phase = "completing" \/ runStatus = "SUCCESS" =>
         \A n \in graph.nodes : KnownOutput(n)'
  BY <1>1 DEF OutputsInv, KnownOutput, HasStep, LastStep
<1>5. row' = [cost |-> row'.cost, outputs |-> row'.outputs]
  BY <1>2, <1>3 DEF OutputsInv
<1>6. (runStatus' = "SUCCESS" => row'.outputs = latest) /\ (result' = "SUCCESS" => answer'.outputs = latest)
  BY <1>2, <1>3 DEF OutputsInv
<1>7. runStatus' = "SUCCESS" => phase = "completing" \/ runStatus = "SUCCESS"
  BY <1>2
<1> QED
  BY <1>1, <1>4, <1>5, <1>6, <1>7 DEF OutputsInv

(* The other steps of the engine.                                           *)
LEMMA OutputsElapsed == ASSUME RunInv, OutputsInv, Elapsed PROVE OutputsInv'
<1>1. /\ UNCHANGED <<graph, active, done, outputs, pc, stepOf>>
      /\ UNCHANGED <<latest, row, answer>>
      /\ steps' = steps \/ (phase = "finalizing" /\ steps' = MarkStale(steps))
      /\ Compile \/ (phase' = "streaming" => phase = "streaming" /\ UNCHANGED steps)
  BY EngineEffect DEF Elapsed, NoEntry, ledgerVars, vars, execVars, engineVars, runnerVars
<1>2. /\ DOMAIN steps' = DOMAIN steps
      /\ \A i \in DOMAIN steps : steps'[i].node = steps[i].node
  BY <1>1, MarkStaleRows DEF RunInv, TypeInv, TypeOK
<1>3. ASSUME NEW n \in graph.nodes
      PROVE  (AtLastStep(n) => AtLastStep(n)') /\ (KnownOutput(n) => KnownOutput(n)')
  BY <1>1, <1>2 DEF AtLastStep, KnownOutput, LastStep, HasStep
<1>4. phase' = "streaming" => \A n \in graph.nodes :
         AtLastStep(n) /\ (n \notin active \/ pc[n] = "starting" => KnownOutput(n))
  <2>1. CASE Compile
    BY <2>1 DEF Compile, RunInv, FreshInv, AtLastStep, KnownOutput, HasStep, InFlight
  <2>2. CASE ~Compile
    BY <1>1, <2>2 DEF OutputsInv
  <2> QED
    BY <2>1, <2>2
<1>5. phase' = "completing" \/ runStatus' = "SUCCESS" => \A n \in graph.nodes : KnownOutput(n)
  <2>1. CASE StreamEnds
    BY <2>1 DEF StreamEnds, Finished, OutputsInv
  <2>2. CASE ~StreamEnds
    BY <2>2 DEF Elapsed, OutputsInv
  <2> QED
    BY <2>1, <2>2
<1>6. (runStatus' = "SUCCESS" => runStatus = "SUCCESS") /\ (result' = "SUCCESS" => result = "SUCCESS")
  BY DEF Elapsed
<1> QED
  BY <1>1, <1>3, <1>4, <1>5, <1>6 DEF OutputsInv

LEMMA OutputsNext == ASSUME RunInv, OutputsInv, [ServedNext]_servedVars PROVE OutputsInv'
<1>1. CASE Charge
  <2>1. /\ UNCHANGED <<graph, phase, runStatus, result, outputs, active, done, pc, stepOf, steps>>
        /\ UNCHANGED <<latest, answer>>
        /\ row' = [row EXCEPT !.cost = mergeCost(row.cost, HostReport)]
    BY <1>1 DEF Charge, ChargeRun, mcpVars, vars, execVars, engineVars, runnerVars
  <2>2. row' = [cost |-> row'.cost, outputs |-> row'.outputs] /\ row'.outputs = row.outputs
    BY <2>1 DEF OutputsInv
  <2>3. \A n \in graph.nodes : (AtLastStep(n)' <=> AtLastStep(n)) /\ (KnownOutput(n)' <=> KnownOutput(n))
    BY <2>1 DEF AtLastStep, KnownOutput, LastStep, HasStep
  <2> QED
    BY <2>1, <2>2, <2>3 DEF OutputsInv
<1>2. ASSUME NEW n \in graph.nodes, Running(n) PROVE OutputsInv'
  BY <1>2, OutputsRunner DEF Running
<1> QED
  BY <1>1, <1>2, LedgerCases, OutputsApplied, OutputsMoved, OutputsEnded, OutputsElapsed

LEMMA OutputsInvariant == ServedSpec => []OutputsInv
<1>1. ServedInit => OutputsInv
  BY DEF ServedInit, McpInit, Init, Unscheduled, LedgerInit, NewRow, OutputsInv
<1>2. RunInv /\ OutputsInv /\ [ServedNext]_servedVars => OutputsInv'
  BY OutputsNext
<1> QED
  BY <1>1, <1>2, ServedRunInv, PTL DEF ServedSpec

(* The row of a successful run, and `done`, have the output of the last     *)
(* execution of every node, which is the one its last step recorded: about  *)
(* the reducer of `outputs` and completeRun.                                *)
THEOREM LastOutputAlwaysWins == ServedSpec => []LastOutputWins
<1>1. RunInv /\ OutputsInv => LastOutputWins
  <2> SUFFICES ASSUME RunInv, OutputsInv, runStatus = "SUCCESS" PROVE LastOutputWins
    BY DEF LastOutputWins
  <2>1. /\ row.outputs = latest /\ DOMAIN latest = outputs /\ outputs \subseteq graph.nodes
        /\ result = "SUCCESS" => answer.outputs = latest
        /\ \A n \in graph.nodes : KnownOutput(n)
    BY DEF RunInv, TypeInv, TypeOK, SchedTypeOK, OutputsInv
  <2> QED
    BY <2>1 DEF LastOutputWins, KnownOutput, LastStep, HasStep
<1> QED
  BY <1>1, OutputsInvariant, ServedRunInv, PTL

-----------------------------------------------------------------------------
(* Inputs. What a node is given is final when its superstep begins. On an   *)
(* ordered graph no node of a superstep leads to another one, and a node    *)
(* with an output has the one of its only step; that the graph compiled is  *)
(* known of every node that runs, also once the stream is over.             *)
InputsInv ==
    Ordered =>
        /\ active # {} => Compilable(graph)
        /\ \A a, m \in active : m \notin Descendants(graph, a)
        /\ \A a \in outputs : LastStep(a, latest[a])

(* A superstep begins, or ends, or nothing of it changes but how far its    *)
(* nodes are.                                                               *)
LEMMA SuperstepCases ==
    ASSUME RunInv, [ServedNext]_servedVars
    PROVE  \/ StartSuperstep /\ UNCHANGED <<outputs, latest>>
           \/ Applied
           \/ UNCHANGED <<graph, active, outputs, latest>>
<1>1. ASSUME NEW n \in graph.nodes, Running(n)
      PROVE  UNCHANGED <<graph, active, outputs, latest>>
  BY <1>1, RunnerCases DEF Running, execVars
<1>2. CASE Moved
  BY <1>2 DEF Moved, ServedTakeOutput, StartSuperstep, BeginSuperstep, RouterThrows, TakeOutput,
     Complete, Step, execVars
<1>3. CASE Ended
  BY <1>3 DEF Ended, ServedComplete, ServedClose, CompleteSuccess, CompleteSuccessFails, CloseRun,
     CloseRunFails, RowWritten, CompleteRow, CloseRow, execVars
<1>4. CASE Elapsed
  BY <1>4, EngineEffect DEF Elapsed, NoEntry, ledgerVars, vars, execVars
<1>5. CASE Charge
  BY <1>5 DEF Charge, ChargeRun, mcpVars, vars, execVars
<1> QED
  BY <1>1, <1>2, <1>3, <1>4, <1>5, LedgerCases

(* No step vanishes or becomes another node's.                              *)
LEMMA StepsStay ==
    ASSUME RunInv, [Next]_vars
    PROVE  \A i \in DOMAIN steps : i \in DOMAIN steps' /\ steps'[i].node = steps[i].node
<1>1. TypeOK
  BY DEF RunInv, TypeInv
<1>2. CASE UNCHANGED vars
  BY <1>2 DEF vars, runnerVars
<1>3. ASSUME NEW n \in graph.nodes, RunnerStep(n) \/ HostStep(n)
      PROVE  \A i \in DOMAIN steps : i \in DOMAIN steps' /\ steps'[i].node = steps[i].node
  BY <1>1, <1>3, RunnerEffect
<1>4. CASE EngineOnly
  BY <1>1, <1>4, EngineEffect, MarkStaleRows DEF TypeOK
<1>5. CASE \/ StartSuperstep \/ ApplySuperstep
           \/ \E n \in graph.nodes :
                 RouterThrows(n) \/ \E b \in Branches(graph, n) : TakeOutput(n, b)
  BY <1>5 DEF StartSuperstep, ApplySuperstep, RouterThrows, TakeOutput, runnerVars
<1> QED
  BY <1>2, <1>3, <1>4, <1>5 DEF Next, EngineStep, EngineOnly

LEMMA InputsNext ==
    ASSUME RunInv, RunInv', RunOrderInv', OutputsInv', InputsInv, [ServedNext]_servedVars
    PROVE  InputsInv'
<1> SUFFICES ASSUME Ordered'
             PROVE  /\ active' # {} => Compilable(graph')
                    /\ \A a, m \in active' : m \notin Descendants(graph', a)
                    /\ \A a \in outputs' : LastStep(a, latest[a])'
  BY DEF InputsInv
<1>1. OrderInv' /\ StepsAreInOrder' /\ TypeOK /\ TypeOK'
  BY DEF RunOrderInv, RunInv, TypeInv
<1>2. [Next]_vars
  BY ServedStepIsStep, McpStepIsStep
<1>3. ASSUME UNCHANGED <<graph, outputs, latest>>
      PROVE  \A a \in outputs' : LastStep(a, latest[a])'
  <2> SUFFICES ASSUME NEW a \in outputs PROVE LastStep(a, latest[a])'
    BY <1>3
  <2> DEFINE i == latest[a]
  <2>1. i \in DOMAIN steps /\ steps[i].node = a
    BY <1>3 DEF InputsInv, Ordered, LastStep
  <2>2. i \in DOMAIN steps' /\ steps'[i].node = a
    BY <1>2, <2>1, StepsStay
  <2>3. DOMAIN steps' \subseteq Nat
    BY <1>1, LenProperties DEF TypeOK
  <2>4. \A j \in DOMAIN steps' : steps'[j].node = a => j = i
    BY <2>2 DEF StepsAreInOrder, RunOrderInv
  <2> QED
    BY <1>3, <2>2, <2>3, <2>4 DEF LastStep
<1>4. CASE StartSuperstep /\ UNCHANGED <<outputs, latest>>
  <2>1. /\ graph' = graph /\ phase = "streaming" /\ phase' = "streaming"
        /\ active = {} /\ done' = done
    BY <1>4 DEF StartSuperstep, BeginSuperstep, engineVars
  <2>2. done' = {} /\ Compilable(graph)
    BY <1>1, <2>1 DEF TypeOK, SchedTypeOK, RunInv, TypeInv
  <2>3. \A a, m \in active' : m \notin Descendants(graph', a)
    BY <1>1, <2>2 DEF OrderInv, Outstanding
  <2> QED
    BY <1>3, <1>4, <2>1, <2>2, <2>3
<1>5. CASE Applied
  <2>1. /\ active' = {} /\ phase' = "streaming" /\ outputs' \subseteq graph'.nodes
    BY <1>1, <1>5 DEF Applied, ApplySuperstep, EndSuperstep, engineVars, TypeOK, SchedTypeOK
  <2>2. \A a \in outputs' : KnownOutput(a)'
    BY <2>1 DEF OutputsInv
  <2> QED
    BY <2>1, <2>2 DEF KnownOutput
<1>6. CASE UNCHANGED <<graph, active, outputs, latest>>
  BY <1>3, <1>6 DEF InputsInv, Ordered
<1> QED
  BY <1>4, <1>5, <1>6, SuperstepCases

(* On a well-nested acyclic graph a node whose inputs are resolved is given *)
(* the last output of every node before it that runs at all, and none of    *)
(* them runs later: about extractPredecessorOutputs and the state bindings  *)
(* of the node runner.                                                      *)
THEOREM InputsAreComplete == ServedSpec => []SeesAncestors
<1>1. ServedInit => InputsInv
  BY DEF ServedInit, McpInit, Init, Unscheduled, InputsInv
<1>2. /\ RunInv /\ RunInv' /\ RunOrderInv' /\ OutputsInv'
      /\ InputsInv /\ [ServedNext]_servedVars
      => InputsInv'
  BY InputsNext
<1>3. RunInv /\ RunOrderInv /\ OutputsInv /\ InputsInv => SeesAncestors
  <2> SUFFICES ASSUME RunInv, RunOrderInv, OutputsInv, InputsInv, Ordered,
                      NEW n \in graph.nodes, pc[n] = "started"
               PROVE  LET ran == {steps[i].node : i \in DOMAIN steps} \cap Above(graph, n)
                          shownTo == extractPredecessorOutputs(n)
                      IN
                      /\ Above(graph, n) \cap (ready \cup held \cup active \cup fired) = {}
                      /\ {shownTo[i].id : i \in DOMAIN shownTo} = ran
                      /\ InDataFlowOrder(graph, [i \in DOMAIN shownTo |-> shownTo[i].id])
                      /\ \A i \in DOMAIN shownTo : LastStep(shownTo[i].id, shownTo[i].output)
                      /\ \A m \in ran : LastStep(m, resolveExplicit(ran)[m])
    BY DEF SeesAncestors
  <2> DEFINE ids == computeAncestors(graph, n)
             ran == {steps[i].node : i \in DOMAIN steps} \cap Above(graph, n)
             shownTo == extractPredecessorOutputs(n)
  <2>1. /\ OrderInv /\ RowsInv /\ n \in active \ done /\ Compilable(graph)
        /\ DOMAIN latest = outputs
        /\ \A a, m \in active : m \notin Descendants(graph, a)
        /\ \A a \in outputs : LastStep(a, latest[a])
    BY DEF RunOrderInv, AtWork, InputsInv, OutputsInv
  <2>2. \A a \in Above(graph, n) : a \notin ready \cup held \cup active \cup fired
    BY <2>1 DEF Above, OrderInv, Outstanding
  <2>3. {ids[i] : i \in DOMAIN ids} = Above(graph, n) /\ InDataFlowOrder(graph, ids)
    <3>1. /\ graph \in Graph /\ Acyclic(graph)
          /\ \A e \in DOMAIN graph.edges : graph.edges[e].from \in graph.nodes
      BY <2>1, GraphsAssumption
         DEF Ordered, OrderedGraphs, Compilable, StateGraphAccepts
    <3>2. OrderedAncestors(graph, n) = Above(graph, n)
      BY <3>1, AllAncestorsOfAcyclic
    <3>3. ToSet(ids) = OrderedAncestors(graph, n) /\ InDataFlowOrder(graph, ids)
      BY <3>1, AncestorsAreInOrder DEF AncestorsInOrder
    <3> HIDE DEF ids
    <3> QED
      BY <3>2, <3>3 DEF ToSet
  <2>4. ran = outputs \cap Above(graph, n)
    <3>1. ASSUME NEW a \in ran PROVE a \in outputs
      BY <2>1, <2>2, <3>1 DEF RowsInv, Executed, RunInv, TypeInv, TypeOK, SchedTypeOK
    <3>2. ASSUME NEW a \in outputs PROVE a \in {steps[i].node : i \in DOMAIN steps}
      BY <2>1 DEF LastStep
    <3> QED
      BY <3>1, <3>2
  <2>5. shownTo = [i \in {i \in DOMAIN ids : ids[i] \in outputs} |->
                      [id |-> ids[i], output |-> latest[ids[i]]]]
    BY <2>1 DEF extractPredecessorOutputs, OutputsOf
  <2>6. {shownTo[i].id : i \in DOMAIN shownTo} = ran
    <3> HIDE DEF ids, ran, shownTo
    <3> QED
      BY <2>3, <2>4, <2>5
  <2>7. InDataFlowOrder(graph, [i \in DOMAIN shownTo |-> shownTo[i].id])
    <3> HIDE DEF ids, shownTo
    <3> QED
      BY <2>3, <2>5 DEF InDataFlowOrder
  <2>8. \A i \in DOMAIN shownTo : LastStep(shownTo[i].id, shownTo[i].output)
    <3> HIDE DEF ids, shownTo
    <3> QED
      BY <2>1, <2>5
  <2>9. \A m \in ran : LastStep(m, resolveExplicit(ran)[m])
    <3> HIDE DEF ran
    <3> QED
      BY <2>1, <2>4 DEF resolveExplicit, getByPath
  <2> QED
    BY <2>2, <2>6, <2>7, <2>8, <2>9
<1>4. ServedSpec => []RunOrderInv
  BY ServedRunIsRun, McpRunIsRun, RunOrderInvariant
<1> QED
  BY <1>1, <1>2, <1>3, <1>4, OutputsInvariant, ServedRunInv, PTL DEF ServedSpec

-----------------------------------------------------------------------------
(* Costs. Bags in which nothing is counted twice.                           *)

LEMMA BagOfSet == ASSUME NEW S PROVE DOMAIN SetToBag(S) = S
BY DEF SetToBag

LEMMA DisjointBags ==
    ASSUME NEW S, NEW T, S \cap T = {}
    PROVE  SetToBag(S) (+) SetToBag(T) = SetToBag(S \cup T)
BY DEF SetToBag, (+)

LEMMA BagsCommute ==
    ASSUME NEW S, NEW T
    PROVE  SetToBag(S) (+) SetToBag(T) = SetToBag(T) (+) SetToBag(S)
BY DEF SetToBag, (+)

LEMMA EmptyIsNeutral ==
    ASSUME NEW S
    PROVE  /\ SetToBag(S) (+) EmptyBag = SetToBag(S)
           /\ EmptyBag (+) SetToBag(S) = SetToBag(S)
BY DisjointBags DEF EmptyBag

(* The costs of nodes and steps.                                            *)
Whos == {"resolver", "handler"}
Cost == {SetToBag(S) : S \in SUBSET (Nat \X Whos)}
Reports(i) == {i} \X Whos

LEMMA CostIsSet ==
    ASSUME NEW c \in Cost
    PROVE  DOMAIN c \subseteq Nat \X Whos /\ c = SetToBag(DOMAIN c)
BY BagOfSet DEF Cost

LEMMA SetIsCost ==
    ASSUME NEW S, S \subseteq Nat \X Whos
    PROVE  SetToBag(S) \in Cost
BY DEF Cost

LEMMA EmptyIsCost == EmptyBag \in Cost /\ DOMAIN EmptyBag = {}
BY SetIsCost, BagOfSet DEF EmptyBag

(* Each runner has reported what its node's resolver and handler cost, each *)
(* once and to its own step, and a step has no cost before it is finished.  *)
SpentInv ==
    /\ stepCosts \in Seq(Cost) /\ Len(stepCosts) = Len(steps)
    /\ \A i \in DOMAIN steps : ReportsOf(i) \subseteq Reports(i)
    /\ spent \in [graph.nodes -> Cost]
    /\ \A n \in graph.nodes :
          /\ pc[n] \in {"starting", "started", "resolving"} => spent[n] = EmptyBag
          /\ pc[n] = "idle" /\ n \notin active => spent[n] = EmptyBag
          /\ pc[n] = "handling" => DOMAIN spent[n] \subseteq {<<stepOf[n], "resolver">>}
          /\ pc[n] \in {"recordingSuccess", "returned"} =>
                /\ DOMAIN spent[n] \subseteq Reports(stepOf[n])
                /\ <<stepOf[n], "handler">> \in DOMAIN spent[n]
          /\ pc[n] \in {"started", "resolving", "handling", "recordingSuccess"} =>
                stepCosts[stepOf[n]] = EmptyBag

(* What the runner of n enters, by what becomes of n.                       *)
Enters(n) ==
    \/ /\ pc[n] = "starting" /\ pc'[n] = "started" /\ stepOf'[n] = Len(steps')
       /\ Appends(n) /\ stepCosts' = Append(stepCosts, EmptyBag) /\ spent' = spent
    \/ /\ pc[n] = "starting" /\ pc'[n] = "threw" /\ spent' = spent
       /\ \/ UNCHANGED <<steps, stepCosts>>
          \/ Appends(n) /\ stepCosts' = Append(stepCosts, EmptyBag)
    \/ /\ pc[n] = "started" /\ pc'[n] \in {"resolving", "handling", "recordingFailure"}
       /\ UNCHANGED <<spent, stepCosts>>
    \/ /\ pc[n] = "resolving" /\ pc'[n] = "handling" /\ stepCosts' = stepCosts
       /\ spent' = [spent EXCEPT ![n] = mergeCost(spent[n], Report(stepOf[n], "resolver"))]
    \/ /\ pc[n] = "handling" /\ pc'[n] = "recordingSuccess" /\ stepCosts' = stepCosts
       /\ spent' = [spent EXCEPT ![n] = mergeCost(spent[n], Report(stepOf[n], "handler"))]
    \/ /\ pc[n] \in {"resolving", "handling"} /\ pc'[n] = "recordingFailure"
       /\ stepCosts' = stepCosts /\ spent' = [spent EXCEPT ![n] = EmptyBag]
    \/ /\ pc[n] = "recordingSuccess" /\ pc'[n] = "returned" /\ spent' = spent
       /\ stepCosts' = [stepCosts EXCEPT ![stepOf[n]] = spent[n]]
    \/ /\ pc[n] = "recordingSuccess" /\ pc'[n] = "recordingFailure"
       /\ spent' = [spent EXCEPT ![n] = EmptyBag]
       /\ \/ stepCosts' = stepCosts
          \/ stepCosts' = [stepCosts EXCEPT ![stepOf[n]] = spent[n]]
    \/ /\ pc[n] = "recordingFailure" /\ pc'[n] = "threw" /\ spent' = spent
       /\ \/ stepCosts' = stepCosts
          \/ stepCosts' = [stepCosts EXCEPT ![stepOf[n]] = EmptyBag]

LEMMA EntersCases ==
    ASSUME TypeOK, NEW n \in graph.nodes, Running(n)
    PROVE  Enters(n)
<1>1. pc \in [graph.nodes -> RunnerState] /\ stepOf \in [graph.nodes -> Nat]
  BY DEF TypeOK
<1>2. CASE RecordStart(n) /\ StartStep
  BY <1>1, <1>2 DEF RecordStart, Step, StartStep, Enters, Appends
<1>3. CASE RecordStartFails(n) /\ IF steps' = steps THEN NoEntry ELSE StartStep
  BY <1>1, <1>3 DEF RecordStartFails, Step, StartStep, NoEntry, ledgerVars, Enters, Appends
<1>4. CASE (Resolve(n) \/ NodeThrows(n) \/ RecordFailureFails(n)) /\ NoEntry
  BY <1>1, <1>4 DEF Resolve, NodeThrows, RecordFailureFails, Step, NoEntry, ledgerVars, Enters
<1>5. CASE /\ RecordSuccess(n)
           /\ FinishStep(stepOf[n], spent[n])
           /\ UNCHANGED <<spent, cost, latest, row, answer, charged>>
  BY <1>1, <1>5 DEF RecordSuccess, Step, FinishStep, Enters
<1>6. CASE /\ RecordSuccessFails(n)
           /\ Forget(n)
           /\ IF steps' = steps THEN UNCHANGED stepCosts ELSE FinishStep(stepOf[n], spent[n])
  BY <1>1, <1>6 DEF RecordSuccessFails, Step, Forget, FinishStep, Enters
<1>7. CASE /\ RecordFailure(n)
           /\ FinishStep(stepOf[n], EmptyBag)
           /\ UNCHANGED <<spent, cost, latest, row, answer, charged>>
  BY <1>1, <1>7 DEF RecordFailure, Step, FinishStep, Enters
<1>8. CASE ResolverSettles(n) /\ Spend(n, stepOf[n], "resolver")
  BY <1>1, <1>8 DEF ResolverSettles, Step, Spend, Enters
<1>9. CASE HandlerReports(n)
  BY <1>1, <1>9 DEF HandlerReports, HandlerSettles, Step, Spend, Enters
<1>10. CASE HostCallThrows(n) /\ Forget(n) /\ UNCHANGED stepCosts
  BY <1>1, <1>10 DEF HostCallThrows, Step, Forget, Enters
<1> QED
  BY <1>2, <1>3, <1>4, <1>5, <1>6, <1>7, <1>8, <1>9, <1>10
     DEF Running, ServedRunnerStep, ServedHostStep

(* What an entry does to the costs of the steps, and that a row keeps the   *)
(* reports of its own step.                                                 *)
LEMMA EntersSteps ==
    ASSUME RunInv, SpentInv, NEW n \in graph.nodes, Running(n)
    PROVE  /\ stepCosts' \in Seq(Cost) /\ Len(stepCosts') = Len(steps')
           /\ \A i \in DOMAIN steps' : ReportsOf(i)' \subseteq Reports(i)
           /\ \A i \in DOMAIN steps' :
                 IF i \in DOMAIN steps
                 THEN i # stepOf[n] \/ pc[n] = "starting" => stepCosts'[i] = stepCosts[i]
                 ELSE stepCosts'[i] = EmptyBag
           /\ pc'[n] \in {"resolving", "handling", "recordingSuccess"} => stepCosts' = stepCosts
           /\ pc'[n] = "returned" => stepCosts'[stepOf[n]] = spent[n]
<1>1. /\ TypeOK /\ Enters(n) /\ (RunnerStep(n) \/ HostStep(n))
      /\ steps \in Seq(Row) /\ stepCosts \in Seq(Cost)
      /\ Len(steps) \in Nat /\ Len(stepCosts) = Len(steps)
      /\ DOMAIN steps = 1..Len(steps) /\ DOMAIN stepCosts = 1..Len(steps)
  BY EntersCases, LenProperties DEF RunInv, TypeInv, TypeOK, Row, Running, SpentInv
<1>2. CASE stepCosts' = stepCosts /\ steps' = steps /\ pc'[n] # "returned"
  BY <1>1, <1>2 DEF SpentInv, ReportsOf
<1>3. CASE Appends(n) /\ stepCosts' = Append(stepCosts, EmptyBag) /\ pc[n] = "starting"
           /\ pc'[n] \in {"started", "threw"}
  <2>1. /\ Len(steps') = Len(steps) + 1 /\ DOMAIN steps' = 1..(Len(steps) + 1)
    BY <1>1, <1>3, AppendProperties, AppendRow, LenProperties DEF Appends, Row
  <2>2. /\ stepCosts' \in Seq(Cost) /\ Len(stepCosts') = Len(steps) + 1
        /\ \A i \in 1..Len(steps) : stepCosts'[i] = stepCosts[i]
        /\ stepCosts'[Len(steps) + 1] = EmptyBag
    BY <1>1, <1>3, AppendProperties, EmptyIsCost
  <2>3. \A i \in DOMAIN steps' : ReportsOf(i)' \subseteq Reports(i)
    BY <1>1, <2>1, <2>2, EmptyIsCost DEF SpentInv, ReportsOf
  <2>4. \A i \in DOMAIN steps' : IF i \in DOMAIN steps THEN stepCosts'[i] = stepCosts[i]
                                 ELSE stepCosts'[i] = EmptyBag
    BY <1>1, <2>1, <2>2
  <2> QED
    BY <1>3, <2>1, <2>2, <2>3, <2>4
<1>4. CASE pc[n] # "starting"
  <2>1. /\ DOMAIN steps' = DOMAIN steps /\ steps' \in Seq(Row)
        /\ stepOf[n] \in DOMAIN steps
    BY <1>1, <1>4, RunnerRows, RunnerEffect DEF Running
  <2>2. Len(steps') = Len(steps)
    BY <1>1, <2>1, LenProperties
  <2>3. CASE stepCosts' = stepCosts /\ pc'[n] # "returned"
    BY <1>1, <1>4, <2>1, <2>2, <2>3 DEF SpentInv, ReportsOf
  <2>4. ASSUME NEW c \in Cost, DOMAIN c \subseteq Reports(stepOf[n]),
               stepCosts' = [stepCosts EXCEPT ![stepOf[n]] = c],
               pc'[n] \in {"returned", "recordingFailure", "threw"},
               pc'[n] = "returned" => c = spent[n]
        PROVE  /\ stepCosts' \in Seq(Cost) /\ Len(stepCosts') = Len(steps')
               /\ \A i \in DOMAIN steps' : ReportsOf(i)' \subseteq Reports(i)
               /\ \A i \in DOMAIN steps' : i # stepOf[n] => stepCosts'[i] = stepCosts[i]
               /\ pc'[n] = "returned" => stepCosts'[stepOf[n]] = spent[n]
    <3>1. /\ stepCosts' \in Seq(Cost) /\ Len(stepCosts') = Len(stepCosts)
          /\ \A i \in DOMAIN steps : stepCosts'[i] = IF i = stepOf[n] THEN c ELSE stepCosts[i]
      BY <1>1, <2>1, <2>4, ExceptSeq
    <3>2. \A i \in DOMAIN steps' : ReportsOf(i)' \subseteq Reports(i)
      BY <2>1, <2>4, <3>1 DEF SpentInv, ReportsOf
    <3> QED
      BY <1>1, <2>1, <2>2, <2>4, <3>1, <3>2
  <2>5. \/ stepCosts' = stepCosts /\ pc'[n] # "returned"
        \/ /\ stepCosts' = [stepCosts EXCEPT ![stepOf[n]] = spent[n]]
           /\ pc[n] = "recordingSuccess" /\ pc'[n] \in {"returned", "recordingFailure"}
        \/ stepCosts' = [stepCosts EXCEPT ![stepOf[n]] = EmptyBag] /\ pc'[n] = "threw"
    BY <1>1, <1>4 DEF Enters
  <2>6. /\ spent[n] \in Cost /\ EmptyBag \in Cost /\ DOMAIN EmptyBag = {}
        /\ pc[n] = "recordingSuccess" => DOMAIN spent[n] \subseteq Reports(stepOf[n])
    BY EmptyIsCost DEF SpentInv
  <2>7. CASE /\ stepCosts' = [stepCosts EXCEPT ![stepOf[n]] = spent[n]]
             /\ pc[n] = "recordingSuccess" /\ pc'[n] \in {"returned", "recordingFailure"}
    BY <1>4, <2>1, <2>4, <2>6, <2>7
  <2>8. CASE stepCosts' = [stepCosts EXCEPT ![stepOf[n]] = EmptyBag] /\ pc'[n] = "threw"
    BY <1>4, <2>1, <2>4, <2>6, <2>8
  <2> QED
    BY <2>3, <2>5, <2>7, <2>8
<1> QED
  BY <1>1, <1>2, <1>3, <1>4 DEF Enters

(* costAcc.add, by a resolver or a handler that has not reported yet.       *)
LEMMA ReportOnce ==
    ASSUME NEW i \in Nat, NEW who \in Whos, NEW c \in Cost, <<i, who>> \notin DOMAIN c
    PROVE  /\ mergeCost(c, Report(i, who)) \in Cost
           /\ DOMAIN mergeCost(c, Report(i, who)) = DOMAIN c \cup {<<i, who>>}
<1> DEFINE S == DOMAIN c
           T == {<<i, who>>}
<1>1. S \subseteq Nat \X Whos /\ c = SetToBag(S)
  BY CostIsSet
<1>2. SetToBag(S) (+) SetToBag(T) = SetToBag(S \cup T)
  <2> HIDE DEF S
  <2>1. S \cap T = {}
    BY DEF S
  <2> QED
    BY <2>1, DisjointBags
<1>3. mergeCost(c, Report(i, who)) = SetToBag(S \cup T)
  BY <1>1, <1>2 DEF mergeCost, Report
<1>4. SetToBag(S \cup T) \in Cost /\ DOMAIN SetToBag(S \cup T) = S \cup T
  BY <1>1, SetIsCost, BagOfSet
<1> QED
  BY <1>3, <1>4

(* What an entry leaves the runners with.                                   *)
LEMMA SpentRunner ==
    ASSUME RunInv, SpentInv, NEW n \in graph.nodes, Running(n)
    PROVE  SpentInv'
<1>1. /\ TypeOK /\ Enters(n) /\ (RunnerStep(n) \/ HostStep(n))
      /\ pc \in [graph.nodes -> RunnerState] /\ stepOf \in [graph.nodes -> Nat]
  BY EntersCases DEF RunInv, TypeInv, TypeOK, Running
<1>2. UNCHANGED <<graph, active>>
  BY <1>1, RunnerCases DEF execVars
<1>3. /\ pc[n] \in InFlight /\ pc'[n] \notin {"idle", "starting"}
      /\ \A m \in graph.nodes \ {n} : pc'[m] = pc[m] /\ stepOf'[m] = stepOf[m]
      /\ pc[n] # "starting" => stepOf'[n] = stepOf[n] /\ stepOf[n] \in DOMAIN steps
      /\ DOMAIN steps \subseteq DOMAIN steps'
  BY <1>1, RunnerEffect
<1>4. ASSUME NEW c \in Cost, spent' = [spent EXCEPT ![n] = c]
      PROVE  /\ spent' \in [graph.nodes -> Cost] /\ spent'[n] = c
             /\ \A m \in graph.nodes \ {n} : spent'[m] = spent[m]
  BY <1>4 DEF SpentInv
<1>5. /\ spent' \in [graph.nodes -> Cost]
      /\ \A m \in graph.nodes \ {n} : spent'[m] = spent[m]
      /\ pc'[n] \in {"started", "resolving"} => spent'[n] = EmptyBag
      /\ pc'[n] = "handling" => DOMAIN spent'[n] \subseteq {<<stepOf[n], "resolver">>}
      /\ pc'[n] \in {"recordingSuccess", "returned"} =>
            /\ DOMAIN spent'[n] \subseteq Reports(stepOf[n])
            /\ <<stepOf[n], "handler">> \in DOMAIN spent'[n]
  <2>1. CASE pc[n] = "resolving" /\ pc'[n] = "handling"
    <3>1. spent[n] = EmptyBag /\ EmptyBag \in Cost /\ DOMAIN EmptyBag = {}
      BY <2>1, EmptyIsCost DEF SpentInv
    <3>2. /\ mergeCost(spent[n], Report(stepOf[n], "resolver")) \in Cost
          /\ DOMAIN mergeCost(spent[n], Report(stepOf[n], "resolver")) = {<<stepOf[n], "resolver">>}
      <4>1. /\ spent[n] \in Cost /\ <<stepOf[n], "resolver">> \notin DOMAIN spent[n]
            /\ stepOf[n] \in Nat /\ "resolver" \in Whos
        BY <1>1, <3>1 DEF Whos
      <4>2. DOMAIN spent[n] \cup {<<stepOf[n], "resolver">>} = {<<stepOf[n], "resolver">>}
        BY <3>1
      <4> QED
        BY <4>1, <4>2, ReportOnce
    <3>3. spent' = [spent EXCEPT ![n] = mergeCost(spent[n], Report(stepOf[n], "resolver"))]
      BY <1>1, <2>1 DEF Enters
    <3> QED
      BY <1>4, <2>1, <3>2, <3>3
  <2>2. CASE pc'[n] = "recordingSuccess"
    <3>1. /\ pc[n] = "handling"
          /\ spent' = [spent EXCEPT ![n] = mergeCost(spent[n], Report(stepOf[n], "handler"))]
      BY <1>1, <2>2 DEF Enters
    <3>2. spent[n] \in Cost /\ DOMAIN spent[n] \subseteq {<<stepOf[n], "resolver">>}
      BY <3>1 DEF SpentInv
    <3>3. <<stepOf[n], "handler">> \notin DOMAIN spent[n]
      BY <3>2
    <3>4. /\ mergeCost(spent[n], Report(stepOf[n], "handler")) \in Cost
          /\ DOMAIN mergeCost(spent[n], Report(stepOf[n], "handler"))
                = DOMAIN spent[n] \cup {<<stepOf[n], "handler">>}
      BY <1>1, <3>2, <3>3, ReportOnce DEF Whos
    <3>5. DOMAIN spent[n] \cup {<<stepOf[n], "handler">>} \subseteq Reports(stepOf[n])
      BY <3>2 DEF Reports, Whos
    <3> QED
      BY <1>4, <2>2, <3>1, <3>4, <3>5
  <2>3. CASE spent' = spent
    <3>1. /\ spent \in [graph.nodes -> Cost] /\ DOMAIN EmptyBag = {}
          /\ pc[n] \in {"starting", "started", "resolving"} => spent[n] = EmptyBag
          /\ pc[n] = "recordingSuccess" =>
                /\ DOMAIN spent[n] \subseteq Reports(stepOf[n])
                /\ <<stepOf[n], "handler">> \in DOMAIN spent[n]
      BY EmptyIsCost DEF SpentInv
    <3>2. /\ pc'[n] \in {"started", "resolving"} => pc[n] \in {"starting", "started"}
          /\ pc'[n] = "handling" => pc[n] \in {"started", "resolving"}
          /\ pc'[n] = "returned" => pc[n] = "recordingSuccess"
          /\ pc'[n] = "recordingSuccess" => pc[n] = "handling"
      BY <1>1 DEF Enters
    <3>3. CASE pc'[n] # "recordingSuccess"
      BY <2>3, <3>1, <3>2, <3>3
    <3>4. CASE pc'[n] = "recordingSuccess"
      BY <2>2, <3>4
    <3> QED
      BY <3>3, <3>4
  <2>4. CASE spent' = [spent EXCEPT ![n] = EmptyBag] /\ pc'[n] = "recordingFailure"
    BY <1>4, <2>4, EmptyIsCost
  <2> QED
    BY <1>1, <2>1, <2>2, <2>3, <2>4 DEF Enters
<1>6. \A m \in graph.nodes :
        pc'[m] \in {"started", "resolving", "handling", "recordingSuccess"} =>
           stepCosts'[stepOf'[m]] = EmptyBag
  <2> SUFFICES ASSUME NEW m \in graph.nodes,
                      pc'[m] \in {"started", "resolving", "handling", "recordingSuccess"}
               PROVE  stepCosts'[stepOf'[m]] = EmptyBag
    OBVIOUS
  <2>1. CASE m # n
    <3>1. /\ stepOf'[m] = stepOf[m] /\ stepOf[m] \in DOMAIN steps
          /\ stepCosts[stepOf[m]] = EmptyBag /\ steps[stepOf[m]].node = m
      BY <1>1, <1>3, <2>1 DEF TypeOK, SpentInv, RunInv, OwnStepInv, InFlight, RunnerState
    <3>2. pc[n] # "starting" => steps[stepOf[n]].node = n
      BY <1>3 DEF RunInv, OwnStepInv
    <3> QED
      BY <1>3, <2>1, <3>1, <3>2, EntersSteps
  <2>2. CASE m = n /\ pc[n] # "starting"
    <3>1. /\ pc'[n] \in {"resolving", "handling", "recordingSuccess"}
          /\ pc[n] \in {"started", "resolving", "handling"}
      BY <1>1, <2>2 DEF Enters
    <3> QED
      BY <1>3, <2>2, <3>1, EntersSteps DEF SpentInv
  <2>3. CASE m = n /\ pc[n] = "starting"
    <3>1. Appends(n) /\ stepOf'[n] = Len(steps')
      BY <1>1, <2>3 DEF Enters
    <3>2. stepOf'[n] \in DOMAIN steps' \ DOMAIN steps
      <4>1. steps' \in Seq(Row) /\ Len(steps') = Len(steps) + 1 /\ steps \in Seq(Row)
        BY <1>1, <3>1, AppendProperties, AppendRow DEF Appends, Row, TypeOK, StepStatus
      <4> QED
        BY <3>1, <4>1, LenProperties
    <3> QED
      BY <2>3, <3>2, EntersSteps
  <2> QED
    BY <2>1, <2>2, <2>3
<1>7. ASSUME NEW m \in graph.nodes
      PROVE  /\ pc'[m] \in {"starting", "started", "resolving"} => spent'[m] = EmptyBag
             /\ pc'[m] = "idle" /\ m \notin active => spent'[m] = EmptyBag
             /\ pc'[m] = "handling" => DOMAIN spent'[m] \subseteq {<<stepOf'[m], "resolver">>}
             /\ pc'[m] \in {"recordingSuccess", "returned"} =>
                   /\ DOMAIN spent'[m] \subseteq Reports(stepOf'[m])
                   /\ <<stepOf'[m], "handler">> \in DOMAIN spent'[m]
  <2>1. CASE m # n
    BY <1>3, <1>5, <2>1 DEF SpentInv
  <2>2. CASE m = n
    <3>1. pc'[n] \in {"handling", "recordingSuccess", "returned"} => stepOf'[n] = stepOf[n]
      BY <1>1, <1>3 DEF Enters
    <3> QED
      BY <1>3, <1>5, <2>2, <3>1
  <2> QED
    BY <2>1, <2>2
<1> QED
  BY <1>2, <1>5, <1>6, <1>7, EntersSteps DEF SpentInv

(* The steps that leave the runners' books as they are, but for the costs   *)
(* forgotten when a superstep ends.                                         *)
LEMMA SpentElsewhere ==
    ASSUME RunInv, SpentInv, Applied \/ Ended \/ Moved \/ Elapsed \/ Charge
    PROVE  SpentInv'
<1>1. /\ pc \in [graph.nodes -> RunnerState] /\ done \subseteq active /\ TypeOK
  BY DEF RunInv, TypeInv, TypeOK, SchedTypeOK
<1>2. phase = "streaming" => \A n \in graph.nodes : pc[n] # "idle" <=> n \in active \ done
  BY DEF RunInv, StreamInv
<1>3. CASE Applied
  <2>1. /\ phase = "streaming" /\ done = active /\ active' = {}
        /\ UNCHANGED <<graph, pc, stepOf, steps, stepCosts>>
        /\ spent' = [n \in graph.nodes |-> IF n \in active THEN EmptyBag ELSE spent[n]]
    BY <1>3 DEF Applied, ApplySuperstep, EndSuperstep, engineVars, runnerVars, ApplyOutputs, Returned,
       SpentInv
  <2>2. \A n \in graph.nodes : pc[n] = "idle" /\ spent'[n] = EmptyBag
    BY <1>2, <2>1 DEF SpentInv
  <2>3. spent' \in [graph.nodes -> Cost]
    BY <2>1, EmptyIsCost DEF SpentInv
  <2> QED
    BY <2>1, <2>2, <2>3 DEF SpentInv, ReportsOf
<1>4. CASE Moved
  <2>1. /\ phase = "streaming" /\ UNCHANGED <<graph, stepOf, steps>>
        /\ UNCHANGED <<spent, stepCosts>>
    BY <1>4 DEF Moved, ServedTakeOutput, StartSuperstep, BeginSuperstep, RouterThrows, TakeOutput,
       Complete, Step, execVars
  <2>2. \/ active = {} /\ \A n \in graph.nodes : pc'[n] \in {"idle", "starting"}
        \/ /\ active' = active
           /\ \A n \in graph.nodes :
                 \/ pc'[n] = pc[n]
                 \/ pc'[n] = "threw"
                 \/ pc'[n] = "idle" /\ n \in active
    <3>1. CASE StartSuperstep
      BY <1>1, <1>2, <2>1, <3>1 DEF StartSuperstep, BeginSuperstep
    <3>2. CASE \E n \in graph.nodes : RouterThrows(n)
      BY <1>1, <3>2 DEF RouterThrows, Step, execVars
    <3>3. CASE \E n \in graph.nodes : \E b \in Branches(graph, n) : TakeOutput(n, b)
      BY <1>1, <3>3 DEF TakeOutput, Complete
    <3> QED
      BY <1>4, <3>1, <3>2, <3>3 DEF Moved, ServedTakeOutput
  <2>3. active = {} => \A n \in graph.nodes : spent[n] = EmptyBag
    BY <1>2, <2>1 DEF SpentInv
  <2>4. ASSUME NEW n \in graph.nodes
        PROVE  /\ pc'[n] \in {"starting", "started", "resolving"} => spent[n] = EmptyBag
               /\ pc'[n] = "idle" /\ n \notin active' => spent[n] = EmptyBag
               /\ pc'[n] \in {"handling", "recordingSuccess", "returned"} => pc'[n] = pc[n]
               /\ pc'[n] \in {"started", "resolving"} => pc'[n] = pc[n]
    BY <2>2, <2>3 DEF SpentInv
  <2> QED
    BY <2>1, <2>4 DEF SpentInv, ReportsOf
<1>5. CASE Ended \/ Elapsed \/ Charge
  <2>1. /\ UNCHANGED <<graph, active, pc, stepOf>> /\ UNCHANGED <<spent, stepCosts>>
        /\ steps' = steps \/ steps' = MarkStale(steps)
    <3>1. CASE Ended
      BY <3>1 DEF Ended, ServedComplete, ServedClose, CompleteSuccess, CompleteSuccessFails, CloseRun,
         CloseRunFails, RowWritten, execVars, runnerVars
    <3>2. CASE Elapsed
      BY <3>2, EngineEffect DEF Elapsed, NoEntry, ledgerVars, vars, execVars, runnerVars
    <3>3. CASE Charge
      BY <3>3 DEF Charge, ChargeRun, mcpVars, vars, execVars, runnerVars
    <3> QED
      BY <1>5, <3>1, <3>2, <3>3
  <2>2. DOMAIN steps' = DOMAIN steps /\ Len(steps') = Len(steps)
    <3>1. /\ steps \in Seq(Row) /\ MarkStale(steps) \in Seq(Row)
          /\ DOMAIN MarkStale(steps) = DOMAIN steps
      BY <1>1, MarkStaleRows DEF TypeOK, Row
    <3>2. Len(MarkStale(steps)) = Len(steps)
      BY <3>1, LenProperties
    <3> QED
      BY <2>1, <3>1, <3>2
  <2> QED
    BY <2>1, <2>2 DEF SpentInv, ReportsOf
<1> QED
  BY <1>3, <1>4, <1>5

(* While the stream runs and no node has failed, the channel has the costs  *)
(* of the steps but those of runners that have returned and whose output is *)
(* yet to be taken; when it has ended, those of all.                        *)
Awaited(i) == \E n \in graph.nodes : pc[n] = "returned" /\ stepOf[n] = i
Counted == UNION {ReportsOf(i) : i \in {j \in DOMAIN steps : ~Awaited(j)}}
NoneFailed == \A n \in graph.nodes : pc[n] \notin {"recordingFailure", "threw"}
Reported(i) == <<i, "handler">> \in ReportsOf(i)

CostInv ==
    /\ phase \in Early => cost = EmptyBag
    /\ phase = "streaming" =>
          /\ \A n \in graph.nodes : pc[n] = "returned" => stepCosts[stepOf[n]] = spent[n]
          /\ NoneFailed =>
                /\ cost = SetToBag(Counted)
                /\ \A i \in DOMAIN steps : Reported(i) \/ \E n \in graph.nodes : Owns(n, i)
    /\ phase = "completing" \/ runStatus = "SUCCESS" =>
          /\ cost = OfTheSteps
          /\ \A i \in DOMAIN steps : Reported(i)

(* A runner's entry counts nothing.                                         *)
LEMMA CostRunner ==
    ASSUME RunInv, SpentInv, OutputsInv, CostInv, NEW n \in graph.nodes, Running(n)
    PROVE  CostInv'
<1>1. /\ TypeOK /\ Enters(n) /\ (RunnerStep(n) \/ HostStep(n)) /\ cost' = cost
      /\ pc \in [graph.nodes -> RunnerState]
  BY EntersCases DEF RunInv, TypeInv, TypeOK, Running
<1>2. UNCHANGED <<graph, phase, runStatus, done>>
  BY <1>1, RunnerCases DEF execVars, engineVars
<1>3. /\ pc[n] \in InFlight /\ pc'[n] \notin {"idle", "starting"}
      /\ \A m \in graph.nodes \ {n} : pc'[m] = pc[m] /\ stepOf'[m] = stepOf[m]
      /\ pc[n] # "starting" =>
            /\ stepOf'[n] = stepOf[n] /\ stepOf[n] \in DOMAIN steps
            /\ DOMAIN steps' = DOMAIN steps
      /\ pc[n] = "starting" /\ pc'[n] = "started" => DOMAIN steps' = DOMAIN steps \cup {stepOf'[n]}
  BY <1>1, RunnerEffect
<1>4. phase # "completing" /\ runStatus # "SUCCESS"
  BY <1>3 DEF RunInv, SuccessMeansAllDone, InFlight
<1>5. CASE phase = "streaming"
  <2>1. \A m \in graph.nodes :
          pc[m] = "returned" => stepOf[m] \in DOMAIN steps /\ steps[stepOf[m]].node = m
    BY <1>5 DEF OutputsInv, AtLastStep, LastStep
  <2>2. pc[n] # "starting" => steps[stepOf[n]].node = n
    BY <1>3 DEF RunInv, OwnStepInv
  <2>3. \A m \in graph.nodes : pc'[m] = "returned" => stepCosts'[stepOf'[m]] = spent'[m]
    <3>1. \A m \in graph.nodes \ {n} : spent'[m] = spent[m]
      BY <1>1 DEF Enters, SpentInv
    <3>2. ASSUME NEW m \in graph.nodes \ {n}, pc[m] = "returned"
          PROVE  stepCosts'[stepOf[m]] = spent[m]
      <4>1. stepOf[m] \in DOMAIN steps /\ stepOf[m] \in DOMAIN steps'
        BY <1>1, <2>1, <3>2, RunnerEffect
      <4>2. stepOf[m] # stepOf[n] \/ pc[n] = "starting"
        BY <2>1, <2>2, <3>2
      <4> QED
        BY <1>5, <3>2, <4>1, <4>2, EntersSteps DEF CostInv
    <3>3. pc'[n] = "returned" =>
            stepOf'[n] = stepOf[n] /\ spent'[n] = spent[n] /\ stepCosts'[stepOf[n]] = spent[n]
      BY <1>1, <1>3, EntersSteps DEF Enters
    <3> QED
      BY <1>3, <3>1, <3>2, <3>3
  <2>4. ASSUME NoneFailed'
        PROVE  /\ NoneFailed /\ Counted' = Counted
               /\ \A i \in DOMAIN steps' : Reported(i)' \/ \E m \in graph.nodes : Owns(m, i)'
    <3>1. NoneFailed
      BY <1>1, <1>2, <1>3, <2>4 DEF NoneFailed, Enters, InFlight
    <3>2. \A i \in DOMAIN steps : Reported(i) \/ \E m \in graph.nodes : Owns(m, i)
      BY <1>5, <3>1 DEF CostInv
    <3>3. CASE pc[n] = "starting"
      <4>1. /\ pc'[n] = "started" /\ DOMAIN steps' = DOMAIN steps \cup {stepOf'[n]}
            /\ \A i \in DOMAIN steps : ReportsOf(i)' = ReportsOf(i)
            /\ \A i \in DOMAIN steps' \ DOMAIN steps : ReportsOf(i)' = {}
        BY <1>1, <1>2, <1>3, <2>4, <3>3, EntersSteps, EmptyIsCost DEF NoneFailed, Enters, ReportsOf
      <4>2. \A i : Awaited(i)' <=> Awaited(i)
        BY <1>2, <1>3, <3>3, <4>1 DEF Awaited
      <4>3. Counted' = Counted
        BY <4>1, <4>2 DEF Counted
      <4>4. ASSUME NEW i \in DOMAIN steps'
            PROVE  Reported(i)' \/ \E m \in graph.nodes : Owns(m, i)'
        <5>1. CASE i = stepOf'[n]
          BY <4>1, <5>1 DEF Owns, InFlight, RunnerState
        <5>2. CASE i \in DOMAIN steps /\ Reported(i)
          BY <4>1, <5>2 DEF Reported
        <5>3. CASE i \in DOMAIN steps /\ ~Reported(i)
          <6>1. PICK m \in graph.nodes : Owns(m, i)
            BY <3>2, <5>3
          <6> QED
            BY <1>3, <3>3, <6>1 DEF Owns
        <5> QED
          BY <4>1, <5>1, <5>2, <5>3
      <4> QED
        BY <3>1, <4>3, <4>4
    <3>4. CASE pc[n] # "starting" /\ pc'[n] # "returned"
      <4>1. /\ pc'[n] \in InFlight \ {"starting"} /\ stepCosts' = stepCosts
            /\ DOMAIN steps' = DOMAIN steps
        BY <1>1, <1>2, <1>3, <2>4, <3>4, EntersSteps DEF NoneFailed, Enters, InFlight, RunnerState
      <4>2. \A i : (Awaited(i)' <=> Awaited(i)) /\ ReportsOf(i)' = ReportsOf(i)
        BY <1>2, <1>3, <3>4, <4>1 DEF Awaited, ReportsOf, InFlight
      <4>3. \A m \in graph.nodes : \A i : Owns(m, i) => Owns(m, i)'
        BY <1>3, <3>4, <4>1 DEF Owns
      <4> QED
        BY <3>1, <3>2, <4>1, <4>2, <4>3 DEF Counted, Reported
    <3>5. CASE pc[n] # "starting" /\ pc'[n] = "returned"
      <4>0. PICK k \in DOMAIN steps : k = stepOf[n]
        BY <1>3, <3>5
      <4>1. /\ pc[n] = "recordingSuccess" /\ k \in DOMAIN steps /\ DOMAIN steps' = DOMAIN steps
            /\ stepCosts[k] = EmptyBag /\ stepCosts'[k] = spent[n]
            /\ <<k, "handler">> \in DOMAIN spent[n]
            /\ \A i \in DOMAIN steps \ {k} : stepCosts'[i] = stepCosts[i]
            /\ stepOf'[n] = k
        BY <1>1, <1>3, <3>5, <4>0, EntersSteps DEF Enters, SpentInv
      <4>2. /\ ReportsOf(k) = {} /\ Reported(k)'
            /\ \A i \in DOMAIN steps \ {k} : ReportsOf(i)' = ReportsOf(i)
        BY <4>1, EmptyIsCost DEF ReportsOf, Reported
      <4>3. Awaited(k)' /\ \A i \in DOMAIN steps \ {k} : Awaited(i)' <=> Awaited(i)
        BY <1>2, <1>3, <3>5, <4>0, <4>1 DEF Awaited
      <4>4. Counted' = Counted
        BY <4>1, <4>2, <4>3 DEF Counted
      <4>5. ASSUME NEW i \in DOMAIN steps \ {k}
            PROVE  Reported(i)' \/ \E m \in graph.nodes : Owns(m, i)'
        <5>1. CASE Reported(i)
          BY <4>2, <5>1 DEF Reported
        <5>2. CASE ~Reported(i)
          <6>1. PICK m \in graph.nodes : Owns(m, i)
            BY <3>2, <5>2
          <6> QED
            BY <1>3, <4>0, <4>1, <6>1 DEF Owns
        <5> QED
          BY <5>1, <5>2
      <4> QED
        BY <3>1, <4>1, <4>2, <4>4, <4>5
    <3> QED
      BY <3>3, <3>4, <3>5
  <2>5. NoneFailed' => cost' = SetToBag(Counted')
    BY <1>1, <1>5, <2>4 DEF CostInv
  <2> QED
    BY <1>2, <1>4, <1>5, <2>3, <2>4, <2>5 DEF CostInv, Early
<1>6. CASE phase # "streaming"
  BY <1>1, <1>2, <1>4, <1>6 DEF CostInv
<1> QED
  BY <1>5, <1>6

(* The stream moves on: an output that is taken adds its node's costs.      *)
LEMMA CostMoved ==
    ASSUME RunInv, SpentInv, OutputsInv, CostInv, Moved
    PROVE  CostInv'
<1>1. /\ phase = "streaming" /\ UNCHANGED <<graph, phase, runStatus, stepOf, steps, spent, stepCosts>>
      /\ \/ StartSuperstep /\ NoEntry
         \/ \E n \in graph.nodes : RouterThrows(n) /\ NoEntry
         \/ \E n \in graph.nodes : \E b \in Branches(graph, n) : TakeOutput(n, b) /\ AddCost(n)
  BY DEF Moved, ServedTakeOutput, StartSuperstep, BeginSuperstep, RouterThrows, TakeOutput, Complete,
     Step, execVars, engineVars
<1>2. /\ runStatus # "SUCCESS" /\ pc \in [graph.nodes -> RunnerState] /\ done \subseteq active
      /\ \A n \in graph.nodes : pc[n] # "idle" <=> n \in active \ done
      /\ \A n \in graph.nodes : pc[n] = "returned" => stepCosts[stepOf[n]] = spent[n]
      /\ NoneFailed =>
            /\ cost = SetToBag(Counted)
            /\ \A i \in DOMAIN steps : Reported(i) \/ \E n \in graph.nodes : Owns(n, i)
  BY <1>1 DEF RunInv, StatusInv, StreamInv, TypeInv, TypeOK, SchedTypeOK, CostInv
<1>3. SUFFICES /\ \A n \in graph.nodes : pc'[n] = "returned" => stepCosts[stepOf[n]] = spent[n]
               /\ NoneFailed' =>
                     /\ cost' = SetToBag(Counted')
                     /\ \A i \in DOMAIN steps : Reported(i) \/ \E n \in graph.nodes : Owns(n, i)'
  BY <1>1, <1>2 DEF CostInv, Early, Reported, ReportsOf
<1>4. CASE StartSuperstep /\ NoEntry
  <2>1. /\ cost' = cost
        /\ \A n \in graph.nodes : pc[n] = "idle" /\ pc'[n] \in {"idle", "starting"}
    BY <1>2, <1>4 DEF StartSuperstep, BeginSuperstep, NoEntry, ledgerVars
  <2>2. Counted' = Counted
    BY <1>1, <2>1 DEF Counted, Awaited, ReportsOf
  <2>3. NoneFailed /\ \A i \in DOMAIN steps : Reported(i)
    BY <1>2, <2>1 DEF NoneFailed, Owns, InFlight
  <2> QED
    BY <1>2, <2>1, <2>2, <2>3
<1>5. ASSUME NEW n \in graph.nodes, RouterThrows(n)
      PROVE  ~NoneFailed' /\ \A m \in graph.nodes : pc'[m] = "returned" => pc[m] = "returned"
  BY <1>1, <1>2, <1>5 DEF RouterThrows, Step, NoneFailed
<1>6. ASSUME NEW n \in graph.nodes, NEW b \in Branches(graph, n), TakeOutput(n, b), AddCost(n)
      PROVE  /\ \A m \in graph.nodes : pc'[m] = "returned" => stepCosts[stepOf[m]] = spent[m]
             /\ NoneFailed' =>
                   /\ cost' = SetToBag(Counted')
                   /\ \A i \in DOMAIN steps : Reported(i) \/ \E m \in graph.nodes : Owns(m, i)'
  <2>1. /\ pc[n] = "returned" /\ cost' = mergeCost(cost, spent[n])
        /\ \A m \in graph.nodes : pc'[m] = IF m = n THEN "idle" ELSE pc[m]
    BY <1>2, <1>6 DEF TakeOutput, AddCost
  <2>2. /\ \A m \in graph.nodes :
             pc[m] = "returned" => stepOf[m] \in DOMAIN steps /\ steps[stepOf[m]].node = m
    BY <1>1 DEF OutputsInv, AtLastStep, LastStep
  <2>3. PICK k \in DOMAIN steps : k = stepOf[n]
    BY <2>1, <2>2
  <2>4. /\ spent[n] \in Cost /\ <<k, "handler">> \in DOMAIN spent[n]
        /\ ReportsOf(k) = DOMAIN spent[n] /\ Reported(k)
    BY <1>2, <2>1, <2>3 DEF SpentInv, ReportsOf, Reported
  <2>5. /\ Awaited(k) /\ ~Awaited(k)'
        /\ \A i : i # k => (Awaited(i)' <=> Awaited(i))
    <3>1. \A m \in graph.nodes \ {n} : pc[m] = "returned" => stepOf[m] # k
      BY <2>1, <2>2, <2>3
    <3> QED
      BY <1>1, <2>1, <2>3, <3>1 DEF Awaited
  <2>6. Counted' = Counted \cup DOMAIN spent[n]
    BY <1>1, <2>4, <2>5 DEF Counted, ReportsOf
  <2>7. Counted \cap DOMAIN spent[n] = {}
    <3>1. \A i \in DOMAIN steps : i # k => ReportsOf(i) \cap ReportsOf(k) = {}
      BY DEF SpentInv, Reports
    <3> QED
      BY <2>4, <2>5, <3>1 DEF Counted
  <2>8. NoneFailed' => NoneFailed
    BY <1>1, <2>1 DEF NoneFailed
  <2>9. cost = SetToBag(Counted) => cost' = SetToBag(Counted')
    <3>1. spent[n] = SetToBag(DOMAIN spent[n])
      BY <2>4, CostIsSet
    <3>2. SetToBag(Counted) (+) SetToBag(DOMAIN spent[n]) = SetToBag(Counted \cup DOMAIN spent[n])
      BY <2>7, DisjointBags
    <3> QED
      BY <2>1, <2>6, <3>1, <3>2 DEF mergeCost
  <2>10. \A i \in DOMAIN steps : \A m \in graph.nodes : Owns(m, i) => Owns(m, i)'
    BY <1>1, <2>1 DEF Owns, InFlight
  <2> QED
    BY <1>2, <2>1, <2>8, <2>9, <2>10
<1> QED
  BY <1>1, <1>2, <1>4, <1>5, <1>6

(* The other steps add no cost.                                             *)
LEMMA CostElsewhere ==
    ASSUME RunInv, SpentInv, CostInv, Applied \/ Ended \/ Elapsed \/ Charge
    PROVE  CostInv'
<1> USE DEF Early
<1>1. CASE Applied
  <2>1. UNCHANGED <<graph, phase, runStatus, pc, stepOf, steps, stepCosts, cost>>
    BY <1>1 DEF Applied, ApplySuperstep, EndSuperstep, engineVars, runnerVars, ApplyOutputs
  <2>2. phase = "streaming" /\ runStatus # "SUCCESS" /\ \A n \in graph.nodes : pc[n] = "idle"
    BY <1>1 DEF Applied, ApplySuperstep, EndSuperstep, RunInv, StatusInv, StreamInv
  <2> QED
    BY <2>1, <2>2 DEF CostInv, NoneFailed, Counted, Awaited, Reported, ReportsOf, Owns
<1>2. CASE Ended
  <2>1. /\ UNCHANGED <<steps, stepCosts, cost>>
        /\ phase' \notin {"idle", "loadingCatalog", "compiling", "streaming", "completing"}
        /\ runStatus' = "SUCCESS" => phase = "completing" \/ runStatus = "SUCCESS"
    BY <1>2 DEF Ended, ServedComplete, ServedClose, CompleteSuccess, CompleteSuccessFails, CloseRun,
       CloseRunFails, EnterFinally, Catch, RowWritten, runnerVars, RunInv, OutcomeInv
  <2> QED
    BY <2>1 DEF CostInv, OfTheSteps, Reported, ReportsOf
<1>3. CASE Elapsed
  <2>1. /\ UNCHANGED <<graph, active, done, pc, stepOf, cost, spent, stepCosts>>
        /\ steps' = steps \/ (phase = "finalizing" /\ steps' = MarkStale(steps))
        /\ Compile \/ (phase' = "streaming" => phase = "streaming" /\ UNCHANGED steps)
    BY <1>3, EngineEffect DEF Elapsed, NoEntry, ledgerVars, vars, execVars, engineVars, runnerVars
  <2>2. DOMAIN steps' = DOMAIN steps
    BY <2>1, MarkStaleRows DEF RunInv, TypeInv, TypeOK
  <2>3. phase' \in Early => cost' = EmptyBag
    BY <1>3, <2>1 DEF Elapsed, CostInv
  <2>4. ASSUME phase' = "streaming"
        PROVE  /\ \A n \in graph.nodes : pc[n] = "returned" => stepCosts[stepOf[n]] = spent[n]
               /\ NoneFailed =>
                     /\ cost = SetToBag(Counted)
                     /\ \A i \in DOMAIN steps : Reported(i) \/ \E n \in graph.nodes : Owns(n, i)
    <3>1. CASE Compile
      <4>1. DOMAIN steps = {} /\ cost = EmptyBag /\ \A n \in graph.nodes : pc[n] = "idle"
        BY <3>1 DEF Compile, RunInv, FreshInv, CostInv
      <4>2. Counted = {}
        BY <4>1 DEF Counted
      <4> QED
        BY <4>1, <4>2 DEF EmptyBag
    <3>2. CASE ~Compile
      BY <2>1, <2>4, <3>2 DEF CostInv
    <3> QED
      BY <3>1, <3>2
  <2>5. phase' = "streaming" => steps' = steps
    BY <2>1 DEF Compile, runnerVars
  <2>6. ASSUME phase' = "completing" \/ runStatus' = "SUCCESS"
        PROVE  cost = OfTheSteps /\ \A i \in DOMAIN steps : Reported(i)
    <3>1. CASE StreamEnds
      <4>1. /\ phase = "streaming"
            /\ \A n \in graph.nodes : pc[n] = "idle"
        BY <3>1 DEF StreamEnds, Finished, RunInv, StreamInv
      <4>2. cost = SetToBag(Counted) /\ \A i \in DOMAIN steps : Reported(i)
        BY <4>1 DEF CostInv, NoneFailed, Owns, InFlight
      <4>3. DOMAIN stepCosts = DOMAIN steps
        BY LenProperties DEF SpentInv, RunInv, TypeInv, TypeOK
      <4>4. Counted = UNION {ReportsOf(i) : i \in DOMAIN stepCosts}
        BY <4>1, <4>3 DEF Counted, Awaited
      <4> QED
        BY <4>2, <4>4 DEF OfTheSteps
    <3>2. CASE ~StreamEnds
      BY <1>3, <2>6, <3>2 DEF Elapsed, CostInv
    <3> QED
      BY <3>1, <3>2
  <2>7. /\ NoneFailed' <=> NoneFailed
        /\ OfTheSteps' = OfTheSteps
        /\ \A i : (Reported(i)' <=> Reported(i)) /\ ReportsOf(i)' = ReportsOf(i)
        /\ \A i : Awaited(i)' <=> Awaited(i)
        /\ \A n, i : Owns(n, i)' <=> Owns(n, i)
    BY <2>1 DEF NoneFailed, OfTheSteps, Reported, ReportsOf, Awaited, Owns
  <2>8. Counted' = Counted
    BY <2>2, <2>7 DEF Counted
  <2> QED
    BY <2>1, <2>2, <2>3, <2>4, <2>5, <2>6, <2>7, <2>8 DEF CostInv
<1>4. CASE Charge
  <2>1. /\ UNCHANGED <<graph, phase, runStatus, pc, stepOf, steps>>
        /\ UNCHANGED <<cost, spent, stepCosts>>
    BY <1>4 DEF Charge, ChargeRun, mcpVars, vars, execVars, engineVars, runnerVars
  <2> QED
    BY <2>1 DEF CostInv, NoneFailed, Counted, Awaited, Reported, ReportsOf, Owns, OfTheSteps
<1> QED
  BY <1>1, <1>2, <1>3, <1>4

-----------------------------------------------------------------------------
(* What the row and `done` say of the cost. The run is RUNNING until it is  *)
(* completed or closed, and until then the row has the host's charge alone. *)
RowCost == IF ChargeIsReplaced THEN cost ELSE cost (+) HostCharge
BooksInv ==
    /\ phase = "idle" => runStatus = "none"
    /\ phase \in Pending => runStatus = "RUNNING"
    /\ charged \in {"no", "running", "closed"}
    /\ row = [cost |-> row.cost, outputs |-> row.outputs]
    /\ runStatus = "none" => charged = "no"
    /\ runStatus \in {"none", "RUNNING"} =>
          charged # "closed" /\ row.cost = HostCharge
    /\ runStatus = "SUCCESS" => row.cost = RowCost
    /\ result = "SUCCESS" => answer.cost = cost

LEMMA BooksEnded ==
    ASSUME RunInv, SpentInv, CostInv, BooksInv, Ended
    PROVE  BooksInv'
<1>1. /\ phase \in {"completing", "closing"} /\ phase' \notin Pending \cup {"idle"}
      /\ UNCHANGED <<cost, charged, stepCosts>>
  BY DEF Ended, ServedComplete, ServedClose, CompleteSuccess, CompleteSuccessFails, CloseRun,
     CloseRunFails, EnterFinally, Catch, RowWritten, Pending
<1>2. \/ /\ phase = "completing"
         /\ \/ runStatus' = "SUCCESS" /\ CompleteRow
            \/ runStatus' = runStatus /\ row' = row
         /\ \/ answer' = answer /\ result' # "SUCCESS"
            \/ Answer
      \/ /\ \/ runStatus' = runStatus /\ row' = row
            \/ runStatus' \in {"FAILED", "ABORTED"} /\ CloseRow
         /\ answer' = answer /\ result' # "SUCCESS"
  BY DEF Ended, ServedComplete, ServedClose, CompleteSuccess, CompleteSuccessFails, CloseRun,
     CloseRunFails, EnterFinally, Catch, RowWritten, RunInv, OutcomeInv
<1>3. ASSUME phase = "completing", CompleteRow
      PROVE  row'.cost = RowCost
  <2>1. /\ row'.cost = IF InMemory THEN mergeCost(row.cost, cost) ELSE cost
        /\ charged \in {"no", "running"}
        /\ row.cost = HostCharge
    BY <1>3 DEF CompleteRow, BooksInv, Pending
  <2>2. PICK S : cost = SetToBag(S)
    BY <1>3 DEF CostInv, OfTheSteps
  <2>3. /\ HostReport (+) cost = cost (+) HostReport
        /\ EmptyBag (+) cost = cost /\ cost (+) EmptyBag = cost
    BY <2>2, BagsCommute, EmptyIsNeutral DEF HostReport, Report
  <2> QED
    BY <2>1, <2>3 DEF RowCost, HostCharge, ChargeIsReplaced, mergeCost
<1>4. row' = [cost |-> row'.cost, outputs |-> row'.outputs]
  BY <1>2 DEF CompleteRow, CloseRow, BooksInv
<1>5. RowCost' = RowCost /\ HostCharge' = HostCharge /\ (Answer => answer'.cost = cost)
  BY <1>1 DEF RowCost, HostCharge, ChargeIsReplaced, Answer
<1> QED
  BY <1>1, <1>2, <1>3, <1>4, <1>5 DEF BooksInv

LEMMA BooksNext ==
    ASSUME RunInv, SpentInv, CostInv, BooksInv, [ServedNext]_servedVars
    PROVE  BooksInv'
<1>1. ASSUME UNCHANGED <<phase, runStatus, result, row, answer, cost, charged>>
      PROVE  BooksInv'
  BY <1>1 DEF BooksInv, RowCost, HostCharge, ChargeIsReplaced
<1>2. ASSUME NEW n \in graph.nodes, Running(n) PROVE BooksInv'
  BY <1>1, <1>2, RunnerCases DEF Running, engineVars
<1>3. CASE Applied
  BY <1>1, <1>3 DEF Applied, ApplySuperstep, EndSuperstep, engineVars, ApplyOutputs
<1>4. CASE Moved
  <2>1. /\ phase = "streaming" /\ UNCHANGED <<phase, runStatus, result, row, answer, charged>>
    BY <1>4 DEF Moved, ServedTakeOutput, StartSuperstep, RouterThrows, TakeOutput, Step, engineVars
  <2>2. runStatus = "RUNNING" /\ result = "none"
    BY <2>1 DEF BooksInv, Pending, RunInv, OutcomeInv
  <2> QED
    BY <2>1, <2>2 DEF BooksInv, HostCharge
<1>5. CASE Elapsed
  <2>1. UNCHANGED <<row, answer, cost, charged>>
    BY <1>5 DEF Elapsed, NoEntry, ledgerVars
  <2>2. /\ phase' = "idle" => phase = "idle" /\ runStatus' = runStatus
        /\ phase' \in Pending =>
              \/ phase = "idle" /\ runStatus' = "RUNNING"
              \/ phase \in Pending /\ runStatus' = runStatus
        /\ runStatus' = runStatus \/ (runStatus' \in {"none", "RUNNING"} /\ phase = "idle")
        /\ result' = "SUCCESS" => result = "SUCCESS"
    BY <1>5 DEF Elapsed
  <2>3. HostCharge' = HostCharge /\ RowCost' = RowCost
    BY <2>1 DEF RowCost, HostCharge, ChargeIsReplaced
  <2> QED
    BY <2>1, <2>2, <2>3 DEF BooksInv
<1>6. CASE Charge
  <2>1. /\ UNCHANGED <<phase, runStatus, result, answer, cost>>
        /\ runStatus # "none" /\ charged = "no"
        /\ charged' = IF runStatus = "RUNNING" THEN "running" ELSE "closed"
        /\ row' = [row EXCEPT !.cost = mergeCost(row.cost, HostReport)]
    BY <1>6 DEF Charge, ChargeRun, mcpVars, vars, engineVars
  <2>2. row' = [cost |-> row.cost (+) HostReport, outputs |-> row.outputs]
    BY <2>1 DEF BooksInv, mergeCost
  <2>3. HostCharge = EmptyBag /\ HostCharge' = HostReport /\ ~ChargeIsReplaced
    BY <2>1 DEF HostCharge, ChargeIsReplaced
  <2>4. CASE runStatus = "RUNNING"
    <3>1. EmptyBag (+) HostReport = HostReport
      BY EmptyIsNeutral DEF HostReport, Report
    <3>2. row.cost = EmptyBag
      BY <2>3, <2>4 DEF BooksInv
    <3> QED
      BY <2>1, <2>2, <2>3, <2>4, <3>1, <3>2 DEF BooksInv
  <2>5. CASE runStatus = "SUCCESS"
    <3>1. cost (+) EmptyBag = cost
      BY <2>5, EmptyIsNeutral DEF CostInv, OfTheSteps
    <3>2. row.cost = cost
      BY <2>3, <2>5, <3>1 DEF BooksInv, RowCost
    <3>3. RowCost' = cost (+) HostReport
      BY <2>1, <2>3, <2>5 DEF RowCost, ChargeIsReplaced
    <3> QED
      BY <2>1, <2>2, <2>5, <3>2, <3>3 DEF BooksInv
  <2>6. CASE runStatus \notin {"RUNNING", "SUCCESS"}
    BY <2>1, <2>2, <2>6 DEF BooksInv
  <2> QED
    BY <2>4, <2>5, <2>6
<1> QED
  BY <1>2, <1>3, <1>4, <1>5, <1>6, LedgerCases, BooksEnded

(* A run recorded SUCCESS costs what its steps cost, no report lost and     *)
(* none counted twice, and what the host charged; a RUNNING one has the     *)
(* charge alone. One charge is lost, and the statement says so: with the    *)
(* Prisma store, the one made while the run was RUNNING. About the          *)
(* accumulator of a runner, mergeCost, completeRun and updateRunCostAtomic. *)
THEOREM CostAlwaysAddsUp == ServedSpec => []CostAddsUp
<1> DEFINE I == OutputsInv /\ SpentInv /\ CostInv /\ BooksInv
<1>1. ServedInit => I
  <2> SUFFICES ASSUME ServedInit PROVE I
    OBVIOUS
  <2>1. /\ phase = "idle" /\ runStatus = "none" /\ result = "none" /\ steps = <<>>
        /\ outputs = {} /\ active = {} /\ pc = [n \in graph.nodes |-> "idle"]
    BY DEF ServedInit, McpInit, Init, Unscheduled
  <2>2. /\ spent = [n \in graph.nodes |-> EmptyBag] /\ stepCosts = <<>> /\ cost = EmptyBag
        /\ latest = <<>> /\ row = [cost |-> EmptyBag, outputs |-> <<>>] /\ charged = "no"
    BY DEF ServedInit, LedgerInit, NewRow, ZERO_COST
  <2>3. OutputsInv
    BY <2>1, <2>2 DEF OutputsInv
  <2>4. SpentInv
    BY <2>1, <2>2, EmptyIsCost, EmptySeq DEF SpentInv
  <2> QED
    BY <2>1, <2>2, <2>3, <2>4 DEF CostInv, BooksInv, HostCharge, Early, Pending
<1>2. RunInv /\ I /\ [ServedNext]_servedVars => I'
  <2> SUFFICES ASSUME RunInv, I, [ServedNext]_servedVars PROVE I'
    OBVIOUS
  <2>1. ASSUME NEW n \in graph.nodes, Running(n) PROVE SpentInv' /\ CostInv'
    BY <2>1, SpentRunner, CostRunner
  <2>2. ASSUME Applied \/ Ended \/ Moved \/ Elapsed \/ Charge PROVE SpentInv' /\ CostInv'
    BY <2>2, SpentElsewhere, CostMoved, CostElsewhere
  <2> QED
    BY <2>1, <2>2, LedgerCases, OutputsNext, BooksNext
<1>3. RunInv /\ I => CostAddsUp
  <2> SUFFICES ASSUME RunInv, I PROVE CostAddsUp
    OBVIOUS
  <2>1. result = "SUCCESS" => runStatus = "SUCCESS"
    BY DEF RunInv, OutcomeInv, Outcomes
  <2> QED
    BY <2>1 DEF CostAddsUp, listRuns, CostInv, BooksInv, RowCost, Reported
<1> QED
  BY <1>1, <1>2, <1>3, ServedRunInv, PTL DEF ServedSpec

(* The in-memory store keeps every charge: a successful run costs what its  *)
(* steps cost and what the host charged, whenever it did (completeRun       *)
(* merges the cost into the row).                                           *)
THEOREM MemoryKeepsCharge ==
    ASSUME InMemory
    PROVE  ServedSpec =>
              [](listRuns.status = "SUCCESS" => listRuns.cost = OfTheSteps (+) HostCharge)
<1>1. CostAddsUp => (listRuns.status = "SUCCESS" => listRuns.cost = OfTheSteps (+) HostCharge)
  BY DEF CostAddsUp, ChargeIsReplaced
<1> QED
  BY <1>1, CostAlwaysAddsUp, PTL

(* The Prisma store loses one: the charge that the row of a run had while   *)
(* it was RUNNING is gone once the run is recorded SUCCESS (completeRun     *)
(* writes the run's own cost over it).                                      *)
THEOREM PrismaReplacesCharge ==
    ASSUME ~InMemory
    PROVE  ServedSpec =>
              []/\ listRuns.status = "RUNNING" /\ charged = "running" =>
                       listRuns.cost = HostReport
                /\ listRuns.status = "SUCCESS" /\ charged = "running" =>
                       listRuns.cost = OfTheSteps
<1>1. CostAddsUp =>
         /\ listRuns.status = "RUNNING" /\ charged = "running" => listRuns.cost = HostReport
         /\ listRuns.status = "SUCCESS" /\ charged = "running" => listRuns.cost = OfTheSteps
  BY DEF CostAddsUp, ChargeIsReplaced, HostCharge
<1> QED
  BY <1>1, CostAlwaysAddsUp, PTL

===============================================================================
