----------------------------- MODULE PipelineRun -----------------------------
(***************************************************************************)
(* One run of a pipeline: PipelineEngine.run/execute/abort of              *)
(* runtime/src/index.ts, a node runner per active node                     *)
(* (nodes/src/node-runner.ts) and the rows they write to the store, over   *)
(* the scheduling of GraphExecution.                                       *)
(*                                                                         *)
(* Every await is a point where the other runners, the timer and an abort  *)
(* may interleave: an action is what runs from one await to the next.      *)
(***************************************************************************)
EXTENDS GraphExecution

CONSTANTS
    HasCatalogLoader,   \* options.catalogLoader is configured
    HasParamResolver,   \* options.autoParamResolver is configured
    HasSignal,          \* the caller passed opts.signal
    StoreFails          \* calls of the store may reject

ASSUME OptionsAssumption ==
    {HasCatalogLoader, HasParamResolver, HasSignal, StoreFails} \subseteq BOOLEAN

VARIABLES
    phase,      \* what run()/execute() awaits
    outcome,    \* `status`, as the catch block computed it
    aborted,    \* controller.signal.aborted
    timer,      \* the run timeout
    catalog,    \* the MCP catalog's clients
    runStatus,  \* the run row's status
    announced,  \* the status of the RUN_COMPLETE event
    result,     \* how the `done` promise settles
    pc,         \* where each node's runner is
    stepOf,     \* the step each runner records to
    steps       \* the run's step rows, in sequenceIndex order

engineVars == <<phase, outcome, timer, catalog, runStatus, announced, result>>
runnerVars == <<pc, stepOf, steps>>
vars == <<execVars, engineVars, runnerVars, aborted>>

Phases == {"idle", "loadingCatalog", "compiling", "streaming", "completing",
           "finalizing", "closing", "cleanup", "settled"}
Outcomes == {"SUCCESS", "FAILED", "ABORTED"}
StepStatus == {"RUNNING", "SUCCESS", "FAILED"}

(* "starting" and the two "recording" states await the step recorder,       *)
(* "resolving" the auto-param resolver, "handling" the node's handler.      *)
RunnerState == {"idle", "starting", "started", "resolving", "handling",
                "recordingSuccess", "recordingFailure", "returned", "threw"}
InFlight == RunnerState \ {"idle", "returned", "threw"}

TypeOK ==
    /\ SchedTypeOK
    /\ phase \in Phases
    /\ outcome \in {"none", "FAILED", "ABORTED"}
    /\ aborted \in BOOLEAN
    /\ timer \in {"unset", "armed", "fired", "cleared"}
    /\ catalog \in {"none", "open", "released"}
    /\ runStatus \in Outcomes \cup {"none", "RUNNING"}
    /\ announced \in Outcomes \cup {"none"}
    /\ result \in Outcomes \cup {"none", "rejected"}
    /\ steps \in Seq([node : graph.nodes, status : StepStatus])
    /\ pc \in [graph.nodes -> RunnerState]
    /\ stepOf \in [graph.nodes -> Nat]
    /\ \A n \in graph.nodes :
          pc[n] \in InFlight \ {"starting"} => stepOf[n] \in DOMAIN steps

Init ==
    /\ Unscheduled
    /\ phase = "idle"
    /\ outcome = "none"
    /\ aborted = FALSE
    /\ timer = "unset"
    /\ catalog = "none"
    /\ runStatus = "none"
    /\ announced = "none"
    /\ result = "none"
    /\ pc = [n \in graph.nodes |-> "idle"]
    /\ stepOf = [n \in graph.nodes |-> 0]
    /\ steps = <<>>

-----------------------------------------------------------------------------
(* Pieces of execute() shared by several actions. Each one says what        *)
(* becomes of engineVars or of part of them.                                *)

(* The catch block up to its first await: an aborted signal makes the run   *)
(* ABORTED, and so does a PipelineAbortedError, which only host code can    *)
(* throw here.                                                              *)
Catch(isAbort) ==
    /\ outcome' = IF isAbort THEN "ABORTED" ELSE "FAILED"
    /\ phase' = "finalizing"

(* The finally block up to its await: a run that opened a catalog awaits    *)
(* its cleanup, any other settles at once. The variant forgets the catalog. *)
ForgetCatalog(res) ==
    /\ timer' = "cleared"
    /\ result' = res
    /\ phase' = "settled"
EnterFinally(res) ==
    /\ timer' = "cleared"
    /\ result' = res
    /\ phase' = IF catalog = "open" THEN "cleanup" ELSE "settled"

(* store.finalizeStaleSteps: every step still RUNNING becomes FAILED. The   *)
(* variant fails every step of the run.                                     *)
MarkAll(rows) == [i \in DOMAIN rows |-> [rows[i] EXCEPT !.status = "FAILED"]]
MarkStale(rows) ==
    [i \in DOMAIN rows |->
        IF rows[i].status = "RUNNING"
        THEN [rows[i] EXCEPT !.status = "FAILED"] ELSE rows[i]]

(* checkAbort(signal). The variant never looks at the signal.               *)
IgnoreSignal == FALSE
CheckAbort == aborted

-----------------------------------------------------------------------------
(* run(): load the graph, create the run row, link the external signal,     *)
(* then execute() up to its first await: the timer is armed and, unless MCP *)
(* nodes call for a catalog first, compile() is entered.                    *)
StartRun ==
    /\ phase = "idle"
    /\ aborted' \in IF HasSignal THEN BOOLEAN ELSE {FALSE}
    /\ runStatus' = "RUNNING"
    /\ timer' = "armed"
    /\ \/ /\ graph.mcp # {} /\ ~HasCatalogLoader
          /\ Catch(aborted')
       \/ /\ graph.mcp # {} /\ HasCatalogLoader
          /\ phase' = "loadingCatalog" /\ UNCHANGED outcome
       \/ /\ graph.mcp = {}
          /\ phase' = "compiling" /\ UNCHANGED outcome
    /\ UNCHANGED <<execVars, runnerVars, catalog, announced, result>>

(* run() rejects: no such pipeline, or a store call rejected, possibly      *)
(* after it had created the row. No handle is ever returned.                *)
StartRunFails ==
    /\ phase = "idle"
    /\ phase' = "settled"
    /\ result' = "rejected"
    /\ runStatus' \in IF StoreFails THEN {"none", "RUNNING"} ELSE {"none"}
    /\ UNCHANGED <<execVars, runnerVars, aborted, outcome, timer, catalog, announced>>

CatalogLoads ==
    /\ phase = "loadingCatalog"
    /\ catalog' = "open"
    /\ phase' = "compiling"
    /\ UNCHANGED <<execVars, runnerVars, aborted, outcome, timer, runStatus, announced, result>>

CatalogLoadFails ==
    /\ phase = "loadingCatalog"
    /\ \E abortError \in BOOLEAN : Catch(abortError \/ aborted)
    /\ UNCHANGED <<execVars, runnerVars, aborted, timer, catalog, runStatus, announced, result>>

(* compile() resolves and streamEvents() is called.                         *)
Compile ==
    /\ phase = "compiling"
    /\ Invoke
    /\ phase' = "streaming"
    /\ UNCHANGED <<runnerVars, aborted, outcome, timer, catalog, runStatus, announced, result>>

(* The graph does not compile, or the host's validate(), its registry or    *)
(* its MCP resolver rejects it.                                             *)
CompileFails ==
    /\ phase = "compiling"
    /\ \E abortError \in BOOLEAN : Catch(abortError \/ aborted)
    /\ UNCHANGED <<execVars, runnerVars, aborted, timer, catalog, runStatus, announced, result>>

-----------------------------------------------------------------------------
(* The node runner. Runners go on after the stream has been abandoned: none *)
(* of these actions looks at phase.                                         *)

Step(n, to) ==
    /\ pc' = [pc EXCEPT ![n] = to]
    /\ UNCHANGED <<execVars, engineVars, aborted>>

SetStatus(n, status) == steps' = [steps EXCEPT ![stepOf[n]].status = status]

(* A runner starts by calling stepRecorder.start, outside its try block.    *)
StartSuperstep ==
    /\ phase = "streaming"
    /\ BeginSuperstep
    /\ pc' = [n \in graph.nodes |-> IF n \in active' THEN "starting" ELSE pc[n]]
    /\ UNCHANGED <<engineVars, stepOf, steps, aborted>>

(* The recorder appends a RUNNING step.                                     *)
RecordStart(n) ==
    /\ pc[n] = "starting"
    /\ steps' = Append(steps, [node |-> n, status |-> "RUNNING"])
    /\ stepOf' = [stepOf EXCEPT ![n] = Len(steps')]
    /\ Step(n, "started")

(* start() rejects, possibly after it appended the step.                    *)
RecordStartFails(n) ==
    /\ StoreFails
    /\ pc[n] = "starting"
    /\ \/ UNCHANGED steps
       \/ steps' = Append(steps, [node |-> n, status |-> "RUNNING"])
    /\ UNCHANGED stepOf
    /\ Step(n, "threw")

(* From the recorder's answer to the next await: the explicit bindings,     *)
(* then the auto-param resolver for the auto slots, or the handler.         *)
Resolve(n) ==
    /\ pc[n] = "started"
    /\ ~CheckAbort
    /\ IF n \in graph.auto THEN HasParamResolver /\ Step(n, "resolving")
                            ELSE Step(n, "handling")
    /\ UNCHANGED <<stepOf, steps>>

(* The resolver fills the auto slots and the handler is called.             *)
ResolverSettles(n) ==
    /\ pc[n] = "resolving"
    /\ ~CheckAbort
    /\ Step(n, "handling")
    /\ UNCHANGED <<stepOf, steps>>

(* The handler returned an output that parses.                              *)
HandlerSettles(n) ==
    /\ pc[n] = "handling"
    /\ ~CheckAbort
    /\ Step(n, "recordingSuccess")
    /\ UNCHANGED <<stepOf, steps>>

(* The try block throws before it has called the host: checkAbort, a        *)
(* binding, no resolver for an auto slot, the input schema.                 *)
NodeThrows(n) ==
    /\ pc[n] = "started"
    /\ Step(n, "recordingFailure")
    /\ UNCHANGED <<stepOf, steps>>

(* The resolver or the handler rejects, or what it answers is no use: the   *)
(* run was aborted meanwhile, or a schema refuses it.                       *)
HostCallThrows(n) ==
    /\ pc[n] \in {"resolving", "handling"}
    /\ Step(n, "recordingFailure")
    /\ UNCHANGED <<stepOf, steps>>

(* stepRecorder.finish(SUCCESS) resolves and the runner returns.            *)
RecordSuccess(n) ==
    /\ pc[n] = "recordingSuccess"
    /\ SetStatus(n, "SUCCESS")
    /\ UNCHANGED stepOf
    /\ Step(n, "returned")

(* It rejects, possibly after the write: the catch block records FAILED.    *)
RecordSuccessFails(n) ==
    /\ StoreFails
    /\ pc[n] = "recordingSuccess"
    /\ \/ UNCHANGED steps
       \/ SetStatus(n, "SUCCESS")
    /\ UNCHANGED stepOf
    /\ Step(n, "recordingFailure")

(* stepRecorder.finish(FAILED) resolves and the runner throws. The variant  *)
(* throws without recording.                                                *)
ThrowUnrecorded(n) ==
    /\ pc[n] = "recordingFailure"
    /\ UNCHANGED <<stepOf, steps>>
    /\ Step(n, "threw")
RecordFailure(n) ==
    /\ pc[n] = "recordingFailure"
    /\ SetStatus(n, "FAILED")
    /\ UNCHANGED stepOf
    /\ Step(n, "threw")

(* It rejects, which is only logged.                                        *)
RecordFailureFails(n) ==
    /\ StoreFails
    /\ pc[n] = "recordingFailure"
    /\ UNCHANGED <<stepOf, steps>>
    /\ Step(n, "threw")

-----------------------------------------------------------------------------
(* The stream, while execute() iterates over it.                            *)

(* A runner's return value is taken; an IF node's router reads its branch.  *)
TakeOutput(n, b) ==
    /\ phase = "streaming"
    /\ pc[n] = "returned"
    /\ Complete(n, b)
    /\ pc' = [pc EXCEPT ![n] = "idle"]
    /\ UNCHANGED <<engineVars, stepOf, steps, aborted>>

(* The IF router finds no usable branch in the node's output.               *)
RouterThrows(n) ==
    /\ phase = "streaming"
    /\ pc[n] = "returned"
    /\ n \in graph.ifs \ ExitNodes(graph)
    /\ UNCHANGED <<stepOf, steps>>
    /\ Step(n, "threw")

ApplySuperstep ==
    /\ phase = "streaming"
    /\ EndSuperstep
    /\ UNCHANGED <<engineVars, runnerVars, aborted>>

(* The stream ends and completeRun(SUCCESS) is called. The variant does not *)
(* wait for the held fan-in nodes.                                          *)
EndWithHeld ==
    /\ phase = "streaming"
    /\ active = {} /\ ready = {}
    /\ phase' = "completing"
    /\ UNCHANGED <<execVars, runnerVars, aborted, outcome, timer, catalog, runStatus, announced, result>>
StreamEnds ==
    /\ phase = "streaming"
    /\ Finished
    /\ phase' = "completing"
    /\ UNCHANGED <<execVars, runnerVars, aborted, outcome, timer, catalog, runStatus, announced, result>>

(* The stream throws as soon as the signal aborts, a runner has thrown or   *)
(* the superstep limit is hit. The other runners of the superstep are left  *)
(* to themselves: LangGraph stops waiting for them, but the signal they     *)
(* check is the engine's, which a failure of a sibling does not abort.      *)
StreamThrows ==
    /\ phase = "streaming"
    /\ \/ aborted
       \/ \E n \in active : pc[n] = "threw"
       \/ OutOfSteps
    /\ Catch(aborted)
    /\ UNCHANGED <<execVars, runnerVars, aborted, timer, catalog, runStatus, announced, result>>

-----------------------------------------------------------------------------
(* The ends of execute().                                                   *)

CompleteSuccess ==
    /\ phase = "completing"
    /\ runStatus' = "SUCCESS"
    /\ announced' = "SUCCESS"
    /\ EnterFinally("SUCCESS")
    /\ UNCHANGED <<execVars, runnerVars, aborted, outcome, catalog>>

(* completeRun(SUCCESS) rejects, possibly after the write, inside the try   *)
(* block.                                                                   *)
CompleteSuccessFails ==
    /\ StoreFails
    /\ phase = "completing"
    /\ runStatus' \in {runStatus, "SUCCESS"}
    /\ Catch(aborted)
    /\ UNCHANGED <<execVars, runnerVars, aborted, timer, catalog, announced, result>>

Finalize ==
    /\ phase = "finalizing"
    /\ steps' = MarkStale(steps)
    /\ phase' = "closing"
    /\ UNCHANGED <<execVars, pc, stepOf, aborted, outcome, timer, catalog, runStatus, announced, result>>

(* finalizeStaleSteps rejects: the catch block is left, `done` rejects.     *)
FinalizeFails ==
    /\ StoreFails
    /\ phase = "finalizing"
    /\ steps' \in {steps, MarkStale(steps)}
    /\ EnterFinally("rejected")
    /\ UNCHANGED <<execVars, pc, stepOf, aborted, outcome, catalog, runStatus, announced>>

(* completeRun(status), RUN_COMPLETE. The variant announces a status        *)
(* computed anew from the signal instead of the one it persisted.           *)
CloseWithFreshStatus ==
    /\ phase = "closing"
    /\ runStatus' = outcome
    /\ announced' = IF aborted THEN "ABORTED" ELSE "FAILED"
    /\ EnterFinally(outcome)
    /\ UNCHANGED <<execVars, runnerVars, aborted, outcome, catalog>>
CloseRun ==
    /\ phase = "closing"
    /\ runStatus' = outcome
    /\ announced' = outcome
    /\ EnterFinally(outcome)
    /\ UNCHANGED <<execVars, runnerVars, aborted, outcome, catalog>>

CloseRunFails ==
    /\ StoreFails
    /\ phase = "closing"
    /\ runStatus' \in {runStatus, outcome}
    /\ EnterFinally("rejected")
    /\ UNCHANGED <<execVars, runnerVars, aborted, outcome, catalog, announced>>

(* mcpCatalog.cleanup() settles; a rejection is swallowed.                  *)
Cleanup ==
    /\ phase = "cleanup"
    /\ catalog' = "released"
    /\ phase' = "settled"
    /\ UNCHANGED <<execVars, runnerVars, aborted, outcome, timer, runStatus, announced, result>>

-----------------------------------------------------------------------------
(* The run timeout fires. The variant does not abort the run.               *)
TimeoutWithoutAbort ==
    /\ timer = "armed"
    /\ timer' = "fired"
    /\ UNCHANGED <<execVars, runnerVars, aborted, phase, outcome, catalog, runStatus, announced, result>>
Timeout ==
    /\ timer = "armed"
    /\ timer' = "fired"
    /\ aborted' = TRUE
    /\ UNCHANGED <<execVars, runnerVars, phase, outcome, catalog, runStatus, announced, result>>

(* engine.abort(runId) while the run is in flight, or the caller's signal,  *)
(* whose listener stays after the run has settled.                          *)
Abort ==
    /\ ~aborted
    /\ timer # "unset"
    /\ phase # "settled" \/ HasSignal
    /\ aborted' = TRUE
    /\ UNCHANGED <<execVars, engineVars, runnerVars>>

-----------------------------------------------------------------------------
(* What the store and the runner itself do, and what the host's resolver    *)
(* and handler do.                                                          *)
RunnerStep(n) ==
    /\ n \in graph.nodes
    /\ \/ RecordStart(n) \/ RecordStartFails(n)
       \/ Resolve(n) \/ NodeThrows(n)
       \/ RecordSuccess(n) \/ RecordSuccessFails(n)
       \/ RecordFailure(n) \/ RecordFailureFails(n)

HostStep(n) ==
    /\ n \in graph.nodes
    /\ ResolverSettles(n) \/ HandlerSettles(n) \/ HostCallThrows(n)

CatalogStep == CatalogLoads \/ CatalogLoadFails

EngineStep ==
    \/ Compile \/ CompileFails
    \/ StartSuperstep \/ ApplySuperstep
    \/ \E n \in graph.nodes :
          RouterThrows(n) \/ \E b \in Branches(graph, n) : TakeOutput(n, b)
    \/ StreamEnds \/ StreamThrows
    \/ CompleteSuccess \/ CompleteSuccessFails
    \/ Finalize \/ FinalizeFails
    \/ CloseRun \/ CloseRunFails
    \/ Cleanup

Next ==
    \/ StartRun \/ StartRunFails
    \/ CatalogStep
    \/ EngineStep
    \/ \E n \in graph.nodes : RunnerStep(n) \/ HostStep(n)
    \/ Timeout
    \/ Abort

Spec == Init /\ [][Next]_vars

=============================================================================
