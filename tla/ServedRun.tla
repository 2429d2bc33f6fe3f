------------------------------ MODULE ServedRun ------------------------------
(***************************************************************************)
(* A run as an HTTP client of @openpipeline/server sees it: McpRun, whose  *)
(* MCP nodes are resolved against the catalog of the run                   *)
(* (mcp/src/node-resolver.ts), with its books (RunLedger) and its events   *)
(* (RunEvents). Each action is one of McpRun's and what it does to those.  *)
(***************************************************************************)
EXTENDS McpRun, RunLedger, RunEvents

CONSTANTS
    ServerOf,       \* the provider in the key of each MCP node
    Requests,       \* the ways a run is asked for: "stream", "run"
    HostCharges,    \* the host adds to a run's cost
    HostListens,    \* the host has a listener of its own
    InnerChains     \* nodes run LangChain runnables inside

ASSUME ServedAssumption ==
    /\ ServerOf \in [Node -> Servers]
    /\ Requests \subseteq {"stream", "run"}
    /\ {HostCharges, HostListens, InnerChains} \subseteq BOOLEAN

servedVars == <<mcpVars, ledgerVars, eventVars>>
NoEvent == UNCHANGED eventVars
NoEntry == UNCHANGED ledgerVars

ServedInit ==
    /\ McpInit
    /\ LedgerInit(graph.nodes)
    /\ EventsInit(graph.nodes)

-----------------------------------------------------------------------------
ServedStartRun ==
    /\ McpStartRun
    /\ request' \in Requests
    /\ StreamRun \/ AwaitRun
    /\ NoEntry

(* McpNodeResolverImpl.resolveSpec finds the provider of every MCP node in  *)
(* the catalog; a tool that is not exposed or has no usable schema makes    *)
(* compile() fail as well. The variant does not look the provider up.       *)
ResolveAnything == TRUE
resolveSpecs == \A n \in graph.mcp : ServerOf[n] \in providers

-----------------------------------------------------------------------------
(* The runner of n, at the step it records to.                              *)
ServedRunnerStep(n) ==
    /\ n \in graph.nodes
    /\ UNCHANGED loaderVars
    /\ NoEvent
    /\ \/ RecordStart(n) /\ StartStep
       \/ RecordStartFails(n) /\ IF steps' = steps THEN NoEntry ELSE StartStep
       \/ (Resolve(n) \/ NodeThrows(n) \/ RecordFailureFails(n)) /\ NoEntry
       \/ /\ RecordSuccess(n)
          /\ FinishStep(stepOf[n], spent[n])
          /\ UNCHANGED <<spent, cost, latest, row, answer, charged>>
       \/ /\ RecordSuccessFails(n)
          /\ Forget(n)
          /\ IF steps' = steps THEN UNCHANGED stepCosts ELSE FinishStep(stepOf[n], spent[n])
          /\ UNCHANGED <<cost, latest, row, answer, charged>>
       \/ /\ RecordFailure(n)
          /\ FinishStep(stepOf[n], EmptyBag)
          /\ UNCHANGED <<spent, cost, latest, row, answer, charged>>

(* The handler returns. One that costs something has reported it before,    *)
(* as the built-in LLM node does; what it returns does not depend on that.  *)
HandlerReports(n) == HandlerSettles(n) /\ Spend(n, stepOf[n], "handler")

(* The resolver answers with its cost. What was reported before a call      *)
(* threw is forgotten.                                                      *)
ServedHostStep(n) ==
    /\ n \in graph.nodes
    /\ UNCHANGED loaderVars
    /\ NoEvent
    /\ \/ ResolverSettles(n) /\ Spend(n, stepOf[n], "resolver")
       \/ HandlerReports(n)
       \/ /\ HostCallThrows(n)
          /\ Forget(n)
          /\ UNCHANGED <<stepCosts, cost, latest, row, answer, charged>>

-----------------------------------------------------------------------------
(* What one superstep returns to `outputs`.                                 *)
Returned == [n \in active |-> stepOf[n]]

ServedTakeOutput ==
    \E n \in graph.nodes : \E b \in Branches(graph, n) :
        TakeOutput(n, b) /\ AddCost(n) /\ NodeEnds(n)

(* The store may complete the row and still reject.                         *)
RowWritten(Write) ==
    /\ IF runStatus' = runStatus THEN UNCHANGED row ELSE Write
    /\ UNCHANGED <<spent, stepCosts, cost, latest, answer, charged>>

ServedComplete ==
    \/ /\ CompleteSuccess /\ CompleteRow /\ Answer
       /\ UNCHANGED <<spent, stepCosts, cost, latest, charged>>
       /\ RunCompletes("SUCCESS")
    \/ CompleteSuccessFails /\ RowWritten(CompleteRow) /\ NoEvent

ServedClose ==
    \/ CloseRun /\ RowWritten(CloseRow) /\ RunCompletes(outcome)
    \/ CloseRunFails /\ RowWritten(CloseRow) /\ NoEvent

ServedEngineStep ==
    /\ phase = "cleanup" => CloseSettled
    /\ UNCHANGED loaderVars
    /\ \/ Compile /\ resolveSpecs /\ NoEntry /\ NoEvent
       \/ StartSuperstep /\ NoEntry /\ NodesStart(active')
       \/ ServedTakeOutput
       \/ ApplySuperstep /\ ApplyOutputs(Returned) /\ NoEvent
       \/ ServedComplete
       \/ ServedClose
       \/ /\ \/ CompileFails
             \/ \E n \in graph.nodes : RouterThrows(n)
             \/ StreamEnds \/ StreamThrows
             \/ Finalize \/ FinalizeFails
             \/ Cleanup
          /\ NoEntry /\ NoEvent

-----------------------------------------------------------------------------
(* What goes on beside the run.                                             *)
Charge ==
    /\ HostCharges
    /\ runStatus # "none"
    /\ ChargeRun(IF runStatus = "RUNNING" THEN "running" ELSE "closed")
    /\ UNCHANGED mcpVars /\ NoEvent

InnerChain(n) ==
    /\ InnerChains
    /\ phase = "streaming"
    /\ pc[n] \in {"resolving", "handling", "returned"}
    /\ InnerChainStarts(n) \/ InnerChainEnds(n)

Listening ==
    /\ \/ HostListens /\ timer # "unset" /\ HostSubscribes
       \/ \E n \in graph.nodes : InnerChain(n)
    /\ UNCHANGED mcpVars /\ NoEntry

(* What follows once `done` has settled.                                    *)
Settling ==
    /\ phase = "settled" /\ timer # "unset"
    /\ DropListeners \/ EndResponse
    /\ UNCHANGED mcpVars /\ NoEntry

Elsewhere == NoEntry /\ NoEvent

(* POST /run/:runId/abort, or the caller's signal.                          *)
ServedAbort == Abort /\ UNCHANGED loaderVars /\ Elsewhere

ServedNext ==
    \/ ServedStartRun
    \/ StartRunFails /\ UNCHANGED loaderVars /\ request' \in Requests /\ RefuseRun /\ NoEntry
    \/ (Loading \/ McpCatalogStep \/ \E s \in Servers : Closing(s)) /\ Elsewhere
    \/ ServedEngineStep
    \/ \E n \in graph.nodes : ServedRunnerStep(n) \/ ServedHostStep(n)
    \/ Timeout /\ UNCHANGED loaderVars /\ Elsewhere
    \/ ServedAbort
    \/ Charge
    \/ Listening
    \/ Settling

ServedSpec == ServedInit /\ [][ServedNext]_servedVars

(* As McpFairSpec, and microtasks run.                                      *)
ServedFairSpec ==
    /\ ServedSpec
    /\ WF_servedVars(ServedEngineStep)
    /\ WF_servedVars(Timeout /\ UNCHANGED loaderVars /\ Elsewhere)
    /\ \A n \in Node : WF_servedVars(ServedRunnerStep(n))
    /\ WF_servedVars((Loading \/ McpCatalogStep) /\ Elsewhere)
    /\ \A s \in Servers : WF_servedVars(Closing(s) /\ Elsewhere)
    /\ WF_servedVars(Settling)

-----------------------------------------------------------------------------
(* What listRuns says of the run.                                           *)
listRuns == [status |-> runStatus, cost |-> row.cost]

(* While a run is RUNNING its row has what the host charged it beside the   *)
(* engine, once, and nothing of its steps. A run recorded SUCCESS costs     *)
(* what its steps cost together, no report lost and none counted twice,     *)
(* however its nodes interleave and even if one ran twice, and the host's   *)
(* charge; `done` says the same of the steps. The Prisma store loses a      *)
(* charge: completeRun replaces what updateRunCostAtomic added while the    *)
(* run was RUNNING, and the cost is that of the steps alone (mergeCost,     *)
(* completeRun, updateRunCostAtomic). A run that failed is not covered.     *)
ReportsOf(i) == DOMAIN stepCosts[i]
OfTheSteps == SetToBag(UNION {ReportsOf(i) : i \in DOMAIN stepCosts})
HostCharge == IF charged = "no" THEN EmptyBag ELSE HostReport
ChargeIsReplaced == ~InMemory /\ charged = "running"

CostAddsUp ==
    /\ listRuns.status = "RUNNING" => listRuns.cost = HostCharge
    /\ listRuns.status = "SUCCESS" =>
          listRuns.cost = IF ChargeIsReplaced THEN OfTheSteps
                                              ELSE OfTheSteps (+) HostCharge
    /\ result = "SUCCESS" => answer.cost = OfTheSteps
    /\ runStatus = "SUCCESS" =>
          \A i \in DOMAIN steps : <<i, "handler">> \in ReportsOf(i)

(* The row of a successful run, and `done`, have for every node the output  *)
(* of the last of its executions, which is what its last step recorded (the *)
(* reducer of `outputs`, completeRun).                                      *)
LastStep(n, i) ==
    /\ i \in DOMAIN steps /\ steps[i].node = n
    /\ \A j \in DOMAIN steps : steps[j].node = n => j <= i
LastOutputWins ==
    runStatus = "SUCCESS" =>
        /\ \A n \in graph.nodes :
              (\E i \in DOMAIN steps : steps[i].node = n) <=> n \in DOMAIN row.outputs
        /\ \A n \in DOMAIN row.outputs : LastStep(n, row.outputs[n])
        /\ result = "SUCCESS" => answer.outputs = row.outputs

(* No MCP node runs without a provider, and the client behind its tools is  *)
(* open for as long as the engine runs its nodes (resolveSpec, execute()).  *)
ToolsAreConnected ==
    phase \in {"streaming", "completing"} =>
        \A n \in graph.mcp :
            ServerOf[n] \in providers /\ client[ServerOf[n]] = "open"

(* What the canvas of a streaming client shows: while nodes run, a node is  *)
(* blank until it has started and green once its output is taken; when the  *)
(* client is told SUCCESS, exactly the nodes with an output are green and   *)
(* none looks as if it still ran (translateEvent, App.run).                 *)
Started == outputs \cup active
OverlayIsTrue ==
    request = "stream" =>
        /\ phase = "streaming" =>
              \A n \in graph.nodes :
                 /\ shown[n] = "none" <=> n \notin Started
                 /\ n \in (outputs \ active) \cup done => shown[n] = "SUCCESS"
        /\ "SUCCESS" \in told =>
              \A n \in graph.nodes :
                 shown[n] = IF n \in outputs THEN "SUCCESS" ELSE "none"

(* A stream that ends has brought the client one RUN_COMPLETE, with the     *)
(* status of `done`, or none if `done` or run() rejected (emit(),           *)
(* runAndStream).                                                           *)
ClientIsTold ==
    request = "stream" /\ response = "ended" =>
        told = IF result \in Outcomes THEN {result} ELSE {}

(* Once the response has ended the engine keeps no listener of the run, nor *)
(* an entry for them, unless the host subscribed after the entry had been   *)
(* deleted; then nothing deletes it any more (run(), onEvent).              *)
ListenersAreDropped ==
    response = "ended" => hasEntry = ("host" \in listeners) /\ "sse" \notin listeners

(* Every response ends, unless the run's catalog is being loaded from a     *)
(* server that pages its tools (runAndStream, runPipeline).                 *)
ResponseEnds ==
    response = "open" ~> response = "ended" \/ loader = "nextCursor"

=============================================================================
