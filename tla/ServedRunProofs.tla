--------------------------- MODULE ServedRunProofs ---------------------------
(***************************************************************************)
(* Proofs about McpRun and about ServedRun, which refines it, for all      *)
(* graphs and options, any servers and numbers of pages, a store that may  *)
(* fail, and any mix of requests and listeners.                            *)
(***************************************************************************)
EXTENDS ServedRun, PipelineRunProofs

-----------------------------------------------------------------------------
(* A run with the MCP catalog loader taken apart.                           *)

(* What a run with the loader of @openpipeline/mcp does, a run does.        *)
LEMMA McpStepIsStep == [McpNext]_mcpVars => [Next]_vars
  BY DEF McpNext, mcpVars, Next, McpStartRun, Loading, McpCatalogStep, CatalogStep, Closing,
     McpEngineStep

THEOREM McpRunIsRun == McpSpec => Spec
<1>1. McpInit => Init
  BY DEF McpInit
<1> QED
  BY <1>1, McpStepIsStep, PTL DEF McpSpec, Spec

(* So the properties proved of PipelineRun hold: of its success ...         *)
THEOREM McpSuccessIsComplete == McpSpec => []SuccessMeansAllDone
  BY McpRunIsRun, SuccessIsComplete, PTL

(* ... and of its outcome.                                                  *)
THEOREM McpOutcomesAgree == McpSpec => []OutcomeAgrees
  BY McpRunIsRun, OutcomesAgree, PTL

-----------------------------------------------------------------------------
(* The steps of the engine after the catalog and before it has settled.     *)
LEMMA EngineStepPhases ==
    ASSUME EngineStep
    PROVE  /\ phase \notin {"idle", "loadingCatalog", "settled"}
           /\ phase' \notin {"idle", "loadingCatalog"}
           /\ phase = "cleanup" => phase' = "settled" /\ catalog' = "released"
           /\ phase # "cleanup" => catalog' = catalog
           /\ phase' = "settled" => phase = "cleanup" \/ catalog # "open"
<1>1. CASE \/ StartSuperstep \/ ApplySuperstep
           \/ \E n \in graph.nodes :
                 RouterThrows(n) \/ \E b \in Branches(graph, n) : TakeOutput(n, b)
  BY <1>1 DEF StartSuperstep, ApplySuperstep, RouterThrows, TakeOutput, Step, engineVars
<1>2. CASE \/ Compile \/ CompileFails \/ StreamEnds \/ StreamThrows
           \/ CompleteSuccess \/ CompleteSuccessFails
           \/ Finalize \/ FinalizeFails \/ CloseRun \/ CloseRunFails \/ Cleanup
  BY <1>2 DEF Compile, CompileFails, StreamEnds, StreamThrows, CompleteSuccess,
     CompleteSuccessFails, Finalize, FinalizeFails, CloseRun, CloseRunFails, Cleanup,
     Catch, EnterFinally
<1> QED
  BY <1>1, <1>2 DEF EngineStep

(* The loader's steps, by what they leave as it is.                         *)
LEMMA LoadingKeepsLoaderInv == ASSUME LoaderInv, Loading PROVE LoaderInv'
<1> USE DEF LoaderInv, LoaderTypeOK, LoaderState
<1>1. /\ phase = "loadingCatalog" /\ phase' = phase /\ catalog' = catalog /\ catalog = "none"
      /\ LoaderStep
  BY DEF Loading, vars, engineVars
<1>2. ASSUME NEW rest \in SUBSET Servers, NextServer(rest)
      PROVE  /\ loader' \in {"resolved", "resolveToken"}
             /\ loader' = "resolveToken" => server' \in Servers
             /\ server' \in Servers \cup {NoServer} /\ left' \subseteq Servers /\ page' \in Nat
  BY <1>2 DEF NextServer
<1>3. CASE FilterProviders
  BY <1>1, <1>2, <1>3 DEF FilterProviders
<1>4. CASE CreateClient
  <2>1. server \in Servers
    BY <1>4 DEF CreateClient
  <2>2. /\ client' \in [Servers -> {"none", "open", "closed", "unclosed"}]
        /\ \A s \in Servers : client'[s] = IF s = server THEN "open" ELSE client[s]
    BY <1>4, <2>1 DEF CreateClient
  <2> QED
    BY <1>1, <1>4, <2>1, <2>2 DEF CreateClient, PushClient
<1>5. CASE CreateClientThrows \/ GetToolsFails
  BY <1>1, <1>2, <1>5 DEF CreateClientThrows, GetToolsFails
<1>6. CASE GetTools \/ FilterTools \/ AskAgain \/ PolicyRejects
  BY <1>1, <1>6 DEF GetTools, FilterTools, AskAgain, PolicyRejects
<1>7. CASE ListTools
  BY <1>1, <1>7 DEF ListTools, PageAnswered
<1>8. CASE Provide \/ ProvideWithoutSchemas
  BY <1>1, <1>2, <1>8 DEF Provide, ProvideWithoutSchemas
<1> QED
  BY <1>1, <1>3, <1>4, <1>5, <1>6, <1>7, <1>8 DEF LoaderStep

LEMMA ClosingKeepsLoaderInv ==
    ASSUME LoaderInv, NEW s \in Servers, Closing(s) PROVE LoaderInv'
<1> USE DEF LoaderInv, LoaderTypeOK, LoaderState
<1>1. /\ phase = "cleanup" /\ phase' = phase /\ catalog' = catalog
      /\ UNCHANGED <<loader, left, server, clients, providers, page>>
      /\ client[s] = "open"
  BY DEF Closing, vars, engineVars, CloseClient
<1>2. /\ client' \in [Servers -> {"none", "open", "closed", "unclosed"}]
      /\ \A t \in Servers : client'[t] = "none" <=> client[t] = "none"
  BY <1>1 DEF Closing, CloseClient
<1> QED
  BY <1>1, <1>2

(* What a step of the run leaves of the loader is the loader.               *)
LEMMA StepKeepsLoaderInv ==
    ASSUME LoaderInv, [McpNext]_mcpVars PROVE LoaderInv'
<1> DEFINE NotLoader == UNCHANGED loaderVars
<1>1. CASE McpStartRun
  <2>1. /\ phase = "idle" /\ loader = "idle" /\ catalog = "none" /\ catalog' = catalog
        /\ phase' \in {"finalizing", "loadingCatalog", "compiling"}
    BY <1>1 DEF McpStartRun, StartRun, Catch, LoaderInv, LoaderTypeOK, LoaderState
  <2>2. CASE phase' = "loadingCatalog"
    BY <1>1, <2>1, <2>2 DEF McpStartRun, CallLoad, LoaderInv, LoaderTypeOK, LoaderState
  <2>3. CASE phase' # "loadingCatalog"
    BY <1>1, <2>1, <2>3 DEF McpStartRun, loaderVars, LoaderInv, LoaderTypeOK, LoaderState
  <2> QED
    BY <2>2, <2>3
<1>2. CASE StartRunFails /\ NotLoader
  BY <1>2 DEF StartRunFails, loaderVars, LoaderInv, LoaderTypeOK
<1>3. CASE Loading
  BY <1>3, LoadingKeepsLoaderInv
<1>4. CASE McpCatalogStep
  BY <1>4 DEF McpCatalogStep, CatalogLoads, CatalogLoadFails, Catch, loaderVars, LoaderInv,
     LoaderTypeOK
<1>5. CASE McpEngineStep
  <2>1. /\ EngineStep /\ NotLoader
        /\ phase = "cleanup" => CloseSettled
    BY <1>5 DEF McpEngineStep
  <2>2. CloseSettled' <=> CloseSettled
    BY <2>1 DEF CloseSettled, loaderVars
  <2> QED
    BY <2>1, <2>2, EngineStepPhases DEF loaderVars, LoaderInv, LoaderTypeOK
<1>6. CASE \E s \in Servers : Closing(s)
  BY <1>6, ClosingKeepsLoaderInv
<1>7. CASE /\ NotLoader
           /\ \/ \E n \in graph.nodes : RunnerStep(n) \/ HostStep(n)
              \/ Timeout \/ Abort
              \/ UNCHANGED vars
  <2>1. phase' = phase /\ catalog' = catalog
    BY <1>7, RunnerCases DEF Timeout, Abort, vars, engineVars
  <2> QED
    BY <1>7, <2>1 DEF loaderVars, LoaderInv, LoaderTypeOK, CloseSettled
<1> QED
  BY <1>1, <1>2, <1>3, <1>4, <1>5, <1>6, <1>7 DEF McpNext, mcpVars

(* cleanup() knows every client, and a run whose catalog loaded has closed  *)
(* them when it settles (createEnvCatalogLoader, execute()).                *)
THEOREM LoaderIsSafe == McpSpec => []LoaderInv
<1>1. McpInit => LoaderInv
  BY ServersAssumption DEF McpInit, Init, LoaderInit, LoaderInv, LoaderTypeOK, LoaderState
<1>2. LoaderInv /\ [McpNext]_mcpVars => LoaderInv'
  BY StepKeepsLoaderInv
<1> QED
  BY <1>1, <1>2, PTL DEF McpSpec

(* A run that has settled has no open client, except one whose catalog      *)
(* could not be loaded.                                                     *)
THEOREM ClientsAreAlwaysClosed == McpSpec => []ClientsAreClosed
<1>1. LoaderInv => ClientsAreClosed
  BY DEF LoaderInv, ClientsAreClosed, CloseSettled
<1> QED
  BY <1>1, LoaderIsSafe, PTL

-----------------------------------------------------------------------------
(* A run as its HTTP client sees it.                                        *)

(* What a served run does with its loader, its nodes and its rows, McpRun   *)
(* does.                                                                    *)
LEMMA ServedStepIsStep == [ServedNext]_servedVars => [McpNext]_mcpVars
<1> SUFFICES ASSUME [ServedNext]_servedVars PROVE [McpNext]_mcpVars
  OBVIOUS
<1> USE DEF McpNext
<1>1. CASE UNCHANGED servedVars
  BY <1>1 DEF servedVars
<1>2. CASE ServedStartRun
  BY <1>2 DEF ServedStartRun
<1>3. CASE ServedEngineStep
  <2>1. EngineStep
    BY <1>3 DEF ServedEngineStep, ServedTakeOutput, ServedComplete, ServedClose, EngineStep
  <2> QED
    BY <1>3, <2>1 DEF ServedEngineStep, McpEngineStep
<1>4. ASSUME NEW n \in graph.nodes, ServedRunnerStep(n) \/ ServedHostStep(n)
      PROVE  (RunnerStep(n) \/ HostStep(n)) /\ UNCHANGED loaderVars
  BY <1>4 DEF ServedRunnerStep, ServedHostStep, HandlerReports, RunnerStep, HostStep
<1>5. CASE \/ StartRunFails /\ UNCHANGED loaderVars
           \/ Loading \/ McpCatalogStep \/ \E s \in Servers : Closing(s)
           \/ Timeout /\ UNCHANGED loaderVars
           \/ ServedAbort
  BY <1>5 DEF ServedAbort
<1>6. CASE Charge \/ Listening \/ Settling
  BY <1>6 DEF Charge, Listening, Settling
<1> QED
  BY <1>1, <1>2, <1>3, <1>4, <1>5, <1>6 DEF ServedNext

(* So a served run is a run of McpRun, and of PipelineRun.                  *)
THEOREM ServedRunIsRun == ServedSpec => McpSpec
<1>1. ServedInit => McpInit
  BY DEF ServedInit
<1> QED
  BY <1>1, ServedStepIsStep, PTL DEF ServedSpec, McpSpec

(* The invariants of the run and of its loader, which the following rest on.*)
LEMMA ServedRunInv == ServedSpec => [](RunInv /\ LoaderInv)
BY ServedRunIsRun, McpRunIsRun, RunInvariant, LoaderIsSafe, PTL

-----------------------------------------------------------------------------
(* What every step of the engine after the catalog leaves of the loader.    *)

(* compile() has found the provider of each MCP node before the first node  *)
(* runs, and providers does not change afterwards.                          *)
ToolsInv ==
    phase \in {"streaming", "completing"} =>
        \A n \in graph.mcp : ServerOf[n] \in providers

LEMMA ToolsNext == ToolsInv /\ [ServedNext]_servedVars => ToolsInv'
<1> SUFFICES ASSUME ToolsInv, [ServedNext]_servedVars,
                    phase' \in {"streaming", "completing"}
             PROVE  graph' = graph /\ \A n \in graph.mcp : ServerOf[n] \in providers'
  BY DEF ToolsInv
<1> USE DEF ToolsInv
<1>1. CASE UNCHANGED servedVars
  BY <1>1 DEF servedVars, mcpVars, vars, execVars, engineVars, loaderVars
<1>2. CASE ServedStartRun \/ StartRunFails
  BY <1>2 DEF ServedStartRun, McpStartRun, StartRun, StartRunFails, Catch
<1>3. CASE Loading \/ McpCatalogStep \/ \E s \in Servers : Closing(s)
  BY <1>3 DEF Loading, McpCatalogStep, CatalogLoads, CatalogLoadFails, Catch, Closing, CloseClient,
     vars, engineVars
<1>4. CASE ServedEngineStep
  <2>1. providers' = providers
    BY <1>4 DEF ServedEngineStep, loaderVars
  <2>2. CASE Compile /\ resolveSpecs
    BY <2>1, <2>2 DEF Compile, Invoke, resolveSpecs
  <2>3. CASE StartSuperstep \/ ApplySuperstep
    BY <2>1, <2>3 DEF StartSuperstep, ApplySuperstep, BeginSuperstep, EndSuperstep, engineVars
  <2>4. CASE ServedTakeOutput \/ \E n \in graph.nodes : RouterThrows(n)
    BY <2>1, <2>4 DEF ServedTakeOutput, TakeOutput, Complete, RouterThrows, Step, execVars, engineVars
  <2>5. CASE \/ ServedComplete \/ ServedClose \/ CompileFails \/ StreamEnds \/ StreamThrows
             \/ Finalize \/ FinalizeFails \/ Cleanup
    BY <2>1, <2>5 DEF ServedComplete, ServedClose, CompleteSuccess, CompleteSuccessFails, CloseRun,
       CloseRunFails, CompileFails, StreamEnds, StreamThrows, Finalize, FinalizeFails, Cleanup,
       Catch, EnterFinally, execVars
  <2> QED
    BY <1>4, <2>2, <2>3, <2>4, <2>5 DEF ServedEngineStep
<1>5. ASSUME NEW n \in graph.nodes, ServedRunnerStep(n) \/ ServedHostStep(n)
      PROVE  UNCHANGED <<graph, phase, providers>>
  <2>1. (RunnerStep(n) \/ HostStep(n)) /\ UNCHANGED loaderVars
    BY <1>5 DEF ServedRunnerStep, ServedHostStep, HandlerReports, RunnerStep, HostStep
  <2> QED
    BY <2>1, RunnerCases DEF execVars, engineVars, loaderVars
<1>6. CASE (Timeout \/ Abort) /\ UNCHANGED loaderVars
  BY <1>6 DEF Timeout, Abort, execVars, engineVars, loaderVars
<1>7. CASE Charge \/ Listening \/ Settling
  BY <1>7 DEF Charge, Listening, Settling, mcpVars, vars, execVars, engineVars, loaderVars
<1> QED
  BY <1>1, <1>2, <1>3, <1>4, <1>5, <1>6, <1>7 DEF ServedNext, ServedAbort

(* No MCP node runs without a provider, nor on a client that is closed:     *)
(* about resolveSpec and the finally block of execute().                    *)
THEOREM ToolsAreAlwaysConnected == ServedSpec => []ToolsAreConnected
<1>1. ServedInit => ToolsInv
  BY DEF ServedInit, McpInit, Init, ToolsInv
<1>2. ToolsInv /\ LoaderInv => ToolsAreConnected
  BY DEF ToolsInv, LoaderInv, ToolsAreConnected
<1> QED
  BY <1>1, <1>2, ToolsNext, ServedRunInv, PTL DEF ServedSpec

-----------------------------------------------------------------------------
(* Events. The steps that touch the listeners, the response or the canvas   *)
(* are few; all others leave eventVars as they are.                         *)
Refused == StartRunFails /\ request' \in Requests /\ RefuseRun
Begun == StartSuperstep /\ NodesStart(active')
Taken ==
    \E n \in graph.nodes : \E b \in Branches(graph, n) : TakeOutput(n, b) /\ NodeEnds(n)
Closed ==
    \/ CompleteSuccess /\ RunCompletes("SUCCESS")
    \/ CloseRun /\ RunCompletes(outcome)
Emits ==
    \/ ServedStartRun \/ Refused
    \/ Begun \/ Taken
    \/ Closed
    \/ Listening \/ Settling

(* What the other steps leave: the sequel needs no more of them.            *)
Silent ==
    /\ NoEvent
    /\ UNCHANGED <<graph, announced>>
    /\ phase = "settled" => UNCHANGED <<phase, result>>
    /\ phase' = "idle" <=> phase = "idle"
    /\ timer = "unset" /\ phase \in {"idle", "settled"} => timer' = "unset"
    /\ \/ UNCHANGED <<outputs, active, done>>
       \/ ApplySuperstep
    /\ phase' \in {"loadingCatalog", "compiling"} => phase \in {"loadingCatalog", "compiling"}
    /\ phase' = "streaming" => phase = "streaming" \/ Compile
    /\ phase' = "completing" => phase = "completing" \/ StreamEnds

LEMMA EventCases ==
    ASSUME TypeOK, [ServedNext]_servedVars
    PROVE  Emits \/ Silent
<1> USE DEF Silent, NoEvent
<1>1. CASE UNCHANGED servedVars
  BY <1>1 DEF servedVars, mcpVars, vars, execVars, engineVars
<1>2. CASE ServedStartRun \/ (StartRunFails /\ request' \in Requests /\ RefuseRun)
  BY <1>2 DEF Emits, Refused
<1>3. CASE (Loading \/ McpCatalogStep \/ \E s \in Servers : Closing(s)) /\ Elsewhere
  BY <1>3 DEF Loading, McpCatalogStep, CatalogLoads, CatalogLoadFails, Catch, Closing, vars, execVars,
     engineVars, Elsewhere
<1>4. CASE ServedEngineStep
  <2>1. CASE (StartSuperstep /\ NodesStart(active')) \/ ServedTakeOutput
    BY <2>1 DEF ServedTakeOutput, Emits, Begun, Taken
  <2>2. CASE Compile /\ NoEvent
    BY <2>2 DEF Compile, Invoke
  <2>3. CASE ApplySuperstep /\ NoEvent
    BY <2>3 DEF ApplySuperstep, EndSuperstep, engineVars
  <2>4. CASE /\ NoEvent
             /\ \/ CompileFails \/ StreamEnds \/ StreamThrows
                \/ \E n \in graph.nodes : RouterThrows(n)
                \/ Finalize \/ FinalizeFails \/ Cleanup
    BY <2>4 DEF CompileFails, StreamEnds, StreamThrows, RouterThrows, Step, Finalize, FinalizeFails,
       Cleanup, Catch, EnterFinally, execVars, engineVars
  <2>5. CASE ServedComplete \/ ServedClose
    BY <2>5 DEF ServedComplete, ServedClose, CompleteSuccessFails, CloseRunFails, Catch, EnterFinally,
       execVars, Emits, Closed
  <2> QED
    BY <1>4, <2>1, <2>2, <2>3, <2>4, <2>5 DEF ServedEngineStep
<1>5. ASSUME NEW n \in graph.nodes, ServedRunnerStep(n) \/ ServedHostStep(n)
      PROVE  Silent
  <2>1. (RunnerStep(n) \/ HostStep(n)) /\ NoEvent
    BY <1>5 DEF ServedRunnerStep, ServedHostStep, HandlerReports, RunnerStep, HostStep
  <2> QED
    BY <2>1, RunnerCases DEF execVars, engineVars
<1>6. CASE (Timeout \/ ServedAbort) /\ Elsewhere
  BY <1>6 DEF Timeout, ServedAbort, Abort, Elsewhere, execVars, engineVars
<1>7. CASE Charge
  BY <1>7 DEF Charge, mcpVars, vars, execVars, engineVars
<1>8. CASE Listening \/ Settling
  BY <1>8 DEF Emits
<1> QED
  BY <1>1, <1>2, <1>3, <1>4, <1>5, <1>6, <1>7, <1>8 DEF ServedNext, ServedAbort

(* Before run() there is no entry; as long as the run has not settled a     *)
(* streaming client is subscribed; the microtask deletes the entry once the *)
(* run has settled, and only the host can make a new one; a response that   *)
(* has ended without it is that of a run that never started.                *)
ListenerInv ==
    /\ hasEntry \in BOOLEAN /\ dropped \in BOOLEAN
    /\ phase = "idle" =>
          /\ timer = "unset" /\ request = "none" /\ response = "none"
          /\ ~dropped /\ ~hasEntry /\ listeners = {}
    /\ request = "stream" /\ phase # "settled" => "sse" \in listeners
    /\ dropped =>
          /\ phase = "settled"
          /\ (hasEntry <=> "host" \in listeners) /\ "sse" \notin listeners
    /\ response = "ended" =>
          /\ phase = "settled"
          /\ dropped \/ (timer = "unset" /\ ~hasEntry /\ listeners = {})

LEMMA ListenerNext ==
    ASSUME TypeOK, ListenerInv, [ServedNext]_servedVars PROVE ListenerInv'
<1> USE DEF ListenerInv
<1>1. CASE Silent
  BY <1>1 DEF Silent, NoEvent, eventVars
<1>2. CASE ServedStartRun
  <2>1. phase = "idle" /\ phase' \notin {"idle", "settled"}
    BY <1>2 DEF ServedStartRun, McpStartRun, StartRun, Catch
  <2>2. /\ dropped' = dropped /\ response' = "open"
        /\ \/ request' = "stream" /\ hasEntry' = TRUE /\ "sse" \in listeners'
           \/ request' = "run" /\ hasEntry' = hasEntry
    BY <1>2 DEF ServedStartRun, StreamRun, AwaitRun, Subscribe
  <2> QED
    BY <2>1, <2>2
<1>3. CASE Refused
  BY <1>3 DEF Refused, StartRunFails, RefuseRun
<1>4. CASE Begun \/ Taken
  <2>1. UNCHANGED <<phase, timer, announced>>
    BY <1>4 DEF Begun, Taken, StartSuperstep, TakeOutput, engineVars
  <2>2. UNCHANGED <<hasEntry, listeners, dropped, request, response, told>>
    BY <1>4 DEF Begun, Taken, NodesStart, NodeEnds
  <2> QED
    BY <2>1, <2>2
<1>5. CASE Closed
  BY <1>5 DEF Closed, CompleteSuccess, CloseRun, RunCompletes, EnterFinally
<1>6. CASE Listening
  <2>1. UNCHANGED <<phase, timer>>
    BY <1>6 DEF Listening, mcpVars, vars, engineVars
  <2>2. CASE timer # "unset" /\ HostSubscribes
    BY <2>1, <2>2 DEF HostSubscribes, Subscribe
  <2>3. ASSUME NEW n \in graph.nodes, InnerChain(n) PROVE ListenerInv'
    <3>1. NodesStart({n}) \/ NodeEnds(n)
      BY <2>3 DEF InnerChain, InnerChainStarts, InnerChainEnds
    <3>2. UNCHANGED <<hasEntry, listeners, dropped, request, response>>
      BY <3>1 DEF NodesStart, NodeEnds
    <3> QED
      BY <2>1, <3>2
  <2> QED
    BY <1>6, <2>2, <2>3 DEF Listening
<1>7. CASE Settling
  <2>1. phase = "settled" /\ UNCHANGED <<phase, timer>>
    BY <1>7 DEF Settling, mcpVars, vars, engineVars
  <2>2. CASE DropListeners
    <3>1. /\ dropped' = TRUE /\ hasEntry' = FALSE /\ listeners' = {}
          /\ UNCHANGED <<request, response>>
      BY <2>2 DEF DropListeners
    <3> QED
      BY <2>1, <3>1
  <2>3. CASE EndResponse
    <3>1. /\ dropped /\ dropped' = dropped /\ hasEntry' = hasEntry
          /\ listeners' = listeners \ {"sse"} /\ request' = request
      BY <2>3 DEF EndResponse
    <3> QED
      BY <2>1, <3>1
  <2> QED
    BY <1>7, <2>2, <2>3 DEF Settling
<1>8. Emits \/ Silent
  BY EventCases
<1> HIDE DEF ListenerInv
<1> QED
  BY <1>1, <1>2, <1>3, <1>4, <1>5, <1>6, <1>7, <1>8 DEF Emits

(* When the response has ended the engine holds no listener of the run but  *)
(* one the host has added since: about run(), onEvent and emit().           *)
THEOREM ListenersAreAlwaysDropped == ServedSpec => []ListenersAreDropped
<1>1. ServedInit => ListenerInv
  BY DEF ServedInit, McpInit, Init, EventsInit, ListenerInv
<1>2. RunInv /\ ListenerInv /\ [ServedNext]_servedVars => ListenerInv'
  BY ListenerNext DEF RunInv, TypeInv
<1>3. ListenerInv => ListenersAreDropped
  BY DEF ListenerInv, ListenersAreDropped
<1> QED
  BY <1>1, <1>2, <1>3, ServedRunInv, PTL DEF ServedSpec

-----------------------------------------------------------------------------
(* A streaming client has been told what has been announced.                *)
ToldInv ==
    /\ phase = "idle" => told = {}
    /\ request = "stream" => told = IF announced = "none" THEN {} ELSE {announced}

LEMMA ToldNext ==
    ASSUME RunInv, ListenerInv, ToldInv, [ServedNext]_servedVars PROVE ToldInv'
<1> USE DEF ToldInv
<1>1. CASE Silent
  BY <1>1 DEF Silent, NoEvent, eventVars
<1>2. CASE ServedStartRun \/ Refused
  <2>1. announced = "none" /\ told = {}
    BY <1>2 DEF ServedStartRun, McpStartRun, StartRun, Refused, StartRunFails, RunInv, OutcomeInv
  <2>2. UNCHANGED <<announced, told>> /\ phase' # "idle"
    BY <1>2 DEF ServedStartRun, McpStartRun, StartRun, Catch, StreamRun, AwaitRun, Refused, StartRunFails,
       RefuseRun
  <2> QED
    BY <2>1, <2>2
<1>3. CASE Begun \/ Taken
  <2>1. UNCHANGED <<phase, timer, announced>>
    BY <1>3 DEF Begun, Taken, StartSuperstep, TakeOutput, engineVars
  <2>2. UNCHANGED <<hasEntry, listeners, dropped, request, response, told>>
    BY <1>3 DEF Begun, Taken, NodesStart, NodeEnds
  <2> QED
    BY <2>1, <2>2
<1>4. CASE Closed
  <2>1. /\ announced = "none" /\ announced' \in {"SUCCESS", outcome} /\ announced' # "none"
        /\ phase \notin {"idle", "settled"} /\ phase' # "idle"
        /\ request' = request
        /\ told' = IF "sse" \in listeners THEN told \cup {announced'} ELSE told
    BY <1>4 DEF Closed, CompleteSuccess, CloseRun, RunCompletes, EnterFinally, RunInv, OutcomeInv
  <2> QED
    BY <2>1 DEF ListenerInv
<1>5. CASE Listening \/ Settling
  <2>1. /\ UNCHANGED <<phase, announced>>
        /\ UNCHANGED <<request, told>>
    BY <1>5 DEF Listening, Settling, mcpVars, vars, engineVars, HostSubscribes, Subscribe, InnerChain,
       InnerChainStarts, InnerChainEnds, NodesStart, NodeEnds, DropListeners, EndResponse
  <2> QED
    BY <2>1
<1>6. Emits \/ Silent
  BY EventCases DEF RunInv, TypeInv
<1> HIDE DEF ToldInv
<1> QED
  BY <1>1, <1>2, <1>3, <1>4, <1>5, <1>6 DEF Emits

LEMMA ServedEventInv == ServedSpec => [](RunInv /\ ListenerInv /\ ToldInv)
<1>1. ServedInit => ListenerInv /\ ToldInv
  BY DEF ServedInit, McpInit, Init, EventsInit, ListenerInv, ToldInv
<1>2. RunInv /\ ListenerInv /\ [ServedNext]_servedVars => ListenerInv'
  BY ListenerNext DEF RunInv, TypeInv
<1>3. RunInv /\ ListenerInv /\ ToldInv /\ [ServedNext]_servedVars => ToldInv'
  BY ToldNext
<1> QED
  BY <1>1, <1>2, <1>3, ServedRunInv, PTL DEF ServedSpec

(* A stream that ends has told its client how the run ended, once, and      *)
(* nothing if `done` rejected: about emit() and runAndStream().             *)
THEOREM ClientIsAlwaysTold == ServedSpec => []ClientIsTold
<1>1. RunInv /\ ListenerInv /\ ToldInv => ClientIsTold
  BY DEF RunInv, OutcomeInv, TypeInv, TypeOK, ListenerInv, ToldInv, ClientIsTold, Outcomes
<1> QED
  BY <1>1, ServedEventInv, PTL

-----------------------------------------------------------------------------
(* The canvas of a streaming client.                                        *)
OverlayInv ==
    /\ shown \in [graph.nodes -> {"none", "RUNNING", "SUCCESS"}]
    /\ phase = "idle" => \A n \in graph.nodes : shown[n] = "none"
    /\ request = "stream" =>
          /\ phase \in {"loadingCatalog", "compiling"} =>
                \A n \in graph.nodes : shown[n] = "none"
          /\ phase = "streaming" =>
                \A n \in graph.nodes :
                   /\ shown[n] = "none" <=> n \notin Started
                   /\ n \in (outputs \ active) \cup done => shown[n] = "SUCCESS"
          /\ phase = "completing" \/ announced = "SUCCESS" =>
                \A n \in graph.nodes : shown[n] = IF n \in outputs THEN "SUCCESS" ELSE "none"

(* The steps that change neither the nodes nor the canvas.                  *)
LEMMA OverlaySilent ==
    ASSUME RunInv, OverlayInv, Silent PROVE OverlayInv'
<1>1. /\ UNCHANGED <<graph, announced, shown, request>>
      /\ \/ UNCHANGED <<outputs, active, done>>
         \/ ApplySuperstep
      /\ phase' \in {"loadingCatalog", "compiling"} => phase \in {"loadingCatalog", "compiling"}
      /\ phase' = "streaming" => phase = "streaming" \/ Compile
      /\ phase' = "completing" => phase = "completing" \/ StreamEnds
      /\ phase' = "idle" <=> phase = "idle"
  BY DEF Silent, NoEvent, eventVars
<1>2. ASSUME request = "stream", phase' = "streaming", NEW n \in graph.nodes
      PROVE  /\ shown[n] = "none" <=> n \notin Started'
             /\ n \in (outputs' \ active') \cup done' => shown[n] = "SUCCESS"
  <2>1. CASE phase = "streaming" /\ UNCHANGED <<outputs, active, done>>
    BY <1>2, <2>1 DEF OverlayInv, Started
  <2>2. CASE ApplySuperstep
    <3>1. /\ phase = "streaming" /\ done = active
          /\ outputs' = outputs \cup active /\ active' = {} /\ done' = {}
      BY <2>2 DEF ApplySuperstep, EndSuperstep
    <3> QED
      BY <1>2, <3>1 DEF OverlayInv, Started
  <2>3. CASE Compile
    <3>1. /\ phase = "compiling"
          /\ outputs' = {} /\ active' = {} /\ done' = {}
      BY <2>3 DEF Compile, Invoke, RunInv, FreshInv
    <3> QED
      BY <1>2, <3>1 DEF OverlayInv, Started
  <2> QED
    BY <1>1, <1>2, <2>1, <2>2, <2>3
<1>3. ASSUME request = "stream", phase' = "completing" \/ announced = "SUCCESS"
      PROVE  \A n \in graph.nodes : shown[n] = IF n \in outputs' THEN "SUCCESS" ELSE "none"
  <2>1. CASE phase = "completing" \/ announced = "SUCCESS"
    <3>1. phase # "streaming"
      BY <2>1 DEF RunInv, OutcomeInv
    <3>2. outputs' = outputs
      BY <1>1, <3>1 DEF ApplySuperstep
    <3> QED
      BY <1>3, <2>1, <3>2 DEF OverlayInv
  <2>2. CASE StreamEnds
    <3>1. phase = "streaming" /\ active = {} /\ outputs' = outputs
      BY <2>2 DEF StreamEnds, Finished, execVars
    <3> QED
      BY <1>3, <3>1 DEF OverlayInv, Started
  <2> QED
    BY <1>1, <1>3, <2>1, <2>2
<1> QED
  BY <1>1, <1>2, <1>3 DEF OverlayInv

(* The events of a node, which reach a client that streams.                 *)
LEMMA OverlayNodes ==
    ASSUME RunInv, ListenerInv, OverlayInv, Begun \/ Taken PROVE OverlayInv'
<1>1. /\ phase = "streaming" /\ UNCHANGED <<graph, phase, announced, outputs>>
      /\ announced = "none"
  BY DEF Begun, Taken, StartSuperstep, BeginSuperstep, TakeOutput, Complete, engineVars, RunInv,
     OutcomeInv
<1>2. request' = request /\ (request = "stream" => "sse" \in listeners)
  BY <1>1 DEF Begun, Taken, NodesStart, NodeEnds, ListenerInv
<1>3. shown \in [graph.nodes -> {"none", "RUNNING", "SUCCESS"}]
  BY DEF OverlayInv
<1>4. CASE Begun
  <2>1. /\ active = {} /\ done = {} /\ done' = {}
    BY <1>4 DEF Begun, StartSuperstep, BeginSuperstep, RunInv, TypeInv, TypeOK, SchedTypeOK
  <2>2. shown' = IF "sse" \in listeners
                 THEN [n \in graph.nodes |-> IF n \in active' THEN "RUNNING" ELSE shown[n]]
                 ELSE shown
    BY <1>3, <1>4 DEF Begun, NodesStart, Show
  <2>3. shown' \in [graph.nodes -> {"none", "RUNNING", "SUCCESS"}]
    BY <1>3, <2>2
  <2>4. ASSUME request = "stream", NEW n \in graph.nodes
        PROVE  /\ shown'[n] = "none" <=> n \notin Started'
               /\ n \in (outputs' \ active') \cup done' => shown'[n] = "SUCCESS"
    BY <1>1, <1>2, <2>1, <2>2, <2>4 DEF OverlayInv, Started
  <2> QED
    BY <1>1, <1>2, <2>3, <2>4 DEF OverlayInv
<1>5. CASE Taken
  <2>1. PICK n \in graph.nodes : /\ NodeEnds(n)
                                 /\ n \in active /\ active' = active /\ done' = done \cup {n}
    BY <1>5 DEF Taken, TakeOutput, Complete
  <2>2. /\ shown' \in [graph.nodes -> {"none", "RUNNING", "SUCCESS"}]
        /\ "sse" \in listeners =>
              \A m \in graph.nodes : shown'[m] = IF m = n THEN "SUCCESS" ELSE shown[m]
    BY <1>3, <2>1 DEF NodeEnds, Show
  <2>3. ASSUME request = "stream", NEW m \in graph.nodes
        PROVE  /\ shown'[m] = "none" <=> m \notin Started'
               /\ m \in (outputs' \ active') \cup done' => shown'[m] = "SUCCESS"
    BY <1>1, <1>2, <2>1, <2>2, <2>3 DEF OverlayInv, Started
  <2> QED
    BY <1>1, <1>2, <2>2, <2>3 DEF OverlayInv
<1> QED
  BY <1>4, <1>5

(* A chain inside a node n that has not completed changes the colour of n.  *)
LEMMA OverlayInner ==
    ASSUME RunInv, OverlayInv, NEW n \in graph.nodes, InnerChain(n), UNCHANGED mcpVars
    PROVE  OverlayInv'
<1>1. UNCHANGED <<graph, phase, announced, outputs, active, done>>
  BY DEF mcpVars, vars, execVars, engineVars
<1>2. /\ phase = "streaming" /\ n \in active \ done
      /\ phase # "completing" /\ announced # "SUCCESS"
  BY DEF InnerChain, RunInv, StreamInv, OutcomeInv
<1>3. /\ shown \in [graph.nodes -> {"none", "RUNNING", "SUCCESS"}]
      /\ request' = request
      /\ shown[n] # "none"
      /\ \/ shown' = shown
         \/ shown' = [m \in graph.nodes |-> IF m = n THEN "RUNNING" ELSE shown[m]]
         \/ shown' = [shown EXCEPT ![n] = "SUCCESS"]
  <2>1. shown \in [graph.nodes -> {"none", "RUNNING", "SUCCESS"}]
    BY DEF OverlayInv
  <2>2. shown[n] # "none" /\ (NodesStart({n}) \/ NodeEnds(n))
    BY DEF InnerChain, InnerChainStarts, InnerChainEnds
  <2> QED
    BY <2>1, <2>2 DEF NodesStart, NodeEnds, Show
<1>4. /\ shown' \in [graph.nodes -> {"none", "RUNNING", "SUCCESS"}]
      /\ shown'[n] # "none"
      /\ \A m \in graph.nodes \ {n} : shown'[m] = shown[m]
  BY <1>3
<1>5. ASSUME request = "stream", NEW m \in graph.nodes
      PROVE  /\ shown'[m] = "none" <=> m \notin Started'
             /\ m \in (outputs' \ active') \cup done' => shown'[m] = "SUCCESS"
  BY <1>1, <1>2, <1>3, <1>4, <1>5 DEF OverlayInv, Started
<1> QED
  BY <1>1, <1>2, <1>3, <1>4, <1>5 DEF OverlayInv

LEMMA OverlayNext ==
    ASSUME RunInv, ListenerInv, OverlayInv, [ServedNext]_servedVars PROVE OverlayInv'
<1>1. Emits \/ Silent
  BY EventCases DEF RunInv, TypeInv
<1>2. CASE ServedStartRun \/ Refused
  <2>1. phase = "idle" /\ phase' # "idle" /\ UNCHANGED <<graph, announced>>
        /\ phase' \notin {"streaming", "completing"} /\ announced = "none"
    BY <1>2 DEF ServedStartRun, McpStartRun, StartRun, Catch, Refused, StartRunFails, execVars, RunInv,
       OutcomeInv
  <2>2. shown' = shown
    BY <1>2 DEF ServedStartRun, StreamRun, AwaitRun, Refused, RefuseRun
  <2> QED
    BY <2>1, <2>2 DEF OverlayInv
<1>3. CASE Closed
  <2>1. /\ UNCHANGED <<graph, outputs>> /\ phase' \in {"cleanup", "settled"}
        /\ announced' = "SUCCESS" => phase = "completing"
    BY <1>3 DEF Closed, CompleteSuccess, CloseRun, EnterFinally, execVars, RunInv, OutcomeInv
  <2>2. UNCHANGED <<shown, request>>
    BY <1>3 DEF Closed, RunCompletes
  <2> QED
    BY <2>1, <2>2 DEF OverlayInv
<1>4. CASE Listening
  <2>1. UNCHANGED mcpVars
    BY <1>4 DEF Listening
  <2>2. CASE HostSubscribes
    <3>1. UNCHANGED <<graph, phase, announced, outputs, active, done>>
      BY <2>1 DEF mcpVars, vars, execVars, engineVars
    <3>2. UNCHANGED <<shown, request>>
      BY <2>2 DEF HostSubscribes
    <3> QED
      BY <3>1, <3>2 DEF OverlayInv, Started
  <2> QED
    BY <1>4, <2>1, <2>2, OverlayInner DEF Listening
<1>5. CASE Settling
  <2>1. UNCHANGED <<graph, phase, announced, outputs, active, done>>
    BY <1>5 DEF Settling, mcpVars, vars, execVars, engineVars
  <2>2. UNCHANGED <<shown, request>>
    BY <1>5 DEF Settling, DropListeners, EndResponse
  <2> QED
    BY <2>1, <2>2 DEF OverlayInv, Started
<1> QED
  BY <1>1, <1>2, <1>3, <1>4, <1>5, OverlaySilent, OverlayNodes DEF Emits

(* What a streaming client's canvas shows is true while nodes run and when  *)
(* the client is told SUCCESS: about translateEvent and App.run.            *)
THEOREM OverlayIsAlwaysTrue == ServedSpec => []OverlayIsTrue
<1>1. ServedInit => OverlayInv
  BY DEF ServedInit, McpInit, Init, EventsInit, OverlayInv
<1>2. RunInv /\ ListenerInv /\ ToldInv /\ OverlayInv /\ [ServedNext]_servedVars => OverlayInv'
  BY OverlayNext
<1>3. ToldInv /\ OverlayInv => OverlayIsTrue
  BY DEF ToldInv, OverlayInv, OverlayIsTrue
<1> QED
  BY <1>1, <1>2, <1>3, ServedEventInv, PTL DEF ServedSpec

=============================================================================
