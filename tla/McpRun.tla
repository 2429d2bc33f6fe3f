------------------------------- MODULE McpRun -------------------------------
(***************************************************************************)
(* A run of PipelineRun whose catalogLoader is the one of                  *)
(* @openpipeline/mcp: what PipelineRun does in one step when the catalog   *)
(* is loaded and released is taken apart. The nodes run on the tools of    *)
(* the clients that EnvCatalogLoader opened.                               *)
(***************************************************************************)
EXTENDS PipelineRunProperties, EnvCatalogLoader

mcpVars == <<vars, loaderVars>>

McpInit == Init /\ LoaderInit

(* execute() calls load().                                                  *)
McpStartRun ==
    /\ StartRun
    /\ IF phase' = "loadingCatalog" THEN CallLoad ELSE UNCHANGED loaderVars

Loading == phase = "loadingCatalog" /\ LoaderStep /\ UNCHANGED vars

McpCatalogStep ==
    /\ \/ loader = "resolved" /\ CatalogLoads
       \/ loader = "rejected" /\ CatalogLoadFails
    /\ UNCHANGED loaderVars

(* The finally block awaits cleanup().                                      *)
Closing(s) == phase = "cleanup" /\ CloseClient(s) /\ UNCHANGED vars

McpEngineStep ==
    /\ phase = "cleanup" => CloseSettled
    /\ EngineStep
    /\ UNCHANGED loaderVars

McpNext ==
    \/ McpStartRun
    \/ StartRunFails /\ UNCHANGED loaderVars
    \/ Loading
    \/ McpCatalogStep
    \/ McpEngineStep
    \/ \E s \in Servers : Closing(s)
    \/ \E n \in graph.nodes : (RunnerStep(n) \/ HostStep(n)) /\ UNCHANGED loaderVars
    \/ (Timeout \/ Abort) /\ UNCHANGED loaderVars

McpSpec == McpInit /\ [][McpNext]_mcpVars

(* The store, the validator, LangGraph, the MCP servers and the policy      *)
(* answer, closing a client comes to an end, and the timer fires. Nothing   *)
(* is assumed of handlers and resolvers: they may hang.                     *)
McpFairSpec ==
    /\ McpSpec
    /\ WF_mcpVars(McpEngineStep)
    /\ WF_mcpVars(Timeout /\ UNCHANGED loaderVars)
    /\ \A n \in Node : WF_mcpVars(RunnerStep(n) /\ UNCHANGED loaderVars)
    /\ WF_mcpVars(Loading \/ McpCatalogStep)
    /\ \A s \in Servers : WF_mcpVars(Closing(s))

-----------------------------------------------------------------------------
(* No client is left open when the run has settled, whichever servers fail  *)
(* to connect, list or close and whenever the run is aborted ("Close any    *)
(* open MCP client connections", core/src/contracts.ts:148). The exception  *)
(* is a load() that rejects: the engine has no cleanup() to call, and the   *)
(* clients made before are lost.                                            *)
ClientsAreClosed ==
    phase = "settled" => \A s \in Servers : client[s] = "open" => loader = "rejected"

(* Why, as an inductive invariant: cleanup() knows every client there is,   *)
(* the engine has a catalog once load() has resolved, and until it enters   *)
(* the finally block the clients behind the catalog's tools stay open       *)
(* (env-catalog-loader.ts:57, runtime/src/index.ts:256, 340).               *)
LoaderInv ==
    /\ LoaderTypeOK
    /\ clients = {s \in Servers : client[s] # "none"}
    /\ providers \subseteq clients
    /\ phase = "idle" => loader = "idle" /\ catalog = "none"
    /\ loader = "idle" => clients = {}
    /\ loader = "resolveToken" => server \in Servers
    /\ loader \in {"getTools", "filterTools", "listTools", "nextCursor"} => server \in clients
    /\ loader \notin {"idle", "resolved", "rejected"} => phase = "loadingCatalog"
    /\ phase = "loadingCatalog" => loader # "idle" /\ catalog = "none"
    /\ phase \notin {"idle", "loadingCatalog", "settled"} =>
          (catalog = "open" <=> loader = "resolved")
    /\ phase = "settled" /\ loader = "resolved" => catalog = "released" /\ CloseSettled
    /\ phase \notin {"cleanup", "settled"} => \A s \in clients : client[s] = "open"

(* Every run settles, even if handlers hang (the run timeout aborts it) and *)
(* whichever call of the store fails, unless its catalog is being loaded    *)
(* from a server that pages its tools (execute(), getRawSchemas).           *)
RunSettles == phase # "idle" ~> phase = "settled" \/ loader = "nextCursor"

-----------------------------------------------------------------------------
(* runtime/src/index.ts, PipelineEngineOptions: runTimeoutMs is a "Hard     *)
(* per-run wall-clock timeout". Once it fires the run settles.              *)
HardTimeout == timer = "fired" ~> phase = "settled"

=============================================================================
