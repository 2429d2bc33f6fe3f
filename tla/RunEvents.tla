------------------------------ MODULE RunEvents ------------------------------
(***************************************************************************)
(* The live events of one run: the engine's listeners                      *)
(* (runtime/src/index.ts), the HTTP request that started the run           *)
(* (server/src) and the canvas overlay its client paints from the events   *)
(* (examples/playground/src/App.tsx). An event reaches every listener in   *)
(* the step that emits it. An SSE response keeps the order of its frames,  *)
(* so the client is taken to have read what has been written.              *)
(***************************************************************************)
EXTENDS FiniteSets

VARIABLES
    hasEntry,   \* engine.listeners has an entry of the run
    listeners,  \* what is in it
    dropped,    \* the entry has been deleted after `done` settled
    request,    \* the HTTP request that started the run
    response,   \* and its response
    shown,      \* nodeRunStatus
    told        \* the statuses of the RUN_COMPLETE frames

eventVars == <<hasEntry, listeners, dropped, request, response, shown, told>>

EventsInit(nodes) ==
    /\ hasEntry = FALSE
    /\ listeners = {}
    /\ dropped = FALSE
    /\ request = "none"
    /\ response = "none"
    /\ shown = [n \in nodes |-> "none"]
    /\ told = {}

-----------------------------------------------------------------------------
(* onEvent.                                                                 *)
Subscribe(who) ==
    /\ hasEntry' = TRUE
    /\ listeners' = listeners \cup {who}

(* GET /runs/:runId/stream calls runAndStream(), which subscribes as soon   *)
(* as run() has returned, before the run can emit anything; POST /run calls *)
(* runPipeline() and only waits.                                            *)
StreamRun ==
    /\ request' = "stream"
    /\ response' = "open"
    /\ Subscribe("sse")
    /\ UNCHANGED <<dropped, shown, told>>

AwaitRun ==
    /\ request' = "run"
    /\ response' = "open"
    /\ UNCHANGED <<hasEntry, listeners, dropped, shown, told>>

(* run() rejects: the error is all the response has.                        *)
RefuseRun ==
    /\ request' \in {"run", "stream"}
    /\ response' = "ended"
    /\ UNCHANGED <<hasEntry, listeners, dropped, shown, told>>

(* Other code of the host subscribes, once, while the run is in flight or   *)
(* after it.                                                                *)
HostSubscribes ==
    /\ "host" \notin listeners
    /\ Subscribe("host")
    /\ UNCHANGED <<dropped, request, response, shown, told>>

-----------------------------------------------------------------------------
(* emit() to the SSE listener, which is translateEvent, a frame and the     *)
(* setNodeRunStatus of App.run. The variant does not translate on_chain_end.*)
Show(status) == shown' = IF "sse" \in listeners THEN status ELSE shown

NodesStart(ns) ==
    /\ Show([n \in DOMAIN shown |-> IF n \in ns THEN "RUNNING" ELSE shown[n]])
    /\ UNCHANGED <<hasEntry, listeners, dropped, request, response, told>>

NotTranslated(n) == UNCHANGED eventVars
NodeEnds(n) ==
    /\ Show([shown EXCEPT ![n] = "SUCCESS"])
    /\ UNCHANGED <<hasEntry, listeners, dropped, request, response, told>>

(* External: a chain that a node runs inside, such as an IF node's router   *)
(* or one a handler invokes, starts and ends under the node's own name.     *)
InnerChainStarts(n) ==
    /\ shown[n] = "SUCCESS"
    /\ NodesStart({n})
InnerChainEnds(n) ==
    /\ shown[n] = "RUNNING"
    /\ NodeEnds(n)

(* RUN_COMPLETE. The variant emits it only for a run that succeeded.        *)
OnSuccessOnly(status) ==
    /\ told' = IF "sse" \in listeners THEN told \cup ({status} \cap {"SUCCESS"}) ELSE told
    /\ UNCHANGED <<hasEntry, listeners, dropped, request, response, shown>>
RunCompletes(status) ==
    /\ told' = IF "sse" \in listeners THEN told \cup {status} ELSE told
    /\ UNCHANGED <<hasEntry, listeners, dropped, request, response, shown>>

-----------------------------------------------------------------------------
(* The microtask queued once `done` has settled. The variant only empties   *)
(* the entry.                                                               *)
EmptyEntry ==
    /\ ~dropped
    /\ dropped' = TRUE
    /\ listeners' = {}
    /\ UNCHANGED <<hasEntry, request, response, shown, told>>
DropListeners ==
    /\ ~dropped
    /\ dropped' = TRUE
    /\ hasEntry' = FALSE
    /\ listeners' = {}
    /\ UNCHANGED <<request, response, shown, told>>

(* `await done` goes on after that microtask: the listener unsubscribes,    *)
(* which finds nothing left to remove, and the response ends.               *)
EndResponse ==
    /\ dropped
    /\ response = "open"
    /\ response' = "ended"
    /\ listeners' = listeners \ {"sse"}
    /\ UNCHANGED <<hasEntry, dropped, request, shown, told>>

=============================================================================
