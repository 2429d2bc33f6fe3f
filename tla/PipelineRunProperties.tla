------------------------ MODULE PipelineRunProperties ------------------------
(***************************************************************************)
(* What PipelineRun is checked for.                                        *)
(***************************************************************************)
EXTENDS PipelineRun

(* A runner that has a step and has not recorded its end.                   *)
Owns(n, i) == pc[n] \in InFlight \ {"starting"} /\ stepOf[n] = i

(* When a run is about to be, or has been, recorded SUCCESS (execute(), the *)
(* end of the try block), no node is left to run or running, nothing was    *)
(* lost between the nodes, every step is SUCCESS and every output has one,  *)
(* even if calls of the store fail or lose their answers.                   *)
SuccessMeansAllDone ==
    phase = "completing" \/ runStatus = "SUCCESS" =>
        /\ Finished
        /\ NothingLost
        /\ \A n \in graph.nodes : pc[n] = "idle"
        /\ \A i \in DOMAIN steps : steps[i].status = "SUCCESS"
        /\ \A n \in outputs : \E i \in DOMAIN steps : steps[i].node = n

(* A step is RUNNING only while its own runner still is, also once the run  *)
(* has settled: neither a failure nor an abort, nor the runners that        *)
(* outlive the stream, leave a RUNNING step behind (the catch block of      *)
(* node-runner.ts). For a store whose calls do not fail.                    *)
NoOrphanStep ==
    \A i \in DOMAIN steps :
        steps[i].status = "RUNNING" => \E n \in graph.nodes : Owns(n, i)

(* What a step's row says of its end stays: a SUCCESS is overwritten        *)
(* neither by finalizeStaleSteps nor by another runner, and a FAILED only   *)
(* if finalizeStaleSteps wrote it under the step's own runner, which was    *)
(* still at work (the finish calls of the node runner, execute()'s catch    *)
(* block). For a store whose calls do not fail.                             *)
StaleStepsFailed == phase \in {"closing", "cleanup", "settled"}
FinalStatusStays ==
    [][\A i \in DOMAIN steps :
          /\ steps[i].status = "SUCCESS" => steps'[i].status = "SUCCESS"
          /\ steps[i].status = "FAILED" =>
                \/ steps'[i].status = "FAILED"
                \/ StaleStepsFailed /\ \E n \in graph.nodes : Owns(n, i)]_vars

(* Once the signal is aborted no resolver and no handler is called, not     *)
(* even by a runner the engine no longer waits for, and no output obtained  *)
(* since is accepted (the checkAbort calls of the node runner).             *)
AbortStartsNothing ==
    [][aborted =>
          \A n \in graph.nodes :
             pc'[n] \in {"resolving", "handling", "recordingSuccess"} =>
                pc[n] = pc'[n]]_vars

(* The row, the RUN_COMPLETE event and the result of `done` never disagree, *)
(* whenever the timer or an abort strikes and whichever call of the store   *)
(* fails; a run whose `done` rejects has announced nothing (execute()).     *)
OutcomeAgrees ==
    /\ announced # "none" => announced = runStatus
    /\ phase = "settled" /\ result \in Outcomes =>
          runStatus = result /\ announced = result
    /\ result = "rejected" => announced = "none"

(* The catalog of a graph with MCP nodes is open for as long as the engine  *)
(* runs its nodes, and no way out of execute() leaves it open.              *)
CatalogBracketsRun ==
    /\ phase \in {"streaming", "completing"} /\ graph.mcp # {} => catalog = "open"
    /\ phase = "settled" => catalog # "open"

(* On a well-nested acyclic graph the rows of a run tell its order: no node *)
(* has two of them, and a node has none before every row of a node that     *)
(* leads to it says SUCCESS - although the rows are written by runners that *)
(* may outlive the stream (compiler.ts, `defer`, and the node runner).      *)
StepsAreInOrder ==
    Ordered =>
        \A i, j \in DOMAIN steps :
            /\ i # j => steps[i].node # steps[j].node
            /\ i >= j \/ steps[i].status # "SUCCESS" =>
                  steps[j].node \notin Descendants(graph, steps[i].node)

(* If handlers and resolvers answer, every step up to the most a run of the *)
(* checked graphs records ends, also a step of a runner that outlives its   *)
(* run.                                                                     *)
HostAnswers == \A n \in Node : WF_vars(HostStep(n))
StepEnds(i) == Len(steps) >= i ~> (Len(steps) >= i /\ steps[i].status # "RUNNING")
StepsEnd == HostAnswers => \A i \in 1..5 : StepEnds(i)

(* As far as a caller can see, a run with a store that answers is one of    *)
(* RunContract.                                                             *)
Contract == INSTANCE RunContract WITH
               status <- runStatus,
               event  <- announced,
               handle <- IF phase = "settled" THEN result ELSE "none"
ContractSpec == Contract!Spec

-----------------------------------------------------------------------------
(* What the sources say and the code does not do.                           *)

(* runtime/src/index.ts, run(): `done` "settles when the run finishes       *)
(* (success / failure / abort)". A run that settles as FAILED has no node   *)
(* left that is still to call its handler.                                  *)
FailureEndsWork ==
    phase = "settled" /\ result = "FAILED" =>
        \A n \in graph.nodes : pc[n] \notin {"starting", "started", "resolving"}

=============================================================================
