# OpenPipeline in TLA+

A TLA+ model of the OpenPipeline engine (`src/packages`): how a pipeline graph
is compiled and scheduled, what a run does between its awaits, and what its
caller, its store and its nodes may rely on. TLC checks the models on small
instances; TLAPS proves the most important invariants for every instance.

## The system

A **pipeline** is a graph of nodes (tools, LLM calls, IF branches, MCP tools)
and edges, kept in a store. `PipelineEngine.run()` loads it, compiles it to a
LangGraph `StateGraph`, streams its execution and records the run and one step
per executed node. The parts, the state they keep and how they meet:

| Part | State | Operations | Meets |
|---|---|---|---|
| `runtime/src/index.ts` `PipelineEngine` | abort controllers of runs in flight, listeners, per run: timer, catalog | `run`, `abort`, `onEvent`, `save`, `load` | store, compiler, catalog loader, LangGraph stream, host |
| `nodes/src/node-runner.ts` | none of its own; one activation per executed node | start step, resolve inputs, call the handler, finish step | step recorder, auto-param resolver, handler, run signal |
| `nodes/src/compiler.ts` | LRU cache of compiled graphs, resolve context | `compile`, `setResolveContext` | topology, registry, validator, LangGraph |
| `core/src/topology.ts` | none | `analyzeTopology`, `computeAncestors` | compiler, state view |
| `nodes/src/registry.ts` | specs by key | `register`, `get`, `list` | MCP node resolver |
| `nodes/src/event-translator.ts` | none | `translateEvent` | stream, listeners |
| `core/src/state.ts`, `cost.ts` | the channels of a run's state | reducers | LangGraph, runner |
| `store-memory`, `store-prisma` | pipelines, runs, steps, sequence counters or queues | `save`, `load`, `createRun`, `completeRun`, `start`, `finish`, `finalizeStaleSteps`, `updateRunCostAtomic` | engine, runners |
| `mcp` | clients of one catalog | `load`, `cleanup`, `resolveSpec` | engine, registry, MCP servers |
| `server` | none | handlers, HTTP routes, SSE | engine |
| `react` | the builder's draft, selection, dirty flag | store actions, canvas handlers, `toDraft` | the host's save |
| `examples/playground` | the App's pipeline id, the overlay of run statuses | load the seed, save, run | builder, server |

What makes them hard to get right:

- The runners of one superstep run concurrently, with each other, with the run
  timer and with aborts. When one fails, LangGraph stops waiting for the others,
  but nothing stops *them*: they go on after the run has settled.
- Every call of the store, the catalog, the resolver and the handler is an
  `await`: it may reject, with or without its effect, and host code may hang.
- Fan-in nodes are deferred, and LangGraph releases deferred nodes only when
  nothing else is triggered, all at once. Cycles are legal and bounded by the
  recursion limit only.
- Runs of one engine share its compiler, its cache and its maps; steps of one
  run share a sequence.
- Events are fire-and-forget, and a chain that a node runs inside reports under
  the node's own name; the builder saves asynchronously.
- Costs are summed in four places (runner, step, state, run row), the last of
  which the host may add to while the engine completes it.

What correctness means, part by part: the schedule executes every reached node
once and in dependency order and loses none; a run settles exactly once and its
row, event and result agree; a step ends with its runner and a final status
stays; an abort starts nothing new; the catalog is open while it is used and
closed afterwards; sequence indexes are distinct and in order; a compiled graph
is the one that was loaded; a run's cost is that of its steps; a node sees the
latest outputs of all nodes before it; a client is told how its run ended and
shown nothing untrue on the way; a saved draft is what loads; a clean builder
has nothing unsaved.

## The modules

| Module | Models | |
|---|---|---|
| `PipelineGraph` | the graph, `analyzeTopology`, the wiring and checks of `compile()` | operators |
| `Topology` | `computeAncestors` | operators |
| `DagRun` | abstract: every reached node executes once, after all that could feed it | specification |
| `GraphExecution` | the compiled graph under LangGraph's scheduler | implements `DagRun`, uses `Topology` |
| `PipelineRun` | one run: `run`, `execute`, `abort`, a runner per node, the rows | extends `GraphExecution` |
| `RunContract` | abstract: what a caller of `run()` is promised | specification |
| `PipelineRunProperties` | what a run is checked for, the mapping to `RunContract` | |
| `StepLog` | abstract: concurrent starts get consecutive indexes in call order | specification |
| `EnvCatalogLoader` | the MCP catalog loader of one run: clients, policy, paging, `cleanup` | actions |
| `McpRun` | a run whose catalog that loader loads | composes `PipelineRun` and `EnvCatalogLoader` |
| `RunLedger` | the cost accumulators, the `cost` and `outputs` channels, what the store keeps of them | actions |
| `RunEvents` | the listeners of a run, its HTTP request and response, the overlay its client paints | actions |
| `ServedRun` | a run behind the HTTP server, with its MCP tools, books and events | composes `McpRun`, `RunLedger` and `RunEvents` |
| `NodeInputs` | what a node of that run gets to see of the others' outputs | operators over `ServedRun` |
| `PrismaSteps` | the per-run queue of `store-prisma` | implements `StepLog` |
| `PrismaSave` | `save()` and `load()` of `store-prisma`, statement by statement | specification |
| `PipelineEngine` | what the runs of one engine share: compiler, cache, stored pipelines | specification |
| `BuilderStore` | the builder's store and the canvas handlers that call it | actions |
| `Playground` | the builder's host: seed, saves and runs over HTTP | extends `BuilderStore` |
| `GraphExecutionProofs`, `PipelineRunProofs`, `ServedRunProofs`, `ServedLedgerProofs`, `PrismaStepsProofs`, `PrismaSaveProofs`, `PipelineEngineProofs`, `PlaygroundProofs` | TLAPS proofs | |
| `MCGraphExecution`, `MCPipelineRun`, `MCPrismaSteps`, `MCPrismaSave`, `MCPipelineEngine`, `MCPlayground` | instances for TLC | |

`PipelineGraph`. A graph is a record: node ids, the sequence of edges, and the
three attributes control depends on (IF nodes, MCP nodes, nodes with an
auto-bound slot). An edge may dangle, since stores accept any draft.
`EntryNodes`, `ExitNodes` and `IsFanIn` are `analyzeTopology`; `Targets` and
`MissingBranch` are the wiring of `compile()`: of an IF node only labelled edges
count and the last one with a label wins. `Compilable` collects the checks that
do not depend on the host, LangGraph's own included.

`Topology`. `Search` is the reverse search, `Sort` Kahn's algorithm on its
result, each a function of the number of iterations (`Visit` and `Leave` are
one) that stands still once the loop has ended; `AncestorsInOrder`, from the `Above` and `InDataFlowOrder` of
`PipelineGraph`, is the reference definition. On a cyclic graph the
sort drops the ancestors on a cycle and behind one, although
`core/src/topology.ts:35` speaks of all that can reach the node; the property
says exactly which ones remain.

`GraphExecution`. Supersteps as LangGraph (external, version 1.4) runs them and
the code relies on: `BeginSuperstep` runs all triggered nodes, `Complete` is one
node's completion on one branch, `EndSuperstep` applies all writes at once. A
triggered fan-in node (`defer: true` in `compiler.ts`) goes to `held` and is
released when `ready` is empty. `RecursionLimit` is the `recursionLimit` passed
by `execute()` (100 in the code, a parameter here). The mapping to `DagRun`
gives it the graph where `OrderedGraphs` has it (acyclic and `WellNested`) and
`NoGraph`, of which `DagRun` promises nothing, otherwise.

`PipelineRun`. `phase` is what `run()`/`execute()` awaits, `pc[n]` what the
runner of node `n` awaits, `stepOf[n]` the step it records to, `steps` the rows.
An action is the code from one await to the next, so the timer, an abort and
other runners interleave exactly where JavaScript lets them. `Catch` and
`EnterFinally` are the catch and the finally block of `execute()`. No runner
action looks at `phase`: runners outlive the stream. With `StoreFails` each
store call may reject before or after it took effect. The values nodes compute
and the messages are left out: nothing checked here depends on them.

`EnvCatalogLoader` and `McpRun`. `loader` is what `load()` awaits: the policy,
`getTools` (which connects), or `getRawSchemas`, which asks for the tools and
asks again while an answer has a cursor. `client[s]` is the client made for
server `s`, `clients` the list `cleanup()` closes: the two must agree whichever
await fails. `McpRun` takes apart what `PipelineRun` does in one step: `load()`
runs while the run is in `loadingCatalog`, the closing of the clients while it
is in `cleanup`, each interleaved with timer, aborts and runners. Tools, tokens
and schemas are left out.

`RunLedger`. Adding up cost bundles loses what was added; here a cost is the bag
of the reports in it, each named after its step and its author, so that a lost
report and one counted twice show. `spent[n]` is the accumulator of a runner,
`stepCosts`, `cost` and `row` what the step, the state and the run have of it.
The output of a node is named after the step that recorded it: `latest` is the
`outputs` channel, merged at the end of a superstep. `CompleteRow` is where the
stores differ: one adds the run's cost to what the row has, the other replaces
it. An `answer` is what `done` resolves with.

`RunEvents`. `hasEntry` and `listeners` are the run's entry in the engine's map.
`StreamRun` subscribes in the same piece of code that `run()` returned to;
`DropListeners` is the microtask behind `done`, `EndResponse` what follows it in
`runAndStream()`. An event reaches all listeners in the step that emits it, and
an SSE response keeps the order of its frames, so `shown` and `told`, what the
client has painted and read, change with the emission. NODE_START and NODE_END are
emitted in the step of the engine they are about: that `streamEvents()` buffers
events between the runners and the loop that translates them
(`runtime/src/index.ts:300`) is left out, so the order in which `OverlayIsTrue` sees
the events of different nodes is in part the model's. LangGraph (external)
also reports chains a node runs inside: `InnerChainStarts`, `InnerChainEnds`.

`ServedRun`. Each action is one of `McpRun` and what it does to the books and to
the listeners; `Charge`, `Listening` and `Settling` go on beside the run.
`resolveSpecs` is the MCP node resolver, which finds the provider of each MCP
node in the run's catalog. A client that goes away changes nothing here, for no
handler looks at it: the run goes on and its frames are written to nobody.

`NodeInputs`. The runners of a superstep work on the state it began with, which
is `latest`. `resolveExplicit` is what state bindings resolve to, with
`Undefined` for a path that leads nowhere, `extractPredecessorOutputs` what a
param resolver is shown, entry by entry. The ancestors are those of
`computeAncestors`.

`PrismaSteps`. `Enqueue` is the synchronous part of `start` and `startChild`:
chain on the promise in `startQueues` and become its tail. `Begin`, `ReadLast`,
`Commit` and `Confirm` are the transaction, `Fail` its failure at any point, a
lost confirmation of a committed row included; `Settle` is how `next` ends and
`Release` how `tracked` does, which lets the next call begin and drops the entry
if it is still its own. `asked`, the calls in order, is a history variable. The
unique key of run and index (`schema.prisma:154`) is left out: the queue must do
without it, and as `Numbered` holds it would refuse nothing. The
in-memory store takes the number and appends the row in one callback without an
await: no interleaving can split it, so it is one action, `RecordStart` of
`PipelineRun`.

`PrismaSave`. An action is one SQL statement of the interactive transaction
`save()` opens, or one query of `load()`, which opens none. PostgreSQL is
external: READ COMMITTED, so a statement sees what was committed before it and
its own writes (`NodeSeen`); the update of the pipeline's row comes first and
locks it (`RowIsFree`); a unique key makes an insert wait for an uncommitted one
and fail on a committed one (`KeyIsFree`). `Rollback` is any failure, a timeout
and a deadlock included. The contents of a row are named by the save that wrote
it, and so is the `updatedAt` a load returns: that two saves may carry the same
millisecond is a matter of `PipelineEngine`.

`PipelineEngine`. Each run is reduced to its use of the shared state, `pc[r]`
being what it awaits. `EnterCompile` is `setResolveContext()` and `compile()` up
to its first await, which is one piece of synchronous code: the context is
captured in it (`ctx`), and a cache hit ends there. `ResolveSpecs` is the rest
of `compile()`, after the validator's and the registry's awaits. An app records
the graph it was compiled from and the run whose catalog its MCP specs came
from. `now` is the millisecond clock that stamps saves; two saves may share a
value of it. `uses`, the keys in order of use, is a history variable.

`BuilderStore` and `Playground`. A store action is one `set()` call. What a node
holds beside its id is one value; an edge's label may be `null` or `undefined`,
which the code tells apart and `toDraft` does not (`WithNull`). The user acts on
what is displayed, the two markers and their edges included (`displayNodes`,
`displayEdges`), through the canvas handlers, which tell a marker's edge by its
id. The `Playground`
adds the App's requests, each answered, or failed, in any order: `Post`,
`Store`, `SaveEnds` are the three parts of `save()`, `ClickRun`, `Execute` those
of `run()`. The App remembers that it is running only once the awaited save has
ended (`App.tsx:67`), so a second click on Run may start another save; the model
has one run, and other saves beside it. History: a save is `alone` unless the user edits, the seed arrives
or another save starts while it is under way; `raced` says that the last save to
end was not.

## What TLC checks

| Run | Instance | Shows |
|---|---|---|
| `graph_all` | all acyclic graphs on 5 nodes, every choice of IF nodes, three cyclic ones, relabelled and dangling edges | execution terminates and loses no trigger; on the ordered graphs it implements `DagRun`; ancestors come in data-flow order |
| `graph_nested` | all acyclic graphs on 4 nodes | **violated**: a fan-in node behind another runs early and twice |
| `run_reliable` | 8 graphs, 2 servers, streamed and awaited requests, a listener of the host's, inner chains; the in-memory store, which answers | no orphaned step, no final status overwritten but one `finalizeStaleSteps` wrote too early, catalog brackets the run, an abort starts nothing, a node sees the latest output of every node before it, the last output of a node stays, the canvas is true, no listener is left, the run implements `RunContract`; every response ends; if handlers answer, every step ends |
| `run_flaky` | 8 graphs, 2 servers of which one pages; the Prisma store, which like policy and servers may fail at every call; the host charges the run | SUCCESS means all done and costs add up; the rows of an ordered graph follow its edges, a failed step's included; row, event, result and stream agree; MCP nodes run on open clients; no MCP client is left open, unless `load()` rejected; the run settles, unless a server pages |
| `run_ends_work` | 3 graphs | **violated**: a run settles FAILED while a runner has yet to call its handler |
| `run_hard_timeout` | 3 graphs, a server that pages | **violated**: the timeout does not end a run that loads its catalog |
| `prisma_steps_log` | 3 starts in one run, 1 in another | the queue implements `StepLog`, its invariant holds, no entry outlives its calls |
| `prisma_steps_reject` | the same | **violated**: a failed start leaves a rejected promise nobody handles |
| `prisma_save` | 4 saves of 5 drafts over 2 pipelines and 3 nodes, 2 loads | a pipeline is always one draft, whole; node rows stay; a load under the current key is true |
| `engine_shared` | 3 runs of one pipeline, 1 of another, cache of 2, 2 milliseconds | runs keep to their own graph and catalog; the cache stays LRU |
| `builder_saves` | the seed's 2 nodes, 2 edges, 2 edits, 2 saves at once | the graph stays intact; what a clean builder and Run may be relied on for |
| `builder_clean` | the same | **violated**: an edit during a save is marked clean |

Bounds. Five nodes hold two fan-in nodes in any position to each other, an IF
node whose branches meet again, and asymmetric paths; four are enough for the
counterexample. `RecursionLimit` is 7 there, so that acyclic graphs finish and
cycles hit the limit, and 4 in the run instances, where `Loop` hits it. The run
instances are a diamond with an auto slot, an IF diamond with an MCP node, two
isolated nodes, a fan-in node with one edge past the node before it, where a
forgotten barrier shows, a loop left by an IF node, nested fan-ins and two graphs
that do not compile: between them every action fires, and in the loop and behind the
nested fan-ins a node runs twice, which is where outputs and costs could go
wrong. Two nodes run concurrently in
each; that is what failing siblings, timer and abort need to meet. Three calls
of one run are the least with one that runs, one that waits and one that arrives
while the entry is dropped; the fourth, of another run, must not wait. In
`engine_shared` two runs can miss with one graph, a third hit or find a newer
save, and the fourth evict: an LRU cache differs from a queue only when a hit
comes between two misses. Runs of one pipeline are interchangeable
(`SYMMETRY`). In the builder, the seed derives markers and an edge, so that two
edits (`MaxEdits`) suffice to remove what something refers to, and to edit
before and during a save; two saves in flight, which are interchangeable
(`SYMMETRY`), are the least that can overtake each other. In `prisma_save` three saves of one pipeline are one that commits,
one that works and one that waits for the row, and the fourth creates the other
pipeline; the drafts share nodes, within a pipeline and across, drop one and
bring it back. Two servers are one before and one behind a failure, and with
`MixedPages` one whose raw schemas come and one whose do not; a page more would
be asked for like the second. Deadlock is not checked where the system stops:
settled runs, a finished execution, calls that were all answered, a user who is
done.

Fairness. `ServedFairSpec` is weak fairness of the engine's own steps (the store,
the validator and LangGraph answer), of the timer, of the runners' own steps and
of the catalog loader's (the policy and the servers answer or fail, and closing
a client comes to an end) and of the microtasks behind `done` (`Settling`):
JavaScript runs every continuation that is ready.
Nothing is assumed of handlers and resolvers: `StepsEnd` has their answering
(`HostAnswers`) as its antecedent, and `RunSettles` and `ContractSpec` hold
without it. Fairness makes every request of `getRawSchemas` be answered, not its
loop end: a server that pages keeps `load()` going for ever, which is why
`RunSettles` and `ResponseEnds` except it. In
`PrismaSteps` each call is weakly fair: the queued callback runs, and the
database answers, since Prisma ends an interactive transaction that takes too
long.

## What is proved

Nothing is assumed but what is said of the constants, in the module that declares
them, and TLC evaluates each assumption in the runs:

| Proofs | Hold for | Assumptions |
|---|---|---|
| `GraphExecutionProofs` | every set of graphs, every recursion limit | `GraphsAssumption`, `LimitAssumption` |
| `PipelineRunProofs` | all options besides | and `OptionsAssumption` |
| `ServedRunProofs`, `ServedLedgerProofs` | any servers, numbers of pages, providers and requests, and either store besides | and `ServersAssumption`, `ServedAssumption`, `StoreAssumption` |
| `PrismaStepsProofs` | any calls of any runs | `QueueAssumption` |
| `PrismaSaveProofs` | any drafts and calls | `DraftsAssumption`, `NothingAssumption` |
| `PipelineEngineProofs` | any runs, pipelines, saves and capacity | `ConstantsAssumption`, `NothingAssumption` |
| `PlaygroundProofs` | any graphs, seed, users and number of saves under way | `BuilderAssumption`, `PlaygroundAssumption` |

These say that graphs are graphs, that names differ, that sets have their
members, that numbers are not zero and that the seed is a graph whose edges join
its nodes. `ExecutionIsFinite` and `RunIsFinite` suppose besides that the graphs
have finitely many nodes, which the type of a graph leaves open; its edges are a
sequence.

| Theorem | Statement |
|---|---|
| `ScheduleIsTyped` | `ExecSpec => []SchedTypeOK` |
| `NothingIsLost` | `ExecSpec => []NothingLost` |
| `ImplementsDag` | every step of `GraphExecution` is one of `DagRun` or a stutter |
| `AncestorsAreFound` | `ExecSpec => []AncestorsOfGraph`, cyclic graphs included |
| `ExecutionIsFinite` | in every step of `GraphExecution` fewer `Turns` remain, a finite number |
| `TypeCorrect` | `Spec => []TypeOK` |
| `RunInvariant` | `Spec => []RunInv`, the inductive invariant |
| `SuccessIsComplete` | `Spec => []SuccessMeansAllDone`, store failures included |
| `OutcomesAgree` | `Spec => []OutcomeAgrees`, store failures included |
| `CatalogIsBracketed` | `Spec => []CatalogBracketsRun` |
| `NoStepIsOrphaned` | `~StoreFails`: `Spec => []NoOrphanStep` |
| `AbortIsHeeded` | `Spec => AbortStartsNothing` |
| `StatusIsFinal` | `~StoreFails`: `Spec => FinalStatusStays` |
| `ImplementsContract` | `~StoreFails`: every step of `PipelineRun` is one of `RunContract` or a stutter |
| `StepsFollowTheGraph` | `Spec => []StepsAreInOrder` |
| `RunImplementsDag` | every step of `PipelineRun` is one of `DagRun` or a stutter, whatever fails |
| `RunIsFinite` | in every step of `PipelineRun` fewer `StepsLeft` remain, a finite number |
| `StreamIsNeverStuck` | `Spec => []StreamMoves`: what the stream waits for can happen or is at work |
| `McpRunIsRun` | `McpSpec => Spec`: what is proved of a run holds with the loader |
| `McpSuccessIsComplete` | `McpSpec => []SuccessMeansAllDone` |
| `McpOutcomesAgree` | `McpSpec => []OutcomeAgrees` |
| `LoaderIsSafe` | `McpSpec => []LoaderInv`, the loader's inductive invariant |
| `ClientsAreAlwaysClosed` | `McpSpec => []ClientsAreClosed` |
| `ServedRunIsRun` | `ServedSpec => McpSpec`: what is proved of a run holds behind the server |
| `ToolsAreAlwaysConnected` | `ServedSpec => []ToolsAreConnected` |
| `ListenersAreAlwaysDropped` | `ServedSpec => []ListenersAreDropped` |
| `ClientIsAlwaysTold` | `ServedSpec => []ClientIsTold` |
| `OverlayIsAlwaysTrue` | `ServedSpec => []OverlayIsTrue` |
| `LastOutputAlwaysWins` | `ServedSpec => []LastOutputWins` |
| `CostAlwaysAddsUp` | `ServedSpec => []CostAddsUp`: nothing is lost but a charge that Prisma's `completeRun` replaces |
| `MemoryKeepsCharge` | `InMemory`: a successful run costs what its steps cost and what the host charged |
| `PrismaReplacesCharge` | `~InMemory`: a charge made while the run is RUNNING is lost when it is recorded SUCCESS |
| `InputsAreComplete` | `ServedSpec => []SeesAncestors` |
| `QueueIsSafe` | `Spec => []QueueInv`, the queue's inductive invariant |
| `QueuesAreDropped` | `Spec => []NoStaleQueue` |
| `ImplementsLog` | every step of `PrismaSteps` is one of `StepLog` or a stutter |
| `NoQueueIsStuck` | `Spec => []QueueMoves`: nobody waits but behind a call that can be served |
| `CallsAreFinite` | in every step of `PrismaSteps` fewer `StepsToGo` remain, a finite number |
| `SaveIsSafe` | `Spec => []SaveInv`, the inductive invariant of saves and loads |
| `SaveIsAtomic` | `Spec => SavesAreAtomic` |
| `NodesAreKept` | `Spec => NodesStay` |
| `CurrentKeyIsAlwaysTrue` | `Spec => []CurrentKeyIsTrue` |
| `RunsDoNotMeet` | `Spec => []EngineInv`, the engine's inductive invariant |
| `LoadedGraphIsExecuted` | `Spec => []ExecutesWhatItLoaded` |
| `SpecsAreBound` | `Spec => []SpecsAreOwnAndOpen` |
| `CacheIsLru` | `Spec => []HoldsLatestUsed` |
| `PlaygroundTypes` | `Spec => []TypeOK` of the builder and its host |
| `CanvasIntact` | `Spec => []GraphIntact` |
| `CleanBuilderIsSaved` | `Spec => []CleanUnlessRaced` |
| `RunExecutesShown` | `Spec => []RunsWhatIsShown` |

The schedule. `FlowInv` says that every entry node, and all that an executed node
triggers on the branch it took, has been reached; at the end nothing is pending,
so what was reached was executed. Order is about ordered graphs only. A plain
node has at most one predecessor, so what triggered it is all it waits for. A
fan-in node waits in `held`, and the fan-in nodes are released together when
nothing else is pending: that is too early for one that another of them leads
to, which `WellNested` excludes. `OrderInv` makes this inductive: nothing that is
pending leads to anything executed or at work.

The ancestors. What a loop has done after k iterations is proved by induction on
k, as membership of k in a set, since the library's induction takes a predicate
(`Induction`, from the least natural of a set). `SearchInv` says that what was
found lies above the node, and that an edge into what was found is in the queue
or starts at something found: with an empty queue, everything above was found.
An iteration takes one from `Rank`, the entries in the queue and those to come,
so `2 * Len(g.edges)` of them suffice. `SortInv` says that a degree counts the
edges from nodes that have not left, and that a node is ready or has left exactly
if there are none. A node that is left over when nothing is ready has a
predecessor that is left over, and so, the set being finite, one that lies on a
cycle or behind one: that is `OrderedAncestors`. On an acyclic graph none is
(`AllAncestorsOfAcyclic`), which is what `InputsAreComplete` needs.

The run. `TypeOK` is not inductive: that triggered nodes are nodes of the
graph holds because only a compilable graph is streamed (`TypeInv`).
`SuccessMeansAllDone` speaks of the end of the stream; what carries it there is
`StreamInv`: while the stream runs, the runners at work are exactly those of the
superstep's uncompleted nodes, and, unless one has thrown, every step that is
not SUCCESS has one of them at work. So when nothing is active, ready or held,
every step is SUCCESS. `OwnStepInv` (a runner's step is a row of its own node)
keeps two runners from one row. `OutcomeInv` says that result, row and event are
decided together; `ReliableInv` that with a reliable store the step of a runner at
work is RUNNING until `finalizeStaleSteps` has been called, and not SUCCESS after
that: so only a step which that call failed under its runner is ever overwritten. `StepsAreInOrder` follows the schedule into the rows, also
when the stream has been abandoned: `RunOrderInv` adds to `OrderInv` that a runner
at work belongs to a node of the superstep and that a node with a row has been
executed or is at work (`RowsInv`), so that when `start()` appends a row, no row
depends on its node and all it depends on have theirs, successful.
`RunImplementsDag` carries the schedule's refinement to the run: only taking a
node's output is a step of `DagRun`, and until `compile()` has resolved the entry
nodes count as pending (`RunDag`). A run that fails or is aborted stops in the
middle of such an execution and breaks none of its rules.
`ImplementsContract` needs of the run only what its row says in each phase
(`RowInv`); all other steps are not seen from outside (`Unseen`). Proofs go action
by action: `RunnerCases` reduces a
runner's step to six kinds, `EngineEffect` says what all others leave alone.

The queue. Two transactions of a run would read the same largest index, so what
must be invariant is that one is at work at a time, in call order (`InTurn`).
That rests on the shape of the chain, which is implicit in the code: the entry
of a run is its last call unless that was released (`TailInEntry`), and a call
chains on the one before it unless that was released (`Chained`) - dropping the
entry must not cut a later call off from an earlier one that still works.
`Numbered` then says that the index about to be written is the number of rows.
`Chained` also is why no queue gets stuck: the first call that was not released
chains on nobody or on one that was.

Ends. Liveness is not proved, but what it rests on is. `RunIsFinite` counts what
a run has left: moves of the schedule up to the superstep limit (`Turns`), awaits
of the runners in this superstep and later ones (`Awaits`), stages of
`execute()`, timer and signal (`EngineLeft`). Every step of the run takes from one of
these and adds to none; runners of an abandoned stream and store failures are
no exception. `StreamIsNeverStuck` says that a stream is never left waiting for
a runner that is gone, from the part of `StreamInv` that knows the runners at work.
`NoQueueIsStuck` and `CallsAreFinite` say the same of the store's queue. What
remains of `RunSettles`, `Terminates` and the liveness of `LogSpec` is that whoever
can move does.

The loader. `LoaderInv` ties three views of the catalog together: the clients
that exist, the list `cleanup()` knows and the engine's `catalog`. The engine's
is `open` exactly if `load()` resolved, so on the ways round `cleanup` no client
can be open, except behind a `load()` that rejected.

The served run. Every action of `ServedSpec` is one of `McpSpec` with something
added, so `RunInv` and `LoaderInv` come for free and the invariants here speak
of the additions alone. `LedgerCases` and `EventCases` sort the steps by what
they do to books and listeners. Outputs: while the stream runs, a runner that
has a step is at the last step of its node, and a node that is not in the
superstep has its last output in the channel (`OutputsInv`); at the end of the
superstep the one becomes the other. Inputs: as nothing pending leads to what is
executed or at work, all that is above a node of the superstep is final when that
begins, and `InputsInv` keeps it so while the superstep lasts. Costs: `SpentInv` says that a runner's
accumulator has reports of its own step only, each once, and that the step has
none before it is finished; so the bags that `mergeCost` adds are disjoint, and
`CostInv` says that the channel has the reports of all steps but those whose
output is yet to be taken. It says so only while no runner has failed: a run
that fails loses costs, and nothing is claimed of it. `BooksInv` follows the sum
into the row. What the host charges is in the row of a RUNNING run, once; what
becomes of it depends on the store, and `CostAddsUp` says what: the in-memory store
adds the run's cost to it (`MemoryKeepsCharge`), the Prisma store writes the run's
cost over a charge made while the run was RUNNING (`ChargeIsReplaced`), which is
lost (`PrismaReplacesCharge`). A charge made after that is kept by both.

The saves. At READ COMMITTED a transaction may act on what is no longer true.
`SavesAreApart` (the row's lock, and unique keys for the nodes of others) lets
`ViewIsCurrent` hold: what a save has read of its pipeline is still so when it
commits. `WritesAreOwn` says what it has written so far, as far as the draft has
been worked off; `CommitFacts` concludes what the commit makes of this pipeline
and of the others. For loads, `KeysAreCommitted` matters: a key, once replaced,
does not come back, so a load that is overtaken ends under a key that is stale.

The engine. What a hit returns was put in the cache by another run, long ago, so
the invariant must say of every entry that it is bound to no run
(`CacheIsStatic`), and of every run between two awaits that it still holds its
own context (`Locals`) and an open catalog (`CatalogIsOpen`). `RunByRun` splits
the invariant by run, and `OneRunMoves` reduces a step to what it does to its
own run, the cache aside. The cache is an array in which several runs
may each have entered the same key, while LRU speaks of the keys' last uses.
`LruInv` joins the two: each entry's key is among those used last, not further back than
the entry is, and all keys used after it are in front of it (`InOrder`). A hit
moves an entry to the front, a miss inserts one and drops the last, and both
keep `InOrder` of every entry that remains; that the keys used latest are all
cached follows.

The builder and its host. `IntactInv` is the canvas without its markers: every
edge joins two nodes and is there once, and the markers' targets exist.
`CleanBuilderIsSaved` and `RunExecutesShown` relate what the user sees to what the
server has, across requests that overtake each other. `AloneInv` says that a save
nothing interferes with carries what the builder holds until it is answered, and
that the server has it once stored; `CleanInv` that a clean builder whose last
save was not raced has no other save under way that could change what the server
has; `RunInv` carries this through the save that a click on Run makes. `ServerInv`
excludes that anything reaches the seed's row before the builder has loaded it.

Every safety property of the passing runs is proved. Only model-checked is
everything under fairness: `RunSettles`, `StepsEnd`, `ResponseEnds`,
`Terminates`, and the liveness of `DagSpec`, `ContractSpec` and `LogSpec`, since
fairness speaks of what is ENABLED, which TLAPS does not reason about here.

## Findings

1. A fan-in node that leads to another fan-in node (edges 1→3, 2→3, 3→4, 1→4):
   node 4 runs beside node 3 and again after it, against
   `nodes/src/compiler.ts:132`. `WellNested` names the graphs where it cannot
   happen, and `graph_all` shows that it does not.
2. `done` settles as FAILED while work of the run goes on, handlers that have
   not been called yet included (`runtime/src/index.ts:199`).
3. The "hard" timeout (`runtime/src/index.ts:85`) does nothing while the catalog
   loads, and loading need not end: `getRawSchemas` (`mcp/src/client-factory.ts:135`)
   never passes the cursor on and asks a server that pages for the first page
   for ever.
4. `serializeByRun` rejects two promises when a start fails, and hands out only
   one: `tracked` (`store-prisma/src/index.ts:394`) stays unhandled unless a
   later call chains on it. An unhandled rejection ends a Node process, and with
   it every run whose `done` was to settle.
5. An edit made while a save is under way is marked clean when the answer
   arrives (`examples/playground/src/App.tsx:60`), and Run leaves it out.

Some weaknesses are stated in properties and hazards instead: a `load()` that rejects loses the clients it has made (the exception in
`ClientsAreClosed`), and `addEdge` does not recognise a connection that was
loaded without a label (`undefined`) in the one the canvas makes (`null`); the
Prisma store loses what the host charges a run before it is completed
(`ChargeIsReplaced`, `store-prisma/src/index.ts:254`), although
`core/src/contracts.ts:84` speaks of adding a cost to a run; a runner that returns after
`finalizeStaleSteps` has failed its step records SUCCESS over that, in a run that
is FAILED (the exception in `FinalStatusStays`); a listener that subscribes after the run is never dropped (the
exception in `ListenersAreDropped`); and `onEvent` announces NODE_FAILED, which
nothing emits, so that `OverlayIsTrue` can promise nothing of a failed run's
nodes.

## Not modelled

Pure string and data handling: path syntax (`path-validator`), JSON schema
conversion (`schema-converter`, one way in which `compile()` fails), error
texts, prompts and the comparison of values in the built-in nodes. LLM_CHUNK
events, which change no state. HTTP routing and request bodies. Rendering, and
dagre's layout, in `react`; `reset()` of the builder's store, which nothing calls. The
examples but for the playground: they are straight-line demonstrations, one with
a fake of the Prisma client. Child steps (`startChild`, `finishChild`), which
nothing calls but tests; their queueing is that of `start`, and `PrismaSteps`
stands for both. The host's `validate` is asked on a cache miss only; what it
decides by is its own business. A save the server refuses would be taken for a
success (`App.tsx:58`), which the playground's backend never does. A process
crash loses the run: nothing in the code resumes or closes it, so there is no
restart action to model.

## Plan

What is left is what a refused save does to the App (`App.tsx:58`), once a backend
refuses one.
