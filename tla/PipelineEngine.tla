--------------------------- MODULE PipelineEngine ---------------------------
(***************************************************************************)
(* What the runs of one PipelineEngine share: the store's pipelines, the   *)
(* compiler's LRU cache and its resolve context (runtime/src/index.ts,     *)
(* nodes/src/compiler.ts). A run is reduced to its use of these;           *)
(* PipelineRun has the rest of it. An action is the code between two       *)
(* awaits.                                                                 *)
(***************************************************************************)
EXTENDS Integers, Sequences, FiniteSets

CONSTANTS
    Pipelines,
    Drafts,     \* what a pipeline may be saved as
    McpDrafts,  \* the drafts with an `mcp:` node
    Runs,       \* the calls of run()
    PipelineOf, \* the pipeline each of them asks for
    Capacity,   \* CAPACITY of the cache
    LastMs,     \* bound of the clock
    Nothing

ASSUME ConstantsAssumption ==
    /\ McpDrafts \subseteq Drafts
    /\ PipelineOf \in [Runs -> Pipelines]
    /\ Capacity \in Nat \ {0}
    /\ LastMs \in Nat

VARIABLES
    now,            \* the clock, in milliseconds
    stored,         \* the graph each pipeline was last saved as
    cache,          \* the compiled apps, most recently used first
    resolveContext, \* the compiler's field: the run that set it last
    pc,             \* what each run awaits
    loaded,         \* the graph it loaded
    ctx,            \* the context its compile() captured
    app,            \* the app it executes
    catalog,        \* the clients of its MCP catalog
    uses            \* history: the last cache keys used, latest first

shared == <<now, stored, cache, resolveContext, uses>>
vars == <<shared, pc, loaded, ctx, app, catalog>>

Graph == [pipeline : Pipelines, draft : Drafts, updatedAt : 0..LastMs]

(* An app executes a graph with the MCP specs of one run's catalog.         *)
App == [graph : Graph, specs : Runs \cup {Nothing}]

(* Nothing is held by nobody.                                               *)
ASSUME NothingAssumption == Nothing \notin Runs \cup Graph \cup App

(* "resolving" awaits the node specs; the other names are PipelineRun's     *)
(* phases.                                                                  *)
State == {"idle", "creatingRun", "loadingCatalog", "validating", "resolving",
          "streaming", "closing", "settled"}

HasMcpNode(g) == g.draft \in McpDrafts

(* `${pipeline.id}:${updatedAt}`. The variant is the id alone.              *)
PipelineKey(g) == <<g.pipeline>>
CacheKey(g) == <<g.pipeline, g.updatedAt>>

CachedKeys == {CacheKey(cache[i].graph) : i \in DOMAIN cache}

TypeOK ==
    /\ now \in 0..LastMs
    /\ stored \in [Pipelines -> Graph]
    /\ cache \in Seq(App)
    /\ resolveContext \in Runs \cup {Nothing}
    /\ pc \in [Runs -> State]
    /\ loaded \in [Runs -> Graph \cup {Nothing}]
    /\ ctx \in [Runs -> Runs \cup {Nothing}]
    /\ app \in [Runs -> App \cup {Nothing}]
    /\ catalog \in [Runs -> {"none", "open", "closed"}]

Init ==
    /\ now = 0
    /\ stored \in {s \in [Pipelines -> Graph] :
                    \A p \in Pipelines : s[p].pipeline = p /\ s[p].updatedAt = 0}
    /\ cache = <<>>
    /\ resolveContext = Nothing
    /\ pc = [r \in Runs |-> "idle"]
    /\ loaded = [r \in Runs |-> Nothing]
    /\ ctx = [r \in Runs |-> Nothing]
    /\ app = [r \in Runs |-> Nothing]
    /\ catalog = [r \in Runs |-> "none"]
    /\ uses = <<>>

-----------------------------------------------------------------------------
Tick ==
    /\ now < LastMs
    /\ now' = now + 1
    /\ UNCHANGED <<stored, cache, resolveContext, uses, pc, loaded, ctx, app, catalog>>

(* save(): nothing keeps two saves out of one millisecond.                  *)
Save(p, d) ==
    /\ stored' = [stored EXCEPT ![p] = [pipeline |-> p, draft |-> d, updatedAt |-> now]]
    /\ UNCHANGED <<now, cache, resolveContext, uses, pc, loaded, ctx, app, catalog>>

(* run() reads the pipeline and goes on to create the run's row.            *)
Load(r) ==
    /\ pc[r] = "idle"
    /\ loaded' = [loaded EXCEPT ![r] = stored[PipelineOf[r]]]
    /\ pc' = [pc EXCEPT ![r] = "creatingRun"]
    /\ UNCHANGED <<shared, ctx, app, catalog>>

-----------------------------------------------------------------------------
(* The cache.                                                               *)

FirstWith(k) ==
    CHOOSE i \in DOMAIN cache :
        /\ CacheKey(cache[i].graph) = k
        /\ \A j \in 1..(i - 1) : CacheKey(cache[j].graph) # k

(* splice(i, 1) and unshift() of what was there.                            *)
MoveToFront(s, i) ==
    <<s[i]>> \o SubSeq(s, 1, i - 1) \o SubSeq(s, i + 1, Len(s))

(* A hit. The variant leaves the entry in place.                            *)
LeaveInPlace(i) == cache
ToFront(i) == MoveToFront(cache, i)

FirstOf(s, n) == SubSeq(s, 1, IF Len(s) > n THEN n ELSE Len(s))

(* unshift and, over capacity, pop.                                         *)
WithNew(new) == FirstOf(<<new>> \o cache, Capacity)

Use(k) ==
    \/ \E i \in DOMAIN uses :
          /\ uses[i] = k
          /\ uses' = MoveToFront(uses, i)
    \/ /\ \A i \in DOMAIN uses : uses[i] # k
       /\ uses' = FirstOf(<<k>> \o uses, Capacity)

(* An MCP graph bypasses the cache. The variant caches every graph.         *)
AnyGraph(g) == TRUE
IsCacheable(g) == ~HasMcpNode(g)

-----------------------------------------------------------------------------
(* setResolveContext() and compile() up to its first await: the context is  *)
(* captured, and a hit ends in streamEvents().                              *)
EnterCompile(r) ==
    LET g == loaded[r]
        isHit == IsCacheable(g) /\ CacheKey(g) \in CachedKeys
    IN
    /\ resolveContext' = r
    /\ ctx' = [ctx EXCEPT ![r] = r]
    /\ IF isHit
       THEN LET i == FirstWith(CacheKey(g)) IN
            /\ app' = [app EXCEPT ![r] = cache[i]]
            /\ cache' = ToFront(i)
            /\ Use(CacheKey(g))
            /\ pc' = [pc EXCEPT ![r] = "streaming"]
       ELSE /\ pc' = [pc EXCEPT ![r] = "validating"]
            /\ UNCHANGED <<app, cache, uses>>
    /\ UNCHANGED <<now, stored, loaded>>

(* The run's row exists; execute() starts.                                  *)
CreateRun(r) ==
    /\ pc[r] = "creatingRun"
    /\ IF HasMcpNode(loaded[r])
       THEN /\ pc' = [pc EXCEPT ![r] = "loadingCatalog"]
            /\ UNCHANGED <<shared, loaded, ctx, app>>
       ELSE EnterCompile(r)
    /\ UNCHANGED catalog

LoadCatalog(r) ==
    /\ pc[r] = "loadingCatalog"
    /\ catalog' = [catalog EXCEPT ![r] = "open"]
    /\ EnterCompile(r)

Validate(r) ==
    /\ pc[r] = "validating"
    /\ pc' = [pc EXCEPT ![r] = "resolving"]
    /\ UNCHANGED <<shared, loaded, ctx, app, catalog>>

(* The context the registry resolves `mcp:` keys in: the one captured. The  *)
(* variant reads the compiler's field after the awaits.                     *)
ContextNow(r) == resolveContext
ContextOf(r) == ctx[r]

(* The specs are there: the rest of compile(), and streamEvents().          *)
ResolveSpecs(r) ==
    LET g == loaded[r]
        compiled == [graph |-> g,
                     specs |-> IF HasMcpNode(g) THEN ContextOf(r) ELSE Nothing]
    IN
    /\ pc[r] = "resolving"
    /\ app' = [app EXCEPT ![r] = compiled]
    /\ pc' = [pc EXCEPT ![r] = "streaming"]
    /\ IF IsCacheable(g)
       THEN cache' = WithNew(compiled) /\ Use(CacheKey(g))
       ELSE UNCHANGED <<cache, uses>>
    /\ UNCHANGED <<now, stored, resolveContext, loaded, ctx, catalog>>

(* The stream ends, or an await of execute() or compile() rejects: the rows *)
(* are closed and the finally block is entered. What the run held is gone.  *)
Finish(r) ==
    /\ pc[r] \in {"loadingCatalog", "validating", "resolving", "streaming"}
    /\ pc' = [pc EXCEPT ![r] = "closing"]
    /\ loaded' = [loaded EXCEPT ![r] = Nothing]
    /\ ctx' = [ctx EXCEPT ![r] = Nothing]
    /\ app' = [app EXCEPT ![r] = Nothing]
    /\ UNCHANGED <<shared, catalog>>

(* The finally block: cleanup of the catalog, if the run has one.           *)
Settle(r) ==
    /\ pc[r] = "closing"
    /\ pc' = [pc EXCEPT ![r] = "settled"]
    /\ catalog' = [catalog EXCEPT ![r] = IF @ = "open" THEN "closed" ELSE @]
    /\ UNCHANGED <<shared, loaded, ctx, app>>

-----------------------------------------------------------------------------
Advance(r) ==
    \/ Load(r)
    \/ CreateRun(r)
    \/ LoadCatalog(r)
    \/ Validate(r)
    \/ ResolveSpecs(r)
    \/ Finish(r)
    \/ Settle(r)

Next ==
    \/ Tick
    \/ \E p \in Pipelines, d \in Drafts : Save(p, d)
    \/ \E r \in Runs : Advance(r)

Spec == Init /\ [][Next]_vars

-----------------------------------------------------------------------------
(* A run executes the graph it loaded, whatever was saved and compiled      *)
(* meanwhile, by it or by others. The one exception is what the millisecond *)
(* key cannot tell apart: a graph of the same pipeline saved in the same    *)
(* millisecond (compiler.ts:65).                                            *)
ExecutesWhatItLoaded ==
    \A r \in Runs :
        app[r] # Nothing =>
            LET g == app[r].graph IN
            \/ g = loaded[r]
            \/ /\ g.pipeline = loaded[r].pipeline
               /\ g.updatedAt = loaded[r].updatedAt
               /\ ~HasMcpNode(g)

(* The MCP specs of a running graph come from the run's own catalog, whose  *)
(* clients are open, although the compiler they were resolved with is       *)
(* shared and the cache outlives every run (compiler.ts:54, 62).            *)
SpecsAreOwnAndOpen ==
    \A r \in Runs :
        pc[r] = "streaming" /\ HasMcpNode(app[r].graph) =>
            app[r].specs = r /\ catalog[r] = "open"

(* The cache is LRU: what it holds is what was used last, also when         *)
(* concurrent misses have put one graph in it several times                 *)
(* (compiler.ts:41).                                                        *)
HoldsLatestUsed ==
    /\ Len(cache) <= Capacity
    /\ CachedKeys = {uses[i] : i \in 1..Cardinality(CachedKeys)}

-----------------------------------------------------------------------------
(* Why, as an inductive invariant.                                          *)

Compiling == {"validating", "resolving"}
Executing == {"creatingRun", "loadingCatalog", "streaming"} \cup Compiling

Locals ==
    \A r \in Runs :
        /\ loaded[r] # Nothing <=> pc[r] \in Executing
        /\ app[r] # Nothing <=> pc[r] = "streaming"
        /\ pc[r] \in Compiling => ctx[r] = r

CatalogIsOpen ==
    \A r \in Runs :
        pc[r] \in Compiling \cup {"streaming"} /\ HasMcpNode(loaded[r]) => catalog[r] = "open"

(* What is in the cache is bound to no run.                                 *)
CacheIsStatic == cache \in Seq({new \in App : ~HasMcpNode(new.graph)})

(* Runs that wait on each other's answers keep to their own graph, context  *)
(* and catalog, and leave nothing of theirs in the cache (compiler.ts:62).  *)
EngineInv ==
    /\ TypeOK
    /\ Locals
    /\ CatalogIsOpen
    /\ CacheIsStatic
    /\ ExecutesWhatItLoaded
    /\ SpecsAreOwnAndOpen

=============================================================================
