------------------------ MODULE PipelineEngineProofs ------------------------
(***************************************************************************)
(* The runs of one engine do not meet in its compiler: EngineInv is an     *)
(* invariant of PipelineEngine, for any runs, pipelines and capacity.      *)
(***************************************************************************)
EXTENDS PipelineEngine, FiniteSetTheorems, SequenceTheorems, WellFoundedInduction, TLAPS

StaticApp == {new \in App : ~HasMcpNode(new.graph)}

-----------------------------------------------------------------------------
(* What the cache operations make of the entries there are.                 *)

LEMMA FirstOfIs ==
    ASSUME NEW S, NEW s \in Seq(S), NEW n \in Nat
    PROVE  /\ FirstOf(s, n) \in Seq(S)
           /\ Len(FirstOf(s, n)) = IF Len(s) > n THEN n ELSE Len(s)
           /\ \A p \in 1..Len(FirstOf(s, n)) : FirstOf(s, n)[p] = s[p]
<1> DEFINE m == IF Len(s) > n THEN n ELSE Len(s)
<1>1. m \in Nat /\ \A i \in 1..m : s[i] \in S
  OBVIOUS
<1>2. /\ SubSeq(s, 1, m) \in Seq(S)
      /\ Len(SubSeq(s, 1, m)) = m
      /\ \A i \in 1..m : SubSeq(s, 1, m)[i] = s[i]
  BY <1>1, SubSeqProperties
<1>3. QED
  BY <1>2 DEF FirstOf

LEMMA InFrontIs ==
    ASSUME NEW S, NEW s \in Seq(S), NEW x \in S
    PROVE  /\ <<x>> \o s \in Seq(S)
           /\ Len(<<x>> \o s) = Len(s) + 1
           /\ \A p \in 1..(Len(s) + 1) : (<<x>> \o s)[p] = IF p = 1 THEN x ELSE s[p - 1]
<1>1. <<x>> \in Seq(S) /\ Len(<<x>>) = 1 /\ <<x>>[1] = x
  OBVIOUS
<1>2. QED
  BY <1>1, ConcatProperties

(* Where the entry that ends up at p was before that at i was moved.        *)
Was(i, p) == IF p = 1 THEN i ELSE IF p <= i THEN p - 1 ELSE p

LEMMA MoveToFrontIs ==
    ASSUME NEW S, NEW s \in Seq(S), NEW i \in DOMAIN s
    PROVE  /\ MoveToFront(s, i) \in Seq(S)
           /\ Len(MoveToFront(s, i)) = Len(s)
           /\ \A p \in 1..Len(s) : MoveToFront(s, i)[p] = s[Was(i, p)]
<1> DEFINE before == SubSeq(s, 1, i - 1)
           after == SubSeq(s, i + 1, Len(s))
           first == <<s[i]>> \o before
<1>1. /\ before \in Seq(S)
      /\ Len(before) = i - 1
      /\ \A p \in 1..(i - 1) : before[p] = s[p]
  BY SubSeqProperties
<1>2. /\ after \in Seq(S)
      /\ Len(after) = Len(s) - i
      /\ \A p \in 1..(Len(s) - i) : after[p] = s[p + i]
  <2>1. \A p \in (i + 1)..Len(s) : s[p] \in S
    OBVIOUS
  <2> QED
    BY <2>1, SubSeqProperties
<1>3. /\ first \in Seq(S)
      /\ Len(first) = i
      /\ \A p \in 1..i : first[p] = s[Was(i, p)]
  <2>1. s[i] \in S
    OBVIOUS
  <2> HIDE DEF before
  <2> QED
    BY <1>1, <2>1, InFrontIs DEF Was
<1> DEFINE whole == first \o after
<1>4. /\ whole \in Seq(S)
      /\ Len(whole) = Len(first) + Len(after)
      /\ \A p \in 1..(Len(first) + Len(after)) :
            whole[p] = IF p <= Len(first) THEN first[p] ELSE after[p - Len(first)]
  <2> HIDE DEF before, after, first
  <2>1. first \in Seq(S) /\ after \in Seq(S)
    BY <1>2, <1>3
  <2> QED
    BY <2>1, ConcatProperties
<1>5. MoveToFront(s, i) = whole
  BY DEF MoveToFront
<1>6. Len(s) \in Nat /\ i \in 1..Len(s)
  OBVIOUS
<1> HIDE DEF before, after, first, whole
<1>7. Len(first) = i /\ Len(first) + Len(after) = Len(s)
  BY <1>2, <1>3, <1>6
<1>8. \A p \in 1..Len(s) : whole[p] = IF p <= i THEN first[p] ELSE after[p - i]
  BY <1>4, <1>7
<1>9. ASSUME NEW p \in 1..Len(s) PROVE whole[p] = s[Was(i, p)]
  <2>1. CASE p <= i
    <3>1. p \in 1..i
      BY <1>6, <2>1
    <3> QED
      BY <1>3, <1>8, <2>1, <3>1
  <2>2. CASE p > i
    <3>1. p - i \in 1..(Len(s) - i) /\ (p - i) + i = p
      BY <1>6, <2>2
    <3>2. after[p - i] = s[p]
      BY <1>2, <3>1
    <3>3. Was(i, p) = p
      BY <1>6, <2>2 DEF Was
    <3>4. ~(p <= i)
      BY <1>6, <2>2
    <3> QED
      BY <1>8, <3>2, <3>3, <3>4
  <2> QED
    BY <1>6, <2>1, <2>2
<1>10. QED
  BY <1>4, <1>5, <1>7, <1>9

LEMMA WithNewIs ==
    ASSUME NEW S, cache \in Seq(S), NEW new \in S
    PROVE  /\ WithNew(new) \in Seq(S)
           /\ Len(WithNew(new)) <= Capacity /\ Len(WithNew(new)) <= Len(cache) + 1
           /\ \A p \in 1..Len(WithNew(new)) :
                 WithNew(new)[p] = IF p = 1 THEN new ELSE cache[p - 1]
<1> DEFINE whole == <<new>> \o cache
<1>1. /\ whole \in Seq(S)
      /\ Len(whole) = Len(cache) + 1
      /\ \A p \in 1..(Len(cache) + 1) : whole[p] = IF p = 1 THEN new ELSE cache[p - 1]
  BY InFrontIs
<1>2. /\ FirstOf(whole, Capacity) \in Seq(S)
      /\ Len(FirstOf(whole, Capacity)) = IF Len(whole) > Capacity THEN Capacity ELSE Len(whole)
      /\ \A p \in 1..Len(FirstOf(whole, Capacity)) : FirstOf(whole, Capacity)[p] = whole[p]
  <2> HIDE DEF whole
  <2> QED
    BY <1>1, FirstOfIs, ConstantsAssumption
<1>3. WithNew(new) = FirstOf(whole, Capacity)
  BY DEF WithNew
<1> HIDE DEF whole
<1>4. QED
  BY <1>1, <1>2, <1>3, ConstantsAssumption

(* A hit finds an entry of its key.                                         *)
LEMMA FirstWithFinds ==
    ASSUME CacheIsStatic, NEW k, k \in CachedKeys
    PROVE  FirstWith(k) \in DOMAIN cache /\ CacheKey(cache[FirstWith(k)].graph) = k
<1> DEFINE Here == {i \in DOMAIN cache : CacheKey(cache[i].graph) = k}
<1>1. Here # {} /\ Here \subseteq Nat
  BY DEF CachedKeys, CacheIsStatic
<1>2. PICK i \in Here : \A j \in Here : ~(<<j, i>> \in OpToRel(<, Nat))
  <2> HIDE DEF Here
  <2> QED
    BY <1>1, NatLessThanWellFounded, WFMin
<1>3. \A j \in Here : ~(j < i)
  BY <1>1, <1>2 DEF OpToRel
<1>4. \A j \in 1..(i - 1) : CacheKey(cache[j].graph) # k
  BY <1>3 DEF CacheIsStatic
<1>5. QED
  BY <1>4 DEF FirstWith

-----------------------------------------------------------------------------
(* The parts of the invariant that a step of run r can disturb.             *)

Others(r) == Runs \ {r}

(* The rest of the state of the other runs is what it was.                  *)
OthersKept(r) ==
    \A s \in Others(r) :
        /\ pc'[s] = pc[s]
        /\ loaded'[s] = loaded[s]
        /\ ctx'[s] = ctx[s]
        /\ app'[s] = app[s]
        /\ catalog'[s] = catalog[s]

(* EngineInv, of one run.                                                   *)
RunInv(r) ==
    /\ loaded[r] # Nothing <=> pc[r] \in Executing
    /\ app[r] # Nothing <=> pc[r] = "streaming"
    /\ pc[r] \in Compiling => ctx[r] = r
    /\ pc[r] \in Compiling \cup {"streaming"} /\ HasMcpNode(loaded[r]) => catalog[r] = "open"
    /\ app[r] # Nothing =>
          \/ app[r].graph = loaded[r]
          \/ /\ app[r].graph.pipeline = loaded[r].pipeline
             /\ app[r].graph.updatedAt = loaded[r].updatedAt
             /\ ~HasMcpNode(app[r].graph)
    /\ pc[r] = "streaming" /\ HasMcpNode(app[r].graph) =>
          app[r].specs = r /\ catalog[r] = "open"

LEMMA RunByRun == EngineInv <=> TypeOK /\ CacheIsStatic /\ \A r \in Runs : RunInv(r)
  BY DEF EngineInv, Locals, CatalogIsOpen, ExecutesWhatItLoaded, SpecsAreOwnAndOpen, RunInv

(* A step of r that keeps the others is judged by what becomes of r.        *)
LEMMA OneRunMoves ==
    ASSUME EngineInv, NEW r \in Runs, OthersKept(r), TypeOK', CacheIsStatic', RunInv(r)'
    PROVE  EngineInv'
<1>1. ASSUME NEW s \in Others(r) PROVE RunInv(s)'
  <2>1. RunInv(s)
    BY RunByRun DEF Others
  <2> QED
    BY <2>1 DEF OthersKept, RunInv, HasMcpNode
<1>2. \A s \in Runs : RunInv(s)'
  BY <1>1 DEF Others
<1> QED
  BY <1>2, RunByRun DEF EngineInv, Locals, CatalogIsOpen, ExecutesWhatItLoaded,
                        SpecsAreOwnAndOpen, RunInv

-----------------------------------------------------------------------------
LEMMA InitInv == Init => EngineInv
<1> SUFFICES ASSUME Init PROVE EngineInv
  OBVIOUS
<1>1. TypeOK
  BY ConstantsAssumption DEF Init, TypeOK, State, Graph
<1>2. CacheIsStatic
  BY DEF Init, CacheIsStatic
<1>3. \A r \in Runs : RunInv(r)
  BY DEF Init, RunInv, Executing, Compiling
<1> QED
  BY <1>1, <1>2, <1>3, RunByRun

(* The clock and the store hold nothing the invariant depends on.           *)
LEMMA HostStep ==
    ASSUME EngineInv, Tick \/ \E p \in Pipelines, d \in Drafts : Save(p, d)
    PROVE  EngineInv'
<1>1. TypeOK'
  BY ConstantsAssumption DEF EngineInv, TypeOK, Tick, Save, Graph
<1>2. UNCHANGED <<cache, pc, loaded, ctx, app, catalog>>
  BY DEF Tick, Save
<1> QED
  BY <1>1, <1>2 DEF EngineInv, Locals, CatalogIsOpen, CacheIsStatic, ExecutesWhatItLoaded,
                    SpecsAreOwnAndOpen, HasMcpNode

(* compile() up to its first await, by a run with an open catalog or no use *)
(* for one.                                                                 *)
LEMMA EnterCompileStep ==
    ASSUME EngineInv, NEW r \in Runs, pc[r] \in {"creatingRun", "loadingCatalog"},
           EnterCompile(r),
           catalog' = catalog \/ catalog' = [catalog EXCEPT ![r] = "open"],
           HasMcpNode(loaded[r]) => catalog'[r] = "open"
    PROVE  EngineInv'
<1> DEFINE g == loaded[r]
           i == FirstWith(CacheKey(g))
<1>0. TypeOK /\ RunInv(r) /\ CacheIsStatic
  BY RunByRun
<1>1. g \in Graph
  BY <1>0 DEF TypeOK, RunInv, Executing
<1>2. OthersKept(r)
  BY <1>0 DEF OthersKept, Others, EnterCompile, TypeOK
<1>3. CASE IsCacheable(g) /\ CacheKey(g) \in CachedKeys
  <2>1. i \in DOMAIN cache /\ CacheKey(cache[i].graph) = CacheKey(g)
    BY <1>0, <1>3, FirstWithFinds
  <2>2. cache[i] \in App /\ ~HasMcpNode(cache[i].graph)
    BY <1>0, <2>1 DEF CacheIsStatic
  <2>3. /\ cache' = ToFront(i)
        /\ app' = [app EXCEPT ![r] = cache[i]]
        /\ pc' = [pc EXCEPT ![r] = "streaming"]
        /\ ctx' = [ctx EXCEPT ![r] = r]
        /\ resolveContext' = r
        /\ UNCHANGED <<now, stored, loaded>>
    BY <1>3 DEF EnterCompile
  <2>4. ToFront(i) \in Seq(App) /\ ToFront(i) \in Seq(StaticApp)
    BY <1>0, <2>1, MoveToFrontIs DEF ToFront, TypeOK, CacheIsStatic, StaticApp
  <2>5. TypeOK'
    BY <1>0, <2>2, <2>3, <2>4 DEF TypeOK, State
  <2>6. CacheIsStatic'
    BY <2>3, <2>4 DEF CacheIsStatic, StaticApp
  <2>7. cache[i].graph.pipeline = g.pipeline /\ cache[i].graph.updatedAt = g.updatedAt
    BY <2>1 DEF CacheKey
  <2>8. RunInv(r)'
    BY <1>0, <1>1, <2>2, <2>3, <2>7, NothingAssumption
       DEF TypeOK, RunInv, Executing, Compiling, HasMcpNode
  <2> QED
    BY <1>2, <2>5, <2>6, <2>8, OneRunMoves
<1>4. CASE ~(IsCacheable(g) /\ CacheKey(g) \in CachedKeys)
  <2>1. /\ pc' = [pc EXCEPT ![r] = "validating"]
        /\ ctx' = [ctx EXCEPT ![r] = r]
        /\ resolveContext' = r
        /\ UNCHANGED <<now, stored, loaded, cache, app>>
    BY <1>4 DEF EnterCompile
  <2>2. TypeOK'
    BY <1>0, <2>1 DEF TypeOK, State
  <2>3. CacheIsStatic'
    BY <1>0, <2>1 DEF CacheIsStatic
  <2>4. RunInv(r)'
    BY <1>0, <1>1, <2>1, NothingAssumption
       DEF TypeOK, RunInv, Executing, Compiling, HasMcpNode
  <2> QED
    BY <1>2, <2>2, <2>3, <2>4, OneRunMoves
<1> QED
  BY <1>3, <1>4

LEMMA ResolveSpecsStep ==
    ASSUME EngineInv, NEW r \in Runs, ResolveSpecs(r)
    PROVE  EngineInv'
<1> DEFINE g == loaded[r]
           compiled == [graph |-> g, specs |-> IF HasMcpNode(g) THEN ContextOf(r) ELSE Nothing]
<1>0. TypeOK /\ RunInv(r) /\ CacheIsStatic
  BY RunByRun
<1>1. g \in Graph /\ ctx[r] = r /\ (HasMcpNode(g) => catalog[r] = "open")
  BY <1>0 DEF TypeOK, RunInv, Executing, Compiling, ResolveSpecs
<1>2. compiled \in App
  BY <1>1 DEF App, ContextOf
<1>3. /\ app' = [app EXCEPT ![r] = compiled]
      /\ pc' = [pc EXCEPT ![r] = "streaming"]
      /\ UNCHANGED <<now, stored, resolveContext, loaded, ctx, catalog>>
  BY DEF ResolveSpecs
<1>4. cache' \in Seq(App) /\ CacheIsStatic'
  <2>1. CASE IsCacheable(g)
    <3>1. cache' = WithNew(compiled) /\ compiled \in StaticApp
      BY <1>2, <2>1 DEF ResolveSpecs, StaticApp, IsCacheable
    <3>2. WithNew(compiled) \in Seq(App) /\ WithNew(compiled) \in Seq(StaticApp)
      BY <1>0, <1>2, <3>1, WithNewIs DEF TypeOK, CacheIsStatic, StaticApp
    <3> QED
      BY <3>1, <3>2 DEF CacheIsStatic, StaticApp
  <2>2. CASE ~IsCacheable(g)
    BY <1>0, <2>2 DEF ResolveSpecs, TypeOK, CacheIsStatic
  <2> QED
    BY <2>1, <2>2
<1>5. TypeOK'
  BY <1>0, <1>2, <1>3, <1>4 DEF TypeOK, State
<1>6. OthersKept(r)
  BY <1>0, <1>3 DEF OthersKept, Others, TypeOK
<1>7. app'[r].graph = g /\ (HasMcpNode(g) => app'[r].specs = r) /\ app'[r] # Nothing
  BY <1>0, <1>1, <1>2, <1>3, NothingAssumption DEF TypeOK, ContextOf
<1>8. RunInv(r)'
  BY <1>0, <1>1, <1>3, <1>7, NothingAssumption
     DEF TypeOK, RunInv, Executing, Compiling, HasMcpNode
<1> QED
  BY <1>4, <1>5, <1>6, <1>8, OneRunMoves

(* The steps of a run that leave the compiler alone.                        *)
LEMMA PlainStep ==
    ASSUME EngineInv, NEW r \in Runs, Load(r) \/ Validate(r) \/ Finish(r) \/ Settle(r)
    PROVE  EngineInv'
<1>0. TypeOK /\ RunInv(r) /\ CacheIsStatic
  BY RunByRun
<1>1. TypeOK'
  BY <1>0, ConstantsAssumption DEF TypeOK, State, shared, Load, Validate, Finish, Settle
<1>2. CacheIsStatic'
  BY <1>0 DEF CacheIsStatic, shared, Load, Validate, Finish, Settle
<1>3. OthersKept(r)
  BY <1>0 DEF TypeOK, OthersKept, Others, Load, Validate, Finish, Settle
<1>4. RunInv(r)'
  <2>1. CASE Load(r)
    <3>1. stored[PipelineOf[r]] \in Graph
      BY <1>0, ConstantsAssumption DEF TypeOK
    <3> QED
      BY <1>0, <2>1, <3>1, NothingAssumption
         DEF TypeOK, RunInv, Executing, Compiling, Load, HasMcpNode
  <2>2. CASE Validate(r)
    BY <1>0, <2>2 DEF TypeOK, RunInv, Executing, Compiling, Validate, HasMcpNode
  <2>3. CASE Finish(r)
    BY <1>0, <2>3 DEF TypeOK, RunInv, Executing, Compiling, Finish
  <2>4. CASE Settle(r)
    BY <1>0, <2>4 DEF TypeOK, RunInv, Executing, Compiling, Settle
  <2> QED
    BY <2>1, <2>2, <2>3, <2>4
<1> QED
  BY <1>1, <1>2, <1>3, <1>4, OneRunMoves

LEMMA CreateRunStep ==
    ASSUME EngineInv, NEW r \in Runs, CreateRun(r)
    PROVE  EngineInv'
<1>0. TypeOK /\ RunInv(r) /\ CacheIsStatic
  BY RunByRun
<1>1. CASE HasMcpNode(loaded[r])
  <2>1. TypeOK'
    BY <1>0, <1>1 DEF TypeOK, State, shared, CreateRun
  <2>2. CacheIsStatic'
    BY <1>0, <1>1 DEF CacheIsStatic, shared, CreateRun
  <2>3. OthersKept(r)
    BY <1>0, <1>1 DEF TypeOK, OthersKept, Others, CreateRun
  <2>4. RunInv(r)'
    BY <1>0, <1>1 DEF TypeOK, RunInv, Executing, Compiling, CreateRun
  <2> QED
    BY <2>1, <2>2, <2>3, <2>4, OneRunMoves
<1>2. CASE ~HasMcpNode(loaded[r])
  BY <1>2, EnterCompileStep DEF CreateRun
<1> QED
  BY <1>1, <1>2

LEMMA StepInv == EngineInv /\ [Next]_vars => EngineInv'
<1> SUFFICES ASSUME EngineInv, [Next]_vars PROVE EngineInv'
  OBVIOUS
<1>1. CASE Tick \/ \E p \in Pipelines, d \in Drafts : Save(p, d)
  BY <1>1, HostStep
<1>2. ASSUME NEW r \in Runs, Advance(r) PROVE EngineInv'
  <2>1. CASE LoadCatalog(r)
    <3>1. catalog'[r] = "open"
      BY <2>1 DEF LoadCatalog, EngineInv, TypeOK
    <3> QED
      BY <2>1, <3>1, EnterCompileStep DEF LoadCatalog
  <2> QED
    BY <1>2, <2>1, PlainStep, CreateRunStep, ResolveSpecsStep DEF Advance
<1>3. CASE UNCHANGED vars
  BY <1>3 DEF EngineInv, TypeOK, Locals, CatalogIsOpen, CacheIsStatic, ExecutesWhatItLoaded,
              SpecsAreOwnAndOpen, HasMcpNode, vars, shared
<1> QED
  BY <1>1, <1>2, <1>3 DEF Next

(* Runs of one engine share its compiler and its cache, and still keep to   *)
(* their own graph, context and catalog (compiler.ts:54-75, 202-205).       *)
THEOREM RunsDoNotMeet == Spec => []EngineInv
  BY InitInv, StepInv, PTL DEF Spec

(* A run executes the graph it loaded, or one of the same pipeline saved in *)
(* the same millisecond (compiler.ts:65).                                   *)
THEOREM LoadedGraphIsExecuted == Spec => []ExecutesWhatItLoaded
<1>1. EngineInv => ExecutesWhatItLoaded
  BY DEF EngineInv
<1> QED
  BY <1>1, RunsDoNotMeet, PTL

(* The MCP specs a run executes are from its own open catalog               *)
(* (compiler.ts:62, runtime/src/index.ts:264-270).                          *)
THEOREM SpecsAreBound == Spec => []SpecsAreOwnAndOpen
<1>1. EngineInv => SpecsAreOwnAndOpen
  BY DEF EngineInv
<1> QED
  BY <1>1, RunsDoNotMeet, PTL

-----------------------------------------------------------------------------
(* The cache is LRU.                                                        *)

Keys == {CacheKey(g) : g \in Graph}
KeyAt(i) == CacheKey(cache[i].graph)

(* The entry at p is for a key that is among the p used last, and in front  *)
(* of it is an entry for each of the keys used after that one.              *)
InOrder(p) ==
    \E m \in DOMAIN uses :
        /\ m <= p
        /\ KeyAt(p) = uses[m]
        /\ \A j \in 1..(m - 1) : \E h \in 1..(p - 1) : KeyAt(h) = uses[j]

LruInv ==
    /\ Len(cache) <= Capacity
    /\ uses \in Seq(Keys) /\ Len(uses) <= Capacity
    /\ \A i, j \in DOMAIN uses : uses[i] = uses[j] => i = j
    /\ \A p \in DOMAIN cache : InOrder(p)

(* The place in uses of what was at m, once k has been used.                *)
After(m, k) == IF \E u \in 1..(m - 1) : uses[u] = k THEN m ELSE m + 1

(* A key that is used comes first, and the others keep their order.         *)
LEMMA UseIs ==
    ASSUME LruInv, NEW k \in Keys, Use(k)
    PROVE  /\ uses' \in Seq(Keys) /\ Len(uses') <= Capacity
           /\ \A i, j \in DOMAIN uses' : uses'[i] = uses'[j] => i = j
           /\ 1 \in DOMAIN uses' /\ uses'[1] = k
           /\ \A m \in DOMAIN uses :
                 uses[m] # k /\ After(m, k) <= Capacity =>
                    /\ After(m, k) \in DOMAIN uses' /\ uses'[After(m, k)] = uses[m]
                    /\ \A j \in 1..(After(m, k) - 1) :
                          uses'[j] = k \/ \E l \in 1..(m - 1) : uses'[j] = uses[l]
<1>0. /\ Len(uses) \in Nat /\ DOMAIN uses = 1..Len(uses)
      /\ Capacity \in Nat \ {0}
      /\ uses \in Seq(Keys) /\ Len(uses) <= Capacity
      /\ \A i, j \in DOMAIN uses : uses[i] = uses[j] => i = j
  BY ConstantsAssumption DEF LruInv
<1>1. ASSUME NEW u \in DOMAIN uses, uses[u] = k, uses' = MoveToFront(uses, u)
      PROVE  /\ uses' \in Seq(Keys) /\ Len(uses') = Len(uses)
             /\ DOMAIN uses' = 1..Len(uses)
             /\ \A p \in 1..Len(uses) : uses'[p] = uses[Was(u, p)]
  <2>1. /\ MoveToFront(uses, u) \in Seq(Keys)
        /\ Len(MoveToFront(uses, u)) = Len(uses)
        /\ \A p \in 1..Len(uses) : MoveToFront(uses, u)[p] = uses[Was(u, p)]
    BY <1>0, MoveToFrontIs
  <2> QED
    BY <1>0, <1>1, <2>1
<1>2. ASSUME \A i \in DOMAIN uses : uses[i] # k,
             uses' = FirstOf(<<k>> \o uses, Capacity)
      PROVE  /\ uses' \in Seq(Keys)
             /\ Len(uses') = IF Len(uses) + 1 > Capacity THEN Capacity ELSE Len(uses) + 1
             /\ DOMAIN uses' = 1..Len(uses')
             /\ \A p \in 1..Len(uses') : uses'[p] = IF p = 1 THEN k ELSE uses[p - 1]
  <2> DEFINE whole == <<k>> \o uses
  <2>1. /\ whole \in Seq(Keys)
        /\ Len(whole) = Len(uses) + 1
        /\ \A p \in 1..(Len(uses) + 1) : whole[p] = IF p = 1 THEN k ELSE uses[p - 1]
    BY <1>0, InFrontIs
  <2>2. uses' = FirstOf(whole, Capacity)
    BY <1>2
  <2> HIDE DEF whole
  <2>3. /\ uses' \in Seq(Keys)
        /\ Len(uses') = IF Len(whole) > Capacity THEN Capacity ELSE Len(whole)
        /\ \A p \in 1..Len(uses') : uses'[p] = whole[p]
    BY <1>0, <2>1, <2>2, FirstOfIs
  <2> QED
    BY <1>0, <2>1, <2>3
<1>3. ASSUME NEW u \in DOMAIN uses, uses[u] = k, uses' = MoveToFront(uses, u)
      PROVE  /\ uses' \in Seq(Keys) /\ Len(uses') <= Capacity
             /\ \A i, j \in DOMAIN uses' : uses'[i] = uses'[j] => i = j
             /\ 1 \in DOMAIN uses' /\ uses'[1] = k
             /\ \A m \in DOMAIN uses :
                   uses[m] # k /\ After(m, k) <= Capacity =>
                      /\ After(m, k) \in DOMAIN uses' /\ uses'[After(m, k)] = uses[m]
                      /\ \A j \in 1..(After(m, k) - 1) :
                            uses'[j] = k \/ \E l \in 1..(m - 1) : uses'[j] = uses[l]
  <2>1. \A i, j \in DOMAIN uses' : uses'[i] = uses'[j] => i = j
    <3>1. \A i, j \in 1..Len(uses) :
             /\ Was(u, i) \in 1..Len(uses)
             /\ Was(u, i) = Was(u, j) => i = j
      BY <1>0, <1>3 DEF Was
    <3> QED
      BY <1>0, <1>1, <1>3, <3>1
  <2>2. 1 \in DOMAIN uses' /\ uses'[1] = k
    BY <1>0, <1>1, <1>3 DEF Was
  <2>3. ASSUME NEW m \in DOMAIN uses, uses[m] # k
        PROVE  /\ After(m, k) \in 1..Len(uses) /\ Was(u, After(m, k)) = m
               /\ \A j \in 1..(After(m, k) - 1) :
                     Was(u, j) = u \/ Was(u, j) \in 1..(m - 1)
    <3>1. After(m, k) = IF u < m THEN m ELSE m + 1
      BY <1>0, <1>3, <2>3 DEF After
    <3>2. u # m
      BY <1>3, <2>3
    <3> QED
      BY <1>0, <3>1, <3>2 DEF Was
  <2> QED
    BY <1>0, <1>1, <1>3, <2>1, <2>2, <2>3
<1>4. ASSUME \A i \in DOMAIN uses : uses[i] # k,
             uses' = FirstOf(<<k>> \o uses, Capacity)
      PROVE  /\ uses' \in Seq(Keys) /\ Len(uses') <= Capacity
             /\ \A i, j \in DOMAIN uses' : uses'[i] = uses'[j] => i = j
             /\ 1 \in DOMAIN uses' /\ uses'[1] = k
             /\ \A m \in DOMAIN uses :
                   uses[m] # k /\ After(m, k) <= Capacity =>
                      /\ After(m, k) \in DOMAIN uses' /\ uses'[After(m, k)] = uses[m]
                      /\ \A j \in 1..(After(m, k) - 1) :
                            uses'[j] = k \/ \E l \in 1..(m - 1) : uses'[j] = uses[l]
  <2>1. /\ uses' \in Seq(Keys)
        /\ Len(uses') = IF Len(uses) + 1 > Capacity THEN Capacity ELSE Len(uses) + 1
        /\ DOMAIN uses' = 1..Len(uses')
        /\ \A p \in 1..Len(uses') : uses'[p] = IF p = 1 THEN k ELSE uses[p - 1]
    BY <1>2, <1>4
  <2>2. ASSUME NEW i \in 1..Len(uses'), i # 1
        PROVE  i - 1 \in DOMAIN uses /\ uses'[i] = uses[i - 1]
    BY <1>0, <2>1, <2>2
  <2>3. 1 \in DOMAIN uses' /\ uses'[1] = k /\ Len(uses') <= Capacity
    BY <1>0, <2>1
  <2>4. ASSUME NEW i \in DOMAIN uses', NEW j \in DOMAIN uses', uses'[i] = uses'[j]
        PROVE  i = j
    <3>1. CASE i = 1 \/ j = 1
      BY <1>4, <2>1, <2>2, <2>3, <2>4, <3>1
    <3>2. CASE i # 1 /\ j # 1
      <4>1. /\ i - 1 \in DOMAIN uses /\ uses[i - 1] = uses'[i]
            /\ j - 1 \in DOMAIN uses /\ uses[j - 1] = uses'[j]
        BY <2>1, <2>2, <3>2
      <4>2. i - 1 = j - 1
        BY <1>0, <2>4, <4>1
      <4> QED
        BY <2>1, <4>2
    <3> QED
      BY <3>1, <3>2
  <2>5. ASSUME NEW m \in DOMAIN uses, After(m, k) <= Capacity
        PROVE  /\ After(m, k) \in DOMAIN uses' /\ uses'[After(m, k)] = uses[m]
               /\ \A j \in 1..(After(m, k) - 1) :
                     uses'[j] = k \/ \E l \in 1..(m - 1) : uses'[j] = uses[l]
    <3>1. After(m, k) = m + 1
      BY <1>0, <1>4 DEF After
    <3>2. m + 1 \in 1..Len(uses') /\ m + 1 # 1 /\ (m + 1) - 1 = m
      BY <1>0, <2>1, <2>5, <3>1
    <3>3. ASSUME NEW j \in 1..m, j # 1
          PROVE  j - 1 \in 1..(m - 1) /\ uses'[j] = uses[j - 1]
      BY <1>0, <2>1, <2>2, <3>2, <3>3
    <3> QED
      BY <2>1, <2>2, <2>3, <3>1, <3>2, <3>3
  <2> QED
    BY <2>1, <2>3, <2>4, <2>5
<1> QED
  BY <1>3, <1>4 DEF Use

(* An entry for another key than k, at q before k was used and at p after,  *)
(* stays in order if all the entries in front of it stay in front.          *)
LEMMA EntryStaysInOrder ==
    ASSUME LruInv, NEW k \in Keys, Use(k),
           NEW q \in DOMAIN cache, NEW p \in 2..Capacity,
           KeyAt(p)' = KeyAt(q), KeyAt(1)' = k,
           q < p \/ (q = p /\ \E i \in 1..(q - 1) : KeyAt(i) = k),
           \A h \in 1..(q - 1) :
              KeyAt(h) = k \/ \E g \in 1..(p - 1) : KeyAt(g)' = KeyAt(h)
    PROVE  InOrder(p)'
<1>0. /\ Len(uses) \in Nat /\ DOMAIN uses = 1..Len(uses)
      /\ Len(cache) \in Nat /\ DOMAIN cache = 1..Len(cache)
      /\ Capacity \in Nat \ {0}
  BY ConstantsAssumption DEF LruInv
<1>1. CASE KeyAt(q) = k
  BY <1>1, UseIs DEF InOrder
<1>2. CASE KeyAt(q) # k
  <2>1. PICK m \in DOMAIN uses :
          /\ m <= q /\ KeyAt(q) = uses[m]
          /\ \A j \in 1..(m - 1) : \E h \in 1..(q - 1) : KeyAt(h) = uses[j]
    BY DEF LruInv, InOrder
  <2>2. After(m, k) <= p
    <3>1. CASE q < p
      BY <1>0, <2>1, <3>1 DEF After
    <3>2. ASSUME q = p, NEW i \in 1..(q - 1), KeyAt(i) = k
          PROVE  After(m, k) <= p
      <4>1. PICK u \in DOMAIN uses :
              /\ u <= i /\ uses[u] = k
              /\ \A j \in 1..(u - 1) : \E h \in 1..(i - 1) : KeyAt(h) = uses[j]
        BY <1>0, <3>2 DEF LruInv, InOrder
      <4>2. CASE u < m
        BY <1>0, <2>1, <3>2, <4>1, <4>2 DEF After
      <4>3. CASE m < u
        <5>1. PICK h \in 1..(i - 1) : KeyAt(h) = uses[m]
          BY <1>0, <4>1, <4>3
        <5>2. PICK n \in DOMAIN uses : n <= h /\ uses[n] = uses[m]
          BY <1>0, <5>1 DEF LruInv, InOrder
        <5>3. n = m
          BY <5>2 DEF LruInv
        <5> QED
          BY <1>0, <3>2, <5>2, <5>3 DEF After
      <4>4. u # m
        BY <1>2, <2>1, <4>1
      <4> QED
        BY <1>0, <4>2, <4>3, <4>4
    <3> QED
      BY <3>1, <3>2
  <2>3. /\ After(m, k) \in DOMAIN uses' /\ uses'[After(m, k)] = uses[m]
        /\ \A j \in 1..(After(m, k) - 1) :
              uses'[j] = k \/ \E l \in 1..(m - 1) : uses'[j] = uses[l]
    <3>1. After(m, k) <= Capacity
      BY <1>0, <2>2 DEF After
    <3> QED
      BY <1>2, <2>1, <3>1, UseIs
  <2>4. ASSUME NEW j \in 1..(After(m, k) - 1)
        PROVE  \E g \in 1..(p - 1) : KeyAt(g)' = uses'[j]
    <3>1. CASE uses'[j] = k
      BY <3>1
    <3>2. CASE uses'[j] # k
      <4>1. PICK l \in 1..(m - 1) : uses'[j] = uses[l]
        BY <2>3, <3>2
      <4>2. PICK h \in 1..(q - 1) : KeyAt(h) = uses[l]
        BY <2>1
      <4> QED
        BY <3>2, <4>1, <4>2
    <3> QED
      BY <3>1, <3>2
  <2> QED
    BY <2>1, <2>2, <2>3, <2>4 DEF InOrder
<1> QED
  BY <1>1, <1>2

(* compile() on a hit and at its end.                                       *)
LEMMA HitKeepsLru ==
    ASSUME LruInv, cache \in Seq(App), NEW i \in DOMAIN cache,
           cache' = ToFront(i), Use(KeyAt(i)), KeyAt(i) \in Keys
    PROVE  LruInv'
<1>0. /\ Len(cache) \in Nat /\ DOMAIN cache = 1..Len(cache)
      /\ Capacity \in Nat \ {0} /\ Len(cache) <= Capacity
  BY ConstantsAssumption DEF LruInv
<1>1. /\ cache' \in Seq(App) /\ Len(cache') = Len(cache) /\ DOMAIN cache' = 1..Len(cache)
      /\ \A p \in 1..Len(cache) : cache'[p] = cache[Was(i, p)]
  <2>1. /\ ToFront(i) \in Seq(App) /\ Len(ToFront(i)) = Len(cache)
        /\ \A p \in 1..Len(cache) : ToFront(i)[p] = cache[Was(i, p)]
    BY MoveToFrontIs DEF ToFront
  <2> QED
    BY <1>0, <2>1
<1>2. \A p \in 1..Len(cache) : KeyAt(p)' = KeyAt(Was(i, p))
  BY <1>1 DEF KeyAt
<1>3. KeyAt(1)' = KeyAt(i)
  BY <1>0, <1>2 DEF Was
<1>4. ASSUME NEW p \in 1..Len(cache) PROVE InOrder(p)'
  <2>1. CASE p = 1
    BY <1>3, <2>1, UseIs DEF InOrder
  <2>2. CASE p # 1
    <3> DEFINE q == Was(i, p)
    <3>1. /\ q \in DOMAIN cache /\ p \in 2..Capacity
          /\ q < p \/ (q = p /\ i \in 1..(q - 1))
      BY <1>0, <2>2 DEF Was
    <3>2. ASSUME NEW h \in 1..(q - 1), h # i
          PROVE  \E g \in 1..(p - 1) : KeyAt(g)' = KeyAt(h)
      <4> DEFINE g == IF h < i THEN h + 1 ELSE h
      <4>1. g \in 1..(p - 1) /\ Was(i, g) = h /\ g \in 1..Len(cache)
        BY <1>0, <2>2, <3>2 DEF Was
      <4> HIDE DEF g
      <4> QED
        BY <1>2, <4>1
    <3>3. KeyAt(p)' = KeyAt(q)
      BY <1>2
    <3> HIDE DEF q
    <3> QED
      BY <1>3, <3>1, <3>2, <3>3, EntryStaysInOrder
  <2> QED
    BY <2>1, <2>2
<1> QED
  BY <1>0, <1>1, <1>4, UseIs DEF LruInv

LEMMA MissKeepsLru ==
    ASSUME LruInv, cache \in Seq(App), NEW new \in App,
           cache' = WithNew(new), Use(CacheKey(new.graph)), CacheKey(new.graph) \in Keys
    PROVE  LruInv'
<1>0. /\ Len(cache) \in Nat /\ DOMAIN cache = 1..Len(cache)
      /\ Capacity \in Nat \ {0}
  BY ConstantsAssumption
<1>1. /\ cache' \in Seq(App) /\ DOMAIN cache' = 1..Len(cache') /\ Len(cache') \in Nat
      /\ Len(cache') <= Capacity /\ Len(cache') <= Len(cache) + 1
      /\ \A p \in 1..Len(cache') : cache'[p] = IF p = 1 THEN new ELSE cache[p - 1]
  BY WithNewIs
<1>2. /\ 1 \in DOMAIN cache' => KeyAt(1)' = CacheKey(new.graph)
      /\ \A p \in 1..Len(cache') : p # 1 => KeyAt(p)' = KeyAt(p - 1)
  BY <1>1 DEF KeyAt
<1>3. ASSUME NEW p \in 1..Len(cache') PROVE InOrder(p)'
  <2>0. 1 \in DOMAIN cache' /\ KeyAt(1)' = CacheKey(new.graph)
    BY <1>1, <1>2
  <2>1. CASE p = 1
    BY <2>0, <2>1, UseIs DEF InOrder
  <2>2. CASE p # 1
    <3> DEFINE q == p - 1
    <3>1. q \in DOMAIN cache /\ p \in 2..Capacity /\ q < p
      BY <1>0, <1>1, <2>2
    <3>2. KeyAt(p)' = KeyAt(q)
      BY <1>2, <2>2
    <3>3. ASSUME NEW h \in 1..(q - 1)
          PROVE  \E g \in 1..(p - 1) : KeyAt(g)' = KeyAt(h)
      <4>1. h + 1 \in 1..(p - 1) /\ h + 1 \in 1..Len(cache') /\ h + 1 # 1 /\ (h + 1) - 1 = h
        BY <1>1, <3>3
      <4>2. KeyAt(h + 1)' = KeyAt(h)
        BY <1>2, <4>1
      <4> QED
        BY <4>1, <4>2
    <3> HIDE DEF q
    <3> QED
      BY <2>0, <3>1, <3>2, <3>3, EntryStaysInOrder
  <2> QED
    BY <2>1, <2>2
<1> QED
  BY <1>0, <1>1, <1>3, UseIs DEF LruInv

LEMMA LruNext == EngineInv /\ LruInv /\ [Next]_vars => LruInv'
<1> SUFFICES ASSUME EngineInv, LruInv, [Next]_vars PROVE LruInv'
  OBVIOUS
<1>0. TypeOK /\ CacheIsStatic
  BY DEF EngineInv
<1>1. ASSUME UNCHANGED <<cache, uses>> PROVE LruInv'
  BY <1>1 DEF LruInv, InOrder, KeyAt
<1>2. ASSUME NEW r \in Runs, EnterCompile(r), loaded[r] \in Graph PROVE LruInv'
  <2> DEFINE g == loaded[r]
             i == FirstWith(CacheKey(g))
  <2>1. CASE IsCacheable(g) /\ CacheKey(g) \in CachedKeys
    <3>1. i \in DOMAIN cache /\ KeyAt(i) = CacheKey(g)
      BY <1>0, <2>1, FirstWithFinds DEF KeyAt
    <3>2. cache' = ToFront(i) /\ Use(CacheKey(g))
      BY <1>2, <2>1 DEF EnterCompile
    <3>3. CacheKey(g) \in Keys
      BY <1>2 DEF Keys
    <3> HIDE DEF i, g
    <3> QED
      BY <1>0, <3>1, <3>2, <3>3, HitKeepsLru DEF TypeOK
  <2>2. CASE ~(IsCacheable(g) /\ CacheKey(g) \in CachedKeys)
    BY <1>1, <1>2, <2>2 DEF EnterCompile
  <2> QED
    BY <2>1, <2>2
<1>3. ASSUME NEW r \in Runs, pc[r] \in Executing PROVE loaded[r] \in Graph
  BY <1>0, <1>3 DEF EngineInv, Locals, TypeOK
<1>4. ASSUME NEW r \in Runs, CreateRun(r) PROVE LruInv'
  BY <1>1, <1>2, <1>3, <1>4 DEF CreateRun, shared, Executing
<1>5. ASSUME NEW r \in Runs, LoadCatalog(r) PROVE LruInv'
  BY <1>2, <1>3, <1>5 DEF LoadCatalog, Executing
<1>6. ASSUME NEW r \in Runs, ResolveSpecs(r) PROVE LruInv'
  <2> DEFINE g == loaded[r]
             compiled == [graph |-> g, specs |-> Nothing]
  <2>1. g \in Graph
    BY <1>3, <1>6 DEF ResolveSpecs, Executing, Compiling
  <2>2. CASE IsCacheable(g)
    <3>1. cache' = WithNew(compiled) /\ Use(CacheKey(g))
      BY <1>6, <2>2 DEF ResolveSpecs, IsCacheable
    <3>2. compiled \in App /\ compiled.graph = g /\ CacheKey(g) \in Keys
      BY <2>1 DEF App, Keys
    <3> HIDE DEF compiled, g
    <3> QED
      BY <1>0, <3>1, <3>2, MissKeepsLru DEF TypeOK
  <2>3. CASE ~IsCacheable(g)
    BY <1>1, <1>6, <2>3 DEF ResolveSpecs
  <2> QED
    BY <2>2, <2>3
<1>7. CASE \/ Tick \/ \E p \in Pipelines, d \in Drafts : Save(p, d)
           \/ \E r \in Runs : Load(r) \/ Validate(r) \/ Finish(r) \/ Settle(r)
           \/ UNCHANGED vars
  BY <1>1, <1>7 DEF Tick, Save, Load, Validate, Finish, Settle, vars, shared
<1> QED
  BY <1>4, <1>5, <1>6, <1>7 DEF Next, Advance

(* With every entry in order, the keys in the cache are the first of uses.  *)
LEMMA InOrderIsLru ==
    ASSUME LruInv, cache \in Seq(App)
    PROVE  HoldsLatestUsed
<1> DEFINE Cached == {m \in DOMAIN uses : uses[m] \in CachedKeys}
           Free == {m \in 1..(Len(uses) + 1) : m \notin Cached}
<1>0. /\ Len(uses) \in Nat /\ DOMAIN uses = 1..Len(uses)
      /\ DOMAIN cache = 1..Len(cache)
      /\ CachedKeys = {KeyAt(p) : p \in DOMAIN cache}
  BY DEF LruInv, CachedKeys, KeyAt
<1>1. \A m \in Cached : \A j \in 1..(m - 1) : j \in Cached
  <2> SUFFICES ASSUME NEW m \in Cached, NEW j \in 1..(m - 1) PROVE j \in Cached
    OBVIOUS
  <2>1. PICK p \in DOMAIN cache : KeyAt(p) = uses[m]
    BY <1>0
  <2>2. PICK n \in DOMAIN uses :
          /\ uses[n] = uses[m]
          /\ \A l \in 1..(n - 1) : \E h \in 1..(p - 1) : KeyAt(h) = uses[l]
    BY <2>1 DEF LruInv, InOrder
  <2>3. n = m
    BY <2>2 DEF LruInv
  <2>4. PICK h \in 1..(p - 1) : KeyAt(h) = uses[j]
    BY <2>2, <2>3
  <2> QED
    BY <1>0, <2>4
<1>2. PICK f \in Free : \A m \in Free : ~(m < f)
  <2>1. Len(uses) + 1 \in Free /\ Free \subseteq Nat
    BY <1>0
  <2>2. PICK e \in Free : \A m \in Free : ~(<<m, e>> \in OpToRel(<, Nat))
    <3> HIDE DEF Free
    <3> QED
      BY <2>1, NatLessThanWellFounded, WFMin
  <2> QED
    BY <2>1, <2>2 DEF OpToRel
<1>3. Cached = 1..(f - 1)
  BY <1>0, <1>1, <1>2
<1>4. CachedKeys = {uses[m] : m \in 1..(f - 1)}
  <2>1. \A p \in DOMAIN cache : \E m \in DOMAIN uses : KeyAt(p) = uses[m]
    BY DEF LruInv, InOrder
  <2>2. CachedKeys = {uses[m] : m \in Cached}
    BY <1>0, <2>1
  <2> QED
    BY <1>3, <2>2
<1>5. Cardinality(CachedKeys) = f - 1
  <2> DEFINE F == [m \in 1..(f - 1) |-> uses[m]]
  <2>1. F \in Bijection(1..(f - 1), CachedKeys)
    <3>1. F \in [1..(f - 1) -> CachedKeys]
      BY <1>4
    <3>2. \A i, j \in 1..(f - 1) : F[i] = F[j] => i = j
      BY <1>0, <1>3 DEF LruInv
    <3>3. \A k \in CachedKeys : \E m \in 1..(f - 1) : F[m] = k
      BY <1>4
    <3> QED
      BY <3>1, <3>2, <3>3 DEF Bijection, Injection, Surjection, IsInjective
  <2>2. f - 1 \in Nat
    BY <1>0
  <2> HIDE DEF F
  <2>3. ExistsBijection(1..(f - 1), CachedKeys)
    BY <2>1 DEF ExistsBijection
  <2> QED
    BY <2>2, <2>3, FS_CountingElements
<1> QED
  BY <1>4, <1>5 DEF HoldsLatestUsed, LruInv

(* The shared cache holds the keys that were used last, although concurrent *)
(* misses may put an entry of one key in it several times (compiler.ts:41). *)
THEOREM CacheIsLru == Spec => []HoldsLatestUsed
<1>1. Init => LruInv
  <2>1. ASSUME Init PROVE uses \in Seq(Keys) /\ DOMAIN uses = {} /\ DOMAIN cache = {}
    BY <2>1, EmptySeq DEF Init
  <2> QED
    BY <2>1, ConstantsAssumption DEF Init, LruInv
<1>2. EngineInv /\ LruInv => HoldsLatestUsed
  BY InOrderIsLru DEF EngineInv, TypeOK
<1> QED
  BY <1>1, <1>2, LruNext, RunsDoNotMeet, PTL DEF Spec

=============================================================================
