\* Every call of the store may reject, before or after it took effect.
SPECIFICATION ServedFairSpec
CONSTANTS
    s1 = s1
    s2 = s2
    NoServer = NoServer
    Servers = {s1, s2}
    PagesOf <- MixedPages
    ServerOf <- FirstServer
    Requests = {"stream"}
    HostCharges = TRUE
    HostListens = FALSE
    InnerChains = FALSE
    InMemory = FALSE
    HasPolicy = TRUE
    Node <- MCNode
    Graphs <- MCGraphs
    RecursionLimit = 4
    HasCatalogLoader = TRUE
    HasParamResolver = TRUE
    HasSignal = TRUE
    StoreFails = TRUE
INVARIANTS
    SuccessMeansAllDone
    OutcomeAgrees
    LoaderInv
    ClientsAreClosed
    ToolsAreConnected
    CostAddsUp
    ClientIsTold
    StepsAreInOrder
PROPERTY RunSettles

CHECK_DEADLOCK FALSE
