\* A failed sibling: the run settles while other runners are still to call their handlers.
SPECIFICATION ServedSpec
CONSTANTS
    s1 = s1
    s2 = s2
    NoServer = NoServer
    Servers = {s1, s2}
    PagesOf <- OnePage
    ServerOf <- FirstServer
    Requests = {"stream"}
    HostCharges = FALSE
    HostListens = FALSE
    InnerChains = FALSE
    InMemory = TRUE
    HasPolicy = TRUE
    Node <- MCNode
    Graphs <- SmallGraphs
    RecursionLimit = 4
    HasCatalogLoader = TRUE
    HasParamResolver = TRUE
    HasSignal = TRUE
    StoreFails = FALSE
INVARIANT FailureEndsWork

CHECK_DEADLOCK FALSE
