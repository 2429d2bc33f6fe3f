\* A server pages its tools: the run timeout fires and nothing happens.
SPECIFICATION ServedFairSpec
CONSTANTS
    s1 = s1
    s2 = s2
    NoServer = NoServer
    Servers = {s1}
    PagesOf <- TwoPages
    ServerOf <- FirstServer
    Requests = {"stream"}
    HostCharges = FALSE
    HostListens = FALSE
    InnerChains = FALSE
    InMemory = TRUE
    HasPolicy = TRUE
    Node <- MCNode
    Graphs <- SmallGraphs
    RecursionLimit = 4
    HasCatalogLoader = TRUE
    HasParamResolver = TRUE
    HasSignal = TRUE
    StoreFails = FALSE
PROPERTY HardTimeout

CHECK_DEADLOCK FALSE
