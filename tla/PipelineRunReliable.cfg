\* A store whose calls do not fail: steps, catalog and the contract.
SPECIFICATION ServedFairSpec
CONSTANTS
    s1 = s1
    s2 = s2
    NoServer = NoServer
    Servers = {s1, s2}
    PagesOf <- OnePage
    ServerOf <- FirstServer
    Requests = {"stream", "run"}
    HostCharges = FALSE
    HostListens = TRUE
    InnerChains = TRUE
    InMemory = TRUE
    HasPolicy = TRUE
    Node <- MCNode
    Graphs <- MCGraphs
    RecursionLimit = 4
    HasCatalogLoader = TRUE
    HasParamResolver = TRUE
    HasSignal = TRUE
    StoreFails = FALSE
INVARIANTS
    TypeOK
    NoOrphanStep
    CatalogBracketsRun
    LastOutputWins
    SeesAncestors
    OverlayIsTrue
    ListenersAreDropped
PROPERTIES
    FinalStatusStays
    AbortStartsNothing
    ContractSpec
    StepsEnd
    ResponseEnds
CHECK_DEADLOCK FALSE
