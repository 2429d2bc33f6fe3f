\* Every acyclic graph and some cyclic ones: nothing is lost, nothing runs forever, in order.
SPECIFICATION ExecSpec
CONSTANTS
    Size = 5
    Node <- MCNode
    Graphs <- AllGraphs
    RecursionLimit = 7
INVARIANTS
    SchedTypeOK
    NothingLost
    AncestorsOfGraph
PROPERTIES
    Terminates
    DagSpec
CHECK_DEADLOCK FALSE
