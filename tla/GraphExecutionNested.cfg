\* A fan-in node that leads to another one: the second runs early and twice.
SPECIFICATION ExecSpec
CONSTANTS
    Size = 4
    Node <- MCNode
    Graphs <- Dags
    RecursionLimit = 6
INVARIANT FanInRunsOnce
CHECK_DEADLOCK FALSE
