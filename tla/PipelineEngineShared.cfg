SPECIFICATION Spec
CONSTANTS
    a = a
    b = b
    a1 = a1
    a2 = a2
    a3 = a3
    b1 = b1
    tools = tools
    mcp = mcp
    Nothing = Nothing
    Pipelines = {a, b}
    Drafts = {tools, mcp}
    McpDrafts = {mcp}
    Runs = {a1, a2, a3, b1}
    PipelineOf <- MCPipelineOf
    Capacity = 2
    LastMs = 1
SYMMETRY RunsOfOnePipeline
INVARIANTS
    EngineInv
    ExecutesWhatItLoaded
    SpecsAreOwnAndOpen
    HoldsLatestUsed
CHECK_DEADLOCK FALSE
