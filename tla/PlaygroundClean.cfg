SPECIFICATION Spec
CONSTANTS
    seed = seed
    new = new
    u = u
    r = r
    e1 = e1
    e2 = e2
    s1 = s1
    s2 = s2
    None = None
    StartMarker = StartMarker
    EndMarker = EndMarker
    NodeIds = {u, r}
    EdgeIds = {e1, e2}
    PipelineIds = {seed, new}
    Data = {"a", "b"}
    Names = {"starter"}
    Branches = {}
    SaveCalls = {s1, s2}
    Seed = seed
    SeedGraph <- StarterGraph
    MaxEdits = 2
INVARIANTS
    CleanMeansSaved
CHECK_DEADLOCK FALSE
