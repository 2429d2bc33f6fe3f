SPECIFICATION Spec
CONSTANTS
    p1 = p1
    p2 = p2
    x = x
    y = y
    z = z
    s1 = s1
    s2 = s2
    s3 = s3
    s4 = s4
    l1 = l1
    l2 = l2
    Nothing = Nothing
    Pipelines = {p1, p2}
    NodeIds = {x, y, z}
    Drafts <- MCDrafts
    Saves = {s1, s2, s3, s4}
    Loads = {l1, l2}
SYMMETRY Calls
INVARIANTS
    SaveInv
    CurrentKeyIsTrue
PROPERTIES
    SavesAreAtomic
    NodesStay
CHECK_DEADLOCK FALSE
