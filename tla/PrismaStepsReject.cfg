\* A failed start rejects a promise that nobody handles.
SPECIFICATION Spec
CONSTANTS
    r1 = r1  r2 = r2
    c1 = c1  c2 = c2  c3 = c3  d1 = d1
    NoCall = NoCall
    Runs <- MCRuns
    Calls <- MCCalls
    RunOf <- MCRunOf
INVARIANT RejectionsAreHandled

CHECK_DEADLOCK FALSE
