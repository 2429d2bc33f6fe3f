\* The Prisma queue implements the step log, whatever the database does.
SPECIFICATION FairSpec
CONSTANTS
    r1 = r1  r2 = r2
    c1 = c1  c2 = c2  c3 = c3  d1 = d1
    NoCall = NoCall
    Runs <- MCRuns
    Calls <- MCCalls
    RunOf <- MCRunOf
INVARIANTS QueueInv NoStaleQueue
PROPERTY LogSpec

CHECK_DEADLOCK FALSE
