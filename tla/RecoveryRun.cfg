SPECIFICATION RcSpec
CONSTANTS
    Messages = {m1, m2}
    Workers = {w1}
    RetryMax = 2
    MaxFiles = 4
    MaxCrashes = 2
    Stalls = FALSE
    McProcs = {"p1", "p2"}
    McSessions = {"s1", "s2"}
    Home <- MCHome
    MinClosed = 1
    MaxMcTurns <- MCTurns
    MaxMcRuns = 2
    MaxMcClock = 1
    MaxMcCrashes = 1
INVARIANTS EachAttemptOnce ConsolidationSafe
PROPERTIES StaleAtStartIsRetried
CHECK_DEADLOCK FALSE
