SPECIFICATION AsSpec
CONSTANTS
    Jobs = {j1, j2}
    Stoppers = {c1, c2}
    MaxCrashes = 1
    WlScripts <- MCWlScripts
    MaxTogether = 2
INVARIANTS JobSafe ApplicationsSafe
PROPERTIES ImplementsLifecycle RunningJobSettles StopCallReturns
CHECK_DEADLOCK FALSE
