SPECIFICATION TurnFairSpec
CONSTANTS
    Call = {"bash", "edit"}
    Safe = {"edit"}
    ReadOnly = {}
    Paths <- MCPaths
    Refused = {}
    Fatal = {"bash"}
    CancelRunning = {"bash"}
    BlockQueued = {"bash"}
    AbortStream = {"bash"}
    Interruptible = {"bash"}
    MaxTurns = 2
    Failure = {"context_limit", "output_limit", "provider_overload", "internal_error"}
    RetryBudget = 1
    CompactionBudget = 1
    Clients <- MCStreaming
    KeepRecent = 2
    CompactAbove = 3
    MaxMessageCalls = 2
    MaxHookContinues = 0
INVARIANT InterruptIsReported
CHECK_DEADLOCK FALSE
