SPECIFICATION SvSpec
CONSTANTS
    Messages = {m1}
    Workers = {w1, w2}
    RetryMax = 2
    MaxFiles = 6
    MaxCrashes = 0
    Stalls = TRUE
    Pages = {"p1", "p2"}
    Tier <- MCTier
    WsRequests <- MCWsRequests
    Floor <- MCFloor
    MaxActions = 2
    WsResponses <- MCWsResponses
    MsOutputs <- MCMsOutputs
    SjCommands <- MCSjCommands
    MaxRestarts = 2
    MaxLosses = 2
    TpBatches <- MCTpBatches
    TbMates = {"alpha", "beta"}
    TbMessages <- MCTbMessages
    TbEvents = 2
    TcTeams <- MCTcTeams
    TcMembers <- MCTcMembers
    TcNames = {"alpha"}
    TcCallers = {"first", "second"}
    TcCrashes = 1
    TcQueueMax = 1
INVARIANTS ClaimsExclusive PublishedIsKept StreamsSafe ResearchRunsSafe  TeamPlaneSafe
 
CHECK_DEADLOCK FALSE
