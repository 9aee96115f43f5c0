SPECIFICATION CxSpec
CONSTANTS
    CxConfigs <- MCProjectAndCompact
    MaxRecorded = 8
    MaxDecisions = 0
INVARIANT NothingForgotten
CHECK_DEADLOCK FALSE
