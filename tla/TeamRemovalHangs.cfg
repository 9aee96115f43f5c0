SPECIFICATION TeamSpec
CONSTANTS
    Responders = {"lead", "app", "remover", "worker"}
    Role <- MCRole
    Observers = TRUE
    WfMaxCrashes = 1
    TmItems = 0

PROPERTIES RemovalEnds
CHECK_DEADLOCK FALSE
