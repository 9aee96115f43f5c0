SPECIFICATION HkSpec
CONSTANTS
    HkSessions = {1}
    HkDispatchers = {1}
    HkRequests <- MCHkRequests
    HkPayloads <- MCHkPayloads
    MaxRegistrations = 2
    MaxHookTurns = 1
PROPERTY SessionInheritsTemplates
CHECK_DEADLOCK FALSE
