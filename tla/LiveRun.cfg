CONSTANTS
  p1 = p1
  p2 = p2
  n1 = n1
  t1 = t1
  l1 = l1
  Events = {p1, n1, t1}
  ChildRuns = {n1}
  Kind <- MCKind
  Priority <- MCPriority
  Calls = {c1, c2}
  Closers = {k1, k2}
  MCApart = {t1, c2}
  MaxInterrupts = 1
    Responders = {"lead", "app", "remover", "worker"}
    Role <- MCRole
    Observers = TRUE
    WfMaxCrashes = 1
    TmItems = 2
SPECIFICATION LvSpec
INVARIANTS SessionSafe TeamSafe
PROPERTIES WantedEventIsTaken CloseCallReturns BridgeAnswers IdleStopsAtOnce 
CHECK_DEADLOCK FALSE
