CONSTANTS
  MaxTasks = 2
  Owners = {a}
  NoOwner = NoOwner
  Strict = FALSE
  Callers = {c1, c2}
  Watchers = {w1}
  MaxSaves = 3
SPECIFICATION FairServiceSpec
 
PROPERTIES ImplementsTaskLists LockIsReleased
CHECK_DEADLOCK FALSE
