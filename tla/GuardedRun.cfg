SPECIFICATION FairSpec
CONSTANTS
  N = 3
  Timeout = 2
  MaxSessions = 2
INVARIANTS LoggedFirst PlanOrder
PROPERTIES DisarmComplete Resolves
CHECK_DEADLOCK FALSE
