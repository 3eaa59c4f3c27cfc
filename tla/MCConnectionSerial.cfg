CONSTANTS
  c1 = c1
  c2 = c2
  Callers = {c1}
  MaxFailures = 5
  InitialBackoff = 1
  MaxBackoff = 300
  HasCallback = FALSE
  Cancellable = {c1}
  MayReset = FALSE
  MaxLostTasks = 2
SPECIFICATION Spec
PROPERTIES
  AttemptsSpaced
  LockoutHolds
  FollowsTable
