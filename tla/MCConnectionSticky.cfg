CONSTANTS
  c1 = c1
  c2 = c2
  Callers = {c1}
  MaxFailures = 3
  InitialBackoff = 1
  MaxBackoff = 10
  HasCallback = FALSE
  Cancellable = {}
  MayReset = FALSE
  MaxLostTasks = 2
SPECIFICATION Spec
PROPERTY
  OkMeansConnected
