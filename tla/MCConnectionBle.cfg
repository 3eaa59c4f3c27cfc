CONSTANTS
  c1 = c1
  c2 = c2
  Callers = {c1, c2}
  MaxFailures = 3
  InitialBackoff = 1
  MaxBackoff = 10
  HasCallback = TRUE
  Cancellable = {}
  MayReset = TRUE
  MaxLostTasks = 2
SPECIFICATION FairSpec
INVARIANTS
  TypeOK
  NeverWedged
  BackoffMatchesFailures
PROPERTIES
  OkIsChecked
  Recovers
