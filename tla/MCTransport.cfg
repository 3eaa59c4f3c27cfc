CONSTANTS
  t1 = t1
  t2 = t2
  h1 = h1
  h2 = h2
  h3 = h3
  h4 = h4
  h5 = h5
  Tasks = {t1, t2}
  Handles = {h1, h2, h3, h4, h5}
  NoClient = NoClient
  MaxTimeouts = 2
  QueueSize = 1
  MaxOwed = 2
SPECIFICATION FairSpec
INVARIANTS
  TypeOK
  OwnAnswer
  NeverDeaf
  BreakerBounds
PROPERTIES
  ZombieDropped
  Reachable
