SPECIFICATION Spec
CONSTANTS
  read = read
  long = long
  write = write
  poll = poll
  ask = ask
  set = set
  Asks <- MCAsks
  Commands = {read, long, write}
  Code <- MCCode
  Size <- MCSize
  Numbers = {1, 2}
  Noise = Noise
  Zero = Zero
  Dash = Dash
  None = None
  MaxZeros = 2
  SyncWindow = 3
  Refreshes = {poll}
  Reads = {ask}
  Writers = {set}
  Tasks = {poll, ask, set}
  Conns = {1, 2}
  ScanWindow = 2
  Cap = 4
  Keep = 2
  Bursts = {2}
  MaxTrouble = 1
  Payloads <- MCPayloads
INVARIANTS TypeOK OwnAnswer OutcomeTrue ClosedByShutdown
PROPERTIES SendEnds Recovers
CHECK_DEADLOCK FALSE
