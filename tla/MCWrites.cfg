SPECIFICATION Spec
CONSTANTS
  limit = limit
  stop = stop
  ac = ac
  battery = battery
  priority = priority
  power = power
  state = state
  Registers <- MCRegisters
  Protected <- MCProtected
  Coarse = {limit}
  Values = {0, 1, 2, 3}
  Numbers = {"number"}
  Selects = {"select"}
  Switches = {"switch"}
  Optimistic = {"number", "select"}
  Target <- MCTarget
  Source <- MCSource
  OtherState = 2
  Batches <- MCBatches
  Stop = stop
  ToAC = ac
  ToBattery = battery
  Presets <- MCPresets
  Choices <- MCChoices
  PanelChanges <- MCPanel
  Starts <- MCStarts
  Callers = {c1, c2}
  MaxAttempts = 2
  Slack = 1
  None = None
  Preset = Preset
  MaxCalls = 2
  MaxTrouble = 1
INVARIANTS TypeOK SuccessMeansHeld NoFailedValueShown PresetKeepsOrder
PROPERTIES CallsEnd Settles

