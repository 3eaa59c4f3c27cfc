SPECIFICATION Spec
CONSTANTS
  stop = stop
  ac = ac
  battery = battery
  grid = grid
  Registers <- MCRegisters
  Values = {1, 2, 3, 4}
  Features = {grid}
  o1 = o1
  Options = {o1, o2}
  Starts <- MCStarts
  PanelChanges <- MCPanel
  None = None
  MaxTrouble = 1
  Hardware = {grid}
  Inferred = {}
  Presets <- MCPresets
  Forms <- MCForms
  Defaults <- MCDefaults
  SettingOrder <- MCOrder
  NewOptions = o1
  Stop = stop
  ToAC = ac
  ToBattery = battery
  Tasks = {t1, t2}
  Page <- MCPage
  Scale <- MCScale
  Low <- MCLow
  High <- MCHigh
  LessThan <- MCLessThan
  GreaterThan = {}
  Units = {1, 2}
  Templates <- MCTemplates
  Truth = {grid}
  Edits <- MCEdits
  MaxEdits = 2
INVARIANTS TypeOK MachineKnowsStep ConfigInForce SavedMeansWritten PageKeepsOrder
PROPERTIES SettingsHeld ThresholdsInOrder DetectionEnds OverridesInForce
CHECK_DEADLOCK FALSE
