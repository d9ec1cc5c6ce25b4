SPECIFICATION Spec
CONSTANTS
  SaveMult = 2
  AutoWakeup = "auto"
  Lorawan = FALSE
  DebugOutput = FALSE
  MaxResets = 0
PROPERTY FixSavedAtCount
