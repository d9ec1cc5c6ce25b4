SPECIFICATION FairSpec
CONSTANTS
  SaveMult = 1
  AutoWakeup = "auto"
  Lorawan = FALSE
  DebugOutput = FALSE
  MaxResets = 0
PROPERTY TickleEnds
