SPECIFICATION FairSpec
CONSTANTS
  SaveMult = 1
  AutoWakeup = "auto"
  Lorawan = TRUE
  DebugOutput = FALSE
  MaxResets = 1
INVARIANTS IInv PowerOffSticks WaitsWithGnss
PROPERTIES PowerStateKept SleepsAgain
