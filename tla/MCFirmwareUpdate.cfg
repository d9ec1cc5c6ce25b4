SPECIFICATION FairSpec
CONSTANTS
  Words = 4
  OldImage <- WithCrc
  NewImage <- WithoutCrc
  EraseLists <- PagesOrAll
  Broken = Broken
  MaxLost = 1
  MaxCuts = 2
INVARIANTS UpdateInv TruthfulEnd NoPartialLaunch
PROPERTIES UpdateCompletes EraseFromFront
