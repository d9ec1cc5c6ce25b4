SPECIFICATION Spec
CONSTANTS
  RecPerPage = 3
  PageCount = 2
  MaxRecords = 12
  MaxErases = 1
  Empty = Empty
  Torn = Torn
INVARIANTS IInv LapInv CursorErased PagesOrdered CountMatches FirstLapPrintInOrder
PROPERTIES FullPageStable FirstLapFallback FirstLapEvictsOldest
CHECK_DEADLOCK FALSE
