SPECIFICATION Spec
CONSTANTS
  RecPerPage = 3
  PageCount = 2
  MaxRecords = 9
  MaxErases = 0
  Empty = Empty
  Torn = Torn
PROPERTY FallbackIsNewest
CHECK_DEADLOCK FALSE
