SPECIFICATION Spec
CONSTANTS
  NumRecords = 2
  NumFields = 2
  Values = {0, 1, 2}
  Zero = 0
  Default <- MCDefault
  Erased = Erased
  Off = Off
INVARIANT SaveDurable
