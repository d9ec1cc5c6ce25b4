SPECIFICATION Spec
CONSTANTS
  NumRecords = 3
  NumFields = 2
  Values = {0, 1, 2}
  Zero = 0
  Default <- MCDefault
  Erased = Erased
  Off = Off
INVARIANTS IInv NoGap CleanSaveDurable
PROPERTIES ValidStable ImplementsDurable
