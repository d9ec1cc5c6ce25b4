SPECIFICATION Spec
CONSTANTS
  Size = 3
  MaxBytes = 7
  NoByte = NoByte
INVARIANTS IInv CountNeverExceeds ExactUntilCollision
PROPERTIES ImplementsFifo AllDelivered LagNeverHeals
CHECK_DEADLOCK FALSE
