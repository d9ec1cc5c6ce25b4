SPECIFICATION Spec
CONSTANTS
  delayed = delayed
  timeout = timeout
  window = window
  Timers = {delayed, timeout, window}
  Starts <- StackStarts
  Periods = {2, 5}
  MIN_ALARM_DELAY = 3
  MaxSlip = 1
  None = None
INVARIANTS LateInv AlarmForHead ListIsRunning BoundedDelay
PROPERTIES ImplementsService
