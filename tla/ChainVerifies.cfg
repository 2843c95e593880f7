CONSTANTS
  maximum_events = 3
  Callers = {"tray"}
  LogDays = 1
  MaxFiles = 1
  MaxDay = 2
  MaxSequence = 4
  MaxRepeats = 2
  MaxLogFaults = 1
SPECIFICATION LogSpec
INVARIANT ChainVerifies
CHECK_DEADLOCK FALSE
