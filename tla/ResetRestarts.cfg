CONSTANTS
  Processes = {p1, p2}
  MaxLaunches = 2
  MaxFaults = 0
SPECIFICATION LifeSpec
CHECK_DEADLOCK FALSE
PROPERTIES ResetRestarts
