CONSTANTS
    Tolerance = 1
    MaxNative = 10
    Requested = 0
    Readings <- MCReadings
    KernelBounds <- MCKernelBounds
    Floors <- MCFloors
    ProbeThreshold = 3
    ProbeAttempts = 3
    Clients = {c1, c2}
    Readers = {c1}
    Commands = {start, stop}
    MaxWorkers = 2
    MaxPending = 2

SPECIFICATION MCCoreSpec

\* All clients of the bridge may have been served.
CHECK_DEADLOCK FALSE

INVARIANTS
    TypeOK
    KernelRequestTracked
    ReleasedCanStart
    BoundaryWindow
    FloorHolds
PROPERTIES
    ImplementsDiagram
    EveryClientAnswered
