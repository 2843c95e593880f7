CONSTANTS
    Launchers = {l1, l2}
    BootFailureThreshold = 2
    MaxRelease = 2
    MaxEvents = 2
    Processes = {p1, p2}
    MaxLaunches = 3
    MaxFaults = 2
    Tolerance = 1
    MaxNative = 5
    Requests <- MCRequests
    Readings <- MCReadings
    KernelBounds <- MCKernelBounds

SPECIFICATION MCProcessSpec

SYMMETRY Alike

CHECK_DEADLOCK FALSE

INVARIANTS
    LauncherInv
    RepairIsLastResort
    LifeInv
    SamplingInv
PROPERTIES
    VerdictIsRight
    RegistrationKept
