CONSTANTS
    Tolerance = 1
    MaxNative = 10
    AnomalyLimit = 2
    RejectionLimit = 2
    Requested = 0
    Finest = 1
    Floor = 2
    MaxPolls = 2
    SurfaceAttempts = 2
    Powers = {"Ac"}
    Actions = {"Stop", "Pause"}
    Settings = {}
    Verbs = {}
    Mishaps = {"icon", "surfaceTimer", "request", "release", "finer"}
    MaxMishaps = 2
    MaxAnomalies = 1
    Configs <- OnlyDefault

SPECIFICATION Spec

CHECK_DEADLOCK FALSE

INVARIANTS
    ReleaseReachesKernel
    EmergencyCoversOwned
    SurfaceIsRetried
