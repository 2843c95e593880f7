CONSTANTS
    Tolerance = 1
    MaxNative = 10
    AnomalyLimit = 2
    RejectionLimit = 2
    Requested = 0
    Finest = 1
    Floor = 2
    MaxPolls = 2
    SurfaceAttempts = 1
    Powers = {"Ac"}
    Actions = {}
    Settings = {}
    Verbs = {}
    Mishaps = {}
    MaxMishaps = 0
    MaxAnomalies = 2
    Configs <- OnlyDefault

SPECIFICATION Spec

CHECK_DEADLOCK FALSE

INVARIANT QuiescentReleases
