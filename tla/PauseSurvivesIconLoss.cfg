CONSTANTS
    Tolerance = 1
    MaxNative = 10
    AnomalyLimit = 2
    RejectionLimit = 2
    Requested = 0
    Finest = 1
    Floor = 2
    MaxPolls = 2
    SurfaceAttempts = 1
    Powers = {"Ac"}
    Actions = {"Pause"}
    Settings = {}
    Verbs = {}
    Mishaps = {"finer", "icon"}
    MaxMishaps = 1
    MaxAnomalies = 0
    Configs <- OnlyDefault

SPECIFICATION Spec

CHECK_DEADLOCK FALSE

INVARIANT PauseWillEnd
