CONSTANTS
    Tolerance = 1
    MaxNative = 10
    AnomalyLimit = 2
    RejectionLimit = 2
    Requested = 0
    Finest = 1
    Floor = 2
    MaxPolls = 2
    SurfaceAttempts = 1
    Powers = {"Ac", "BatterySaver"}
    Actions = {"Start"}
    Settings = {"reset", "auto_resume"}
    Verbs = {"RequestAcquire", "RequestRelease", "ScheduleAction", "CancelSchedule"}
    Mishaps = {"release", "finer", "save"}
    MaxMishaps = 1
    MaxAnomalies = 0
    Configs <- OnlyDefault

SPECIFICATION Spec

CHECK_DEADLOCK FALSE

PROPERTY
    GateOpensReleased
