CONSTANTS
    Tolerance = 1
    MaxNative = 10
    AnomalyLimit = 2
    RejectionLimit = 2
    Requested = 0
    Finest = 1
    Floor = 2
    MaxPolls = 2
    SurfaceAttempts = 1
    Powers = {"Ac", "Battery", "BatterySaver"}
    Actions = {"Pause"}
    Settings = {"lockout"}
    Verbs = {}
    Mishaps = {"finer"}
    MaxMishaps = 1
    MaxAnomalies = 0
    Configs <- BothLockout

SPECIFICATION FairSpec

CHECK_DEADLOCK FALSE

PROPERTIES
    HandoffEnds
    PauseEnds
    StablePowerIsObeyed
