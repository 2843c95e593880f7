CONSTANTS
    Tolerance = 1
    MaxNative = 10
    AnomalyLimit = 2
    RejectionLimit = 2
    Requested = 0
    Finest = 1
    Floor = 2
    MaxPolls = 2
    SurfaceAttempts = 1
    Powers = {"Ac", "Battery"}
    Actions = {"Pause"}
    Settings = {}
    Verbs = {}
    Mishaps = {}
    MaxMishaps = 0
    MaxAnomalies = 0
    Configs <- LockoutManual

SPECIFICATION FairSpec

CHECK_DEADLOCK FALSE

PROPERTY BatteryReleaseResumes
