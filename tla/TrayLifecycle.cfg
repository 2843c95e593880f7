CONSTANTS
    Tolerance = 1
    MaxNative = 10
    AnomalyLimit = 2
    RejectionLimit = 2
    Requested = 0
    Finest = 1
    Floor = 2
    MaxPolls = 2
    SurfaceAttempts = 1
    Powers = {"Ac"}
    Actions = {"Start", "Stop", "Pause"}
    Settings = {"automatic"}
    Verbs = {}
    Mishaps = {"resolve", "preflight", "request", "postcondition", "rollback", "release",
               "finer", "observe", "handoffTimer", "durationTimer"}
    MaxMishaps = 2
    MaxAnomalies = 0
    Configs <- OnlyDefault

SPECIFICATION Spec

CHECK_DEADLOCK FALSE

INVARIANTS
    TypeOK
    NoStrandedIntent
    HandoffIsReleased
    WindowIsWatched
    ArmedIsCurrent
    PauseWillEnd
PROPERTY
    AcquireAfterHandoff
