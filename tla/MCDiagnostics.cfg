CONSTANTS
    maximum_events = 3
    Callers = {"tray"}
    LogDays = 1
    MaxFiles = 1
    MaxDay = 2
    MaxSequence = 4
    MaxRepeats = 2
    MaxLogFaults = 1
    maximum_rows = 6
    Limits = {2}
    DefaultLimit = 3
    RangeTexts <- MCRanges
    MaxInputs = 4
    MaxPostFaults = 1

SPECIFICATION MCDiagnosticsSpec

CHECK_DEADLOCK FALSE

INVARIANTS
    LogInv
    RefreshSettles
    SelectionKeepsEvents
