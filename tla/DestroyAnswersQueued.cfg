CONSTANTS
    Clients = {c1}
    Readers = {c1}
    Commands = {start}
    MaxWorkers = 1
    MaxPending = 1

SPECIFICATION BridgeSpec

CHECK_DEADLOCK FALSE

PROPERTY DestroyAnswersQueued
