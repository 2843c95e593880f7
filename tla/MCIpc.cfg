CONSTANTS
    Clients = {c1, c2, c3}
    Readers = {c1}
    Commands = {start, stop}
    MaxWorkers = 2
    MaxPending = 2
    Tokens <- MCTokens
    Payloads <- MCPayloads
    Flips = {1, 128}
    Texts <- MCTexts
    Numbers <- MCNumbers
    Pids = {1, 2, 3}
    MaxRequests = 2
    Window = 3
    MaxTracked = 2
    Skew = 1
    MaxClock = 6
    Threads = {t1, t2}
    Handles = {h1, h2}
    MaxOps = 2
    Calls = {d1, d2}
    Engines = {e1, e2}
    MaxEngineFaults = 1

SPECIFICATION MCIpcSpec

CHECK_DEADLOCK FALSE

INVARIANTS
    BridgeInv
    PermitsConserved
    CodecInv
    LimiterInv
    IoInv
PROPERTIES
    KeepsContract
    OkMeansReachable
