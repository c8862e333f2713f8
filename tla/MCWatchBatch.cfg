SPECIFICATION MCSpec
CONSTANTS
    a = a
    b = b
    k1 = k1
    Nodes = {n1, n2}
    Names = {a, b}
    Keys = {k1, k2}
    NoKey = NoKey
    WatchAttempts = 2
    HintBatch = 2
    MaxFrames = 2
    MaxCommits = 3
    MaxFaults = 0
CHECK_DEADLOCK FALSE
PROPERTIES HeartbeatsMeanCurrent
