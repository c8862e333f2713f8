SPECIFICATION AnySpec
CONSTANTS
    n1 = n1
    n2 = n2
    n3 = n3
    n4 = n4
    Keys = {k1, k2}
    Nodes = {n1, n2, n3, n4}
    Flaky = n1
    OwnersOf <- MCOwners
    PendingOf <- MCPending
    MinReplicas = 2
    Rounds = 3
    RefAttempts = 3
    PutAttempts = 2
    MaxFaults = 2
    NoZone = 0
    Zones <- MCZones
    Samples <- MCSamples
SYMMETRY Symmetry
CHECK_DEADLOCK FALSE
INVARIANTS HoldersHaveHeld OneNodeMayFlap ReapedIsResent PlacedRight
PROPERTIES AckedBeforeRef
