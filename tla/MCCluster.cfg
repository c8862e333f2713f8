SPECIFICATION FairSpec
CONSTANTS
    Nodes = {n1, n2}
    Users = {u1}
    Refreshers = {r1}
    AnyRetries = 1
    CallAttempts = 2
    MaxViews = 2
    MaxFaults = 1
INVARIANTS StaleNeedsChurn
PROPERTIES ViewNeverGoesBack EpochCatchesUp RefreshesEnd
