SPECIFICATION AnySpec
CONSTANTS
    rootCtx = rootCtx
    middleCtx = middleCtx
    lowestCtx = lowestCtx
    Path <- MCPath
    Timeouts = {0, 1}
    MaxTime = 2
    MaxCancels = 2
    a = a
    b = b
    k1 = k1
    k2 = k2
    Keys = {k1, k2}
    Owners = {a, b}
    BaseOrder <- MCTwoViews
    Replicas <- MCReplicas
    Scores = {0, 1, 16}
    Holds <- MCHolds
    Workers = {w1}
    InputCap = 1
    RetryCap = 1
    ResultsCap = 1
    BatchKeys = 2
INVARIANTS OnePlace MissingMeansAllAsked ContextsAgree
