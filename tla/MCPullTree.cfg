SPECIFICATION MCSpec
CONSTANTS
    Keys = {r, a, x, y}
    Root = r
    Kids <- MCKids
    Fragile = {a}
    Held = {r, a, x, y}
    ResultsCap = 1
    r = r
    a = a
    x = x
    y = y
    o1 = o1
    k1 = k1
    k2 = k2
    Owners = {o1}
    Scores = {0, 16}
    Workers = {w1, w2}
    InputCap = 1
    RetryCap = 1
    BatchKeys = 2
INVARIANTS GateHolds FailedWriteFails
PROPERTIES FetchPromised PullReturns
