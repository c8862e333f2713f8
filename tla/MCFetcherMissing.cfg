SPECIFICATION Spec
CONSTANTS
    a = a
    b = b
    k1 = k1
    k2 = k2
    Keys = {k1, k2}
    Owners = {a, b}
    BaseOrder <- MCOneView
    Replicas <- MCReplicas
    Scores = {0, 1, 16}
    Holds <- MCHoldsBoth
    Workers = {w1}
    InputCap = 1
    RetryCap = 1
    ResultsCap = 1
    BatchKeys = 2
INVARIANTS ReaskedDownTheOrder
