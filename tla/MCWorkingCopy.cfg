SPECIFICATION Spec
CONSTANTS
    Copies = {a, b}
    Nobody = Nobody
    Items = {x, y}
    MaxPushes = 3
    MaxVersions = 3
    MaxEdits = 2
    MaxFaults = 1
SYMMETRY Symmetry
INVARIANTS VersionNamesRemote StoreHoldsState OwnPushRecognised
PROPERTIES NoUpdateLost HistoryKept
CHECK_DEADLOCK FALSE
