SPECIFICATION MCSpec
CONSTANTS
    Names = {"d", "x", "y", "z"}
    Paths <- MCPaths
    Data = {1, 2}
    Chmods = {"own"}
    FirstTrees <- MCTwoTrees
    Forces = {FALSE}
    MaxEdits = 3
    MaxCrashes = 1
    Window = 2
    Granule = 2
    MaxTime = 4
    MaxWrites = 2
    Processes = {p1, p2, p3}
    MaxFaults = 1
    newline = newline
    la = la
    lb = lb
    lc = lc
INVARIANTS GuardedChangesKept PullIsThreeWay FailsOnlyAtReadOnly EditsAreRead
    CopyIsSound SortsRight DiffsPatch
PROPERTIES CopyKept
