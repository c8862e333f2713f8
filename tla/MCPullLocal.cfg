SPECIFICATION Spec
CONSTANTS
    Names = {"d", "x", "y", "z"}
    Paths <- MCPaths
    Data = {1, 2}
    Chmods = {"own"}
    FirstTrees <- MCTrees
    Forces = {FALSE}
    MaxEdits = 3
    MaxCrashes = 0
INVARIANT LocalChangesKept
