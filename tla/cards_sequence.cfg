SPECIFICATION Spec
CONSTANTS
    Sessions = {s1}
    Commands = {"up", "agent", "down", "poolUp", "poolDown"}
    CacheIsMirror = TRUE
    LinkFails = FALSE
    Kills = FALSE
    PowerCuts = TRUE
    SlowStarts = FALSE
    Jobs = TRUE
INVARIANT OneHolder
PROPERTY ImplementsCard RefusalsRestoreServing
