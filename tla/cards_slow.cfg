SPECIFICATION Spec
CONSTANTS
    Sessions = {s1}
    Commands = {"up", "agent", "down", "poolUp", "poolDown"}
    CacheIsMirror = TRUE
    LinkFails = FALSE
    Kills = FALSE
    PowerCuts = FALSE
    SlowStarts = TRUE
    Jobs = FALSE
INVARIANT WholeCard
