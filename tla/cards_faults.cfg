SPECIFICATION FairSpec
CONSTANTS
    Sessions = {s1}
    Commands = {"up", "agent", "down", "poolUp", "poolDown", "reload"}
    CacheIsMirror = FALSE
    LinkFails = TRUE
    Kills = TRUE
    PowerCuts = TRUE
    SlowStarts = TRUE
    Jobs = FALSE
PROPERTY DownFreesCard CommandsEnd
