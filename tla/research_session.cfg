SPECIFICATION FairSpec
CONSTANTS
    Kinds = {"flag", "trap", "trap3", "number", "yesno", "nodata", "alert", "no_tool"}
    Bins = {"xargs", "git"}
    SUBCOMMAND_BINS = {"git"}
    Executors = {"xargs"}
    Values = {0, 1}
    MaxCalls = 2
    Tries = 3
INVARIANT RunsOnlyDocs NoCreditWithoutAnswer
PROPERTY RescoreKeepsScore EveryItemScored
CHECK_DEADLOCK FALSE
