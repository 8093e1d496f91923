SPECIFICATION FairSpec
CONSTANTS
    Rungs = 3
    Violations = 3
    BlindPolls = 4
    SlowStart = TRUE
INVARIANT TypeOK ServingRestored
PROPERTY AbortEndsLadder LadderEnds
