SPECIFICATION Spec
CONSTANTS
    Nodes = {"sm_86", "sm_120"}
    MaxTests = 3
    Poisoned = 2
    MaxItems = 5
    Baseline = "sm_86"
    Current = "sm_120"
    NaN <- NotANumber
    Windows <- MCWindows
    Wanted = 2
    MaxDiffs = 2
CHECK_DEADLOCK FALSE
INVARIANT  PIsOfSwaps ConclusiveIsEarned LatestIsTheVerdicts
