SPECIFICATION Spec
CONSTANTS
    Devtools = {"git"}
    Sysdiag = {"ss"}
    HELD_OUT = {"cp"}
    HELD_OUT2 = {"ss"}
    Pages <- MCPages
    Fake = "--fake"
    Lints = {"lint", "unlint"}
    RealLints = {"lint"}
    Contained = {}
    MAX_LINES = 3
    HEADER = 1
    BACK = 0
    MAN_LINES = 2
    MAN_BACK = 1
    MAN_HEAD = 1
    PerTool = 3
    Window = 3
    MIN_RECORDS = 3
    MaxUpgrades = 1
    MaxMade = 2
INVARIANT AnswersAreShown EvalIsHeldOut
CHECK_DEADLOCK FALSE
