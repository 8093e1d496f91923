SPECIFICATION FairSpec
CONSTANTS
    Runners = {"runner"}
    TaskIds <- MCOneTask
    Shuffled <- MCOneOrder
    Groups <- MCGroups
    Compared <- MCCompared
    LoopArms = {"loop"}
    Reps = 2
    Earlier <- MCNothing
    MaxCalls = 1
    MaxFaults = 2
INVARIANT TypeOK CountedOnce GradedAlone AnswerIsOwn ComparedAreComplete
PROPERTY NothingIsSkipped AllMeasured
