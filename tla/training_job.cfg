SPECIFICATION Spec
CONSTANTS
    Interval = 1
    Timeout = 1
    MaxRuns = 2
    MaxLens = {6, 99}
    Technical = 1
CHECK_DEADLOCK FALSE
INVARIANT TrainedIsEmitted ServableWhenReported OkIsRecent
PROPERTY ExporterRecovers
