\* The session ends when the trace is saved, so that the system stops.
SPECIFICATION Spec
CONSTANTS
    Tids = {1, 2}
    First = 1
    MaxLines = 4
    PipeSize = 4
    Sources = {"a"}
    MaxKeys = 2
    MaxSteps = 5
INVARIANTS
    NothingLost
    PidTrue
    ViewTrue
CHECK_DEADLOCK FALSE
