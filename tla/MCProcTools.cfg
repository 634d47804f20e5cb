\* Everything may have ended: the session of the viewer and testforge's.
SPECIFICATION Spec
CONSTANTS
    Pids = {1, 2}
    MaxBirths = 3
    Forge = Forge
    MaxJobs = 1
    MaxForgeKeys = 3
    PageSize = 2
    MaxKeys = 2
    MaxViewKeys = 2
    MaxSteps = 4
INVARIANTS
    JobsTrue
PROPERTY
    SignalHitsShown
CHECK_DEADLOCK FALSE
