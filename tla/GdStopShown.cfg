SPECIFICATION Spec
CONSTANTS
    Lines = {1}
    MaxStops = 2
    MaxTrouble = 0
    MaxKeys = 3
INVARIANT StopShown
VIEW View
CHECK_DEADLOCK FALSE
