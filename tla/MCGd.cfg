SPECIFICATION Spec
CONSTANTS
    Lines = {1}
    MaxStops = 2
    MaxTrouble = 1
    MaxKeys = 3
INVARIANTS TypeOK StateAgrees CurrentIsTrue BreaksAgree
CHECK_DEADLOCK FALSE
VIEW View
