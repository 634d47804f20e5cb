SPECIFICATION Spec
CONSTANTS
  Procs = {p1, p2}
  Root = p1
  None = none
  MaxFd = 1
  MaxCalls = 4
INVARIANTS TypeOK Agreement JumpReachesOrigin
CHECK_DEADLOCK FALSE
