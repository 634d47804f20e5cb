SPECIFICATION Spec
CONSTANTS
  Files = {f, g}
  Others = {}
  None = none
  MaxInodes = 2
  MaxDirs = 2
  MaxOps = 3
  MaxQueue = 3
INVARIANTS
  TypeOK
  WatchAccounted
  NoEditMissed
PROPERTY
  BeliefSettles
