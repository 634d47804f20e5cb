SPECIFICATION Spec
CONSTANTS
  PhaseLines = 40
  MaxScript = 4
  Projects <- MCProjects
  Patient = TRUE
  LossAt <- MCLossAt
  MaxLosses = 1
INVARIANTS
  TypeOK
  Sequential
  NothingLeft
  ScannersAgree
  SplitKeepsValid
PROPERTIES
  Implements
  Concludes
CHECK_DEADLOCK FALSE
