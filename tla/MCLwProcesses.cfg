SPECIFICATION Spec
CONSTANTS
  Targets = {t1}
  Senders = {s1, s2}
  Elsewhere = elsewhere
  Nobody = nobody
  SIGNAL_HISTORY = 1
  MaxTicks = 2
  MaxSignals = 2
  MaxFailures = 1
INVARIANTS
  TypeOK
  FollowsOnlyTarget
  ToldIsBelief
  PidfdReleased
PROPERTIES
  UnknownOnlyUnheard
  LossSettles
  PidfdWakes
