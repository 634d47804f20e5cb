SPECIFICATION Spec
CONSTANTS
  Sessions = {s1}
  StdinReady = TRUE
  MaxChanges = 2
  MaxSignals = 2
  MaxFailures = 2
PROPERTY ReloadNeverKills
