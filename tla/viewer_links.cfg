SPECIFICATION Spec
CONSTANTS
  Lifetimes = {1}
  Day = 2
  MaxLinks = 2
  MaxSecrets = 2
  MaxTime = 1
  MaxCalls = 2
  MaxFaults = 1
PROPERTY NoneLeftBehind
PROPERTY DeletedStays
