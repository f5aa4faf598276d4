SPECIFICATION Spec
CONSTANTS
  s1 = s1
  Slots = {s1}
  MaxKeys = 2
  MaxTime = 1
  Expiries = {1, 2}
  MaxCalls = 2
  MaxFaults = 1
INVARIANT RevokedStaysOut
