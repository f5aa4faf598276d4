SPECIFICATION Spec
CONSTANTS
  a1 = a1
  a2 = a2
  i1 = i1
  u1 = u1
  u2 = u2
  None = None
  Pages = {"push", "record", "add"}
  Apps = {a1, a2}
  FirstApp = a1
  Ids = {i1}
  Urls = {u1}
  MaxCalls = 2
  MaxFaults = 1
  MaxChanges = 2
  MaxDumps = 2
INVARIANT TypeOK
INVARIANT DoneIsQueued
INVARIANT DumpIsOnButton
PROPERTY StopHitsNamed
PROPERTY ListCatchesUp
