SPECIFICATION PollerFairSpec
CONSTANTS
  OmeStreams = {s1}
  Poll = {p1, p2}
  StaleAfter = 3
  Window = 1
  MaxPollAge = 2
INVARIANT PollerTypeOK StaleIsEarned
PROPERTY FrozenIsMarked SnapshotConverges
