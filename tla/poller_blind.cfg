SPECIFICATION PollerSpec
CONSTANTS
  OmeStreams = {s1}
  Poll = {p1}
  StaleAfter = 3
  Window = 1
  MaxPollAge = 1
PROPERTY HealthyIsNotBlind
