SPECIFICATION FairSpec
CONSTANTS
  t1 = t1
  t2 = t2
  a1 = a1
  a2 = a2
  e1 = e1
  e2 = e2
  Never = Never
  Absent = Absent
  Nobody = Nobody
  Task = {t1}
  Apps <- TwoApps
  AppOf <- InSecondApp
  Eval = {e1, e2}
  Mailable = TRUE
  Duration = 2
  MaxAge = 3
  MaxFaults = 2
INVARIANT TypeOK ToldMatches
PROPERTY DownIsTold StoppedIsForgotten
