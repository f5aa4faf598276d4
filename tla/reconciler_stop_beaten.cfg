SPECIFICATION Spec
CONSTANTS
  t1 = t1
  t2 = t2
  a1 = a1
  s1 = s1
  s2 = s2
  None = None
  Task = {t1, t2}
  App = {a1}
  Stream = {s1, s2}
  Config = {c1}
  KindOf <- MCKind
  AppOf <- MCApp
  StreamOf <- MCStream
  Pass = {p1}
  Req = {q1}
  MaxRows = 2
  MaxFaults = 0
PROPERTY StopIsHonoured
