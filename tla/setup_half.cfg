SPECIFICATION Spec
CONSTANTS
  Tab = {t1, t2}
  Name = {root, boss}
  Secret = {s1, s2}
  Host = {h1}
  Pass = {p1}
  Admin = root
  None = None
INVARIANT NotHalfConfigured
SYMMETRY Tabs
