SPECIFICATION Spec
CONSTANTS
  t1 = t1
  t2 = t2
  a1 = a1
  a2 = a2
  e1 = e1
  e2 = e2
  Never = Never
  Absent = Absent
  Nobody = Nobody
  Task = {t1}
  Apps <- OneApp
  AppOf <- InOneApp
  Eval = {e1}
  Mailable = FALSE
  Duration = 2
  MaxAge = 1
  MaxFaults = 1
PROPERTY CleanupKnowsTasks
