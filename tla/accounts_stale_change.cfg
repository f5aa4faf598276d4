SPECIFICATION Spec
CONSTANTS
  Name = {root, guest}
  Password = {old, new}
  Role = {"viewer", "engineer"}
  Req = {q1, q2}
  Admin = root
  AdminPassword = old
  None = None
  MaxId = 3
  MaxLogins = 2
PROPERTY ChangeKnowsCurrent
SYMMETRY Requests
