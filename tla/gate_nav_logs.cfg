SPECIFICATION GateSpec
CONSTANTS
  ann = ann
  s1 = s1
  s2 = s2
  Nil = Nil
  Names = {ann}
  Slots = {s1, s2}
  Threshold = 2
  Base = 1
  Cap = 4
  MaxTracked = 2
  MaxTime = 2
  RoleOf <- Roles1
INVARIANT NavMatchesGate
