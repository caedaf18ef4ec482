SPECIFICATION Spec
CONSTANTS
  Conn = {w1, w2, w3}
  Name = {a, b}
  MaxObjects = 3
  MaxTables = 1
  MaxPlayers = 2
  None = None
  Absent = Absent
  Free = Free
SYMMETRY Interchange
INVARIANTS TypeOK RegistryExact CleanerSurvives LeaversGo
CHECK_DEADLOCK FALSE
