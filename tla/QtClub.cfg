SPECIFICATION MCSpec
CONSTANTS
  Session = {s1, s2}
  Name = {n1, n2}
  Addr = {a1, a2}
  MaxTables = 2
  MaxPlayers = 2
  Null = Null
  Free = Free
  Password = {"", "pw"}
  NoName = NoName
  MaxDown = 1
  MaxAsk = 2
  MaxGState = 2
  Typed = {n1}
INVARIANTS ServedAsMeant QuietMeansCurrent
CHECK_DEADLOCK FALSE
SYMMETRY Symmetry
