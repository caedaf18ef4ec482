SPECIFICATION Spec
CONSTANTS
  Session = {s1, s2, s3}
  Name = {n1, n2, n3}
  Addr = {a1, a2, a3, a4}
  MaxTables = 2
  MaxPlayers = 2
  Null = Null
  Free = Free
INVARIANTS TypeOK SeatsHoldLivePlayers ClubWithinLimits
  RegistryExactUntilEviction
CHECK_DEADLOCK FALSE
