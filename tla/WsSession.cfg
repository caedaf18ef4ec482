SPECIFICATION FairSpec
CONSTANTS
  Session = {s1, s2}
  MaxPut = 3
INVARIANTS TypeOK WriterNeverIdle LossesAreNoticed
PROPERTIES ActsAsLinks EverythingArrives
CHECK_DEADLOCK FALSE
