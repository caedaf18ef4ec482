SPECIFICATION MCSpec
CONSTANTS
  Deck0 <- TwoSets
  BoardSize = 3
  Client = {a}
  Newer = {}
  Tables = {t1, t2}
  Creator = a
  Careless = {a}
  MaxGood = 1
  MaxGState = 0
  MayBrowse = TRUE
INVARIANT GameIsSeen
CHECK_DEADLOCK FALSE
