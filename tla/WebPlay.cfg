SPECIFICATION MCSpec
CONSTANTS
  Deck0 <- TwoSets
  BoardSize = 3
  Client = {a, b}
  Newer = {b}
  Tables = {t1}
  Creator = a
  Careless = {a}
  MaxGood = 1
  MaxGState = 0
  MayBrowse = FALSE
INVARIANTS
  TypeOK
  JudgedOnBoardShown
  FoundShownOnItsBoard
  SameStateSameTable
  DeckHasWhatIsAsked
PROPERTY
  EveryoneCatchesUp
CHECK_DEADLOCK FALSE
