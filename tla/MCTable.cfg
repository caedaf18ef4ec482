SPECIFICATION MCSpec
CONSTANTS
  Player = {p1, p2}
  Deck0 <- TwoSets
  BoardSize = 3
  MaxPlayers = 2
  MaxTState = 7
  MaxBad = 1
  MaxGames = 4
INVARIANTS TypeOK CardsConserved BoardRefilled NoDeadEnd
PROPERTIES GStateVersionsTheGame
CHECK_DEADLOCK FALSE
