SPECIFICATION LiveSpec
CONSTANTS
  Player = {p1, p2}
  Deck0 <- OneSet
  BoardSize = 3
  MaxPlayers = 2
  MaxUp = 1
  MaxBumps = 3
  MaxBad = 1
  FirstBoards <- Boards
  MaxGames = 2
INVARIANTS SyncTypeOK JudgedOnBoardSeen SameGStateSameGame CreditsBacked
PROPERTIES PlaysTheGame EveryoneCatchesUp GamesEnd
CHECK_DEADLOCK FALSE
