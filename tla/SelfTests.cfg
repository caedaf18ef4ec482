SPECIFICATION Spec
CONSTANTS
  Word = 16777216
  Windows <- SmallAndLarge
  Words = {"", "p", "1", "3"}
  MaxPieces = 2
  Boards = {0, 3, 12, 15, 18, 21}
INVARIANTS RulesAgree
  CardsApart PickIsDrawn JsPicksDrawn TsTogglesOne ReadAsTyped BlanksMisreadNamesOnly
CHECK_DEADLOCK FALSE
