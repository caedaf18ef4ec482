------------------------------- MODULE Cards -------------------------------
(***************************************************************************)
(* The 81 cards of the game and the rule that makes three of them a set    *)
(* (server/card.cc), with the versions of the rule the clients carry.      *)
(* A card is named by its index 0..80, as on the wire.  It has four        *)
(* features with three values each: the digits of the index in base 3.     *)
(***************************************************************************)
EXTENDS Integers, Sequences, FiniteSets

Card == 0..80
Cat == 1..4                       \* the four features, cat + 1 of the code
Trip == <<1, 3, 9, 27>>           \* the successive values of trip

\* The features of every card, least significant digit first.
AllCards == [c \in Card |-> [cat \in Cat |-> (c \div Trip[cat]) % 3]]

\* The index of the card with the four features of card.
GetAllCardsIndex(card) == card[1] + 3 * card[2] + 9 * card[3] + 27 * card[4]

\* The one card that makes a set with c0 and c1.
GetIndexToCompleteSet(c0, c1) ==
  GetAllCardsIndex([cat \in Cat |->
                      (6 - (AllCards[c0][cat] + AllCards[c1][cat])) % 3])

\* The server's rule: in each feature the values add up to 0, 3 or 6.
IsSet(c0, c1, c2) ==
  \A cat \in Cat :
    AllCards[c0][cat] + AllCards[c1][cat] + AllCards[c2][cat] \in {0, 3, 6}

\* Mutant: the loop over the features ends early.
ClientIsSetThree(c0, c1, c2) ==
  \A cat \in 1..3 :
    Cardinality({AllCards[c0][cat], AllCards[c1][cat], AllCards[c2][cat]}) # 2

\* The clients' rule: no feature shows exactly two values.
ClientIsSet(c0, c1, c2) ==
  \A cat \in Cat :
    Cardinality({AllCards[c0][cat], AllCards[c1][cat], AllCards[c2][cat]}) # 2

\* The table of the Python server: most significant digit first.
PyCards == [c \in Card |-> [cat \in Cat |-> (c \div Trip[5 - cat]) % 3]]
PyIsSet(c0, c1, c2) ==
  \A cat \in Cat :
    (PyCards[c0][cat] + PyCards[c1][cat] + PyCards[c2][cat]) % 3 = 0

\* The cards lying at the positions of a board, as a set.
OnBoard(board) == {board[i] : i \in DOMAIN board}

\* Whether the board holds a set: some pair whose third card lies there too.
ActiveHasSet(board) ==
  \E i, j \in DOMAIN board :
    /\ i < j
    /\ GetIndexToCompleteSet(board[i], board[j]) \in OnBoard(board)
=============================================================================
