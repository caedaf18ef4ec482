------------------------------ MODULE SetGame ------------------------------
(***************************************************************************)
(* What a table promises its players: the game itself, with no server, no  *)
(* messages, no positions on a board and no state counters.                *)
(***************************************************************************)
EXTENDS Cards

CONSTANTS
  Deck0,        \* the cards of the game
  BoardSize     \* the number of cards that should lie on the table

VARIABLES
  stock,        \* cards still in the deck
  table,        \* cards on the table
  won,          \* cards that somebody won in this game
  over          \* nobody plays: before the first game and after each

vars == <<stock, table, won, over>>

HasSet(T) == \E a, b, c \in T : a < b /\ b < c /\ IsSet(a, b, c)

Init == stock = {} /\ table = {} /\ won = {} /\ over = TRUE

\* A new game may start at any time; all cards come back.
Start ==
  /\ over' = FALSE
  /\ won' = {}
  /\ table' \in SUBSET Deck0
  /\ stock' = Deck0 \ table'
  /\ \/ Cardinality(table') = BoardSize
     \/ table' = Deck0 /\ Cardinality(Deck0) < BoardSize

\* Three more cards go from the stock to what is left of the table.
Deal(rest) ==
  /\ stock' \in SUBSET stock
  /\ Cardinality(stock \ stock') = 3
  /\ table' = rest \cup (stock \ stock')

\* Somebody wins a set, which is replaced only if the table got short of cards.
Win ==
  \E a, b, c \in table :
    /\ a < b /\ b < c
    /\ IsSet(a, b, c)
    /\ won' = won \cup {a, b, c}
    /\ IF Cardinality(table) - 3 < BoardSize /\ Cardinality(stock) >= 3
         THEN Deal(table \ {a, b, c})
         ELSE table' = table \ {a, b, c} /\ stock' = stock
    /\ over' = over

\* A table without a set grows, while the game is on.
Grow ==
  /\ ~over
  /\ ~HasSet(table)
  /\ Deal(table)
  /\ UNCHANGED <<won, over>>

\* The game ends when the stock is used up and the table holds no set.
Finish ==
  /\ ~over
  /\ stock = {}
  /\ ~HasSet(table)
  /\ over' = TRUE
  /\ UNCHANGED <<stock, table, won>>

Next == Start \/ Win \/ Grow \/ Finish
Spec == Init /\ [][Next]_vars
=============================================================================
