----------------------------- MODULE MCWebPlay -----------------------------
(***************************************************************************)
(* Bounded checks of WebPlay.                                              *)
(***************************************************************************)
EXTENDS WebPlay

CONSTANTS
  Creator,      \* the only client that creates tables
  Careless,     \* the clients that make mistakes, one in a game
  MaxGood,      \* bound on the right claims of a client that there is no set
  MaxGState,    \* bound on the gstate at which New Game is pressed
  MayBrowse     \* whether clients at a table open the dialog to join another

\* Six cards that make up two sets.
TwoSets == {0, 1, 40, 41, 78, 80}

\* A first board that is a set, after which the other is dealt, and one that
\* has none, to which the cards that complete both are added.
FirstBoards == {{0, 40, 80}, {0, 1, 40}}

Numbers(c) == {table[t].numbers[c] : t \in {u \in Tables : At(c, u)}}
MayErr(c) == c \in Careless /\ \A n \in Numbers(c) : n.bad + n.wrong = 0

\* Positions that are worth selecting next: of a set with the first card, in
\* ascending order, or of the first three cards; a fourth card only at the end
\* of the board.  No two clients are in the middle of a selection.
Worthwhile(c, i) ==
  LET s == Append(page[c].selected, i)
      b == page[c].board
  IN  /\ \A d \in Client \ {c} : Len(page[d].selected) \notin {1, 2}
      /\ \/ Len(s) = 4 /\ i = Len(b)
         \/ MayErr(c) /\ IsPrefix(s, <<1, 2, 3>>)
         \/ \E y, z \in DOMAIN b :
              1 < y /\ y < z /\ IsPrefix(s, <<1, y, z>>) /\ IsSet(b[1], b[y], b[z])

RightTime(c) ==
  /\ MayErr(c) \/ ~ActiveHasSet(page[c].board)
  /\ \A n \in Numbers(c) : n.good < MaxGood

\* Of the ways to deal, the one in ascending order.
Deals ==
  \A t \in Tables :
    LET new == {i \in DOMAIN table'[t].active : table'[t].active[i] \in table[t].deck}
    IN  /\ \A i, j \in new : i < j => table'[t].active[i] < table'[t].active[j]
        /\ table'[t].active # table[t].active /\ Len(table'[t].active) = BoardSize
             /\ Cardinality(table'[t].deck) = Cardinality(Deck0) - BoardSize
           => OnBoard(table'[t].active) \in FirstBoards

\* A command is served when all earlier messages are sent and at most one is
\* still to be handled by each page; any command may wait in up for long.
ServeInTime(c) ==
  /\ \A d \in Client : fut[d] = <<>> /\ Len(down[d]) + Len(page[d].held) <= 1
  /\ Serve(c) /\ Deals

Room(c) == up[c] = <<>>
MayStart(c) == \A t \in Tables : At(c, t) => table[t].gstate <= MaxGState

MCNext ==
  \E c \in Client :
    \/ ServeInTime(c)
    \/ Produce(c) \/ OnMessage(c) \/ OnTimeout(c)
    \/ DismissNotASet(c) \/ DismissGameOver(c)
    \/ Len(page[c].selected) >= 3 /\ DeselectCard(c, 1)
    \/ CloseJoinDialog(c)
    \/ (MayBrowse \/ ~Seated(c)) /\ OpenJoinDialog(c)
    \/ Room(c) /\ \E i \in DOMAIN page[c].board : Worthwhile(c, i) /\ SelectCard(c, i)
    \/ Room(c) /\ RightTime(c) /\ \E op \in {"add3", "nmor"} : SendAdd3NoMore(c, op)
    \/ Room(c) /\ MayStart(c) /\ SendNewGame(c)
    \/ Room(c) /\ c = Creator /\ \E t \in Tables : SendNewTable(c, t)
    \/ Room(c) /\ \E t \in Tables : SendJoin(c, t)

MCSpec ==
  /\ Init /\ [][MCNext]_vars
  /\ \A c \in Client : /\ WF_vars(Produce(c)) /\ WF_vars(ServeInTime(c))
                       /\ WF_vars(OnMessage(c)) /\ WF_vars(OnTimeout(c))
=============================================================================
