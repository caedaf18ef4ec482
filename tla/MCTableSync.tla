---------------------------- MODULE MCTableSync ----------------------------
(***************************************************************************)
(* Bounded checks of TableSync, and of what it promises: SetGame.          *)
(***************************************************************************)
EXTENDS TableSync

CONSTANTS
  MaxUp,        \* bound on the commands of one client in flight
  MaxBumps,     \* bound on tstate_ for the steps that are no progress
  MaxBad,       \* bound on the mistakes of a player in a game
  FirstBoards,  \* the boards a game starts with
  MaxGames      \* bound on gstate_ when New Game is pressed

\* Six cards with one set, so that three cards are left over.
OneSet == {0, 1, 3, 12, 40, 80}

\* A first board that is a set, and one whose set is completed by the last
\* card dealt after it: the removals then move cards they are to remove.
Boards == {{0, 40, 80}, {0, 1, 40}}

Mistakes(p) ==
  numbers[p]["bad_calls"] + numbers[p]["add3s_bad"] + numbers[p]["no_more_bad"]

Room(p) == Len(up[p]) < MaxUp /\ Mistakes(p) < MaxBad /\ tstate < MaxBumps

\* Of the wrong claims, only the one of the first three cards is made.
Claims(p) ==
  LET c == up'[p][Len(up'[p])]
  IN  c.pos = <<1, 2, 3>> \/ IsSet(c.cards[1], c.cards[2], c.cards[3])

\* Of the ways to deal three cards, only the one in ascending order (MCTable
\* has them all; the removals bring the board out of order).
Deals ==
  deck' # deck =>
    /\ \A k \in (Len(active') - 2)..(Len(active') - 1) : active'[k] < active'[k + 1]
    /\ found' = 0 /\ Len(active') = BoardSize =>
         OnBoard(active') \in FirstBoards

MCNext ==
  \E p \in Player :
    \/ Room(p) /\ gstate < MaxGames /\ SendNewGame(p)
    \/ Room(p) /\ SendTry3(p) /\ Claims(p)
    \/ Room(p) /\ SendAdd3NoMore(p)
    \/ OnReceived(p)
    \/ ServerStep(p) /\ Deals
    \/ tstate < MaxBumps /\ Join(p)
    \/ tstate < MaxBumps /\ Leave(p)

-----------------------------------------------------------------------------
(* Liveness.  The network delivers and the server serves what has arrived. *)
(* Right moves are possible without the bounds on the other commands.      *)

GoodMove(p) ==
  /\ Len(up[p]) < MaxUp
  /\ \/ /\ SendTry3(p)
        /\ LET c == up'[p][Len(up'[p])] IN IsSet(c.cards[1], c.cards[2], c.cards[3])
     \/ /\ ~ActiveHasSet(view[p].game.active)
        /\ SendAdd3NoMore(p)

LiveNext == MCNext \/ \E p \in Player : GoodMove(p)

LiveSpec ==
  /\ SyncInit /\ [][LiveNext]_syncVars
  /\ \A p \in Player : /\ WF_syncVars(OnReceived(p))
                       /\ WF_syncVars(ServerStep(p) /\ Deals)

\* When no commands come any more, everyone who sits at the table ends up
\* showing its game: no handler forgets to tell somebody.
EveryoneCatchesUp ==
  <>[](\A p \in Seated : gstate > 0 => view[p].game = Snapshot)

\* The players keep making the moves that are right on the board they see.
PlayersGoOn == \A p \in Player : WF_syncVars(GoodMove(p))

\* A game that players go on playing comes to its end: neither the dropped
\* commands nor the refusals of Add3 can keep it going for ever.
GamesEnd == PlayersGoOn => (gactive ~> (~gactive \/ players = <<>>))
=============================================================================
