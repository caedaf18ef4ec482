----------------------------- MODULE TableSync -----------------------------
(***************************************************************************)
(* A table together with the Qt clients that play at it.  Each client      *)
(* shows the last game state it received and sends commands that carry its *)
(* gstate; the connections are FIFO in both directions; the server drops   *)
(* a command whose gstate is not the table's.                              *)
(***************************************************************************)
EXTENDS Table

VARIABLES
  view,         \* what each client shows: game_ and its New Game button
  up,           \* commands on their way to the server
  down          \* messages on their way to the clients

clientVars == <<view, up, down>>
syncVars == <<deck, active, gactive, found, tstate, gstate, players, numbers,
              view, up, down>>

\* The fields of a GSTATE message a client acts upon.
Snapshot == [gstate |-> gstate, gactive |-> gactive,
             deck |-> Cardinality(deck), active |-> active]
NoGame == [gstate |-> -1, gactive |-> FALSE, deck |-> -1, active |-> <<>>]

\* The messages a client reacts to; only SetGame and the button use them.
GState(s) == [cmd |-> "GSTATE", game |-> s]
NewTableReply == [cmd |-> "NTBL", game |-> NoGame]
JoinReply == [cmd |-> "JOIN", game |-> NoGame]

\* A command.  cards is a history variable: the cards its sender pointed at.
Command(op, g, pos, cards) ==
  [op |-> op, gstate |-> g, pos |-> pos, cards |-> cards]

\* Mutant: the loop over the players misses the last one.
BroadcastButLast(m) ==
  down' = [q \in Player |-> IF q \in Seated'
                              THEN IF q = players'[Len(players')] THEN m[q]
                                   ELSE Append(m[q], GState(Snapshot')) ELSE <<>>]

\* UpdateTableGstate, after the table's step, ahead of it the messages in m.
Broadcast(m) ==
  down' = [q \in Player |-> IF q \in Seated'
                              THEN Append(m[q], GState(Snapshot')) ELSE <<>>]

-----------------------------------------------------------------------------
(* The clients.                                                            *)

Send(p, c) ==
  /\ p \in Seated
  /\ up' = [up EXCEPT ![p] = Append(@, c)]
  /\ UNCHANGED <<view, down>>
  /\ UNCHANGED vars

\* The New Game button, enabled for who created the table.
SendNewGame(p) ==
  /\ view[p].mayStart
  /\ Send(p, Command("gnew", -1, <<>>, <<>>))

\* Three selected cards are sent; a further click sends them again.
SendTry3(p) ==
  \E lo, mid, hi \in DOMAIN view[p].game.active :
    /\ lo < mid /\ mid < hi
    /\ LET board == view[p].game.active
       IN  Send(p, Command("try3", view[p].game.gstate, <<lo, mid, hi>>,
                           <<board[lo], board[mid], board[hi]>>))

\* One button, "Add 3" or "No More" after the deck that is shown.
SendAdd3NoMore(p) ==
  /\ view[p].game.gactive
  /\ Send(p, Command(IF view[p].game.deck # 0 THEN "add3" ELSE "nmor",
                     view[p].game.gstate, <<>>, <<>>))

\* A message arrives.  JOIN and NTBL set the button, GSTATE all the rest.
OnReceived(p) ==
  /\ down[p] # <<>>
  /\ LET m == Head(down[p])
     IN  view' = [view EXCEPT ![p] =
           CASE m.cmd = "GSTATE" -> [@ EXCEPT !.game = m.game]
             [] m.cmd = "NTBL"   -> [@ EXCEPT !.mayStart = TRUE]
             [] m.cmd = "JOIN"   -> [@ EXCEPT !.mayStart = FALSE]]
  /\ down' = [down EXCEPT ![p] = Tail(@)]
  /\ UNCHANGED up
  /\ UNCHANGED vars

-----------------------------------------------------------------------------
(* The server.                                                             *)

\* The next command of p, taken off its connection.
Take(p, ops) ==
  /\ up[p] # <<>>
  /\ Head(up[p]).op \in ops
  /\ up' = [up EXCEPT ![p] = Tail(@)]
  /\ UNCHANGED view

\* Mutant: compared with the other counter.
CurrentTState(p) == Head(up[p]).gstate = tstate

\* CheckCommandGStateOK
Current(p) == Head(up[p]).gstate = gstate

\* A command for another state of the game is dropped without an answer.
DropStale(p) ==
  /\ Take(p, {"try3", "add3", "nmor"})
  /\ ~Current(p)
  /\ UNCHANGED down
  /\ UNCHANGED vars

ServeNewGame(p) == Take(p, {"gnew"}) /\ NewGame(p) /\ Broadcast(down)

ServeTry3(p) ==
  /\ Take(p, {"try3"})
  /\ Current(p)
  /\ LET pos == Head(up[p]).pos IN Try3(p, pos[1], pos[2], pos[3])
  /\ Broadcast(down)

ServeAdd3(p) == Take(p, {"add3"}) /\ Current(p) /\ Add3(p) /\ Broadcast(down)

ServeNoMore(p) == Take(p, {"nmor"}) /\ Current(p) /\ NoMore(p) /\ Broadcast(down)

\* A new connection joins the table: JOIN reply, then the game state for all.
Join(p) ==
  /\ AddPlayer(p)
  /\ Broadcast([down EXCEPT ![p] = <<JoinReply>>])
  /\ UNCHANGED <<view, up>>

\* A connection is lost, with everything on it; the others are told.
Leave(p) ==
  /\ DeletePlayer(p)
  /\ Broadcast(down)
  /\ view' = [view EXCEPT ![p] = [game |-> NoGame, mayStart |-> FALSE]]
  /\ up' = [up EXCEPT ![p] = <<>>]

-----------------------------------------------------------------------------
SyncInit ==
  /\ Init
  /\ view = [p \in Player |-> [game |-> NoGame, mayStart |-> FALSE]]
  /\ up = [p \in Player |-> <<>>]
  /\ down = [p \in Player |-> IF p \in Seated THEN <<NewTableReply>> ELSE <<>>]

ServerStep(p) == DropStale(p) \/ ServeNewGame(p) \/ ServeTry3(p)
                   \/ ServeAdd3(p) \/ ServeNoMore(p)
ClientStep(p) == SendNewGame(p) \/ SendTry3(p) \/ SendAdd3NoMore(p)

SyncNext ==
  \E p \in Player : \/ ClientStep(p) \/ OnReceived(p) \/ ServerStep(p)
                    \/ Join(p) \/ Leave(p)

SyncSpec == SyncInit /\ [][SyncNext]_syncVars

-----------------------------------------------------------------------------
(* The type of the state.                                                  *)

Ops == {"gnew", "try3", "add3", "nmor"}
GameView == [gstate : Int, gactive : BOOLEAN, deck : Int, active : Seq(Deck0)]

SyncTypeOK ==
  /\ TypeOK
  /\ view \in [Player -> [game : GameView, mayStart : BOOLEAN]]
  /\ up \in [Player -> Seq([op : Ops, gstate : Int, pos : Seq(Nat), cards : Seq(Deck0)])]
  /\ down \in [Player -> Seq([cmd : {"GSTATE", "NTBL", "JOIN"}, game : GameView])]

-----------------------------------------------------------------------------
(* Safety.                                                                 *)

\* Whatever was selected on one board is never judged on another: a command
\* that the server is about to accept points at the same three cards its
\* sender saw, whoever claimed or added cards meanwhile.
JudgedOnBoardSeen ==
  \A p \in Player : \A n \in DOMAIN up[p] :
    LET c == up[p][n]
    IN  c.op = "try3" /\ c.gstate = gstate =>
          \A k \in 1..3 : c.pos[k] \in DOMAIN active /\ active[c.pos[k]] = c.cards[k]

\* A client is never ahead of the table, and one that shows the table's gstate
\* shows its game; so do the messages in flight.
SameGStateSameGame ==
  \A p \in Player :
    LET games == {view[p].game} \cup
                   {down[p][n].game : n \in {m \in DOMAIN down[p] : down[p][m].cmd = "GSTATE"}}
    IN  \A g \in games :
          g.gstate <= gstate /\ (g.gstate = gstate => g = Snapshot)

\* The game the players are promised.
Game == INSTANCE SetGame WITH
  stock <- deck,
  table <- OnBoard(active),
  won <- IF gstate = 0 THEN {} ELSE Deck0 \ (deck \cup OnBoard(active)),
  over <- ~gactive

PlaysTheGame == Game!Spec
=============================================================================
