------------------------------ MODULE WebPlay ------------------------------
(***************************************************************************)
(* Tables of the Python server and the pages that play at them: 3333.js,   *)
(* and m3333.js for the clients in Newer.  A handler of the server runs    *)
(* without interruption; what it has to say collects in the future of each *)
(* client (fut) until the client's producer sends it (down).  A page holds *)
(* back what arrives while it shows a set that was found.                  *)
(***************************************************************************)
EXTENDS PyTable, SequencesExt

CONSTANTS Client, Newer, Tables
ASSUME NewerAssumption == Newer \subseteq Client

VARIABLES
  table,        \* the tables of the server; NoTable for those to come
  up,           \* commands on their way to the server
  fut,          \* messages in client.future
  down,         \* messages on their way to the pages
  dead,         \* clients whose ws_handler has died of an exception
  page          \* _o.state and the buttons of each page

vars == <<table, up, fut, down, dead, page>>

Nothing == [pos |-> <<>>, cards |-> <<>>]
NoTable == [OpenTable EXCEPT !.tstate = -1]
Open(t) == table[t].tstate >= 0

\* The table of the player of c's connection.
At(c, t) == c \in DOMAIN table[t].numbers
Seated(c) == \E t \in Tables : At(c, t)

\* What lies at a position of a board.
CardAt(board, i) == IF i \in DOMAIN board THEN board[i] ELSE -1

-----------------------------------------------------------------------------
(* The page: what it does with a message.                                  *)

NewPage == [tstate |-> -1, players |-> <<>>, gstate |-> -1, board |-> <<>>,
            deck |-> 81, active |-> FALSE, owner |-> FALSE, buttons |-> {},
            selected |-> <<>>, notASet |-> FALSE, over |-> FALSE, joining |-> FALSE,
            delayed |-> Nothing, held |-> <<>>]

\* Mutant: the button stays "Add 3" when the deck is empty.
OldButtonsAdd3(g) == IF ~g.gactive THEN {} ELSE {"add3"}

\* 3333.js has one button, set with every state of the game.
OldButtons(g) ==
  IF ~g.gactive THEN {} ELSE IF g.deck = 0 THEN {"nmor"} ELSE {"add3"}

\* m3333.js has two, set when a game starts and when the deck runs out.
NewButtons(pg, g) ==
  IF g.gactive /\ ~pg.active THEN {"add3"}
  ELSE IF g.deck = 0 /\ pg.deck > 0 THEN {"nmor"} ELSE pg.buttons

StateUpdate(c, pg, g) ==
  LET p == IF pg.tstate < g.tstate
             THEN [pg EXCEPT !.tstate = g.tstate, !.players = g.numbers] ELSE pg
  IN  IF pg.gstate < g.gstate
      THEN [p EXCEPT !.gstate = g.gstate, !.board = g.active, !.deck = g.deck,
              !.active = g.gactive,
              !.buttons = IF c \in Newer THEN NewButtons(pg, g) ELSE OldButtons(g),
              !.over = @ \/ (c \in Newer /\ pg.active /\ ~g.gactive)]
      ELSE p

\* event_handler_now.  Of the warnings only the button of NOT_A_SET does
\* something, unless a later warning replaces it.
HandleNow(c, pg, m) ==
  CASE m.cmd = "GSTATE" -> StateUpdate(c, pg, m.game)
    [] m.cmd = "SET_FOUND" -> [pg EXCEPT !.selected = m.found.pos, !.delayed = m.found]
    [] m.cmd = "NTBL" -> [pg EXCEPT !.owner = TRUE]
    [] m.cmd = "JOIN" -> [pg EXCEPT !.owner = FALSE, !.joining = FALSE]
    [] m.cmd = "error" -> [pg EXCEPT !.notASet = (m.rc = "NOT_A_SET")]

Handle(c, pg, m) ==
  IF pg.delayed # Nothing THEN [pg EXCEPT !.held = Append(@, m)]
                          ELSE HandleNow(c, pg, m)

\* Mutant: all that was held back is handled, also after the next found set.
HandleDelayedAll(c, pg) ==
  LET after[n \in 0..Len(pg.held)] ==
        IF n = 0 THEN [pg EXCEPT !.held = <<>>]
                 ELSE HandleNow(c, after[n - 1], pg.held[n])
  IN  after[Len(pg.held)]

\* handle_delayed_events: up to the next set that was found.  After n of the
\* events, those from the found set on are held again.
HandleDelayed(c, pg) ==
  LET after[n \in 0..Len(pg.held)] ==
        IF n = 0 THEN [pg EXCEPT !.held = <<>>]
                 ELSE Handle(c, after[n - 1], pg.held[n])
  IN  after[Len(pg.held)]

OnMessage(c) ==
  /\ down[c] # <<>>
  /\ page' = [page EXCEPT ![c] = Handle(c, @, Head(down[c]))]
  /\ down' = [down EXCEPT ![c] = Tail(@)]
  /\ UNCHANGED <<table, up, fut, dead>>

\* 600 ms after the set was found.
OnTimeout(c) ==
  /\ page[c].delayed # Nothing
  /\ page' = [page EXCEPT ![c] =
                HandleDelayed(c, [@ EXCEPT !.delayed = Nothing, !.selected = <<>>])]
  /\ UNCHANGED <<table, up, fut, down, dead>>

-----------------------------------------------------------------------------
(* The page: what its user does.  Dialogs are modal.                       *)

Free(c) == ~page[c].notASet /\ ~page[c].over /\ ~page[c].joining

Send(c, pg, m) ==
  /\ page' = [page EXCEPT ![c] = pg]
  /\ up' = [up EXCEPT ![c] = Append(@, m)]
  /\ UNCHANGED <<table, fut, down, dead>>

\* OK in the warning that three cards are no set.
DismissNotASet(c) ==
  /\ page[c].notASet
  /\ page' = [page EXCEPT ![c].notASet = FALSE,
                          ![c].selected = IF @ = <<>> THEN @ ELSE Front(@)]
  /\ UNCHANGED <<table, up, fut, down, dead>>

\* OK in the note that the game is over, in m3333.js.
DismissGameOver(c) ==
  /\ page[c].over
  /\ page' = [page EXCEPT ![c].over = FALSE, ![c].buttons = @ \ {"nmor"}]
  /\ UNCHANGED <<table, up, fut, down, dead>>

\* card_select of a card that is not selected: the third is sent with the
\* others.  m3333.js refuses a fourth.  The cards are a history variable.
SelectCard(c, i) ==
  LET pg == page[c]
      s == Append(pg.selected, i)
  IN  /\ Free(c)
      /\ i \in DOMAIN pg.board \ OnBoard(pg.selected)
      /\ c \in Newer => Len(pg.selected) < 3
      /\ IF Len(s) = 3
           THEN Send(c, [pg EXCEPT !.selected = s],
                     [op |-> "try3", gstate |-> pg.gstate, pos |-> s,
                      cards |-> [k \in 1..3 |-> CardAt(pg.board, s[k])]])
           ELSE /\ page' = [page EXCEPT ![c].selected = s]
                /\ UNCHANGED <<table, up, fut, down, dead>>

\* card_select of a selected card.
DeselectCard(c, k) ==
  /\ Free(c)
  /\ k \in DOMAIN page[c].selected
  /\ page[c].selected[k] \in DOMAIN page[c].board
  /\ page' = [page EXCEPT ![c].selected = SwapOut(@, k)]
  /\ UNCHANGED <<table, up, fut, down, dead>>

SendAdd3NoMore(c, op) ==
  /\ Free(c) /\ op \in page[c].buttons
  /\ Send(c, page[c], [op |-> op, gstate |-> page[c].gstate])

SendNewGame(c) == Free(c) /\ page[c].owner /\ Send(c, page[c], [op |-> "gnew"])

\* table_nj of 3333.js: no more game is active, but the rest stays.
SendNewTable(c, t) ==
  /\ Free(c) /\ ~Open(t)
  /\ Send(c, IF c \in Newer THEN page[c] ELSE [page[c] EXCEPT !.active = FALSE],
          [op |-> "ntbl", to |-> t])

\* join_table of m3333.js forgets the states when it opens its dialog.
OpenJoinDialog(c) ==
  /\ Free(c) /\ c \in Newer
  /\ page' = [page EXCEPT ![c].tstate = -1, ![c].gstate = -1, ![c].joining = TRUE]
  /\ UNCHANGED <<table, up, fut, down, dead>>

CloseJoinDialog(c) ==
  /\ page[c].joining
  /\ page' = [page EXCEPT ![c].joining = FALSE]
  /\ UNCHANGED <<table, up, fut, down, dead>>

\* To a table where c does not sit (PyClub has those who come back).
SendJoin(c, t) ==
  /\ Open(t) /\ ~At(c, t)
  /\ IF c \in Newer
       THEN page[c].joining /\ Send(c, page[c], [op |-> "join", to |-> t])
       ELSE Free(c) /\ Send(c, [page[c] EXCEPT !.active = FALSE], [op |-> "join", to |-> t])

-----------------------------------------------------------------------------
(* The server.                                                             *)

Error(rc) == [cmd |-> "error", rc |-> rc]
GState(t) == [cmd |-> "GSTATE", game |-> [t EXCEPT !.deck = Cardinality(@)]]
SetFound(pos, board) ==
  [cmd |-> "SET_FOUND",
   found |-> [pos |-> pos, cards |-> [k \in 1..3 |-> board[pos[k]]]]]

\* Mutant: what comes when the future has a result already is lost.
PreSendFirst(f, to, m) ==
  [c \in Client |-> IF c \in to /\ f[c] = <<>> THEN <<m>> ELSE f[c]]

\* pre_send, to several clients.
PreSend(f, to, m) == [c \in Client |-> IF c \in to THEN Append(f[c], m) ELSE f[c]]

\* refresh_players
Refresh(f, t) == PreSend(f, DOMAIN t.numbers, GState(t))

Take(c, ops) ==
  /\ c \notin dead
  /\ up[c] # <<>> /\ Head(up[c]).op \in ops
  /\ up' = [up EXCEPT ![c] = Tail(@)]
  /\ UNCHANGED <<down, page>>

\* Client.set_player: the old table loses c; those who stay are not told.
LeaveOthers(c, t) ==
  [u \in Tables |-> IF u # t /\ At(c, u) THEN Leave(table[u], c) ELSE table[u]]

ServeNewTable(c) ==
  /\ Take(c, {"ntbl"})
  /\ LET t == Head(up[c]).to
     IN  IF Open(t)
           THEN fut' = PreSend(fut, {c}, Error("NAME_USED")) /\ UNCHANGED table
           ELSE /\ table' = [LeaveOthers(c, t) EXCEPT
                               ![t] = [OpenTable EXCEPT !.numbers = [q \in {c} |-> NoNumbers]]]
                /\ fut' = PreSend(fut, {c}, [cmd |-> "NTBL"])
  /\ UNCHANGED dead

ServeJoin(c) ==
  /\ Take(c, {"join"})
  /\ LET t == Head(up[c]).to
     IN  /\ table' = [LeaveOthers(c, t) EXCEPT ![t] = Seat(@, c)]
         /\ fut' = Refresh(PreSend(fut, {c}, [cmd |-> "JOIN"]), table'[t])
  /\ UNCHANGED dead

\* What the handlers new_game, try3, add3 and no_more have to say.  New Game
\* is told twice to who pressed it.
Told(c, m, old, o) ==
  LET f == IF o.rc = "OK" THEN fut ELSE PreSend(fut, {c}, Error(o.rc))
      g == IF m.op = "try3" /\ o.rc = "OK"
             THEN PreSend(f, DOMAIN old.numbers, SetFound(Sorted(m.pos), old.active)) ELSE f
      r == IF o.rc = "COLLISION" THEN g ELSE Refresh(g, o.table)
  IN  IF o.rc = "raised" THEN fut
      ELSE IF m.op = "gnew" THEN PreSend(r, {c}, GState(o.table)) ELSE r

Outcomes(c, m, t) ==
  CASE m.op = "gnew" -> NewGame(t)
    [] m.op = "try3" -> Try3(t, m.gstate, c, m.pos)
    [] m.op = "add3" -> Add3(t, m.gstate, c)
    [] m.op = "nmor" -> NoMore(t, m.gstate, c)

\* An exception ends ws_handler: nothing is read from or sent to c any more.
ServeGame(c) ==
  /\ Take(c, {"gnew", "try3", "add3", "nmor"})
  /\ \E t \in Tables :
       /\ At(c, t)
       /\ \E o \in Outcomes(c, Head(up[c]), table[t]) :
            /\ table' = [table EXCEPT ![t] = o.table]
            /\ fut' = Told(c, Head(up[c]), table[t], o)
            /\ dead' = IF o.rc = "raised" THEN dead \cup {c} ELSE dead

\* Client.produce takes what there is; ws_handler sends it.
Produce(c) ==
  /\ c \notin dead /\ fut[c] # <<>>
  /\ down' = [down EXCEPT ![c] = @ \o fut[c]]
  /\ fut' = [fut EXCEPT ![c] = <<>>]
  /\ UNCHANGED <<table, up, dead, page>>

-----------------------------------------------------------------------------
Init ==
  /\ table = [t \in Tables |-> NoTable]
  /\ up = [c \in Client |-> <<>>]
  /\ fut = [c \in Client |-> <<>>]
  /\ down = [c \in Client |-> <<>>]
  /\ dead = {}
  /\ page = [c \in Client |-> NewPage]

Serve(c) == ServeNewTable(c) \/ ServeJoin(c) \/ ServeGame(c)

Next ==
  \E c \in Client :
    \/ Serve(c) \/ Produce(c) \/ OnMessage(c) \/ OnTimeout(c)
    \/ DismissNotASet(c) \/ DismissGameOver(c)
    \/ \E i \in 1..Cardinality(Deck0) : SelectCard(c, i)
    \/ \E k \in 1..4 : DeselectCard(c, k)
    \/ \E op \in {"add3", "nmor"} : SendAdd3NoMore(c, op)
    \/ SendNewGame(c) \/ OpenJoinDialog(c) \/ CloseJoinDialog(c)
    \/ \E t \in Tables : SendNewTable(c, t) \/ SendJoin(c, t)

Spec == Init /\ [][Next]_vars

-----------------------------------------------------------------------------
(* Properties.                                                             *)

Ops == {"gnew", "try3", "add3", "nmor", "ntbl", "join"}

TypeOK ==
  /\ \A t \in Tables :
       /\ Open(t) => table[t].gstate \in 0..table[t].tstate
       /\ DOMAIN table[t].numbers \subseteq Client
       /\ table[t].deck \cup OnBoard(table[t].active) \subseteq Deck0
  /\ dead \subseteq Client
  /\ \A c \in Client :
       /\ page[c].buttons \subseteq {"add3", "nmor"}
       /\ OnBoard(page[c].board) \subseteq Deck0
       /\ \A n \in DOMAIN up[c] : up[c][n].op \in Ops

\* At a table, a claim that the server is about to take points at the cards
\* its sender had on the page when sending it: selections that outlive their
\* board, replies held back and claims of others never make it judge others.
JudgedOnBoardShown ==
  \A c \in Client, t \in Tables : At(c, t) =>
    \A n \in DOMAIN up[c] :
      LET m == up[c][n]
      IN  m.op = "try3" /\ m.gstate = table[t].gstate =>
            \A k \in 1..3 : CardAt(table[t].active, m.pos[k]) = m.cards[k]

\* A found set is shown on the board it was found on: the states after it are
\* held back, also those that come with the next set found meanwhile.
FoundShownOnItsBoard ==
  \A c \in Client : page[c].delayed # Nothing =>
    \A k \in 1..3 :
      CardAt(page[c].board, page[c].delayed.pos[k]) = page[c].delayed.cards[k]

Shows(c, t) ==
  /\ page[c].board = table[t].active
  /\ page[c].deck = Cardinality(table[t].deck)
  /\ page[c].active = table[t].gactive

\* A page that shows the gstate of its table shows its game, and one that
\* shows its tstate shows its players: no change is passed over because it
\* comes without a new number, or with the old one a second time.
SameStateSameTable ==
  \A c \in Client, t \in Tables : At(c, t) =>
    /\ page[c].gstate <= table[t].gstate /\ page[c].tstate <= table[t].tstate
    /\ page[c].gstate = table[t].gstate => Shows(c, t)
    /\ page[c].tstate = table[t].tstate => page[c].players = table[t].numbers

\* 3333.js never asks for cards that the deck does not have, which would end
\* its ws_handler after the others' states were made obsolete.
DeckHasWhatIsAsked ==
  \A c \in Client \ Newer, t \in Tables : At(c, t) =>
    \A n \in DOMAIN up[c] :
      up[c][n].op = "add3" /\ up[c][n].gstate = table[t].gstate =>
        Cardinality(table[t].deck) >= 3

\* While no handler has died, everyone at a table with a game ends up seeing
\* it, with the players: nothing is lost between future and producer, nothing
\* stays held back.
EveryoneCatchesUp ==
  <>[](dead = {} =>
         \A c \in Client, t \in Tables : At(c, t) /\ table[t].gstate > 0 =>
           Shows(c, t) /\ page[c].players = table[t].numbers)

\* "Only the owner ... may start a new game.  The game starts with 12 random
\* cards dealt to the table" (help.html): who has received everything sees the
\* cards that were dealt.
GameIsSeen ==
  \A c \in Client \ dead, t \in Tables :
    /\ At(c, t) /\ table[t].gstate > 0
    /\ fut[c] = <<>> /\ down[c] = <<>> /\ page[c].delayed = Nothing
    => page[c].board = table[t].active
=============================================================================
