------------------------------- MODULE QtClub -------------------------------
(***************************************************************************)
(* The club with its Qt clients: Club, the state of the game at each       *)
(* table, the connections, and what the clients' windows show.  A board is *)
(* named by the table it lies on, which has a number of its own (id), and  *)
(* the gstate, which versions the game (Table, TableSync).                 *)
(***************************************************************************)
EXTENDS Club, Protocol

CONSTANTS
  Password,     \* what may be typed into a password line, "" among it
  NoName        \* no table yet, in a window

VARIABLES
  rooms,        \* gstate_ and password_ of each table, and its id
  made,         \* history: how many tables were made, for the ids
  up,           \* commands on their way to the server
  down,         \* messages on their way to the clients
  ui            \* the windows: see NewUi

qtVars == <<open, club, told, evicted, broken, rooms, made, up, down, ui>>

\* listed: the names in the club's tab.  first: the table whose name the
\* callback of the join dialog has captured.  at: the table in the title of
\* the game's tab.  mayStart: its New Game button is enabled.  cards: a board
\* is drawn.  The rest is of the last GSTATE; id is a history variable.
NoGame == [id |-> 0, gstate |-> -1, names |-> {}]
NewUi == [listed |-> {}, first |-> NoName, at |-> NoName, mayStart |-> FALSE,
          cards |-> FALSE, game |-> NoGame]

-----------------------------------------------------------------------------
(* The clients.                                                            *)

Send(s, m) ==
  /\ s \in open
  /\ up' = [up EXCEPT ![s] = Append(@, m)]
  /\ UNCHANGED <<vars, rooms, made, down>>

\* History: nothing is under way that will change what table s plays at.
Settled(s) ==
  /\ \A n \in DOMAIN up[s] : up[s][n].op \notin {"ntbl", "join"}
  /\ \A n \in DOMAIN down[s] : down[s][n].cmd = "GSTATE" /\ down[s][n].game.id = ui[s].game.id

Command(s, op) ==
  [op |-> op, gstate |-> ui[s].game.gstate, id |-> ui[s].game.id, settled |-> Settled(s)]

\* title: the table that the title of the dialog names (a history variable).
Request(f, title) == [op |-> f.op, form |-> f, words |-> QtWords(f), title |-> title]

ClubRefresh(s) == Send(s, [op |-> "tbls"]) /\ UNCHANGED ui

\* OK in the dialog of New Table.
AcceptNewTable(s, t, tpass, pass) ==
  Send(s, Request(Form("ntbl", t, t, tpass, pass), NoName)) /\ UNCHANGED ui

\* A press on the name t of a table.  The callback is made for the first only.
OpenJoinTableDialog(s, t) ==
  /\ t \in ui[s].listed
  /\ ui' = [ui EXCEPT ![s].first = IF @ = NoName THEN t ELSE @]

\* ... and OK in the dialog, whose title names t.
AcceptJoinTable(s, t, name, tpass, pass) ==
  /\ OpenJoinTableDialog(s, t)
  /\ Send(s, Request(Form("join", ui'[s].first, name, tpass, pass), t))

CancelJoinTable(s, t) ==
  /\ s \in open /\ OpenJoinTableDialog(s, t)
  /\ UNCHANGED <<vars, rooms, made, up, down>>

NewGame(s) == ui[s].mayStart /\ Send(s, Command(s, "gnew")) /\ UNCHANGED ui

\* Three cards are selected, or Add 3 or No More is pressed: try3, add3, nmor.
Move(s) == ui[s].cards /\ Send(s, Command(s, "move")) /\ UNCHANGED ui

\* Mutant: the game is not reset for a new table.
ShowNoReset(u, m) ==
  CASE m.cmd = "TBLS"   -> [u EXCEPT !.listed = m.listed]
    [] m.cmd = "NTBL"   -> [u EXCEPT !.at = m.table, !.mayStart = TRUE]
    [] m.cmd = "JOIN"   -> [u EXCEPT !.at = m.table, !.mayStart = FALSE]
    [] m.cmd = "GSTATE" -> [u EXCEPT !.game = m.game, !.cards = m.game.gstate > 0]
    [] OTHER            -> u

\* OnReceived.  Errors and TABLE_CLOSED change nothing; NTBL leaves the board
\* of the old game where it is drawn.
Show(u, m) ==
  CASE m.cmd = "TBLS"   -> [u EXCEPT !.listed = m.listed]
    [] m.cmd = "NTBL"   -> [u EXCEPT !.at = m.table, !.mayStart = TRUE, !.game = NoGame]
    [] m.cmd = "JOIN"   -> [u EXCEPT !.at = m.table, !.mayStart = FALSE]
    [] m.cmd = "GSTATE" -> [u EXCEPT !.game = m.game, !.cards = m.game.gstate > 0]
    [] OTHER            -> u

OnReceived(s) ==
  /\ down[s] # <<>>
  /\ ui' = [ui EXCEPT ![s] = Show(@, Head(down[s]))]
  /\ down' = [down EXCEPT ![s] = Tail(@)]
  /\ UNCHANGED <<vars, rooms, made, up>>

-----------------------------------------------------------------------------
(* The server.  c, r and d stand for club, rooms and down while a handler  *)
(* changes them.                                                           *)

Push(d, to, m) == [q \in Session |-> IF q \in to THEN Append(d[q], m) ELSE d[q]]

GState(c, r, t) ==
  [cmd |-> "GSTATE",
   game |-> [id |-> r[t].id, gstate |-> r[t].gstate,
             names |-> {c.heap[a].name : a \in SeatsOf(c, t)}]]

UpdateTableGstate(d, c, r, t) == Push(d, {c.heap[a].ws : a \in SeatsOf(c, t)}, GState(c, r, t))

\* Mutant: those who stay are not told.
LeftBehindSilent(s) == Push(down, ClosedBy(club, s), [cmd |-> "TABLE_CLOSED"])

\* What DeletePlayer has to say to those at the table that s leaves.
LeftBehind(s) ==
  IF club.wsPlayer[s] = Null THEN down
  ELSE IF IsOwner(club, s) THEN Push(down, ClosedBy(club, s), [cmd |-> "TABLE_CLOSED"])
  ELSE UpdateTableGstate(down, LeaveSeat(club, s), rooms, PlayerOf(club, s).table)

Take(s, op) ==
  /\ up[s] # <<>> /\ Head(up[s]).op = op
  /\ up' = [up EXCEPT ![s] = Tail(@)]
  /\ UNCHANGED ui

Error(d, s) == Push(d, {s}, [cmd |-> "error"])

\* Club takes the seat, if the command is right and the passwords are.
ServeNewTable(s) ==
  /\ Take(s, "ntbl")
  /\ LET f == Read(SSplit(Head(up[s]).words))
         t == Head(up[s]).words[2]
         room == [id |-> made + 1, gstate |-> 0, pass |-> f.tpass]
     IN  /\ NewTable(s, t, f # Refused)
         /\ IF club'.wsPlayer[s] # Null
              THEN /\ made' = made + 1
                   /\ rooms' = [u \in DOMAIN club'.tables |-> IF u = t THEN room ELSE rooms[u]]
                   /\ down' = Push(LeftBehind(s), {s}, [cmd |-> "NTBL", table |-> t])
              ELSE /\ rooms' = Restrict(rooms, DOMAIN club'.tables)
                   /\ down' = Error(LeftBehind(s), s)
                   /\ UNCHANGED made

ServeJoin(s) ==
  /\ Take(s, "join")
  /\ LET f == Read(SSplit(Head(up[s]).words))
         t == Head(up[s]).words[2]
         fine == f # Refused /\ (t \in DOMAIN rooms => rooms[t].pass = f.tpass)
     IN  /\ Join(s, t, Head(up[s]).words[3], fine)
         /\ rooms' = Restrict(rooms, DOMAIN club'.tables)
         /\ down' =
              IF club'.wsPlayer[s] # Null
                THEN UpdateTableGstate(Push(LeftBehind(s), {s}, [cmd |-> "JOIN", table |-> t]),
                                       club', rooms', t)
                ELSE Error(LeftBehind(s), s)
  /\ UNCHANGED made

\* A command of the game, at the table of s: gstate moves by bump.
Play(s, bump) ==
  LET t == PlayerOf(club, s).table
  IN  /\ rooms' = [rooms EXCEPT ![t].gstate = @ + bump]
      /\ down' = UpdateTableGstate(down, club, rooms', t)
      /\ UNCHANGED <<vars, made>>

\* Whoever sends it.
ServeNewGame(s) ==
  /\ Served(s) /\ Take(s, "gnew")
  /\ IF club.wsPlayer[s] # Null THEN Play(s, 1)
     ELSE down' = Error(down, s) /\ UNCHANGED <<vars, rooms, made>>

Current(s) ==
  club.wsPlayer[s] # Null /\ Head(up[s]).gstate = rooms[PlayerOf(club, s).table].gstate

\* Right or wrong, a move moves gstate or does not; a stale one is dropped.
ServeMove(s) ==
  /\ Served(s) /\ Take(s, "move")
  /\ IF Current(s) THEN \E bump \in {0, 1} : Play(s, bump)
     ELSE UNCHANGED <<vars, rooms, made, down>>

ServeTables(s) ==
  /\ Served(s) /\ Take(s, "tbls")
  /\ down' = Push(down, {s}, [cmd |-> "TBLS", listed |-> DOMAIN club.tables])
  /\ UNCHANGED <<vars, rooms, made>>

\* The connection is lost, with all that is on it, and the client quits.
Lost(s) ==
  /\ WsDeleted(s)
  /\ rooms' = Restrict(rooms, DOMAIN club'.tables)
  /\ up' = [up EXCEPT ![s] = <<>>]
  /\ LET d == [down EXCEPT ![s] = <<>>]
     IN  down' = IF club.wsPlayer[s] # Null /\ PlayerOf(club, s).table \in DOMAIN club'.tables
                   THEN UpdateTableGstate(d, club', rooms, PlayerOf(club, s).table) ELSE d
  /\ ui' = [ui EXCEPT ![s] = NewUi]
  /\ UNCHANGED made

-----------------------------------------------------------------------------
\* Every client has connected and asked for the tables (OnConnected).
QtInit ==
  /\ Init
  /\ rooms = [t \in {} |-> 0]
  /\ made = 0
  /\ up = [s \in Session |-> <<[op |-> "tbls"]>>]
  /\ down = [s \in Session |-> <<>>]
  /\ ui = [s \in Session |-> NewUi]

Serve(s) == ServeNewTable(s) \/ ServeJoin(s) \/ ServeNewGame(s) \/ ServeMove(s)
              \/ ServeTables(s)

Ask(s) ==
  \/ ClubRefresh(s)
  \/ \E t \in Name, p, q \in Password : AcceptNewTable(s, t, p, q)
  \/ \E t, n \in Name, p, q \in Password : AcceptJoinTable(s, t, n, p, q)
  \/ \E t \in Name : CancelJoinTable(s, t)

QtNext == \E s \in Session :
            Ask(s) \/ NewGame(s) \/ Move(s) \/ OnReceived(s) \/ Serve(s) \/ Lost(s)

QtSpec == QtInit /\ [][QtNext]_qtVars

-----------------------------------------------------------------------------
(* Safety.                                                                 *)

TableOf(s) == PlayerOf(club, s).table
Plays(s) == club.wsPlayer[s] # Null /\ PlayerOf(club, s) # Free

\* What a player does while no change of tables is under way is served as it
\* was meant: a move that is about to be accepted was made on this table's
\* board, and New Game comes from the table's owner.  What keeps the numbers of
\* different tables apart is Game::Reset and that a JOIN is followed by a GSTATE.
ServedAsMeant ==
  \A s \in Session : Plays(s) =>
    \A n \in DOMAIN up[s] :
      LET m == up[s][n]
      IN  /\ m.op = "move" /\ m.settled /\ m.gstate = rooms[TableOf(s)].gstate =>
               m.id = rooms[TableOf(s)].id
          /\ m.op = "gnew" /\ m.settled => IsOwner(club, s)

\* A window that has nothing to receive shows the table its player is at: the
\* title, the New Game button, the players and the state of the game, or for a
\* table just made none.
QuietMeansCurrent ==
  \A s \in Session : Plays(s) /\ down[s] = <<>> =>
    LET t == TableOf(s)
    IN  /\ ui[s].at = t
        /\ ui[s].mayStart <=> told[s] = "owner"
        /\ \/ ui[s].game = GState(club, rooms, t).game
           \/ ui[s].game = NoGame /\ rooms[t].gstate = 0

\* "or Press name to join" (club.cpp): what is joined is the table whose name
\* was pressed, and which the dialog's title shows.
JoinsWhatWasPressed ==
  \A s \in Session : \A n \in DOMAIN up[s] :
    up[s][n].op = "join" => up[s][n].form.table = up[s][n].title
=============================================================================
