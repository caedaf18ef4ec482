# A verification project for 3333

3333 is a multi-player version of the card game Set: 81 cards with four
features of three values each; three cards are a *set* if in every feature they
are all alike or all different. This directory holds TLA+ models of the program,
the TLC runs that check them, and proofs that TLAPS checks. Paths below are
relative to `src/`.

## The system

The repository holds two generations of the program.

| Part | Sources | State it keeps | Operations |
|---|---|---|---|
| cards | `server/card.cc` | the constant table of the 81 cards | index of a card, completing card of a pair, `IsSet` |
| table | `server/table.cc`, `server/player.cc` | deck, board, `game_active_`, sets found, `tstate_`, `gstate_`, players and six counters each | `NewGame`, `Try3`, `Add3`, `NoMore`, `AddPlayer`, `DeletePlayer`, `json` |
| club registry | `server/server.cc` | `ws_player_` (session to `Player*`), `name_table_` | `ntbl`, `join`, lost connections, `UpdateTableGstate`, `CheckCommandGStateOK` |
| command parsing | `server/server.cc`, `server/utils.cc` | none; a table keeps its password | split, numbers, optional passwords |
| web socket session | `server/ws_session.cc`, `server/http_session.cc` | the queue of messages to write | read, send, write, failure |
| start, log | `server/main.cc`, `server/logger.cc` | files | options, rotation |
| Qt client | `qlient/` | `game_`, selection, the New Game button, dialogs, layout of the cards | `OnReceived`, `SetGameState`, selecting three cards, buttons, dialogs, `Golden::Set` and `Pick` |
| web client | `client/src/` | drawing and picking (its `App.svelte` is not in the repository) | `wscon.ts` builds commands, `canvas.ts` lays out the board |
| Python server | `3333-server.py` | `ra_to_client`, `name2table`, players that may come back, futures with messages to send, timers | obsolete generation, over web sockets too |
| JavaScript client | `3333.js`, `m3333.js` | table state, selection, buttons, modal dialogs, delayed events | obsolete generation: one page for large and one for small screens |
| watchdog | `watchdog.py` | none | run by cron: starts the server if the process of the pid file is gone |

`Makefile` (near its line 23) calls the Python and JavaScript parts obsolete
since September 2024, so the C++ server and the Qt client come first here.

How the parts interact. A client sends one-line commands over a web socket; the
server runs on one thread, so every handler of `Server::WsReceivedMessage` is
atomic with respect to the others, and messages of one session stay in order.
After nearly every command the server broadcasts the whole table as a `GSTATE`
message to everyone at the table. A command made on some board (`try3`, `add3`,
`nmor`) carries the `gstate` of that board, and the server silently drops it if
the table's is another. The server holds players twice: a table owns its
`Player` objects, and `ws_player_` points to them without owning them.

What is hard. (1) Commands race with each other and with the broadcasts: two
players claim cards at once, somebody adds cards under a selection; all rests
on `gstate` moving exactly when the board does. (2) Cards are removed by their
positions, one after the other, in a vector that moves its last element into the
gap. (3) The two owners of knowledge about players (`ws_player_` and the
tables) have to be kept consistent over four ways to leave a table. (4) The
sizes of deck and board meet at boundaries (12 cards, 3 left, 0 left). (5) One
write may be outstanding per session. (6) In the Python server timers, futures
and connection takeovers interleave. (7) The
browser pages hold events back while a found set is shown, keep selections over
changes of the board, and compare numbers of one table with another's. (8)
Layouts are computed in unsigned or rounded numbers, and clicks are looked up by
dividing by what the drawing multiplied with. `PROJECT.json` lists each hazard with its
line and the properties that watch it.

What makes each part correct:

- cards: all versions of the rule agree; a pair has one completion, a third card.
- table: cards are neither lost nor doubled; the board is refilled exactly when
  it must; a running game always has a correct next move; `gstate` versions the
  game; credits of players are backed by sets of this game.
- table and clients: a claim is judged on the cards its sender saw; a client
  with the table's `gstate` shows its game; nobody is left behind; games end;
  what the players experience is the game of Set (`SetGame`).
- registry: seats hold live players, players have live sessions, limits hold,
  nobody is served as somebody else.
- web socket session: one write at a time, nothing waits for a write that nobody
  starts, order kept, every loss of a player's connection is noticed.
- club and Qt clients: what is done while no switch of tables is under way is
  served at the table it was meant for; a window with nothing to receive shows
  its player's table; the table joined is the one that was pressed.
- commands: a server reads what was typed without blanks into its own client, with any
  password left out, and never misreads the others'; where blanks may be typed, they
  do no harm but to names.
- layouts: cards lie apart and in the window, a click finds the card drawn there.
- Python table and pages: a claim is judged on the board its page showed; a found
  set is shown on the board it was found on; equal numbers mean equal states;
  nobody is left behind by futures, producers or held back events.
- Python registry: seats and clients match in spite of players who come back;
  seats of those who do not are given up; the cleaning task goes on.

## The modules

| Module | Models | Uses |
|---|---|---|
| `Cards` | `server/card.cc`, `Table::ActiveHasSet`, and the rule as written in `qlient/client.cpp` and `3333-server.py` | |
| `VectorOps` | erasing by position of a vector without order | |
| `Table` | `server/table.cc`, `server/player.cc` and what `Server::WsReceivedMessage` does around each call | `Cards`, `VectorOps` |
| `SetGame` | the abstract game: stock, table, cards won | `Cards` |
| `TableSync` | one table, the Qt clients at it, the connections between them | `Table`, `SetGame` |
| `Club` | `ws_player_`, `name_table_`, the `Player` objects and their addresses | `VectorOps` |
| `Protocol` | `ntbl` and `join` as four clients write them (`qlient/client.cpp`, `wscon.ts`, `3333.js`, `m3333.js`) and two servers read them | |
| `QtClub` | several tables and their Qt clients: dialogs, list of tables, titles, buttons, commands and messages in flight | `Club`, `Protocol` |
| `Links` | what the sessions promise to the server above them: FIFO channels | |
| `WsSession` | `server/ws_session.cc`, `server/http_session.cc`, the accepting of `NetServer` | `Links` |
| `PyClub` | the registry of `3333-server.py`: `Server`, `Client`, `Player`, and the players of a `Table` | |
| `PyTable` | class `Table` of `3333-server.py` in a game: deals, bumps, the players' numbers, exceptions | `Cards`, `VectorOps` |
| `WebPlay` | the handlers of a game in `3333-server.py`, futures and producers, and the pages `3333.js` and `m3333.js` | `PyTable` |
| `Golden` | `qlient/golden.{h,cpp}`: the layout of the cards and the card at a point, in unsigned numbers | |
| `WebLayouts` | the same of `3333.js` and `client/src/canvas.ts` | `Golden` |
| `SelfTests` | the walks of the self-tests: `card.cc` over all pairs, `golden.cpp` over windows and boards; and all forms | `Cards`, `WebLayouts`, `Protocol` |
| `MCTable`, `MCTableSync`, `MCPyClub`, `MCQtClub`, `MCWebPlay`, `MCSelfTests` | bounds, liveness specifications and symmetry for TLC | |
| `Basics_proofs` | the theorems about `Cards` and `VectorOps`, induction over numbers | |
| `TableSync_proofs` | the theorems about `Table`, then those about `TableSync` | |
| `Club_proofs`, `QtClub_proofs`, `WsSession_proofs`, `PyClub_proofs`, `WebPlay_proofs`, `SelfTests_proofs` | the theorems about the module of that name, with their lemmas | |

### Correspondence with the code

`Table` has one variable per member of the C++ class: `deck` is `cards_deck_`,
`active` is `cards_active_`, `gactive` is `game_active_`, `found` is
`sets_found_`. The deck is a set, because `DealCards` picks a random position;
the board is a sequence, because commands name cards by position. An action is
one accepted command with everything the handler does: `Try3Good` removes the
cards, refills the board, bumps `gstate_` and credits the player. Drawing is a
choice among all sequences of distinct cards of the deck (`Draws`). Bad commands
are actions too: they bump a player's counter, and `tstate_` for a wrong `try3`
or `nmor` but not for a refused `add3`. The table of no players is gone
(`name_table_.erase`): no action of `Table` is possible at it any more.

`TableSync` adds to each player a view (the last `GSTATE` it received and
whether its New Game button is enabled) and two FIFO queues. `Send...` actions
are the client's buttons and clicks; `Serve...` and `DropStale` take the next
command of a player off its connection; every server step ends in `Broadcast`,
which is `UpdateTableGstate`. `cards` in a command is a history variable, the
three cards the sender pointed at; no action reads it. `Join` and `Leave` are
the `join` of a new connection and a lost connection; messages on a lost
connection are lost with it.

`Club` models memory: `heap` maps addresses to `Player` objects or `Free`, and
a new player may get any free address, so an entry of `ws_player_` that is left
behind may point to a freed object or to another session's player. Using a freed
object is undefined behaviour; the outcome where the object is still free is the
action `UseFreed`, after which nothing is claimed (`broken`), and the outcome
where the address was used again is an ordinary step on the wrong player.
Whether a command is well formed and its passwords are right is one Boolean.

`WsSession` has one action per callback. `phase` is the operation an
`HttpSession` waits for, `reading` and `sock.writing` the outstanding
`async_read` and `async_write`s of its `WebSocketSession`, `sock.queue` is
`queue_`. The handler above is abstracted to whom it sends to (itself and the
sessions that hold players, at most a reply and a `GSTATE` each) and whether its
session has a player afterwards; that is all of `Club` and `TableSync` a session
can see. A message is the number of its send. `wire` and `Deliver` are the
network. `Links` is what `TableSync` takes for granted of its `up` and `down`
queues; `WsSession` implements it with each queue and the network behind it as
one channel.

`PyClub` keeps the whole registry in one record, `club`, since every handler
changes it as a function of its value, and an exception (`Raise`) ends the
handler where it is: what was done stays, what would follow, the clean-up at the
end of `ws_handler` included, is skipped. A table is known by the player it was
created with, because the objects outlive their names. `SendRaises` stands for
every exception that ends a coroutine without a change of the registry: a send
on a closing connection, and bad indices in a game command. `timers` counts the
calls of `player_remove` that `call_later` has pending. Time is abstract: a
timer may fire, and a table may have been idle for too long, at any moment.
`events` is a history variable that names what the invariants are conditional
on.

`QtClub` extends `Club` by what its clients see. A server action is the action of
`Club` (`NewTable`, `Join`, `WsDeleted`, or `Served` for a command that changes no
seat) conjoined with what it reads from `up`, what it does to `rooms` (`gstate_`
and `password_` of each table) and the messages it sends, in the order the
handler sends them: what `DeletePlayer` tells the others, the reply, the broadcast.
A board is named by the table, which has a number of its own (`id`), and its
`gstate`; that this names one board is what `Table` and `TableSync` check. A `try3`,
`add3` or `nmor` is one operation, `move`, which moves `gstate` or does not. `ui`
is a window: the names listed, the name that the join dialog's callback has
captured, the title, the button, the last `GSTATE`. The modal dialogs are fused
with their OK, as nothing else can be pressed meanwhile. `settled`, `title`, and
`id` are history variables.

`Protocol` treats a command as a sequence of words and keeps what matters of
splitting: empty words vanish. `Form` is both what was typed and what was read, so
that the two can be compared. The inputs of the Qt client (`newtbl.cpp:25-40`,
`jointbl.cpp:25-40`) and of the web client (`IdInput.svelte:5`) let no blank in: there
every input holds a word or nothing. Those of `3333.html` and `m3333.html` take any
text, which is the sequence of its pieces between blanks (`Texts`): `"a 1"` is
`<<"a", "1">>`, and `" a"` is `<<"", "a">>`. `Trim` is the `trim()` of `3333.js`, which
`m3333.js` lacks; `join(" ")` is concatenation (`Joined`), and a server's split drops the
empty words of all of it, wherever they came from.

`PyTable` gives every method of the Python `Table` as the set of its outcomes, a
table and a return code, with `"raised"` for the exceptions; what was changed
before an exception stays changed. `WebPlay` composes tables with pages. A handler
runs without interruption; its `pre_send`s append to `fut`, the result of
`Client.future`; `Produce` is the producer, which takes the result and has it
sent. `page` holds `_o.state` and what decides which inputs are possible: buttons,
selection, modal dialogs. `delayed` is the found set that is being shown and `held`
the events held back by it; `OnTimeout` is the `setTimeout` of 600 ms. The two pages
differ in their buttons, in `OpenJoinDialog`, in a fourth card, and in the note that
the game is over (`Newer` is the set of clients that run `m3333.js`). A handler that
raised serves its client no more (`dead`). Who comes back or is taken over is in
`PyClub`.

`Golden` computes modulo `Word`, as the C++ code does with `unsigned`; the golden
ratio is compared without floating point by `(2n-d)^2 < 5d^2`. A layout is the state
of the `Golden` object, kept over errors as the code keeps it: `Set` clears the error
and recalculates, and a failing recalculation leaves the sizes of an earlier one.
`LargeEnough` excludes windows of a few pixels per card, in which the differences in
`ComputeBestColumns` and `recalculate` overflow as well. `WebLayouts` gives the
boards of the browser clients; `3333.js` leaves fractions of pixels in its gaps, so
its coordinates are in units that make them whole. `SelfTests` sets one `Golden`
object to any sequence of windows and boards, as repeated painting does.

`SetGame` knows no messages, positions, players or counters. `TableSync`
implements it with `stock <- deck`, `table <-` the cards of the board, `won <-`
the cards in neither, and `over <- ~gactive`.

## What the runs check

| Run | Question | Bounds |
|---|---|---|
| `self_tests` | do the versions of the rule agree, on all 81 x 81 x 81 triples? do cards lie apart and clicks find the card drawn, in all three clients? are forms read as typed, and what do blanks in them do? | none for the cards; seven `Windows` from 16 x 16 to 760 x 570, boards of 0 to 21 cards; three non-empty words, `MaxPieces` 2 |
| `table_cards` | the table under any accepted command and any deal | two players, six cards, `BoardSize` 3, `MaxTState` 7, `MaxGames` 4, `MaxBad` 1 |
| `sync` | races of two clients at one table; credits of players who leave and come back; refinement of `SetGame`; does everybody get to see the game, and do games come to an end? | `MaxUp` 1, `MaxBumps` 3, `MaxGames` 2, `MaxBad` 1 |
| `club` | the registry under any order of commands and losses | three sessions, three names, four addresses, two tables of two |
| `qt_club` | switches of tables with commands and messages in flight: are commands served where they were meant, do windows show their player's table? | two sessions, names and addresses, two tables of two, `MaxAsk` 2, `MaxDown` 1, `MaxGState` 2 |
| `ws_session` | do the write queues act as FIFO channels, and is every loss noticed? | two sessions, `MaxPut` 3 messages to each |
| `py_club` | the Python registry with takeovers, timers and dying coroutines | three connections, two names, three players, `MaxTables` 1, tables of two |
| `web_play` | one `3333.js` and one `m3333.js` page at a table: claims, found sets shown, numbers and states, catching up | six cards, `BoardSize` 3, one table, `MaxGood` 1, `MaxGState` 0 |
| `club_closed`, `qt_join_dialog` | two statements of the documentation or the window that the C++ code does not keep | as above |
| `py_rejoin`, `web_game_seen` | two statements that the Python server and its page do not keep | as `py_club`; one `3333.js` page, two tables |

Bounds and why they are enough. A table of six cards with three on the board is
a table the program can be made to play (`--initdeck` gives the deck, and the
board of 12 is the one number scaled down). Six cards suffice for every branch:
a refill, an `Add3`, a board longer than `BoardSize` after it, an empty deck, No
More, and a removal in which the last card moves into a gap that a later
removal names. `TwoSets` has two disjoint sets so that a game can be won
entirely; `OneSet` of `MCTableSync` leaves three cards over so that a game ends with cards on the
board. `SelfTests` walks 77 374 states: the pairs of cards, then all
pairs of a layout and the next, then the forms, which are filled in once, before
painting, as nothing connects the two. Its windows are the smallest for which a
layout exists, high and wide ones, one in which no number of columns leaves six
pixels for a card, so that an error is kept, and the one the Qt client opens;
`Word` is 2^24, which keeps TLC's products in range: only that the differences wrap
around matters. `PickIsDrawn` looks at the pixels beside every edge, between which
nothing changes. `MaxTState` and `MaxBumps` cut the two counters that only grow;
`MaxGames` lets a game be restarted in the middle with commands of the old one
in flight; `MaxBad` stops mistakes being repeated for ever; in
`table_cards` the other player joins only for the last two bumps, since `sync` has
both from the start; `MaxUp` is the
number of commands one client has in flight
(each of the two has its own, which is what races). In `MCTableSync`, `FirstBoards`
chooses which three cards a game starts with, `Claims` keeps of the wrong claims
one (all wrong claims have the same effect), and `Deals` fixes the order in
which three cards are dealt, which `table_cards` leaves free. In `Club` two
tables of two with three sessions let an owner leave one table for another at
which somebody sits, while an address is used again. `CHECK_DEADLOCK FALSE`
stands in every configuration because the bounded models stop when their bounds
are reached, and because the real table of no players stops.

In `QtClub` each of two clients may ask twice for a table, with one such request and
one command of the game in flight, so that a client moves on while its own command,
the other's and the broadcasts of both tables are under way; `MaxGState` 2 lets the
numbers of two tables meet. Passwords are typed for the first table only and player
passwords not at all, as no one but `Protocol` looks at them. The run stops at the
state in which a table is closed over others, which `Club` goes on from. Sessions,
names and addresses are interchangeable.

In `WebPlay` both clients sit at one table of which `a` is the owner, so that the
claims, the buttons and the held back events of two pages interleave through a whole
game: a set, an `add3`, the empty deck, No More, the end. `Careless` clients make one
mistake in a game. `Worthwhile` leaves of the selections those that lead to a set, to
a mistake, or to a fourth card; `Deals` is as in `MCTableSync`; `ServeInTime` keeps
one message at a time on its way to a page, while commands wait for any time.
`MaxGState` 0 excludes New Game in the middle of a game, in which a stale selection
ends the handler (see below). 435 480 states.

In `WsSession` a queue of three shows a write in progress with messages behind
it, and a handler that sends twice to the same session; two sessions show sends
from the handler of another. In `PyClub` each remote address is used by one
connection, as the port of a new connection differs from those in use; a player
who comes back does so on another one. Three connections and three players let
an owner, another player and somebody who takes one of them over meet at a
table; `MaxTables` 1 lets two tables exist, because of the count with `>`. The
same configuration with four players and `MaxTables` 2 (4.0 million states, three
minutes) has passed too and is left out for its time.

Fairness. `LiveSpec` of `MCTableSync` assumes that an open connection delivers
(TCP) and that the server serves what has arrived: a session reads again after
each message (`read_next` at the end of `on_read` in `ws_session.cc`). Nothing is
assumed of the players, except in `GamesEnd`, whose premise `PlayersGoOn` says
that they keep making the right moves: what the run shows is that the program
then lets them finish. Joins and departures are bounded, so somebody stays long
enough or everybody has left. `MCSpec` of `MCWebPlay` assumes that the event loop
runs the producers' tasks, that an open connection delivers and is read from, and
that a timer that was set fires; nothing is assumed of the users. `FairSpec` of `WsSession` assumes what boost::asio
promises: an outstanding write completes with or without an error, a read of a
lost connection fails, an open connection delivers; a client need never send
anything. `PyClub` needs no fairness: `LeaversGo` says that a timer is pending,
and a pending `call_later` is called.

## Findings

- `club_closed` (a bug). When the owner of a table creates or joins another one,
  `Server::DeletePlayer` destroys the table with all its players but erases only
  the owner's entry of `ws_player_` (`server.cc:361-366`). The other players'
  entries dangle, and their next command or the end of their connection uses a
  freed object. `RegistryExactUntilEviction` shows that this is the only way.
- `qt_join_dialog` (a bug). The callback of the join dialog captures the name of the
  table once, when the dialog is made (`club.cpp:173`); later presses change the
  title only. Joining another table sends the first one's name.
- `py_rejoin` (a bug). The timer of `player_left` is never cancelled: a player
  who re-joins within the minute is removed at its end, and plays on without a
  seat.
- `web_game_seen` (a bug). `state_update` (`3333.js:1012`) takes only greater numbers
  than it has, and nothing resets them for another table: after a switch to a table
  with a lower `gstate` its cards are not shown. `m3333.js` resets them when its join
  dialog opens, but not for a new table.

Smaller disagreements are modelled as they are in the code but have no run. In
the C++ server a table keeps its name when its first player is gone, although
`table.h:52` says that `name_` is the first player's, and `Join` seats two
players of one name, although `server.cc:439` says that a check is needed. In the
Python server `>` at `3333-server.py:1041` admits one table more than
`-maxtables`; after that the search for a table to expire uses `id2table`, which
does not exist, so every `ntbl` ends its sender's coroutine. An owner who goes to
another table leaves the old one in `name2table` under the owner's name, without
players or with another first player, under whose name `del` then looks for it. A
connection that is told that it was taken over is closed by its client
(`3333.js:280`) while its `client.player` is still the player, so its end takes an
owner's table down or starts the timer of the seat. Players whose `ws` was forgotten
make `players_table_closed` raise; raised in `periodic_clean` it ends the task that
closes idle tables, and `CleanerSurvives` shows that this takes a takeover or a
switch of tables before.

- A lost connection of the owner is handled as anybody's (`WsDeleted`): another
  player moves to the first seat, and no client at the table has New Game enabled,
  although `help.html:65` promises it to the first player. `QuietMeansCurrent` has the
  buttons follow the last reply, which is why.
- `gnew` is served for whoever sends it (`server.cc:268`), with no `gstate`: an owner
  who switches tables with one under way starts a game at the other's table.
  `ServedAsMeant` says that this is the only way.
- A password typed for a table without one is refused by the C++ server
  (`server.cc:434-436`) and let in by the Python one, as `help.html:42-45` has it.
- The web client announces two passwords always (`wscon.ts:123`), so with fewer its
  commands are refused (`ReadAsTyped`).
- `table_nj` of `3333.js` (`3333.js:518`) joins what was typed by blanks, the server splits
  the line at all blanks (`3333-server.py:748`), and the word behind the name is taken for
  the flags. The name `a 1` with no passcodes arrives as `ntbl  a 1 0` and makes the table
  `a` with the passcode `0`, although `help.html:28` has it that each passcode may be
  empty. `BlanksMisreadNamesOnly` shows that this is the only harm blanks do in
  `3333.js`: names whose second word is a number from 1 to 3, if as many words follow;
  everything else is read as typed or refused.
- `m3333.js` does not trim: a password of blanks only is announced and not sent, so that
  the command is refused, or the other password's second word is taken for it; a name
  left empty, which `3333.js` does not send, makes the server take the flags for the name
  (`ntbl  1 p ` opens a table `1`). A name of several words is not the one the server
  shows, so the page does not find itself among the players. `BlanksMisreadNamesOnly`
  leaves out passwords of blanks in `m3333.js` and empty names; `PyClub` and `WebPlay`
  take names as the server has read them.
- A player who joins a Python table when its deck is empty gets the "+3" button in
  `m3333.js`, whose buttons change only as the deck runs out; pressing it raises in
  the server. A New Game in the middle of a game with an empty deck leaves its "add3"
  disabled, and who joins after the end can press Done repeatedly for points.
- New Game in the middle of a game shortens the board under selections; a claim with
  a position beyond it raises an `IndexError` that ends the handler.
- Joining in `m3333.js` forgets the numbers of the table when the dialog opens, and
  not only when the join succeeds.
- `ComputeBestColumns` (`golden.cpp:94`) takes the least ratio of the cells, turned
  over if they are high, which is not the one closest to the golden ratio; and the
  board of `3333.js` has no gaps left when a card gets fewer than 17 pixels.

## Proofs

Every theorem is about the specification without the bounds of an MC module, for
every value of the constants that satisfies the `ASSUME`s of the module, all of
which TLC evaluates. The inductive invariants were first checked by TLC, as
invariants of the runs' configurations.

The table and its clients. For every deck of cards `Deck0`, every `BoardSize`, every
set of players and every `MaxPlayers`; assumed is that the deck consists of cards and
that the sizes are natural numbers. `NoDeadEndThm` alone needs more, as a hypothesis:
the numbers of cards in the deck and on the first board are multiples of three, as
81 and 12 are, and as `--initdeck` need not make them (see "What is not modelled").

- `SetIffCompletesThm` (`Basics_proofs`): for any cards, `IsSet` holds of exactly
  the third card that `GetIndexToCompleteSet` names. The lemmas show that index
  and features determine each other (`IndexOfFeatures`, `FeaturesOfIndex`), so a
  statement about features carries over to indices.
- `Without3Exact` (`TableSync_proofs`, as all that follows): the three removals by
  position take exactly the cards at the three positions. The argument is that a removal at a higher
  position does not move anything at a lower one; it is false for the other order
  (the mutant `Without3Up`).
- `TypeCorrect`: `Spec => []TypeOK`. `TypeOK` is inductive.
- `CardsConservedThm`: `Spec => []CardsConserved`. It is inductive relative to
  `TypeOK`: `DealConserves` and `DrawnCards` count what a deal moves,
  `Without3Exact` what a set removes. That the deck and board are disjoint and
  the board free of repetitions is what makes the count inductive.
- `BoardRefilledThm`: `Spec => []BoardRefilled`, relative to `TypeOK`, because a
  deck of three or more before a found set means a board that was long enough.
- `NoDeadEndThm`: relative to `TypeOK` and `DealtInThrees`: in a running game the deck
  holds a multiple of three, so one that cannot give three cards is empty and No More
  is on offer.
- `GStateVersionsTheGameThm`: the action property of the same name, from
  `TypeOK`: counters are never negative, so a reset is no mistake.
- `CreditsBackedThm`: the credits of all players are one set of pairs, so that the sum
  over a set of players becomes a cardinality. It grows by one pair at most, with
  `found` (`CreditsStep`), and shrinks when somebody leaves or the game starts anew.
- `SyncTypeCorrect`, `SameGStateSameGameThm` and `JudgedOnBoardSeenThm`
  follow from `SyncInv`: every view and every message in flight is
  of a state of the table whose `gstate` is at most the present one, and equal to the
  present state if that is (`Faithful`); likewise a command with the present `gstate`
  names positions of the present board, with the cards that its sender pointed at,
  and was possible in the present state of the game (`Fits`). It is inductive because
  the table never changes its game without raising `gstate`, which is
  `GStateVersionsTheGame`, used here step by step.
- `SyncIsTable`: `SyncSpec => Spec`. `Table` guards a claim by three different
  positions on the board, which the C++ code does not check; with clients that
  guard is a fact about all commands that are current (`Fits`). So the theorems about
  a table hold of a table with clients.
- `PlaysTheGameThm`: the refinement of `SetGame`. Sending, receiving, joining and
  refused commands are stutters; a set that is found is `Game!TakeSet` because
  `Without3Exact` says which cards are gone; No More ends the abstract game only with
  an empty stock, which the server does not look at and `Fits` provides.

The registry of the C++ server (`Club_proofs`), for every set of sessions, names and
addresses and all limits. `FreeAssumption` says that `Free` is no player and `Null` no
address. `ClubTypeCorrect`, `SeatsHoldLivePlayersThm`, `ClubWithinLimitsThm` and
`RegistryExactThm` follow from one invariant: `Whole(club, open)`, which holds always
(types, seats and live players in one-to-one correspondence, limits, live players with
open sessions), and, while nobody was evicted, `~broken` and `Exact(club)`: every entry
of `ws_player_` is the live player of its session. `Whole` survives the use of wrong
entries because an entry that points to somebody else's player still leaves the seats
and objects consistent: that is what separates the two parts.

The registry with its Qt clients (`QtClub_proofs`), moreover for every set of passwords
and without bounds on what is asked, sent or in flight. `QtTypeCorrect` holds always.
`ServedAsMeantThm` and `QuietMeansCurrentThm` hold until an owner leaves a table at
which others sit (`~evicted`): from there on entries of `ws_player_` may be somebody
else's, see `Club`. They follow from an invariant about what is under way, for the
session of each player:
- `InStep`: the last `NTBL` or `JOIN` on its way, or else the window, names the
  player's table and whether it was told to be the owner; the last `NTBL` or `GSTATE` on
  its way, or else the window, has the present game of that table, or there is none yet;
  and who was told to be the owner sits on the first seat.
- `MeantAt`: a command of the game that was sent in peace (`settled`) has no `ntbl` or
  `join` before it, so its sender is still at the table it was sent at: its `id` is
  this table's, or it has no board, and New Game is the owner's.

The two need each other only at the moment of sending (`Peace`). What a
handler does for others is said once: `Keeps` says who stays where and which tables are
as they were, and `AwayRight` and `ToldRight` that a window stays in step at a table
that did not change, or whose players `UpdateTableGstate` has told (`WhoIsTold`: they are
exactly those who play there). That a `JOIN` is followed by a `GSTATE`, and that `NTBL`
resets the game, is needed where `s` arrives at its new table.

The registry of the Python server (`PyClub_proofs`), for every set of connections and
names and all bounds. `ValuesAssumption` says that `None`, `Absent` and `Free` are
different from what they stand beside. `IInv` has four parts.
- `Common`: types, and `Whole(club)`, whatever raises: players refer to tables that
  were created, who sits at a table is a player of it, once, under a name that no one
  else has there; a client is `Absent` before its handler runs and not while it does.
  `PyTypeCorrect` and the first part of `PyRegistryExactThm` follow.
- `Leaving`: a seat without a connection has a timer. Whoever loses the connection and
  keeps the seat gets one, and the call that ends a timer empties the seat
  (`LeaversGoThm`).
- While nobody was taken over and no client changed tables (`Calm`), the cleaning task
  runs and `Served` holds: every named table has the name of its first player, who has
  no timer; who sits there on a connection is the player of its client; the player of a
  client sits, if at all, at a named table. So all who are told that a table closes are
  known, and nothing raises (`CleanerSurvivesThm`), although coroutines die of other
  exceptions and players come back.
- While nothing unusual happened at all, `Untouched`: the players of clients sit, their
  handlers run, and timers are only of those who left (`PyRegistryExactThm`).

What each action does is one lemma (`NewTableDoes`, `DisconnectDoes`, ...), which
concludes the common part, and what each part of the invariant makes of such an effect
is another (`NewcomerServed`, `ClosingServed`, ...).

The tables of the Python server and their pages (`WebPlay_proofs`), for every set of
clients and tables, every deck and every size of the board, and without bounds on what
is in flight; `DeckAssumption` says that the deck consists of cards,
`BoardSizeAssumption` that the size is a number. `WebTypeCorrect` holds always. It needs
two facts that are no types: a table's `gstate` is at most its `tstate`, and a page holds
events back only while it shows a found set (`Orderly`).

`WebSameStateSameTable`, `WebJudgedOnBoardShown` and `WebFoundShownOnItsBoard` are proved
for behaviours in which nobody who sits at a table leaves it or asks for another one
(`Staying`). The hypothesis is necessary: with two tables TLC refutes each of the three
without it, for the reason of `web_game_seen`: the page's numbers are not reset, so at the
new table it compares them with those of another game. At a server with one table
there is nowhere to go, and the three hold of every behaviour (`WebOneTable`), joins,
refused claims and dying handlers included. The invariant is `PlayInv`, about the page of
each client and everything on its way to it: what it holds back, what was sent and what
`Client.future` collects, in this order (`Stream`).
- `Follows`: every state on the way is of the client's table, not ahead of it, and true
  as long as its numbers are the table's (`Faithful`); states come in the order of the
  game; and a found set lies on the board that is shown when its turn comes (`InOrder`).
- `Fits`, `HasDeck`: a claim on its way with the table's present `gstate` was made on the
  table's board, and an `add3` of `3333.js` with a deck to take from.
- `AllHear`: as soon as one client has heard of the present game, or claims on it,
  it is on its way to all others as well. So when a claim is accepted, the found set is
  appended to streams whose last board is the one that it was found on.
- `Outsiders`: who sits nowhere has a blank page with nothing on its way.

What the page does with the events it held back is a loop, `HandleDelayed`. It is
written as a recursive function, and `DelayedLoop` says that it ends with the last of
a sequence of pages each of which has handled one event more. The induction over its
steps is `UpTo` of `Basics_proofs`: a set that has 0 and with every number the next
has all of them. `WebDeckHasWhatIsAsked` needs a deck and a first deal in threes as well.

The walks (`SelfTests_proofs`), for every set of windows and boards that
`WindowsAssumption` and `BoardsAssumption` admit: pixels of a window times 32, the
largest number of columns and rows tried, do not overflow an `unsigned`, which holds of
any screen.
- `RulesAgreeAlways` rests on `SetIffCompletesThm` and on
  `TwoValues`: what the Python and Qt programs count.
- `CardsApartAlways` and `PickIsDrawnAlways` rest on `Sane(layout)`: without an error
  the cells and the gaps around them fit into the window (`Fits`); and also in the
  layouts an error leaves, whose columns and sizes need not belong together, a cell
  times 32 does not overflow. So a card's position needs no modulus, and the card at a
  point is found by division (`PlaceOfCard`).
- `JsPicksDrawnAlways`: the gaps of `3333.js` are fractions of pixels, and `xy2card_index`
  divides by the rounded size of a card, so a card could reach beyond its share of the
  window. `GoldenBounds` puts the golden ratio between 21:13 and 34:21; with it
  the rounded sides are bounded (`RoundedSide`, `OtherSide`), `PlanFits` shows that the
  cards side by side fit into the window if each has 17 pixels of it, and `CellOfUnit`
  that a point between a card's edges is then divided into the card's column and row.
- `ReadAsTypedAlways`, for all forms without blanks, whatever the words: `OneWordText`
  shows that such a text is its only word and `Trim` leaves it alone, `JsLines` that the
  texts then join to a line of these words (`JoinedSix`, `JoinedFive`), `SplitLoop`
  unfolds `SSplit` into one step per word, and `JoinRead` and `NewTableRead` go through
  the four ways of giving passwords, with each announcement, at both servers.

The proofs about `WsSession` are for every set of sessions and every `MaxPut`;
the only assumption is that `MaxPut` is a natural number.

- `SessionTypeCorrect`, `WriterNeverIdleThm` and `LossesAreNoticedThm` follow
  from `IInv`, which is inductive: `AllSound` (a session writes one message iff
  its queue is not empty and no write failed; queues hold messages that were put;
  this is `WriterNeverIdle` with the bound on `writing` that the typing needs),
  `ReadersRegistered` (members read, readers are registered and in phase `ws`),
  `FreshEmpty` (before the upgrade nothing is queued) and `LeftoversLost` (what is
  queued or on the wire of an unregistered session belongs to a lost connection
  and is never received). The lemmas `SendSound`, `PoppedSound` and
  `NotWrittenSound` say what one call does to a queue, so the proof per action
  is short.
- `ActsAsLinksThm`: every step maps to a step of `Links` or a stutter. A write
  moves the head of the queue to the end of the wire, which leaves their
  concatenation alone (`MoveOne`); a delivery takes the head of the concatenation
  (`TakeFirst`); a handler's sends prolong it (`LongerIsPrefix`). `LeftoversLost`
  is what makes a delivery on a closed channel impossible.

Only model-checked. Liveness (`EverythingArrives`, `EveryoneCatchesUp` with either
server, `GamesEnd`) is beyond the prover. `TsTogglesOne` depends on the number of columns
that `determineNumberOfColumns` takes, by the quality of the cells: it needs an argument
about the best among all numbers of columns. TLC evaluates it for the windows of the run.
`BlanksMisreadNamesOnly` is checked for texts of up to two pieces, which has names of two
words, passwords of two, and words with a blank before or after them.

## What is not modelled, and why

- Decks given by `--initdeck` that repeat a card or whose number is not a
  multiple of three. The latter get stuck: with one or two cards left `Add3` is
  refused for ever, and the clients offer No More only at zero cards.
- The answers that change no state a client acts upon: `NOT_A_SET` and
  `TABLE_CLOSED`, which the Qt client ignores.
- Passwords of players: they are parsed (`Protocol`), kept by the server and never
  asked for by it. The message `plrf`, which no Qt client sends.
- Times of last actions, the text of the messages, logging, options, the pid file.
- The broadcasts of the list of tables and of what players say in `3333-server.py`:
  no command depends on them.
- Drawing, grids of statistics and their column widths (`players.cpp`), icons; the
  time between `DrawArea::update` and the paint event; `App.svelte`, which is not there.
- Windows so small that `Golden` computes negative differences.
- The file serving of `http_session.cc`, the watchdog (processes of the operating
  system; nothing of the server's state survives a restart), the generated command
  constants (`tools/gen_cs_consts.py`), the build.

## Plan

1. Done: `Cards`, `Table`, `TableSync` with `SetGame`, `Club`, `WsSession` with
   `Links`, `PyClub`; `Protocol`, `QtClub`, `PyTable` with `WebPlay`, `Golden` with
   `WebLayouts` and `SelfTests`; the proofs above.
2. Left: `TsTogglesOne` for all windows; and what `WebPlay` promises to a client that
   changes tables with `m3333.js`, which resets its numbers when it joins.

The number of runs stays small: a module that composes others takes over the
questions of the run it makes superfluous, instead of adding one per property.
