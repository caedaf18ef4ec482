------------------------------- MODULE PyClub -------------------------------
(***************************************************************************)
(* The registry of the first generation's server (3333-server.py): its     *)
(* clients by remote address, its tables by name, players that may come    *)
(* back to their seats, timers that remove players who left, and the task  *)
(* that closes idle tables.  Handlers run one at a time on one event loop  *)
(* but a Python exception ends a handler wherever it is, and with it the   *)
(* connection's coroutine, without any clean-up.                           *)
(***************************************************************************)
EXTENDS Integers, Sequences, FiniteSets, SequencesExt

CONSTANTS
  Conn,         \* remote addresses; none is used by two connections
  Name,         \* names of players, and so of tables
  MaxObjects,   \* bound: Player objects that are created
  MaxTables,    \* -maxtables
  MaxPlayers,   \* -maxplayers
  None, Absent, Free

ASSUME ValuesAssumption ==
  /\ {None, Absent} \cap (Conn \cup 1..MaxObjects) = {} /\ None # Absent
  /\ Free \notin [name : Name, table : 1..MaxObjects, ws : Conn \cup {None}]
ASSUME BoundsAssumption ==
  MaxObjects \in Nat /\ MaxTables \in Nat /\ MaxPlayers \in Nat

Object == 1..MaxObjects

VARIABLES
  club,         \* ra_to_client, the Player and Table objects, name2table
  handler,      \* the coroutine ws_handler of each connection
  timers,       \* pending calls of player_remove, by player
  cleaner,      \* whether the task periodic_clean is running
  events        \* history: what has happened of takeovers and the like

vars == <<club, handler, timers, cleaner, events>>

\* client is ra_to_client with Client.player; a table is known by the Player
\* it was created with; raised says that the handler ended in an exception.
TypeOK ==
  /\ club \in [client : [Conn -> Object \cup {None, Absent}],
               heap : [Object -> [name : Name, table : Object, ws : Conn \cup {None}] \cup {Free}],
               seats : [Object -> Seq(Object)],
               named : UNION {[D -> Object] : D \in SUBSET Name},
               raised : {FALSE}]
  /\ handler \in [Conn -> {"none", "running", "ended"}]
  /\ timers \in [Object -> Nat]
  /\ cleaner \in BOOLEAN
  /\ events \subseteq {"taken", "switched", "rejoined", "died"}

-----------------------------------------------------------------------------
(* What handlers do to the registry, as functions of its value c.          *)

Raise(c) == [c EXCEPT !.raised = TRUE]
TableOf(c, p) == c.seats[c.heap[p].table]
Owns(c, p) == TableOf(c, p)[1] = p

\* ws2client finds no client for a player's connection: KeyError.
Unknown(c, p) == c.heap[p].ws # None /\ c.client[c.heap[p].ws] = Absent

\* refresh_players, table_msg_send: tell everyone at table t.
Refresh(c, t) == IF \E p \in ToSet(c.seats[t]) : Unknown(c, p) THEN Raise(c) ELSE c

\* The places <<table, position>> in the order in which they are told.
UpTo(y, x) == y[1] < x[1] \/ (y[1] = x[1] /\ y[2] <= x[2])
At(c, x) == c.seats[x[1]][x[2]]

\* Mutant: the players are told, but their clients keep them.
PlayersToldOnly(c, places) ==
  IF \E x \in places : Unknown(c, At(c, x)) THEN Raise(c) ELSE c

\* players_table_closed: the players at these places lose their connections'
\* players, up to the first whose client is not found.
PlayersTableClosed(c, places) ==
  LET told == {x \in places : \A y \in places : UpTo(y, x) => ~Unknown(c, At(c, y))}
      conns == {c.heap[At(c, x)].ws : x \in told}
      d == [c EXCEPT !.client = [w \in Conn |-> IF w \in conns THEN None ELSE @[w]]]
  IN  IF told = places THEN d ELSE Raise(d)

\* Table.leave: a player who is not at the table is no error.
Leave(c, p) ==
  [c EXCEPT !.seats[c.heap[p].table] = RemoveFirst(@, p)]

\* Client.set_player.
SetPlayer(c, w, p) ==
  LET old == c.client[w]
      d == IF old \in Object \ {p} THEN Leave(c, old) ELSE c
  IN  [d EXCEPT !.client[w] = p]

NewObjects(c) == {p \in Object : c.heap[p] = Free}
NextObject(c) == CHOOSE p \in NewObjects(c) : \A q \in NewObjects(c) : p <= q

CreatePlayer(c, n, t, w) ==
  [c EXCEPT !.heap[NextObject(c)] = [name |-> n, table |-> t, ws |-> w],
            !.seats[t] = Append(@, NextObject(c))]

ByName(c, t, n) == {p \in ToSet(c.seats[t]) : c.heap[p].name = n}

Named(c, n, t) ==
  [c EXCEPT !.named = [m \in DOMAIN c.named \cup {n} |->
                         IF m = n THEN t ELSE c.named[m]]]

\* del self.name2table[...] for every name in ns; a missing name raises.
Unnamed(c, ns) ==
  IF ns \subseteq DOMAIN c.named
    THEN [c EXCEPT !.named = [m \in DOMAIN c.named \ ns |-> c.named[m]]]
    ELSE Raise(c)

-----------------------------------------------------------------------------
(* The commands.  A handler that raises ends the connection's coroutine;   *)
(* what it did before stays done.                                          *)

Ends(w, c) ==
  /\ club' = [c EXCEPT !.raised = FALSE]
  /\ handler' = IF c.raised THEN [handler EXCEPT ![w] = "ended"] ELSE handler

Happened(c, what) == events' = events \cup what \cup (IF c.raised THEN {"died"} ELSE {})

Switching(w, p) == IF club.client[w] \in Object \ {p} THEN {"switched"} ELSE {}

\* table_allocate: one table too many is allowed, and the search for an old
\* one to expire, in an attribute the server does not have, raises.
TablesFull(c) == Cardinality(DOMAIN c.named) > MaxTables

\* new_table.
NewTable(w, n) ==
  /\ handler[w] = "running"
  /\ NewObjects(club) # {}
  /\ LET p == NextObject(club)
         c == IF TablesFull(club) THEN Raise(club)
              ELSE IF n \in DOMAIN club.named THEN club
              ELSE Named(SetPlayer(CreatePlayer(club, n, p, w), w, p), n, p)
     IN  /\ c # club
         /\ Ends(w, c)
         /\ Happened(c, IF c.raised THEN {} ELSE Switching(w, p))
  /\ UNCHANGED <<timers, cleaner>>

\* table_join under a name nobody at the table has.
JoinAsNew(w, t, n) ==
  /\ handler[w] = "running"
  /\ t \in DOMAIN club.named /\ NewObjects(club) # {}
  /\ LET tb == club.named[t]
         p == NextObject(club)
     IN  /\ ByName(club, tb, n) = {}
         /\ Len(club.seats[tb]) < MaxPlayers
         /\ LET c == Refresh(SetPlayer(CreatePlayer(club, n, tb, w), w, p), tb)
            IN  Ends(w, c) /\ Happened(c, Switching(w, p))
  /\ UNCHANGED <<timers, cleaner>>

\* table_join under the name of a player at the table, with its passcode or
\* where it has none: the player is connected to w from now on.  A connection
\* it still has is told, but its client keeps the player.
JoinAgain(w, t, n) ==
  /\ handler[w] = "running"
  /\ t \in DOMAIN club.named
  /\ \E p \in ByName(club, club.named[t], n) :
       LET c == IF Unknown(club, p) THEN Raise(club)
                ELSE Refresh(SetPlayer([club EXCEPT !.heap[p].ws = w], w, p), club.named[t])
       IN  /\ Ends(w, c)
           /\ Happened(c, Switching(w, p) \cup
                {IF club.heap[p].ws = None THEN "rejoined" ELSE "taken"})
  /\ UNCHANGED <<timers, cleaner>>

\* clos: close_table asks the connection for a player, which only clients
\* have.
CloseTable(w) ==
  /\ handler[w] = "running"
  /\ Ends(w, Raise(club))
  /\ Happened(Raise(club), {})
  /\ UNCHANGED <<timers, cleaner>>

\* A game command whose table cannot be told of it; others leave all this
\* as it is.
Play(w) ==
  /\ handler[w] = "running"
  /\ club.client[w] \in Object
  /\ LET c == Refresh(club, club.heap[club.client[w]].table)
     IN  c.raised /\ Ends(w, c) /\ Happened(c, {})
  /\ UNCHANGED <<timers, cleaner>>

-----------------------------------------------------------------------------
(* Connections, timers and the cleaning task.                              *)

Connect(w) ==
  /\ handler[w] = "none"
  /\ handler' = [handler EXCEPT ![w] = "running"]
  /\ club' = [club EXCEPT !.client[w] = None]
  /\ UNCHANGED <<timers, cleaner, events>>

Forget(c, w) == IF c.raised THEN c ELSE [c EXCEPT !.client[w] = Absent]

\* Mutant: the player who left is not removed later.
PlayerLeftForGood(c, w, p) ==
  /\ club' = Forget([c EXCEPT !.heap[p].ws = None], w)
  /\ UNCHANGED timers

\* Mutant: the player who left keeps the lost connection.
PlayerLeftKeepWs(c, w, p) ==
  /\ club' = Forget(c, w)
  /\ timers' = [timers EXCEPT ![p] = @ + 1]

\* Mutant: the attribute ws is deleted, as in player_close_current_connection,
\* and not set again.
PlayerLeftDelWs(c, w, p) ==
  /\ club' = Forget([c EXCEPT !.heap[p].ws = Absent], w)
  /\ timers' = [timers EXCEPT ![p] = @ + 1]

\* player_left: the seat is kept for a while.
PlayerLeft(c, w, p) ==
  /\ club' = Forget([c EXCEPT !.heap[p].ws = None], w)
  /\ timers' = [timers EXCEPT ![p] = @ + 1]

\* The end of ws_handler when the connection is closed: an owner takes the
\* table down, anybody else leaves for a while.
Disconnect(w) ==
  /\ handler[w] = "running"
  /\ handler' = [handler EXCEPT ![w] = "ended"]
  /\ LET p == club.client[w]
     IN  IF p = None THEN /\ club' = Forget(club, w)
                          /\ UNCHANGED <<timers, events>>
         ELSE IF TableOf(club, p) = <<>>      \* players[0] raises
                THEN events' = events \cup {"died"} /\ UNCHANGED <<club, timers>>
         ELSE IF Owns(club, p)
                THEN LET t == club.heap[p].table
                         d == PlayersTableClosed(club, {t} \X (2..Len(club.seats[t])))
                         c == IF d.raised THEN d ELSE Unnamed(d, {club.heap[p].name})
                     IN  /\ club' = [Forget(c, w) EXCEPT !.raised = FALSE]
                         /\ Happened(c, {})
                         /\ UNCHANGED timers
         ELSE PlayerLeft(club, w, p) /\ UNCHANGED events
  /\ UNCHANGED cleaner

\* The connection is closed while messages are being sent to it: the send
\* raises in ws_handler.
SendRaises(w) ==
  /\ handler[w] = "running"
  /\ handler' = [handler EXCEPT ![w] = "ended"]
  /\ events' = events \cup {"died"}
  /\ UNCHANGED <<club, timers, cleaner>>

\* player_remove, a minute after the player left, whatever happened since.
\* An exception in it is only logged.
PlayerRemove(p) ==
  /\ timers[p] > 0
  /\ timers' = [timers EXCEPT ![p] = @ - 1]
  /\ club' = Leave(club, p)
  /\ UNCHANGED <<handler, cleaner, events>>

\* periodic_clean: the tables of the names in idle have been so for too long.
\* In the order of their creation their players are told, then the names are
\* deleted; an exception ends the task.
PeriodicClean(idle) ==
  /\ cleaner /\ idle # {}
  /\ LET ts == {club.named[n] : n \in idle}
         d == PlayersTableClosed(club, UNION {{t} \X DOMAIN club.seats[t] : t \in ts})
         c == IF d.raised THEN d ELSE Unnamed(d, idle)
     IN  /\ club' = [c EXCEPT !.raised = FALSE]
         /\ cleaner' = ~c.raised
  /\ UNCHANGED <<handler, timers, events>>

-----------------------------------------------------------------------------
Init ==
  /\ club = [client |-> [w \in Conn |-> Absent],
             heap |-> [p \in Object |-> Free],
             seats |-> [t \in Object |-> <<>>],
             named |-> [n \in {} |-> 0],
             raised |-> FALSE]
  /\ handler = [w \in Conn |-> "none"]
  /\ timers = [p \in Object |-> 0]
  /\ cleaner = TRUE
  /\ events = {}

Next ==
  \/ \E w \in Conn :
       \/ Connect(w) \/ Disconnect(w) \/ SendRaises(w)
       \/ CloseTable(w) \/ Play(w)
       \/ \E n \in Name : NewTable(w, n)
       \/ \E t, n \in Name : JoinAsNew(w, t, n) \/ JoinAgain(w, t, n)
  \/ \E p \in Object : PlayerRemove(p)
  \/ \E idle \in SUBSET DOMAIN club.named : PeriodicClean(idle)

Spec == Init /\ [][Next]_vars
-----------------------------------------------------------------------------
(* Properties.                                                             *)

Seated(p) == club.heap[p] # Free /\ p \in ToSet(TableOf(club, p))
Playing(w) == handler[w] = "running" /\ club.client[w] \in Object
Tables == {club.named[n] : n \in DOMAIN club.named}

\* As long as no connection is taken over, nobody switches tables or comes
\* back, and no coroutine dies of an exception, clients and seats match: who
\* plays sits at a table of the club, which has the name of its first player;
\* who sits is the player of its connection, unless that was lost.  And come
\* what may, no two at a table have the same name: the search by name in
\* Table.join finds also who is disconnected.
RegistryExact ==
  /\ \A t \in Object : \A p, q \in ToSet(club.seats[t]) :
       club.heap[p].name = club.heap[q].name => p = q
  /\ events = {} =>
       /\ \A w \in Conn : Playing(w) =>
            LET p == club.client[w] IN
              /\ Seated(p) /\ club.heap[p].ws = w
              /\ club.heap[p].table \in Tables
       /\ \A n \in DOMAIN club.named :
            LET ps == club.seats[club.named[n]] IN
              /\ ps # <<>> /\ club.heap[ps[1]].name = n
              /\ \A p \in ToSet(ps) : club.heap[p].ws # None =>
                   Playing(club.heap[p].ws) /\ club.client[club.heap[p].ws] = p

\* The task that closes idle tables survives the deaths of other coroutines
\* and those who come back; only a seat whose connection was taken over, or
\* left for another table, can hold a connection that is forgotten.
CleanerSurvives == events \subseteq {"rejoined", "died"} => cleaner

\* A seat without a connection is given up unless its player comes back,
\* whatever becomes of the table and the other connections: the timer is
\* still to come.
LeaversGo ==
  \A p \in Object : Seated(p) /\ club.heap[p].ws = None => timers[p] > 0

\* "This is used when a player wants to re-join a table after being
\* disconnected" (help.html): who came back to a seat, with nobody else on
\* it, sits there.
RejoinKeepsSeat ==
  events \subseteq {"rejoined"} =>
    \A w \in Conn : Playing(w) => Seated(club.client[w])
=============================================================================
