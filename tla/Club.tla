-------------------------------- MODULE Club --------------------------------
(***************************************************************************)
(* The registry of the server (server/server.cc): which session plays as   *)
(* which player at which table.  ws_player_ holds plain pointers to Player *)
(* objects that the tables own, so the heap is modelled with addresses     *)
(* that the allocator may use again.  What is played at a table is in      *)
(* Table; here a table is its seats.                                       *)
(***************************************************************************)
EXTENDS VectorOps, FiniteSets

CONSTANTS
  Session,      \* WebSocketSession objects; a closed one is never used again
  Name,         \* names of tables and players
  Addr,         \* addresses of Player objects
  MaxTables,    \* --maxtables
  MaxPlayers,   \* --maxplayers
  Null,         \* no entry in ws_player_
  Free          \* no object at this address

ASSUME NullAssumption == Null \notin Addr
ASSUME FreeAssumption == Free \notin [name : Name, table : Name, ws : Session]
ASSUME LimitsAssumption == MaxTables \in Nat \ {0} /\ MaxPlayers \in Nat \ {0}

VARIABLES
  open,         \* sessions whose connection is up
  club,         \* ws_player_, the Player objects and name_table_
  told,         \* what the last NTBL, JOIN or TABLE_CLOSED told a session
  evicted,      \* history: some table was closed with others sitting at it
  broken        \* a freed object was used: anything may happen from here on

vars == <<open, club, told, evicted, broken>>

\* A Player: its name, the table that owns it, its session.
Object == [name : Name, table : Name, ws : Session]

TypeOK ==
  /\ open \subseteq Session
  /\ \E T \in SUBSET Name : club \in [wsPlayer : [Session -> Addr \cup {Null}],
                                      heap : [Addr -> Object \cup {Free}],
                                      tables : [T -> Seq(Addr)]]
  /\ told \in [Session -> {"club", "owner", "player", "closed"}]
  /\ evicted \in BOOLEAN
  /\ broken \in BOOLEAN

-----------------------------------------------------------------------------
(* Changes of the registry, as functions of its value c.                   *)

SeatsOf(c, t) == {c.tables[t][i] : i \in DOMAIN c.tables[t]}
PlayerOf(c, s) == c.heap[c.wsPlayer[s]]
IsOwner(c, s) == c.tables[PlayerOf(c, s).table][1] = c.wsPlayer[s]

\* name_table_.erase: the table and the players it owns are destroyed.
EraseTable(c, t) ==
  [c EXCEPT !.tables = [u \in DOMAIN c.tables \ {t} |-> c.tables[u]],
            !.heap = [a \in Addr |-> IF a \in SeatsOf(c, t) THEN Free ELSE c.heap[a]]]

\* Mutant: the player is destroyed, the seat is kept.
UnseatKeepSeat(c, s) == [c EXCEPT !.heap[c.wsPlayer[s]] = Free]

\* Table::DeletePlayer, for the player of session s.
Unseat(c, s) ==
  LET a == c.wsPlayer[s]
      t == PlayerOf(c, s).table
      pi == CHOOSE i \in DOMAIN c.tables[t] : c.tables[t][i] = a
  IN  [c EXCEPT !.tables[t] = SwapOut(@, pi), !.heap[a] = Free]

\* Mutant: the entry is set to what marks a free object.
EraseEntryFree(c, s) == [c EXCEPT !.wsPlayer[s] = Free]

EraseEntry(c, s) == [c EXCEPT !.wsPlayer[s] = Null]

\* Server::DeletePlayer, before a session with a player gets another seat:
\* the owner takes the whole table down.
LeaveSeat(c, s) ==
  IF c.wsPlayer[s] = Null THEN c
  ELSE EraseEntry(IF IsOwner(c, s) THEN EraseTable(c, PlayerOf(c, s).table)
                                   ELSE Unseat(c, s), s)

\* The sessions that TABLE_CLOSED is sent to when s leaves its seat.
ClosedBy(c, s) ==
  IF c.wsPlayer[s] # Null /\ IsOwner(c, s)
    THEN {c.heap[a].ws : a \in SeatsOf(c, PlayerOf(c, s).table) \ {c.wsPlayer[s]}}
    ELSE {}

\* A new Player object at address a, with its entry in ws_player_.
Allocate(c, a, s, t, n) ==
  [c EXCEPT !.heap[a] = [name |-> n, table |-> t, ws |-> s],
            !.wsPlayer[s] = a]

AddTable(c, t, a) ==
  [c EXCEPT !.tables = [u \in DOMAIN c.tables \cup {t} |->
                          IF u = t THEN <<a>> ELSE c.tables[u]]]
AddSeat(c, t, a) == [c EXCEPT !.tables[t] = Append(@, a)]

-----------------------------------------------------------------------------
(* The handlers.  Each first looks at the player of the session and at the *)
(* player's table; fine is whether the command has the right size, flags   *)
(* and passwords.                                                          *)

Served(s) ==
  /\ ~broken
  /\ s \in open
  /\ club.wsPlayer[s] # Null => PlayerOf(club, s) # Free

Tell(s, what) ==
  told' = [q \in Session |-> IF q = s THEN what
                             ELSE IF q \in ClosedBy(club, s) THEN "closed" ELSE told[q]]

\* ntbl: the old seat is given up before the command is looked at.
NewTable(s, t, fine) ==
  /\ Served(s)
  /\ LET c == LeaveSeat(club, s)
         accepted == /\ t \notin DOMAIN c.tables
                     /\ Cardinality(DOMAIN c.tables) < MaxTables
                     /\ fine
     IN  IF accepted
           THEN /\ \E a \in {b \in Addr : c.heap[b] = Free} :
                     club' = AddTable(Allocate(c, a, s, t, t), t, a)
                /\ Tell(s, "owner")
           ELSE club' = c /\ Tell(s, told[s])
  /\ evicted' = (evicted \/ ClosedBy(club, s) # {})
  /\ UNCHANGED <<open, broken>>

\* join: likewise.  The name n is not compared with those at the table.
Join(s, t, n, fine) ==
  /\ Served(s)
  /\ LET c == LeaveSeat(club, s)
         accepted == /\ fine
                     /\ t \in DOMAIN c.tables
                     /\ Len(c.tables[t]) < MaxPlayers
     IN  IF accepted
           THEN /\ \E a \in {b \in Addr : c.heap[b] = Free} :
                     club' = AddSeat(Allocate(c, a, s, t, n), t, a)
                /\ Tell(s, "player")
           ELSE club' = c /\ Tell(s, told[s])
  /\ evicted' = (evicted \/ ClosedBy(club, s) # {})
  /\ UNCHANGED <<open, broken>>

\* Mutant: a table without players is kept.
WsDeletedKeepTable(s) ==
  /\ Served(s)
  /\ open' = open \ {s}
  /\ club' = IF club.wsPlayer[s] = Null THEN club
             ELSE EraseEntry(Unseat(club, s), s)
  /\ UNCHANGED <<told, evicted, broken>>

\* Mutant: the table is erased if its owner is gone.
WsDeletedOwner(s) ==
  /\ Served(s)
  /\ open' = open \ {s}
  /\ club' = IF club.wsPlayer[s] = Null THEN club
             ELSE IF IsOwner(club, s)
               THEN EraseEntry(EraseTable(club, PlayerOf(club, s).table), s)
               ELSE EraseEntry(Unseat(club, s), s)
  /\ UNCHANGED <<told, evicted, broken>>

\* WsDeleted: the connection is gone.  The owner is unseated like anybody
\* else; a table without players is erased.
WsDeleted(s) ==
  /\ Served(s)
  /\ open' = open \ {s}
  /\ IF club.wsPlayer[s] = Null THEN UNCHANGED club
     ELSE LET t == PlayerOf(club, s).table
              c == EraseEntry(Unseat(club, s), s)
          IN  club' = IF c.tables[t] = <<>> THEN EraseTable(c, t) ELSE c
  /\ UNCHANGED <<told, evicted, broken>>

\* Any message of a session, or its end, whose player was freed.
UseFreed(s) ==
  /\ ~broken
  /\ s \in open
  /\ club.wsPlayer[s] # Null /\ PlayerOf(club, s) = Free
  /\ broken' = TRUE
  /\ UNCHANGED <<open, club, told, evicted>>

-----------------------------------------------------------------------------
Init ==
  /\ open = Session
  /\ club = [wsPlayer |-> [s \in Session |-> Null],
             heap |-> [a \in Addr |-> Free],
             tables |-> [t \in {} |-> <<>>]]
  /\ told = [s \in Session |-> "club"]
  /\ evicted = FALSE
  /\ broken = FALSE

Next ==
  \E s \in Session :
    \/ \E t \in Name, fine \in BOOLEAN : NewTable(s, t, fine)
    \/ \E t, n \in Name, fine \in BOOLEAN : Join(s, t, n, fine)
    \/ WsDeleted(s)
    \/ UseFreed(s)

Spec == Init /\ [][Next]_vars

-----------------------------------------------------------------------------
(* Safety.                                                                 *)

\* The tables own exactly the live players: every seat holds an object of that
\* table, no object sits twice, and no object is left without a seat, whatever
\* the order in which owners and players come, move and vanish.  And every live
\* player is the one its own, open session plays as: UpdateTableGstate never
\* sends to a session that is gone, a session sits at one table at most, and
\* each player can still leave.
SeatsHoldLivePlayers ==
  /\ \A t \in DOMAIN club.tables : \A i \in DOMAIN club.tables[t] :
       LET a == club.tables[t][i]
       IN  /\ club.heap[a] # Free
           /\ club.heap[a].table = t
           /\ \A k \in DOMAIN club.tables[t] : club.tables[t][k] = a => k = i
  /\ \A a \in Addr : club.heap[a] # Free =>
       /\ club.heap[a].table \in DOMAIN club.tables
       /\ a \in SeatsOf(club, club.heap[a].table)
       /\ club.heap[a].ws \in open
       /\ club.wsPlayer[club.heap[a].ws] = a

\* No table without players survives, and the limits of the command line hold
\* although a seat is given up and taken again in one handler.
ClubWithinLimits ==
  /\ Cardinality(DOMAIN club.tables) <= MaxTables
  /\ \A t \in DOMAIN club.tables : Len(club.tables[t]) \in 1..MaxPlayers

\* As long as no owner left by ntbl or join a table at which others sat, every
\* entry of ws_player_ is the live player of its session: no freed object is
\* used and nobody acts for anybody else.
RegistryExactUntilEviction ==
  ~evicted => /\ ~broken
              /\ \A s \in Session : club.wsPlayer[s] # Null =>
                   /\ PlayerOf(club, s) # Free
                   /\ PlayerOf(club, s).ws = s

\* "close the table for all players" (3333.js): whoever is told that the table
\* is closed plays at no table any more, the server has no player for it.
ClosedForAllPlayers ==
  \A s \in Session : told[s] = "closed" => club.wsPlayer[s] = Null
=============================================================================
