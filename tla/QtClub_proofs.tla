---------------------------- MODULE QtClub_proofs ----------------------------
(***************************************************************************)
(* Proofs about the club and its Qt clients, for every set of sessions,    *)
(* names, addresses and passwords: what the windows show, once everything  *)
(* under way has arrived, is what the server holds, and what is sent from  *)
(* there is served as it was meant.                                        *)
(***************************************************************************)
EXTENDS QtClub, Club_proofs
-----------------------------------------------------------------------------
(* The inductive invariant.                                                *)

\* The types of what is sent, and of what the windows keep.
Game == [id : Nat, gstate : Int, names : SUBSET Name]
Window == [listed : SUBSET Name, first : Name \cup {NoName}, at : Name \cup {NoName},
           mayStart : BOOLEAN, cards : BOOLEAN, game : Game]
Message == [cmd : {"TBLS"}, listed : SUBSET Name]
             \cup [cmd : {"NTBL", "JOIN"}, table : Name]
             \cup [cmd : {"GSTATE"}, game : Game]
             \cup [cmd : {"error", "TABLE_CLOSED"}]
GameCommand == [op : {"gnew", "move"}, gstate : Int, id : Nat, settled : BOOLEAN]
Asked == [op : {"tbls"}]
           \cup {Request(Form("ntbl", t, t, p, q), NoName) :
                   t \in Name, p \in Password, q \in Password}
           \cup {Request(Form("join", t, n, p, q), u) :
                   u \in Name, t \in Name, n \in Name, p \in Password, q \in Password}
Line == GameCommand \cup Asked
IsRoom(r) ==
  /\ r = [id |-> r.id, gstate |-> r.gstate, pass |-> r.pass]
  /\ r.id \in Nat \ {0} /\ r.gstate \in Nat

QtTypeOK ==
  /\ made \in Nat
  /\ rooms = [t \in DOMAIN club.tables |-> rooms[t]]
  /\ \A t \in DOMAIN club.tables : IsRoom(rooms[t])
  /\ up \in [Session -> Seq(Line)]
  /\ down \in [Session -> Seq(Message)]
  /\ ui \in [Session -> Window]

\* The messages that move a client to another table, and those that change the
\* game in its window.
Moving == {"NTBL", "JOIN"}
Showing == {"NTBL", "GSTATE"}
Lacks(d, cmds) == \A n \in DOMAIN d : d[n].cmd \notin cmds
FinalOf(d, cmds, n) == d[n].cmd \in cmds /\ \A k \in DOMAIN d : k > n => d[k].cmd \notin cmds

\* A window u shows, or will show when it has received the messages d, that it
\* is at table t, as the owner or not ...
Title(u, d, t, own) ==
  /\ Lacks(d, Moving) => u.at = t /\ (u.mayStart <=> own)
  /\ \A n \in DOMAIN d : FinalOf(d, Moving, n) => d[n].table = t /\ (d[n].cmd = "NTBL" <=> own)

\* ... and the game g, or none when g has not begun.
Drawn(u, d, g) ==
  /\ Lacks(d, Showing) => u.game = g \/ (u.game = NoGame /\ g.gstate = 0)
  /\ \A n \in DOMAIN d : FinalOf(d, Showing, n) =>
       IF d[n].cmd = "GSTATE" THEN d[n].game = g ELSE g.gstate = 0

\* A window u of a session s that plays, with the messages d before it, shows or
\* will show what the registry c and the rooms r hold, and an owner was told so.
Right(c, r, u, d, own, s) ==
  c.wsPlayer[s] # Null =>
    /\ Title(u, d, PlayerOf(c, s).table, own)
    /\ Drawn(u, d, GState(c, r, PlayerOf(c, s).table).game)
    /\ own => IsOwner(c, s)

InStep(s) == Right(club, rooms, ui[s], down[s], told[s] = "owner", s)

\* Among the commands c, one of the game that was sent while no change of tables
\* was under way has none before it.  It was made by the owner, if it says so,
\* and a move on the board id of this table, or without a board.
Meant(c, plays, id, own) ==
  \A n \in DOMAIN c : c[n].op \in {"gnew", "move"} /\ c[n].settled =>
    /\ \A k \in DOMAIN c : k < n => c[k].op \notin {"ntbl", "join"}
    /\ plays /\ c[n].op = "move" => c[n].id = id \/ c[n].gstate = -1
    /\ plays /\ c[n].op = "gnew" => own

MeantAt(s) ==
  Meant(up[s], club.wsPlayer[s] # Null, rooms[TableOf(s)].id, told[s] = "owner")

QtIInv ==
  /\ IInv
  /\ QtTypeOK
  /\ ~evicted => \A s \in Session : InStep(s) /\ MeantAt(s)

-----------------------------------------------------------------------------
(* The messages on their way to one window.                                *)

\* Append, position by position.
LEMMA Appended ==
  ASSUME NEW S, NEW d \in Seq(S), NEW m \in S, NEW e, e = Append(d, m)
  PROVE  /\ e \in Seq(S) /\ Len(d) \in Nat /\ Len(e) = Len(d) + 1
         /\ DOMAIN d = 1..Len(d) /\ DOMAIN e = 1..(Len(d) + 1)
         /\ \A n \in DOMAIN d : n \in DOMAIN e /\ n # Len(d) + 1 /\ n < Len(d) + 1 /\ e[n] = d[n]
         /\ e[Len(d) + 1] = m /\ Len(d) + 1 \in DOMAIN e
         /\ \A n \in DOMAIN e : n # Len(d) + 1 => n \in DOMAIN d
<1>1. /\ e \in Seq(S) /\ Len(e) = Len(d) + 1
      /\ \A n \in 1..Len(d) : e[n] = d[n]
      /\ e[Len(d) + 1] = m
  BY AppendProperties
<1>2. Len(d) \in Nat /\ DOMAIN d = 1..Len(d) /\ DOMAIN e = 1..Len(e)
  BY <1>1, LenProperties
<1>. QED  BY <1>1, <1>2

\* Tail, position by position.
LEMMA Tailed ==
  ASSUME NEW S, NEW d \in Seq(S), d # <<>>, NEW e, e = Tail(d)
  PROVE  /\ e \in Seq(S) /\ Head(d) = d[1] /\ Head(d) \in S /\ 1 \in DOMAIN d
         /\ \A n \in DOMAIN e : n + 1 \in DOMAIN d /\ e[n] = d[n + 1] /\ n \in Nat \ {0}
         /\ \A n \in DOMAIN d : n # 1 => n - 1 \in DOMAIN e /\ e[n - 1] = d[n] /\ n \in Nat
<1>1. /\ e \in Seq(S) /\ Len(e) = Len(d) - 1 /\ Head(d) = d[1] /\ Head(d) \in S
      /\ \A n \in 1..Len(e) : e[n] = d[n + 1]
  BY HeadTailProperties
<1>2. /\ Len(d) \in Nat \ {0} /\ DOMAIN d = 1..Len(d) /\ DOMAIN e = 1..Len(e)
  BY <1>1, LenProperties, EmptySeq
<1>. QED  BY <1>1, <1>2

\* A message that is none of cmds leaves the last of them what it is.
LEMMA FinalKept ==
  ASSUME NEW d \in Seq(Message), NEW m \in Message, NEW cmds, m.cmd \notin cmds
  PROVE  /\ Lacks(Append(d, m), cmds) => Lacks(d, cmds)
         /\ \A n \in DOMAIN Append(d, m) : FinalOf(Append(d, m), cmds, n) =>
              n \in DOMAIN d /\ Append(d, m)[n] = d[n] /\ FinalOf(d, cmds, n)
<1>. PICK e : e = Append(d, m)
  OBVIOUS
<1>1. /\ \A n \in DOMAIN d : n \in DOMAIN e /\ e[n] = d[n]
      /\ e[Len(d) + 1] = m
      /\ \A n \in DOMAIN e : n # Len(d) + 1 => n \in DOMAIN d
  BY Appended
<1>2. Lacks(e, cmds) => Lacks(d, cmds)
  BY <1>1 DEF Lacks
<1>3. ASSUME NEW n \in DOMAIN e, FinalOf(e, cmds, n)
      PROVE  n \in DOMAIN d /\ e[n] = d[n] /\ FinalOf(d, cmds, n)
  <2>1. n # Len(d) + 1
    BY <1>1, <1>3 DEF FinalOf
  <2>2. n \in DOMAIN d /\ e[n] = d[n]
    BY <1>1, <2>1
  <2>3. FinalOf(d, cmds, n)
    BY <1>1, <1>3, <2>2 DEF FinalOf
  <2>. QED  BY <2>2, <2>3
<1>. QED  BY <1>2, <1>3

\* A message that is one of cmds is now the last of them.
LEMMA FinalIsNew ==
  ASSUME NEW d \in Seq(Message), NEW m \in Message, NEW cmds, m.cmd \in cmds
  PROVE  /\ ~Lacks(Append(d, m), cmds)
         /\ \A n \in DOMAIN Append(d, m) : FinalOf(Append(d, m), cmds, n) => Append(d, m)[n] = m
<1>. PICK e : e = Append(d, m)
  OBVIOUS
<1>1. /\ Len(d) + 1 \in DOMAIN e /\ e[Len(d) + 1] = m
      /\ \A n \in DOMAIN e : n # Len(d) + 1 => n \in DOMAIN d
      /\ \A n \in DOMAIN d : n < Len(d) + 1
  BY Appended
<1>2. ~Lacks(e, cmds)
  BY <1>1 DEF Lacks
<1>3. ASSUME NEW n \in DOMAIN e, FinalOf(e, cmds, n), n # Len(d) + 1
      PROVE  FALSE
  <2>1. Len(d) + 1 > n
    <3>1. n \in DOMAIN d /\ n \in Int /\ Len(d) + 1 \in Int
      <4>1. DOMAIN d = 1..Len(d) /\ Len(d) \in Nat
        BY LenProperties
      <4>. QED  BY <1>1, <1>3, <4>1
    <3>2. n < Len(d) + 1
      BY <1>1, <3>1
    <3>. QED  BY <3>1, <3>2
  <2>. QED  BY <1>1, <1>3, <2>1 DEF FinalOf
<1>. QED  BY <1>1, <1>2, <1>3

\* A message that says nothing about tables or games changes neither.
LEMMA OtherSent ==
  ASSUME NEW u, NEW d \in Seq(Message), NEW m \in Message, m.cmd \notin Moving \cup Showing,
         NEW t, NEW own, NEW g
  PROVE  /\ Title(u, d, t, own) => Title(u, Append(d, m), t, own)
         /\ Drawn(u, d, g) => Drawn(u, Append(d, m), g)
<1>. PICK e : e = Append(d, m)
  OBVIOUS
<1>1. /\ Lacks(e, Moving) => Lacks(d, Moving)
      /\ \A n \in DOMAIN e : FinalOf(e, Moving, n) =>
           n \in DOMAIN d /\ e[n] = d[n] /\ FinalOf(d, Moving, n)
  BY FinalKept
<1>2. /\ Lacks(e, Showing) => Lacks(d, Showing)
      /\ \A n \in DOMAIN e : FinalOf(e, Showing, n) =>
           n \in DOMAIN d /\ e[n] = d[n] /\ FinalOf(d, Showing, n)
  BY FinalKept
<1>3. Title(u, d, t, own) => Title(u, e, t, own)
  BY <1>1 DEF Title
<1>4. Drawn(u, d, g) => Drawn(u, e, g)
  BY <1>2 DEF Drawn
<1>. QED  BY <1>3, <1>4

\* A GSTATE with the game g, whatever was shown before.
LEMMA GStateSent ==
  ASSUME NEW u, NEW d \in Seq(Message), NEW g \in Game,
         NEW m \in Message, m.cmd = "GSTATE", m.game = g, NEW t, NEW own
  PROVE  /\ Title(u, d, t, own) => Title(u, Append(d, m), t, own)
         /\ Drawn(u, Append(d, m), g)
<1>. PICK e : e = Append(d, m)
  OBVIOUS
<1>1. m.cmd \notin Moving /\ m.cmd \in Showing
  BY DEF Moving, Showing
<1>2. /\ Lacks(e, Moving) => Lacks(d, Moving)
      /\ \A n \in DOMAIN e : FinalOf(e, Moving, n) =>
           n \in DOMAIN d /\ e[n] = d[n] /\ FinalOf(d, Moving, n)
  BY <1>1, FinalKept
<1>3. /\ ~Lacks(e, Showing)
      /\ \A n \in DOMAIN e : FinalOf(e, Showing, n) => e[n] = m
  BY <1>1, FinalIsNew
<1>4. Title(u, d, t, own) => Title(u, e, t, own)
  BY <1>2 DEF Title
<1>5. Drawn(u, e, g)
  BY <1>3 DEF Drawn
<1>. QED  BY <1>4, <1>5

\* NTBL and JOIN move the window to table t, NTBL to a game that has not begun.
LEMMA MoveSent ==
  ASSUME NEW u, NEW d \in Seq(Message), NEW t \in Name,
         NEW m \in Message, m.cmd \in Moving, m.table = t
  PROVE  /\ Title(u, Append(d, m), t, m.cmd = "NTBL")
         /\ \A g : m.cmd = "NTBL" /\ g.gstate = 0 => Drawn(u, Append(d, m), g)
<1>. PICK e : e = Append(d, m)
  OBVIOUS
<1>1. /\ ~Lacks(e, Moving)
      /\ \A n \in DOMAIN e : FinalOf(e, Moving, n) => e[n] = m
  BY FinalIsNew
<1>2. Title(u, e, t, m.cmd = "NTBL")
  BY <1>1 DEF Title
<1>3. ASSUME NEW g, m.cmd = "NTBL", g.gstate = 0  PROVE Drawn(u, e, g)
  <2>1. m.cmd \in Showing
    BY <1>3 DEF Showing
  <2>2. /\ ~Lacks(e, Showing)
        /\ \A n \in DOMAIN e : FinalOf(e, Showing, n) => e[n] = m
    BY <2>1, FinalIsNew
  <2>. QED  BY <1>3, <2>2 DEF Drawn
<1>. QED  BY <1>2, <1>3

\* What is said of the rest of the messages, of the first, and of all of them.
LEMMA FinalTail ==
  ASSUME NEW d \in Seq(Message), d # <<>>, NEW cmds
  PROVE  /\ Head(d) \in Message /\ Head(d) = d[1] /\ 1 \in DOMAIN d /\ Tail(d) \in Seq(Message)
         /\ Lacks(Tail(d), cmds) /\ Head(d).cmd \notin cmds => Lacks(d, cmds)
         /\ Lacks(Tail(d), cmds) /\ Head(d).cmd \in cmds => FinalOf(d, cmds, 1)
         /\ \A n \in DOMAIN Tail(d) : FinalOf(Tail(d), cmds, n) =>
              n + 1 \in DOMAIN d /\ d[n + 1] = Tail(d)[n] /\ FinalOf(d, cmds, n + 1)
<1>. PICK e : e = Tail(d)
  OBVIOUS
<1>1. /\ e \in Seq(Message) /\ Head(d) = d[1] /\ Head(d) \in Message /\ 1 \in DOMAIN d
      /\ \A n \in DOMAIN e : n + 1 \in DOMAIN d /\ e[n] = d[n + 1] /\ n \in Nat \ {0}
      /\ \A n \in DOMAIN d : n # 1 => n - 1 \in DOMAIN e /\ e[n - 1] = d[n] /\ n \in Nat
  BY Tailed
<1>2. Lacks(e, cmds) /\ Head(d).cmd \notin cmds => Lacks(d, cmds)
  BY <1>1 DEF Lacks
<1>3. Lacks(e, cmds) /\ Head(d).cmd \in cmds => FinalOf(d, cmds, 1)
  <2>. SUFFICES ASSUME Lacks(e, cmds), Head(d).cmd \in cmds, NEW k \in DOMAIN d, k > 1
       PROVE  d[k].cmd \notin cmds
    BY <1>1 DEF FinalOf
  <2>1. k - 1 \in DOMAIN e /\ e[k - 1] = d[k]
    BY <1>1
  <2>. QED  BY <2>1 DEF Lacks
<1>4. ASSUME NEW n \in DOMAIN e, FinalOf(e, cmds, n)
      PROVE  n + 1 \in DOMAIN d /\ d[n + 1] = e[n] /\ FinalOf(d, cmds, n + 1)
  <2>1. n + 1 \in DOMAIN d /\ e[n] = d[n + 1] /\ n \in Nat \ {0}
    BY <1>1
  <2>2. ASSUME NEW k \in DOMAIN d, k > n + 1  PROVE d[k].cmd \notin cmds
    <3>1. k \in Nat
      <4>1. DOMAIN d = 1..Len(d) /\ Len(d) \in Nat
        BY LenProperties
      <4>. QED  BY <4>1
    <3>2. k # 1 /\ k - 1 > n
      BY <2>1, <2>2, <3>1
    <3>3. k - 1 \in DOMAIN e /\ e[k - 1] = d[k]
      BY <1>1, <3>2
    <3>. QED  BY <1>4, <3>2, <3>3 DEF FinalOf
  <2>. QED  BY <1>4, <2>1, <2>2 DEF FinalOf
<1>. QED  BY <1>1, <1>2, <1>3, <1>4

\* What a message does to a window.
LEMMA ShowIs ==
  ASSUME NEW u \in Window, NEW m \in Message
  PROVE  /\ Show(u, m) \in Window
         /\ Show(u, m).at = IF m.cmd \in Moving THEN m.table ELSE u.at
         /\ Show(u, m).mayStart = IF m.cmd \in Moving THEN m.cmd = "NTBL" ELSE u.mayStart
         /\ Show(u, m).game = IF m.cmd = "NTBL" THEN NoGame
                              ELSE IF m.cmd = "GSTATE" THEN m.game ELSE u.game
<1>1. NoGame \in Game
  BY DEF NoGame, Game
<1>2. CASE m.cmd = "TBLS"
  <2>1. m.listed \in SUBSET Name
    BY <1>2 DEF Message
  <2>2. Show(u, m) = [u EXCEPT !.listed = m.listed]
    BY <1>2 DEF Show
  <2>. QED  BY <1>2, <2>1, <2>2 DEF Window, Moving
<1>3. CASE m.cmd = "NTBL"
  <2>1. m.table \in Name
    BY <1>3 DEF Message
  <2>2. Show(u, m) = [u EXCEPT !.at = m.table, !.mayStart = TRUE, !.game = NoGame]
    BY <1>3 DEF Show
  <2>. QED  BY <1>1, <1>3, <2>1, <2>2 DEF Window, Moving
<1>4. CASE m.cmd = "JOIN"
  <2>1. m.table \in Name
    BY <1>4 DEF Message
  <2>2. Show(u, m) = [u EXCEPT !.at = m.table, !.mayStart = FALSE]
    BY <1>4 DEF Show
  <2>. QED  BY <1>4, <2>1, <2>2 DEF Window, Moving
<1>5. CASE m.cmd = "GSTATE"
  <2>1. m.game \in Game /\ (m.game.gstate > 0) \in BOOLEAN
    BY <1>5 DEF Message
  <2>2. Show(u, m) = [u EXCEPT !.game = m.game, !.cards = m.game.gstate > 0]
    BY <1>5 DEF Show
  <2>. QED  BY <1>5, <2>1, <2>2 DEF Window, Moving
<1>6. CASE m.cmd \in {"error", "TABLE_CLOSED"}
  BY <1>6 DEF Show, Moving
<1>. QED  BY <1>2, <1>3, <1>4, <1>5, <1>6 DEF Message

\* Receiving the next message leaves what will be shown.
LEMMA Received ==
  ASSUME NEW u \in Window, NEW d \in Seq(Message), d # <<>>, NEW t, NEW own, NEW g
  PROVE  /\ Title(u, d, t, own) => Title(Show(u, Head(d)), Tail(d), t, own)
         /\ Drawn(u, d, g) => Drawn(Show(u, Head(d)), Tail(d), g)
<1>. PICK m, e : m = Head(d) /\ e = Tail(d)
  OBVIOUS
<1>. PICK v : v = Show(u, m)
  OBVIOUS
<1>1. /\ m \in Message /\ m = d[1] /\ 1 \in DOMAIN d
      /\ Lacks(e, Moving) /\ m.cmd \notin Moving => Lacks(d, Moving)
      /\ Lacks(e, Moving) /\ m.cmd \in Moving => FinalOf(d, Moving, 1)
      /\ \A n \in DOMAIN e : FinalOf(e, Moving, n) =>
           n + 1 \in DOMAIN d /\ d[n + 1] = e[n] /\ FinalOf(d, Moving, n + 1)
  BY FinalTail
<1>2. /\ Lacks(e, Showing) /\ m.cmd \notin Showing => Lacks(d, Showing)
      /\ Lacks(e, Showing) /\ m.cmd \in Showing => FinalOf(d, Showing, 1)
      /\ \A n \in DOMAIN e : FinalOf(e, Showing, n) =>
           n + 1 \in DOMAIN d /\ d[n + 1] = e[n] /\ FinalOf(d, Showing, n + 1)
  BY FinalTail
<1>3. /\ v.at = IF m.cmd \in Moving THEN m.table ELSE u.at
      /\ v.mayStart = IF m.cmd \in Moving THEN m.cmd = "NTBL" ELSE u.mayStart
      /\ v.game = IF m.cmd = "NTBL" THEN NoGame ELSE IF m.cmd = "GSTATE" THEN m.game ELSE u.game
  BY <1>1, ShowIs
<1>4. ASSUME Title(u, d, t, own)  PROVE Title(v, e, t, own)
  <2>1. Lacks(e, Moving) => v.at = t /\ (v.mayStart <=> own)
    BY <1>1, <1>3, <1>4 DEF Title
  <2>2. ASSUME NEW n \in DOMAIN e, FinalOf(e, Moving, n)
        PROVE  e[n].table = t /\ (e[n].cmd = "NTBL" <=> own)
    BY <1>1, <1>4, <2>2 DEF Title
  <2>. QED  BY <2>1, <2>2 DEF Title
<1>5. ASSUME Drawn(u, d, g)  PROVE Drawn(v, e, g)
  <2>1. ASSUME Lacks(e, Showing)  PROVE v.game = g \/ (v.game = NoGame /\ g.gstate = 0)
    <3>1. CASE m.cmd \in Showing
      <4>1. IF m.cmd = "GSTATE" THEN m.game = g ELSE g.gstate = 0
        BY <1>1, <1>2, <1>5, <2>1, <3>1 DEF Drawn
      <4>2. m.cmd \in {"NTBL", "GSTATE"}
        BY <3>1 DEF Showing
      <4>. QED  BY <1>3, <4>1, <4>2
    <3>2. CASE m.cmd \notin Showing
      <4>1. v.game = u.game
        BY <1>3, <3>2 DEF Showing
      <4>. QED  BY <1>2, <1>5, <2>1, <3>2, <4>1 DEF Drawn
    <3>. QED  BY <3>1, <3>2
  <2>2. ASSUME NEW n \in DOMAIN e, FinalOf(e, Showing, n)
        PROVE  IF e[n].cmd = "GSTATE" THEN e[n].game = g ELSE g.gstate = 0
    BY <1>2, <1>5, <2>2 DEF Drawn
  <2>. QED  BY <2>1, <2>2 DEF Drawn
<1>. QED  BY <1>4, <1>5
-----------------------------------------------------------------------------
(* The commands on their way to the server.                                *)

\* A command that is sent is meant when nothing that moves its player is before
\* it and it fits the table.
LEMMA MeantSent ==
  ASSUME NEW c \in Seq(Line), NEW m \in Line, NEW plays, NEW id, NEW own,
         Meant(c, plays, id, own),
         m.op \in {"gnew", "move"} /\ m.settled =>
           /\ \A k \in DOMAIN c : c[k].op \notin {"ntbl", "join"}
           /\ plays /\ m.op = "move" => m.id = id \/ m.gstate = -1
           /\ plays /\ m.op = "gnew" => own
  PROVE  Meant(Append(c, m), plays, id, own)
<1>. PICK e : e = Append(c, m)
  OBVIOUS
<1>1. /\ \A n \in DOMAIN c : n \in DOMAIN e /\ n < Len(c) + 1 /\ e[n] = c[n]
      /\ e[Len(c) + 1] = m
      /\ \A n \in DOMAIN e : n # Len(c) + 1 => n \in DOMAIN c
  BY Appended
<1>. DEFINE Fine(n) == e[n].op \in {"gnew", "move"} /\ e[n].settled =>
              /\ \A k \in DOMAIN e : k < n => e[k].op \notin {"ntbl", "join"}
              /\ plays /\ e[n].op = "move" => e[n].id = id \/ e[n].gstate = -1
              /\ plays /\ e[n].op = "gnew" => own
<1>2. Fine(Len(c) + 1)
  <2>1. Len(c) + 1 \in Nat
    BY LenProperties
  <2>2. ASSUME NEW k \in DOMAIN e, k < Len(c) + 1  PROVE k \in DOMAIN c /\ e[k] = c[k]
    BY <1>1, <2>1, <2>2
  <2>. QED  BY <1>1, <2>2
<1>3. ASSUME NEW n \in DOMAIN c  PROVE Fine(n)
  <2>1. e[n] = c[n] /\ n < Len(c) + 1 /\ n \in Nat /\ Len(c) + 1 \in Nat
    BY <1>1, LenProperties
  <2>2. ASSUME NEW k \in DOMAIN e, k < n  PROVE k \in DOMAIN c /\ e[k] = c[k]
    <3>1. k # Len(c) + 1
      BY <2>1, <2>2
    <3>. QED  BY <1>1, <3>1
  <2>. QED  BY <2>1, <2>2 DEF Meant
<1>4. \A n \in DOMAIN e : Fine(n)
  BY <1>1, <1>2, <1>3
<1>. QED  BY <1>4 DEF Meant

\* A command that is served leaves those behind it what they are; one that moved
\* its player was not before any that was sent in peace.
LEMMA MeantServed ==
  ASSUME NEW c \in Seq(Line), c # <<>>, NEW plays, NEW id, NEW own, Meant(c, plays, id, own)
  PROVE  /\ Meant(Tail(c), plays, id, own)
         /\ Head(c).op \in {"ntbl", "join"} =>
              \A p, i, o : Meant(Tail(c), p, i, o)
<1>. PICK e : e = Tail(c)
  OBVIOUS
<1>1. /\ Head(c) = c[1] /\ 1 \in DOMAIN c
      /\ \A n \in DOMAIN e : n + 1 \in DOMAIN c /\ e[n] = c[n + 1] /\ n \in Nat \ {0}
  BY Tailed
<1>2. ASSUME NEW n \in DOMAIN e, e[n].op \in {"gnew", "move"}, e[n].settled
      PROVE  /\ \A k \in DOMAIN e : k < n => e[k].op \notin {"ntbl", "join"}
             /\ plays /\ e[n].op = "move" => e[n].id = id \/ e[n].gstate = -1
             /\ plays /\ e[n].op = "gnew" => own
             /\ Head(c).op \notin {"ntbl", "join"}
  <2>1. /\ n + 1 \in DOMAIN c /\ e[n] = c[n + 1] /\ n \in Nat \ {0}
    BY <1>1
  <2>2. /\ \A k \in DOMAIN c : k < n + 1 => c[k].op \notin {"ntbl", "join"}
        /\ plays /\ e[n].op = "move" => e[n].id = id \/ e[n].gstate = -1
        /\ plays /\ e[n].op = "gnew" => own
    BY <1>2, <2>1 DEF Meant
  <2>3. ASSUME NEW k \in DOMAIN e, k < n  PROVE e[k].op \notin {"ntbl", "join"}
    <3>1. k + 1 \in DOMAIN c /\ e[k] = c[k + 1] /\ k + 1 < n + 1
      BY <1>1, <2>1, <2>3
    <3>. QED  BY <2>2, <3>1
  <2>4. Head(c).op \notin {"ntbl", "join"}
    BY <1>1, <2>1, <2>2
  <2>. QED  BY <2>2, <2>3, <2>4
<1>3. Meant(e, plays, id, own)
  BY <1>2 DEF Meant
<1>4. Head(c).op \in {"ntbl", "join"} => \A p, i, o : Meant(e, p, i, o)
  BY <1>2 DEF Meant
<1>. QED  BY <1>3, <1>4
-----------------------------------------------------------------------------
(* What a change of the registry by one session means to the others.       *)

\* Only q moves from c to e: the others stay who they are, where they are, and
\* owners if they are; and the tables but those of T keep their players.
Keeps(c, e, q, T) ==
  /\ \A s \in Session \ {q} : c.wsPlayer[s] # Null \/ e.wsPlayer[s] # Null =>
       /\ e.wsPlayer[s] = c.wsPlayer[s]
       /\ PlayerOf(e, s) = PlayerOf(c, s)
       /\ PlayerOf(c, s).table \in DOMAIN e.tables
       /\ IsOwner(c, s) => IsOwner(e, s)
  /\ \A t \in DOMAIN e.tables \ T :
       /\ SeatsOf(e, t) = SeatsOf(c, t)
       /\ \A a \in SeatsOf(c, t) : e.heap[a] = c.heap[a]

\* A session that plays has an object of its own, which sits at a table.
LEMMA PlayerSits ==
  ASSUME NEW c, NEW o, IsRegistry(c), Alive(c, o), Exact(c), NEW s \in Session,
         c.wsPlayer[s] # Null
  PROVE  /\ c.wsPlayer[s] \in Addr
         /\ PlayerOf(c, s) = c.heap[c.wsPlayer[s]]
         /\ PlayerOf(c, s) # Free /\ PlayerOf(c, s).ws = s
         /\ PlayerOf(c, s).table \in DOMAIN c.tables
         /\ c.wsPlayer[s] \in SeatsOf(c, PlayerOf(c, s).table)
         /\ s \in o
<1>1. c.wsPlayer[s] \in Addr
  BY DEF IsRegistry
<1>2. PlayerOf(c, s) = c.heap[c.wsPlayer[s]] /\ PlayerOf(c, s) # Free /\ PlayerOf(c, s).ws = s
  BY DEF Exact, PlayerOf
<1>. QED  BY <1>1, <1>2 DEF Alive

\* A table is told exactly to the sessions that play at it.
LEMMA WhoIsTold ==
  ASSUME NEW c, NEW o, IsRegistry(c), Seated(c), Alive(c, o), Exact(c),
         NEW s \in Session, NEW t \in DOMAIN c.tables
  PROVE  s \in {c.heap[a].ws : a \in SeatsOf(c, t)}
           <=> c.wsPlayer[s] # Null /\ PlayerOf(c, s).table = t
<1>1. ASSUME NEW a \in SeatsOf(c, t), c.heap[a].ws = s
      PROVE  c.wsPlayer[s] # Null /\ PlayerOf(c, s).table = t
  <2>1. a \in Addr /\ c.heap[a] # Free /\ c.heap[a].table = t
    BY Tables DEF Seated
  <2>2. c.wsPlayer[s] = a
    BY <1>1, <2>1 DEF Alive
  <2>. QED  BY <2>1, <2>2, NullAssumption DEF PlayerOf
<1>2. ASSUME c.wsPlayer[s] # Null, PlayerOf(c, s).table = t
      PROVE  s \in {c.heap[a].ws : a \in SeatsOf(c, t)}
  <2>1. /\ c.wsPlayer[s] \in SeatsOf(c, t)
        /\ c.heap[c.wsPlayer[s]].ws = s
    BY <1>2, PlayerSits
  <2>. QED  BY <2>1
<1>. QED  BY <1>1, <1>2

\* Only q and its player vanish, and its table if nobody else sits there.
LEMMA GoneKeeps ==
  ASSUME NEW c, NEW o, IsRegistry(c), Seated(c), Alive(c, o), Exact(c),
         NEW q \in Session, c.wsPlayer[q] # Null,
         NEW t, t = PlayerOf(c, q).table,
         NEW e, e.wsPlayer = [c.wsPlayer EXCEPT ![q] = Null],
         \A b \in Addr \ {c.wsPlayer[q]} : e.heap[b] = c.heap[b],
         DOMAIN e.tables \subseteq DOMAIN c.tables,
         \A u \in DOMAIN c.tables \ {t} : u \in DOMAIN e.tables /\ e.tables[u] = c.tables[u],
         NEW T, t \in DOMAIN e.tables => t \in T,
         \A s \in Session \ {q} : c.wsPlayer[s] # Null /\ PlayerOf(c, s).table = t =>
           /\ t \in DOMAIN e.tables
           /\ c.tables[t][1] = c.wsPlayer[s] => e.tables[t][1] = c.wsPlayer[s]
  PROVE  Keeps(c, e, q, T)
<1>. PICK a : a = c.wsPlayer[q]
  OBVIOUS
<1>1. ASSUME NEW s \in Session \ {q}, c.wsPlayer[s] # Null \/ e.wsPlayer[s] # Null
      PROVE  /\ e.wsPlayer[s] = c.wsPlayer[s]
             /\ PlayerOf(e, s) = PlayerOf(c, s)
             /\ PlayerOf(c, s).table \in DOMAIN e.tables
             /\ IsOwner(c, s) => IsOwner(e, s)
  <2>1. e.wsPlayer[s] = c.wsPlayer[s] /\ c.wsPlayer[s] # Null
    BY <1>1 DEF IsRegistry
  <2>2. /\ c.wsPlayer[s] \in Addr /\ PlayerOf(c, s) = c.heap[c.wsPlayer[s]]
        /\ PlayerOf(c, s).ws = s /\ PlayerOf(c, s).table \in DOMAIN c.tables
    BY <2>1, PlayerSits
  <2>3. PlayerOf(c, q).ws = q /\ PlayerOf(c, q) = c.heap[a]
    BY PlayerSits
  <2>4. c.wsPlayer[s] # a
    <3>1. s # q
      OBVIOUS
    <3>. QED  BY ONLY <2>2, <2>3, <3>1
  <2>5. PlayerOf(e, s) = PlayerOf(c, s)
    BY <2>1, <2>2, <2>4 DEF PlayerOf
  <2>6. CASE PlayerOf(c, s).table = t
    BY <2>1, <2>5, <2>6 DEF IsOwner
  <2>7. CASE PlayerOf(c, s).table # t
    <3>1. e.tables[PlayerOf(c, s).table] = c.tables[PlayerOf(c, s).table]
          /\ PlayerOf(c, s).table \in DOMAIN e.tables
      BY <2>2, <2>7
    <3>2. IsOwner(c, s) => IsOwner(e, s)
      BY ONLY <2>1, <2>5, <3>1 DEF IsOwner
    <3>. QED  BY <2>1, <2>5, <3>1, <3>2
  <2>. QED  BY <2>1, <2>5, <2>6, <2>7
<1>2. ASSUME NEW u \in DOMAIN e.tables \ T
      PROVE  /\ SeatsOf(e, u) = SeatsOf(c, u)
             /\ \A b \in SeatsOf(c, u) : e.heap[b] = c.heap[b]
  <2>1. u \in DOMAIN c.tables \ {t}
    BY <1>2
  <2>2. SeatsOf(e, u) = SeatsOf(c, u)
    BY <2>1 DEF SeatsOf
  <2>3. ASSUME NEW b \in SeatsOf(c, u)  PROVE e.heap[b] = c.heap[b]
    <3>1. b \in Addr /\ c.heap[b].table = u
      BY <2>1, Tables DEF Seated
    <3>2. b # a
      BY <2>1, <3>1 DEF PlayerOf
    <3>. QED  BY <3>1, <3>2
  <2>. QED  BY <2>2, <2>3
<1>. QED  BY <1>1, <1>2 DEF Keeps

\* A registry where q has given up its seat at table t to nobody.
Unseated(c, e, q, t) ==
  /\ Keeps(c, e, q, {t})
  /\ t \in DOMAIN e.tables /\ DOMAIN e.tables = DOMAIN c.tables
  /\ e.wsPlayer = [c.wsPlayer EXCEPT ![q] = Null]
  /\ e.heap = [c.heap EXCEPT ![c.wsPlayer[q]] = Free]
  /\ \A u \in DOMAIN c.tables \ {t} : e.tables[u] = c.tables[u]
  /\ SeatsOf(e, t) = SeatsOf(c, t) \ {c.wsPlayer[q]}
  /\ IsRegistry(e)

\* Unseating q, which leaves its table to the others.
LEMMA UnseatedKeeps ==
  ASSUME NEW c, NEW o, IsRegistry(c), Seated(c), Alive(c, o), Exact(c),
         NEW q \in Session, c.wsPlayer[q] # Null,
         NEW t, t = PlayerOf(c, q).table
  PROVE  Unseated(c, EraseEntry(Unseat(c, q), q), q, t)
<1>. PICK e : e = EraseEntry(Unseat(c, q), q)
  OBVIOUS
<1>. PICK a : a = c.wsPlayer[q]
  OBVIOUS
<1>1. PlayerOf(c, q) # Free /\ a \in Addr
  BY PlayerSits
<1>. DEFINE d == Unseat(c, q)
<1>2. /\ t \in DOMAIN c.tables /\ a \in SeatsOf(c, t)
      /\ IsRegistry(d) /\ d.wsPlayer = c.wsPlayer
      /\ d.heap = [c.heap EXCEPT ![a] = Free]
      /\ DOMAIN d.tables = DOMAIN c.tables
      /\ \A u \in DOMAIN c.tables \ {t} : d.tables[u] = c.tables[u]
      /\ SeatsOf(d, t) = SeatsOf(c, t) \ {a}
  <2>1. /\ IsRegistry(c) /\ Seated(c) /\ Alive(c, o) /\ q \in Session
        /\ c.wsPlayer[q] # Null /\ a = c.wsPlayer[q] /\ t = PlayerOf(c, q).table
    OBVIOUS
  <2>. QED  BY ONLY <1>1, <2>1, UnseatEffect
<1>3. ASSUME NEW s \in Session \ {q}, c.wsPlayer[s] # Null, PlayerOf(c, s).table = t,
             c.tables[t][1] = c.wsPlayer[s]
      PROVE  d.tables[t][1] = c.wsPlayer[s]
  <2>. DEFINE pi == CHOOSE i \in DOMAIN c.tables[t] : c.tables[t][i] = a
              v == c.tables[t]
  <2>1. v \in Seq(Addr) /\ DOMAIN v = 1..Len(v) /\ Len(v) \in Nat
    BY <1>2, Tables
  <2>2. pi \in DOMAIN v /\ v[pi] = a
    <3>1. \E i \in DOMAIN v : v[i] = a
      BY <1>2 DEF SeatsOf
    <3>. QED  BY <3>1
  <2>3. c.wsPlayer[s] # a
    <3>1. PlayerOf(c, s) = c.heap[c.wsPlayer[s]] /\ PlayerOf(c, s).ws = s
      BY <1>3, PlayerSits
    <3>2. PlayerOf(c, q) = c.heap[a] /\ PlayerOf(c, q).ws = q
      BY PlayerSits
    <3>. QED  BY <3>1, <3>2
  <2>4. d.tables[t] = SwapOut(v, pi)
    <3>1. d = [c EXCEPT !.tables[t] = SwapOut(v, pi), !.heap[a] = Free]
      BY DEF Unseat
    <3>. HIDE DEF pi, v, d
    <3>2. d.tables = [c.tables EXCEPT ![t] = SwapOut(v, pi)]
      BY <3>1 DEF IsRegistry
    <3>. QED  BY <1>2, <3>2 DEF IsRegistry
  <2>. HIDE DEF pi, v, d
  <2>5. pi # 1 /\ Len(v) - 1 >= 1
    BY <1>3, <2>1, <2>2, <2>3 DEF v
  <2>6. SwapOut(v, pi)[1] = v[1]
    <3>1. 1 \in 1..(Len(v) - 1)
      BY <2>1, <2>5
    <3>. QED  BY <2>5, <3>1 DEF SwapOut
  <2>. QED  BY <1>3, <2>4, <2>6 DEF v
<1>. HIDE DEF d
<1>4. /\ IsRegistry(e) /\ e.wsPlayer = [c.wsPlayer EXCEPT ![q] = Null]
      /\ e.heap = d.heap /\ e.tables = d.tables
  <2>1. e = EraseEntry(d, q)
    BY DEF d
  <2>2. /\ IsRegistry(EraseEntry(d, q))
        /\ EraseEntry(d, q).wsPlayer = [d.wsPlayer EXCEPT ![q] = Null]
        /\ EraseEntry(d, q).heap = d.heap /\ EraseEntry(d, q).tables = d.tables
    BY <1>2, EraseEntryEffect
  <2>. QED  BY <1>2, <2>1, <2>2
<1>5. SeatsOf(e, t) = SeatsOf(c, t) \ {a}
  <2>1. SeatsOf(e, t) = SeatsOf(d, t)
    BY ONLY <1>4 DEF SeatsOf
  <2>. QED  BY ONLY <1>2, <2>1
<1>6. \A b \in Addr \ {a} : e.heap[b] = c.heap[b]
  BY <1>1, <1>2, <1>4 DEF IsRegistry
<1>7. t \in DOMAIN e.tables /\ DOMAIN e.tables = DOMAIN c.tables
      /\ \A u \in DOMAIN c.tables \ {t} : u \in DOMAIN e.tables /\ e.tables[u] = c.tables[u]
  BY <1>2, <1>4
<1>8. ASSUME NEW s \in Session \ {q}, c.wsPlayer[s] # Null, PlayerOf(c, s).table = t
      PROVE  /\ t \in DOMAIN e.tables
             /\ c.tables[t][1] = c.wsPlayer[s] => e.tables[t][1] = c.wsPlayer[s]
  BY <1>3, <1>4, <1>7, <1>8
<1>9. Keeps(c, e, q, {t})
  <2>. PICK T : T = {t}
    OBVIOUS
  <2>1. Keeps(c, e, q, T)
    BY <1>4, <1>6, <1>7, <1>8, GoneKeeps
  <2>. QED  BY <2>1
<1>. QED  BY <1>2, <1>4, <1>5, <1>7, <1>9 DEF Unseated

\* Erasing a table at which nobody but maybe q sits.
LEMMA ErasedKeeps ==
  ASSUME NEW c, NEW o, IsRegistry(c), Seated(c), Alive(c, o), Exact(c),
         NEW q \in Session, c.wsPlayer[q] # Null,
         NEW t, t = PlayerOf(c, q).table, SeatsOf(c, t) \subseteq {c.wsPlayer[q]},
         NEW e, e.wsPlayer = [c.wsPlayer EXCEPT ![q] = Null],
         \A b \in Addr \ {c.wsPlayer[q]} : e.heap[b] = c.heap[b],
         e.tables = [u \in DOMAIN c.tables \ {t} |-> c.tables[u]]
  PROVE  Keeps(c, e, q, {})
<1>1. ASSUME NEW s \in Session \ {q}, c.wsPlayer[s] # Null, PlayerOf(c, s).table = t
      PROVE  FALSE
  <2>1. /\ c.wsPlayer[s] \in SeatsOf(c, t)
        /\ PlayerOf(c, s) = c.heap[c.wsPlayer[s]] /\ PlayerOf(c, s).ws = s
    BY <1>1, PlayerSits
  <2>2. PlayerOf(c, q) = c.heap[c.wsPlayer[q]] /\ PlayerOf(c, q).ws = q
    BY PlayerSits
  <2>. QED  BY <2>1, <2>2
<1>2. /\ DOMAIN e.tables \subseteq DOMAIN c.tables /\ t \notin DOMAIN e.tables
      /\ \A u \in DOMAIN c.tables \ {t} : u \in DOMAIN e.tables /\ e.tables[u] = c.tables[u]
  OBVIOUS
<1>3. PICK T : T = {}
  OBVIOUS
<1>4. Keeps(c, e, q, T)
  BY <1>1, <1>2, GoneKeeps
<1>. QED  BY <1>3, <1>4

\* Leaving a seat without closing the table for others.
LEMMA LeftKeeps ==
  ASSUME NEW c, NEW o, Whole(c, o), Exact(c), NEW q \in Session, c.wsPlayer[q] # Null,
         ClosedBy(c, q) = {}, NEW t, t = PlayerOf(c, q).table
  PROVE  /\ IsOwner(c, q) => Keeps(c, LeaveSeat(c, q), q, {})
         /\ ~IsOwner(c, q) =>
              Keeps(c, LeaveSeat(c, q), q, {t}) /\ t \in DOMAIN LeaveSeat(c, q).tables
<1>. IsRegistry(c) /\ Seated(c) /\ Alive(c, o)
  BY DEF Whole
<1>1. CASE ~IsOwner(c, q)
  <2>1. LeaveSeat(c, q) = EraseEntry(Unseat(c, q), q)
    BY <1>1 DEF LeaveSeat
  <2>2. Unseated(c, EraseEntry(Unseat(c, q), q), q, t)
    BY UnseatedKeeps
  <2>. QED  BY <1>1, <2>1, <2>2 DEF Unseated
<1>2. CASE IsOwner(c, q)
  <2>. DEFINE d == EraseTable(c, t)
              e == EraseEntry(d, q)
  <2>1. LeaveSeat(c, q) = e
    BY <1>2 DEF LeaveSeat
  <2>2. SeatsOf(c, t) \subseteq {c.wsPlayer[q]}
    <3>1. {c.heap[b].ws : b \in SeatsOf(c, t) \ {c.wsPlayer[q]}} = {}
      BY <1>2 DEF ClosedBy
    <3>. QED  BY <3>1
  <2>3. t \in DOMAIN c.tables
    BY PlayerSits
  <2>4. /\ IsRegistry(d) /\ d.wsPlayer = c.wsPlayer
        /\ d.heap = [b \in Addr |-> IF b \in SeatsOf(c, t) THEN Free ELSE c.heap[b]]
        /\ d.tables = [u \in DOMAIN c.tables \ {t} |-> c.tables[u]]
    BY <2>3, EraseTableEffect
  <2>. HIDE DEF d
  <2>5. /\ e.wsPlayer = [d.wsPlayer EXCEPT ![q] = Null]
        /\ e.heap = d.heap /\ e.tables = d.tables
    BY <2>4, EraseEntryEffect
  <2>. HIDE DEF e
  <2>6. \A b \in Addr \ {c.wsPlayer[q]} : e.heap[b] = c.heap[b]
    BY <2>2, <2>4, <2>5
  <2>7. /\ e.wsPlayer = [c.wsPlayer EXCEPT ![q] = Null]
        /\ e.tables = [u \in DOMAIN c.tables \ {t} |-> c.tables[u]]
    BY <2>4, <2>5
  <2>8. Keeps(c, e, q, {})
    BY <2>2, <2>6, <2>7, ErasedKeeps
  <2>. QED  BY <1>2, <2>1, <2>8
<1>. QED  BY <1>1, <1>2

\* Erasing the table that q gave up its seat at, if nobody else sits there.
LEMMA BehindKeeps ==
  ASSUME NEW c, NEW o, IsRegistry(c), Seated(c), Alive(c, o), Exact(c),
         NEW q \in Session, c.wsPlayer[q] # Null,
         NEW d, Unseated(c, d, q, PlayerOf(c, q).table),
         d.tables[PlayerOf(c, q).table] = <<>>
  PROVE  LET e == EraseTable(d, PlayerOf(c, q).table)
         IN  /\ Keeps(c, e, q, {}) /\ PlayerOf(c, q).table \notin DOMAIN e.tables
             /\ e.wsPlayer = [c.wsPlayer EXCEPT ![q] = Null]
             /\ DOMAIN e.tables \subseteq DOMAIN c.tables
<1>. PICK t : t = PlayerOf(c, q).table
  OBVIOUS
<1>1. /\ t \in DOMAIN d.tables /\ DOMAIN d.tables = DOMAIN c.tables
      /\ d.wsPlayer = [c.wsPlayer EXCEPT ![q] = Null]
      /\ d.heap = [c.heap EXCEPT ![c.wsPlayer[q]] = Free]
      /\ \A u \in DOMAIN c.tables \ {t} : d.tables[u] = c.tables[u]
      /\ SeatsOf(d, t) = SeatsOf(c, t) \ {c.wsPlayer[q]}
      /\ IsRegistry(d)
  BY DEF Unseated
<1>. DEFINE e == EraseTable(d, t)
<1>2. /\ e.wsPlayer = d.wsPlayer
      /\ e.heap = [b \in Addr |-> IF b \in SeatsOf(d, t) THEN Free ELSE d.heap[b]]
      /\ e.tables = [u \in DOMAIN d.tables \ {t} |-> d.tables[u]]
  <2>1. IsRegistry(d) /\ t \in DOMAIN d.tables
    BY <1>1
  <2>. QED  BY ONLY <2>1, EraseTableEffect
<1>. HIDE DEF e
<1>3. SeatsOf(d, t) = {}
  BY DEF SeatsOf
<1>4. SeatsOf(c, t) \subseteq {c.wsPlayer[q]}
  BY <1>1, <1>3
<1>5. \A b \in Addr \ {c.wsPlayer[q]} : e.heap[b] = c.heap[b]
  <2>1. \A b \in Addr : e.heap[b] = d.heap[b]
    BY <1>2, <1>3
  <2>2. \A b \in Addr \ {c.wsPlayer[q]} : d.heap[b] = c.heap[b]
    BY <1>1 DEF IsRegistry
  <2>. QED  BY <2>1, <2>2
<1>6. e.wsPlayer = [c.wsPlayer EXCEPT ![q] = Null]
  BY <1>1, <1>2
<1>7. e.tables = [u \in DOMAIN c.tables \ {t} |-> c.tables[u]]
  BY <1>1, <1>2
<1>8. Keeps(c, e, q, {})
  BY <1>4, <1>5, <1>6, <1>7, ErasedKeeps
<1>9. t \notin DOMAIN e.tables /\ DOMAIN e.tables \subseteq DOMAIN c.tables
  BY <1>7
<1>. QED  BY <1>6, <1>8, <1>9 DEF e

\* The registry after the end of the session q, which plays.
Ended(c, q) ==
  LET d == EraseEntry(Unseat(c, q), q)
      t == PlayerOf(c, q).table
  IN  IF d.tables[t] = <<>> THEN EraseTable(d, t) ELSE d

\* The end of a session.
LEMMA EndedKeeps ==
  ASSUME NEW c, NEW o, Whole(c, o), Exact(c), NEW q \in Session, c.wsPlayer[q] # Null
  PROVE  LET e == Ended(c, q)
             t == PlayerOf(c, q).table
         IN  /\ t \in DOMAIN e.tables => Keeps(c, e, q, {t})
             /\ t \notin DOMAIN e.tables => Keeps(c, e, q, {})
             /\ e.wsPlayer = [c.wsPlayer EXCEPT ![q] = Null] /\ e.wsPlayer[q] = Null
             /\ DOMAIN e.tables \subseteq DOMAIN c.tables
<1>. IsRegistry(c) /\ Seated(c) /\ Alive(c, o)
  BY DEF Whole
<1>. DEFINE d == EraseEntry(Unseat(c, q), q)
            t == PlayerOf(c, q).table
<1>1. Unseated(c, d, q, t)
  BY UnseatedKeeps
<1>. HIDE DEF d
<1>2. /\ d.wsPlayer = [c.wsPlayer EXCEPT ![q] = Null]
      /\ [c.wsPlayer EXCEPT ![q] = Null][q] = Null
      /\ t \in DOMAIN d.tables /\ DOMAIN d.tables = DOMAIN c.tables /\ Keeps(c, d, q, {t})
  BY <1>1 DEF Unseated, IsRegistry
<1>3. CASE d.tables[t] # <<>>
  <2>1. Ended(c, q) = d
    BY <1>3 DEF Ended, d
  <2>. QED  BY <1>2, <2>1
<1>4. CASE d.tables[t] = <<>>
  <2>1. Ended(c, q) = EraseTable(d, t)
    BY <1>4 DEF Ended, d
  <2>. DEFINE e == EraseTable(d, t)
  <2>2. /\ Keeps(c, e, q, {}) /\ t \notin DOMAIN e.tables
        /\ e.wsPlayer = [c.wsPlayer EXCEPT ![q] = Null]
        /\ DOMAIN e.tables \subseteq DOMAIN c.tables
    BY <1>1, <1>4, BehindKeeps
  <2>. HIDE DEF e
  <2>. QED  BY <1>2, <2>1, <2>2 DEF e
<1>. QED  BY <1>3, <1>4

\* A new player behind the others.
LEMMA SeatedKeeps ==
  ASSUME NEW c, NEW o, IsRegistry(c), Seated(c), Alive(c, o), Exact(c),
         NEW q \in Session, c.wsPlayer[q] = Null,
         NEW t, NEW a \in Addr, c.heap[a] = Free, NEW d, Seating(c, d, q, t, a),
         t \in DOMAIN c.tables => d.tables[t][1] = c.tables[t][1]
  PROVE  /\ Keeps(c, d, q, {t})
         /\ d.wsPlayer[q] = a /\ d.wsPlayer[q] # Null /\ PlayerOf(d, q).table = t
<1>1. /\ d.wsPlayer = [c.wsPlayer EXCEPT ![q] = a] /\ NewPlayer(c, d.heap, a, q, t)
      /\ DOMAIN d.tables = DOMAIN c.tables \cup {t}
      /\ \A u \in DOMAIN c.tables \ {t} : d.tables[u] = c.tables[u]
  BY DEF Seating
<1>2. d.wsPlayer[q] = a /\ d.wsPlayer[q] # Null /\ PlayerOf(d, q).table = t
  <2>1. d.wsPlayer[q] = a
    BY <1>1 DEF IsRegistry
  <2>2. d.heap[a] # Free /\ d.heap[a].table = t
    BY <1>1 DEF NewPlayer
  <2>. QED  BY <2>1, <2>2, NullAssumption DEF PlayerOf
<1>3. \A b \in Addr : c.heap[b] # Free => d.heap[b] = c.heap[b]
  BY <1>1 DEF NewPlayer
<1>4. ASSUME NEW s \in Session \ {q}, c.wsPlayer[s] # Null \/ d.wsPlayer[s] # Null
      PROVE  /\ d.wsPlayer[s] = c.wsPlayer[s]
             /\ PlayerOf(d, s) = PlayerOf(c, s)
             /\ PlayerOf(c, s).table \in DOMAIN d.tables
             /\ IsOwner(c, s) => IsOwner(d, s)
  <2>1. d.wsPlayer[s] = c.wsPlayer[s] /\ c.wsPlayer[s] # Null
    BY <1>1, <1>4 DEF IsRegistry
  <2>2. /\ c.wsPlayer[s] \in Addr /\ PlayerOf(c, s) = c.heap[c.wsPlayer[s]]
        /\ PlayerOf(c, s) # Free /\ PlayerOf(c, s).table \in DOMAIN c.tables
    BY <2>1, PlayerSits
  <2>3. PlayerOf(d, s) = PlayerOf(c, s)
    BY <1>3, <2>1, <2>2 DEF PlayerOf
  <2>4. d.tables[PlayerOf(c, s).table][1] = c.tables[PlayerOf(c, s).table][1]
    BY <1>1, <2>2
  <2>. QED  BY <1>1, <2>1, <2>2, <2>3, <2>4 DEF IsOwner
<1>5. ASSUME NEW u \in DOMAIN d.tables \ {t}
      PROVE  /\ SeatsOf(d, u) = SeatsOf(c, u)
             /\ \A b \in SeatsOf(c, u) : d.heap[b] = c.heap[b]
  <2>1. u \in DOMAIN c.tables /\ d.tables[u] = c.tables[u]
    BY <1>1
  <2>2. SeatsOf(d, u) = SeatsOf(c, u)
    BY <2>1 DEF SeatsOf
  <2>3. ASSUME NEW b \in SeatsOf(c, u)  PROVE d.heap[b] = c.heap[b]
    <3>1. b \in Addr /\ c.heap[b] # Free
      BY <2>1, Tables DEF Seated
    <3>. QED  BY <1>3, <3>1
  <2>. QED  BY <2>2, <2>3
<1>. QED  BY <1>2, <1>4, <1>5 DEF Keeps

\* The owner of a new table has its first seat.
LEMMA FirstSeat ==
  ASSUME NEW c, IsRegistry(c), NEW s \in Session, NEW t \in Name, NEW a \in Addr
  PROVE  AddTable(Allocate(c, a, s, t, t), t, a).tables[t] = <<a>>
<1>1. PICK d : d = Allocate(c, a, s, t, t)
  OBVIOUS
<1>2. IsRegistry(d)
  <2>1. IsRegistry(Allocate(c, a, s, t, t))
    BY AllocateEffect
  <2>. QED  BY <1>1, <2>1
<1>3. AddTable(d, t, a).tables
        = [u \in DOMAIN d.tables \cup {t} |-> IF u = t THEN <<a>> ELSE d.tables[u]]
  BY <1>2 DEF AddTable, IsRegistry
<1>. QED  BY <1>1, <1>3

\* Who joins leaves the owner's seat alone.
LEMMA LaterSeat ==
  ASSUME NEW c, IsRegistry(c), NEW s \in Session, NEW t \in Name, t \in DOMAIN c.tables,
         Len(c.tables[t]) # 0, NEW n \in Name, NEW a \in Addr
  PROVE  AddSeat(Allocate(c, a, s, t, n), t, a).tables[t][1] = c.tables[t][1]
<1>. DEFINE d == Allocate(c, a, s, t, n)
<1>2. c.tables[t] \in Seq(Addr) /\ Len(c.tables[t]) \in Nat
  BY Tables
<1>3. /\ IsRegistry(d) /\ d.wsPlayer = [c.wsPlayer EXCEPT ![s] = a]
      /\ d.heap = [c.heap EXCEPT ![a] = [name |-> n, table |-> t, ws |-> s]]
      /\ d.tables = c.tables
  BY AllocateEffect
<1>. HIDE DEF d
<1>4. AddSeat(d, t, a).tables = [d.tables EXCEPT ![t] = Append(d.tables[t], a)]
  BY <1>3 DEF AddSeat, IsRegistry
<1>5. AddSeat(d, t, a).tables[t] = Append(c.tables[t], a)
  BY <1>3, <1>4
<1>6. 1 \in 1..Len(c.tables[t])
  BY <1>2
<1>7. Append(c.tables[t], a)[1] = c.tables[t][1]
  BY <1>2, <1>6, AppendProperties
<1>. QED  BY <1>5, <1>7 DEF d

\* Leaving a seat makes no table, and only the owner takes its table down.
LEMMA LeftTables ==
  ASSUME NEW c, NEW o, Whole(c, o), NEW q \in Session,
         c.wsPlayer[q] # Null => PlayerOf(c, q) # Free
  PROVE  /\ DOMAIN LeaveSeat(c, q).tables \subseteq DOMAIN c.tables
         /\ c.wsPlayer[q] # Null /\ ~IsOwner(c, q) =>
              PlayerOf(c, q).table \in DOMAIN LeaveSeat(c, q).tables
<1>. IsRegistry(c) /\ Seated(c) /\ Alive(c, o)
  BY DEF Whole
<1>1. CASE c.wsPlayer[q] = Null
  BY <1>1 DEF LeaveSeat
<1>2. CASE c.wsPlayer[q] # Null
  <2>. PICK t : t = PlayerOf(c, q).table
    OBVIOUS
  <2>1. t \in DOMAIN c.tables
    <3>1. PICK a : a = c.wsPlayer[q]
      OBVIOUS
    <3>. QED  BY <1>2, <3>1, UnseatEffect
  <2>2. CASE IsOwner(c, q)
    <3>1. PICK d : d = EraseTable(c, t)
      OBVIOUS
    <3>2. IsRegistry(d) /\ d.tables = [u \in DOMAIN c.tables \ {t} |-> c.tables[u]]
      BY <2>1, <3>1, EraseTableEffect
    <3>3. LeaveSeat(c, q) = EraseEntry(d, q)
      BY <1>2, <2>2, <3>1 DEF LeaveSeat
    <3>4. EraseEntry(d, q).tables = d.tables
      BY <3>2, EraseEntryEffect
    <3>. QED  BY <2>2, <3>2, <3>3, <3>4
  <2>3. CASE ~IsOwner(c, q)
    <3>1. PICK d : d = Unseat(c, q)
      OBVIOUS
    <3>2. IsRegistry(d) /\ DOMAIN d.tables = DOMAIN c.tables
      <4>1. PICK a : a = c.wsPlayer[q]
        OBVIOUS
      <4>. QED  BY <1>2, <3>1, <4>1, UnseatEffect
    <3>3. LeaveSeat(c, q) = EraseEntry(d, q)
      BY <1>2, <2>3, <3>1 DEF LeaveSeat
    <3>4. EraseEntry(d, q).tables = d.tables
      BY <3>2, EraseEntryEffect
    <3>. QED  BY <2>1, <3>2, <3>3, <3>4
  <2>. QED  BY <2>2, <2>3
<1>. QED  BY <1>1, <1>2
-----------------------------------------------------------------------------
(* What the server tells.                                                  *)

\* The parts of a GSTATE.
LEMMA GStateTyped ==
  ASSUME NEW c, IsRegistry(c), Seated(c), NEW r, NEW t \in Name, t \in DOMAIN c.tables,
         IsRoom(r[t])
  PROVE  /\ GState(c, r, t) \in Message /\ GState(c, r, t).cmd = "GSTATE"
         /\ GState(c, r, t).game \in Game
         /\ GState(c, r, t).game.gstate = r[t].gstate /\ GState(c, r, t).game.id = r[t].id
<1>. DEFINE names == {c.heap[a].name : a \in SeatsOf(c, t)}
            g == [id |-> r[t].id, gstate |-> r[t].gstate, names |-> names]
<1>1. names \subseteq Name
  <2>1. ASSUME NEW a \in SeatsOf(c, t)  PROVE c.heap[a].name \in Name
    <3>1. a \in Addr /\ c.heap[a] # Free
      BY Tables DEF Seated
    <3>2. c.heap[a] \in Object
      BY <3>1 DEF IsRegistry
    <3>. QED  BY <3>2 DEF Object
  <2>. QED  BY <2>1
<1>2. r[t].id \in Nat /\ r[t].gstate \in Int
  BY DEF IsRoom
<1>. HIDE DEF names
<1>3. g \in Game /\ g.gstate = r[t].gstate /\ g.id = r[t].id
  BY <1>1, <1>2 DEF Game
<1>4. GState(c, r, t) = [cmd |-> "GSTATE", game |-> g]
  BY DEF GState, names
<1>. HIDE DEF g
<1>5. [cmd |-> "GSTATE", game |-> g] \in Message
  BY <1>3 DEF Message
<1>. QED  BY <1>3, <1>4, <1>5

\* What is pushed to some.
LEMMA Pushed ==
  ASSUME NEW d \in [Session -> Seq(Message)], NEW to, NEW m \in Message
  PROVE  /\ Push(d, to, m) \in [Session -> Seq(Message)]
         /\ \A q \in Session : Push(d, to, m)[q] = IF q \in to THEN Append(d[q], m) ELSE d[q]
<1>1. ASSUME NEW q \in Session  PROVE Append(d[q], m) \in Seq(Message)
  <2>1. d[q] \in Seq(Message)
    OBVIOUS
  <2>. QED  BY <2>1, AppendProperties
<1>. QED  BY <1>1 DEF Push

\* UpdateTableGstate sends messages, whoever plays.
LEMMA UpdatedType ==
  ASSUME NEW c, IsRegistry(c), Seated(c), NEW r, NEW t \in Name, t \in DOMAIN c.tables,
         IsRoom(r[t]), NEW d \in [Session -> Seq(Message)]
  PROVE  UpdateTableGstate(d, c, r, t) \in [Session -> Seq(Message)]
<1>. PICK to : to = {c.heap[a].ws : a \in SeatsOf(c, t)}
  OBVIOUS
<1>. PICK m : m = GState(c, r, t)
  OBVIOUS
<1>1. m \in Message
  BY GStateTyped
<1>2. Push(d, to, m) \in [Session -> Seq(Message)]
  BY <1>1, Pushed
<1>. QED  BY <1>2 DEF UpdateTableGstate

\* UpdateTableGstate appends the state of the game for those who play there.
LEMMA Updated ==
  ASSUME NEW c, NEW o, IsRegistry(c), Seated(c), Alive(c, o), Exact(c),
         NEW r, NEW t \in Name, t \in DOMAIN c.tables, IsRoom(r[t]),
         NEW d \in [Session -> Seq(Message)]
  PROVE  \A q \in Session :
           UpdateTableGstate(d, c, r, t)[q]
             = IF c.wsPlayer[q] # Null /\ PlayerOf(c, q).table = t
                 THEN Append(d[q], GState(c, r, t)) ELSE d[q]
<1>. PICK to : to = {c.heap[a].ws : a \in SeatsOf(c, t)}
  OBVIOUS
<1>. PICK m : m = GState(c, r, t)
  OBVIOUS
<1>1. m \in Message
  BY GStateTyped
<1>2. UpdateTableGstate(d, c, r, t) = Push(d, to, m)
  BY DEF UpdateTableGstate
<1>3. \A q \in Session : q \in to <=> c.wsPlayer[q] # Null /\ PlayerOf(c, q).table = t
  BY WhoIsTold
<1>4. \A q \in Session : Push(d, to, m)[q] = IF q \in to THEN Append(d[q], m) ELSE d[q]
  BY <1>1, Pushed
<1>. QED  BY <1>2, <1>3, <1>4

\* A window stays right if the state of its game stays, or is told.
LEMMA StaysRight ==
  ASSUME NEW c, NEW e, NEW r, NEW r2, NEW q, NEW u, NEW own,
         NEW d \in Seq(Message), NEW d2,
         Right(c, r, u, d, own, q),
         e.wsPlayer[q] # Null =>
           /\ c.wsPlayer[q] # Null /\ PlayerOf(e, q).table = PlayerOf(c, q).table
           /\ IsOwner(c, q) => IsOwner(e, q)
           /\ LET m == GState(e, r2, PlayerOf(e, q).table)
              IN  \/ d2 = d /\ m.game = GState(c, r, PlayerOf(c, q).table).game
                  \/ /\ m \in Message /\ m.cmd = "GSTATE" /\ m.game \in Game
                     /\ d2 = Append(d, m)
  PROVE  Right(e, r2, u, d2, own, q)
<1>. SUFFICES ASSUME e.wsPlayer[q] # Null
     PROVE  /\ Title(u, d2, PlayerOf(e, q).table, own)
            /\ Drawn(u, d2, GState(e, r2, PlayerOf(e, q).table).game)
            /\ own => IsOwner(e, q)
  BY DEF Right
<1>. PICK t : t = PlayerOf(e, q).table
  OBVIOUS
<1>. PICK m : m = GState(e, r2, t)
  OBVIOUS
<1>1. /\ Title(u, d, t, own) /\ Drawn(u, d, GState(c, r, t).game)
      /\ own => IsOwner(e, q)
  BY DEF Right
<1>2. \/ d2 = d /\ m.game = GState(c, r, t).game
      \/ m \in Message /\ m.cmd = "GSTATE" /\ m.game \in Game /\ d2 = Append(d, m)
  OBVIOUS
<1>3. CASE d2 = d /\ m.game = GState(c, r, t).game
  BY <1>1, <1>3
<1>4. CASE m \in Message /\ m.cmd = "GSTATE" /\ m.game \in Game /\ d2 = Append(d, m)
  <2>1. Title(u, Append(d, m), t, own) /\ Drawn(u, Append(d, m), m.game)
    BY <1>1, <1>4, GStateSent
  <2>. QED  BY <1>1, <1>4, <2>1
<1>. QED  BY <1>2, <1>3, <1>4

\* The state of the game is the same where the players and the room are.
LEMMA SameGState ==
  ASSUME NEW c, NEW e, NEW r, NEW r2, NEW t, r2[t] = r[t], SeatsOf(e, t) = SeatsOf(c, t),
         \A a \in SeatsOf(c, t) : e.heap[a] = c.heap[a]
  PROVE  GState(e, r2, t) = GState(c, r, t)
BY DEF GState

\* Those at tables that change neither players nor room need not be told.
LEMMA AwayRight ==
  ASSUME NEW c, NEW e, NEW s \in Session, NEW T, Keeps(c, e, s, T), NEW r, NEW r2,
         \A t \in DOMAIN e.tables \ T : r2[t] = r[t],
         NEW q \in Session, q # s, NEW u, NEW own, NEW d \in Seq(Message),
         Right(c, r, u, d, own, q),
         e.wsPlayer[q] # Null => PlayerOf(e, q).table \notin T
  PROVE  Right(e, r2, u, d, own, q)
<1>. SUFFICES ASSUME e.wsPlayer[q] # Null
     PROVE  /\ c.wsPlayer[q] # Null /\ PlayerOf(e, q).table = PlayerOf(c, q).table
            /\ IsOwner(c, q) => IsOwner(e, q)
            /\ GState(e, r2, PlayerOf(e, q).table).game = GState(c, r, PlayerOf(c, q).table).game
  BY StaysRight
<1>1. /\ e.wsPlayer[q] = c.wsPlayer[q] /\ PlayerOf(e, q) = PlayerOf(c, q)
      /\ PlayerOf(c, q).table \in DOMAIN e.tables
      /\ IsOwner(c, q) => IsOwner(e, q)
  BY DEF Keeps
<1>. PICK t : t = PlayerOf(c, q).table
  OBVIOUS
<1>2. t \in DOMAIN e.tables \ T
  BY <1>1
<1>3. /\ SeatsOf(e, t) = SeatsOf(c, t) /\ r2[t] = r[t]
      /\ \A a \in SeatsOf(c, t) : e.heap[a] = c.heap[a]
  BY <1>2 DEF Keeps
<1>4. GState(e, r2, t) = GState(c, r, t)
  BY <1>3, SameGState
<1>. QED  BY <1>1, <1>4

\* Those at a table that changes are told.
LEMMA ToldRight ==
  ASSUME NEW c, NEW e, NEW o, IsRegistry(e), Seated(e), Alive(e, o), Exact(e),
         NEW s \in Session, NEW t \in Name, t \in DOMAIN e.tables, Keeps(c, e, s, {t}),
         NEW r, NEW r2, \A v \in DOMAIN e.tables \ {t} : r2[v] = r[v], IsRoom(r2[t]),
         NEW d \in [Session -> Seq(Message)],
         NEW q \in Session, q # s, NEW u, NEW own, Right(c, r, u, d[q], own, q)
  PROVE  Right(e, r2, u, UpdateTableGstate(d, e, r2, t)[q], own, q)
<1>. PICK d2 : d2 = UpdateTableGstate(d, e, r2, t)[q]
  OBVIOUS
<1>. PICK b : b = d[q]
  OBVIOUS
<1>1. b \in Seq(Message) /\ Right(c, r, u, b, own, q)
  OBVIOUS
<1>2. d2 = IF e.wsPlayer[q] # Null /\ PlayerOf(e, q).table = t
             THEN Append(b, GState(e, r2, t)) ELSE b
  BY Updated
<1>3. CASE e.wsPlayer[q] # Null /\ PlayerOf(e, q).table = t
  <2>1. /\ e.wsPlayer[q] = c.wsPlayer[q] /\ PlayerOf(e, q) = PlayerOf(c, q)
        /\ IsOwner(c, q) => IsOwner(e, q)
    BY <1>3 DEF Keeps
  <2>. PICK m : m = GState(e, r2, t)
    OBVIOUS
  <2>2. m \in Message /\ m.cmd = "GSTATE" /\ m.game \in Game
    BY GStateTyped
  <2>3. Right(e, r2, u, Append(b, m), own, q)
    BY <1>1, <1>3, <2>1, <2>2, StaysRight
  <2>. QED  BY <1>2, <1>3, <2>3
<1>4. CASE ~(e.wsPlayer[q] # Null /\ PlayerOf(e, q).table = t)
  <2>. PICK T : T = {t}
    OBVIOUS
  <2>1. Keeps(c, e, s, T) /\ \A v \in DOMAIN e.tables \ T : r2[v] = r[v]
    OBVIOUS
  <2>2. e.wsPlayer[q] # Null => PlayerOf(e, q).table \notin T
    BY <1>4
  <2>3. Right(e, r2, u, b, own, q)
    BY <1>1, <2>1, <2>2, AwayRight
  <2>. QED  BY <1>2, <1>4, <2>3
<1>. QED  BY <1>3, <1>4

\* The rooms count where s plays.
LEMMA RoomRight ==
  ASSUME NEW c, NEW r, NEW r2, NEW q, NEW u, NEW own, NEW d, Right(c, r, u, d, own, q),
         c.wsPlayer[q] # Null => r2[PlayerOf(c, q).table] = r[PlayerOf(c, q).table]
  PROVE  Right(c, r2, u, d, own, q)
<1>1. c.wsPlayer[q] # Null =>
        GState(c, r2, PlayerOf(c, q).table) = GState(c, r, PlayerOf(c, q).table)
  BY DEF GState
<1>. QED  BY <1>1 DEF Right
-----------------------------------------------------------------------------
(* What the clients send.                                                  *)

\* The command of a new table.
LEMMA NewTableLine ==
  ASSUME NEW t \in Name, NEW p \in Password, NEW q \in Password
  PROVE  LET m == Request(Form("ntbl", t, t, p, q), NoName)
         IN  m \in Line /\ m.op = "ntbl" /\ m.words[2] = t
<1>. DEFINE f == Form("ntbl", t, t, p, q)
<1>1. f.op = "ntbl" /\ f.table = t
  BY DEF Form
<1>. DEFINE flag == Digits[PwFlags(f, Empty) + 1]
<1>2. QtWords(f) = <<"ntbl", t>> \o <<flag, f.tpass, f.pass>>
  BY <1>1 DEF QtWords, Start
<1>. HIDE DEF f, flag
<1>3. (<<"ntbl", t>> \o <<flag, f.tpass, f.pass>>)[2] = t
  OBVIOUS
<1>4. Request(f, NoName).op = "ntbl" /\ Request(f, NoName).words[2] = t
  BY <1>1, <1>2, <1>3 DEF Request
<1>5. Request(f, NoName) \in Line
  BY DEF f, Line, Asked
<1>. QED  BY <1>4, <1>5 DEF f

\* The command of a join; u is the title of the dialog.
LEMMA JoinLine ==
  ASSUME NEW u \in Name, NEW t \in Name, NEW n \in Name, NEW p \in Password, NEW q \in Password
  PROVE  LET m == Request(Form("join", t, n, p, q), u)
         IN  m \in Line /\ m.op = "join" /\ m.words[2] = t /\ m.words[3] = n
<1>. DEFINE f == Form("join", t, n, p, q)
<1>1. f.op = "join" /\ f.table = t /\ f.name = n
  BY DEF Form
<1>. DEFINE flag == Digits[PwFlags(f, Empty) + 1]
<1>2. QtWords(f) = <<"join", t, n>> \o <<flag, f.tpass, f.pass>>
  BY <1>1 DEF QtWords, Start
<1>. HIDE DEF f, flag
<1>3. /\ (<<"join", t, n>> \o <<flag, f.tpass, f.pass>>)[2] = t
      /\ (<<"join", t, n>> \o <<flag, f.tpass, f.pass>>)[3] = n
  OBVIOUS
<1>4. /\ Request(f, u).op = "join"
      /\ Request(f, u).words[2] = t /\ Request(f, u).words[3] = n
  BY <1>1, <1>2, <1>3 DEF Request
<1>5. Request(f, u) \in Line
  BY DEF f, Line, Asked
<1>. QED  BY <1>4, <1>5 DEF f

\* The words that the server takes for names are names.
LEMMA Worded ==
  ASSUME NEW m \in Line
  PROVE  /\ m.op = "ntbl" => m.words[2] \in Name
         /\ m.op = "join" => m.words[2] \in Name /\ m.words[3] \in Name
<1>1. CASE m \in GameCommand
  BY <1>1 DEF GameCommand
<1>2. CASE m \in [op : {"tbls"}]
  BY <1>2
<1>3. ASSUME NEW t \in Name, NEW p \in Password, NEW q \in Password,
             m = Request(Form("ntbl", t, t, p, q), NoName)
      PROVE  m.op = "ntbl" /\ m.words[2] = t
  BY <1>3, NewTableLine
<1>4. ASSUME NEW u \in Name, NEW t \in Name, NEW n \in Name, NEW p \in Password,
             NEW q \in Password, m = Request(Form("join", t, n, p, q), u)
      PROVE  m.op = "join" /\ m.words[2] = t /\ m.words[3] = n
  BY <1>4, JoinLine
<1>5. CASE m \in {Request(Form("ntbl", t, t, p, q), NoName) : t \in Name, p \in Password, q \in Password}
  <2>1. PICK t \in Name, p \in Password, q \in Password : m = Request(Form("ntbl", t, t, p, q), NoName)
    BY <1>5
  <2>2. m.op = "ntbl" /\ m.words[2] = t
    BY <1>3, <2>1
  <2>. QED  BY <2>2
<1>6. CASE m \in {Request(Form("join", t, n, p, q), u) :
                   u \in Name, t \in Name, n \in Name, p \in Password, q \in Password}
  <2>1. PICK u \in Name, t \in Name, n \in Name, p \in Password, q \in Password :
          m = Request(Form("join", t, n, p, q), u)
    BY <1>6
  <2>2. m.op = "join" /\ m.words[2] = t /\ m.words[3] = n
    BY <1>4, <2>1
  <2>. QED  BY <2>2
<1>. QED  BY <1>1, <1>2, <1>5, <1>6 DEF Line, Asked
-----------------------------------------------------------------------------
(* The steps of the clients.                                               *)

\* The registry alone.
LEMMA ClubStays == IInv /\ UNCHANGED vars => IInv'
BY ClubNext

\* What counts of a window is its title, its button and its game.
LEMMA SameWindow ==
  ASSUME NEW c, NEW r, NEW u, NEW v, NEW d, NEW own, NEW s, Right(c, r, u, d, own, s),
         v.at = u.at, v.mayStart = u.mayStart, v.game = u.game
  PROVE  Right(c, r, v, d, own, s)
BY DEF Right, Title, Drawn

\* A client sends m, which is meant, and maybe lists or captures something.
LEMMA SendStep ==
  ASSUME QtIInv, NEW s \in Session, NEW m \in Line, Send(s, m),
         ui' \in [Session -> Window],
         \A q \in Session : /\ ui'[q].at = ui[q].at /\ ui'[q].mayStart = ui[q].mayStart
                            /\ ui'[q].game = ui[q].game,
         ~evicted /\ m.op \in {"gnew", "move"} /\ m.settled =>
           /\ \A k \in DOMAIN up[s] : up[s][k].op \notin {"ntbl", "join"}
           /\ club.wsPlayer[s] # Null /\ m.op = "move" =>
                m.id = rooms[TableOf(s)].id \/ m.gstate = -1
           /\ club.wsPlayer[s] # Null /\ m.op = "gnew" => told[s] = "owner"
  PROVE  QtIInv'
<1>1. /\ UNCHANGED vars /\ rooms' = rooms /\ made' = made /\ down' = down
      /\ up' = [up EXCEPT ![s] = Append(@, m)]
      /\ club' = club /\ told' = told /\ evicted' = evicted
  BY DEF Send, vars
<1>2. IInv'
  BY <1>1, ClubStays DEF QtIInv
<1>3. up \in [Session -> Seq(Line)] /\ up[s] \in Seq(Line)
  BY DEF QtIInv, QtTypeOK
<1>4. up' \in [Session -> Seq(Line)]
  <2>1. Append(up[s], m) \in Seq(Line)
    BY <1>3, AppendProperties
  <2>. QED  BY <1>1, <1>3, <2>1
<1>5. QtTypeOK'
  BY <1>1, <1>4 DEF QtIInv, QtTypeOK
<1>6. ASSUME ~evicted', NEW q \in Session  PROVE InStep(q)' /\ MeantAt(q)'
  <2>1. InStep(q) /\ MeantAt(q)
    BY <1>1, <1>6 DEF QtIInv
  <2>2. InStep(q)'
    <3>1. Right(club, rooms, ui[q], down[q], told[q] = "owner", q)
      BY <2>1 DEF InStep
    <3>2. Right(club, rooms, ui'[q], down[q], told[q] = "owner", q)
      BY <3>1, SameWindow
    <3>. QED  BY <1>1, <3>2 DEF InStep
  <2>3. MeantAt(q)'
    <3>1. Meant(up[q], club.wsPlayer[q] # Null, rooms[TableOf(q)].id, told[q] = "owner")
      BY <2>1 DEF MeantAt
    <3>2. Meant(up'[q], club.wsPlayer[q] # Null, rooms[TableOf(q)].id, told[q] = "owner")
      <4>1. CASE q # s
        BY <1>1, <1>3, <3>1, <4>1
      <4>2. CASE q = s
        <5>. PICK id : id = rooms[TableOf(s)].id
          OBVIOUS
        <5>1. Meant(Append(up[s], m), club.wsPlayer[s] # Null, id, told[s] = "owner")
          BY <1>1, <1>3, <1>6, <3>1, <4>2, MeantSent
        <5>. QED  BY <1>1, <1>3, <4>2, <5>1
      <4>. QED  BY <4>1, <4>2
    <3>. QED  BY <1>1, <3>2 DEF MeantAt, TableOf
  <2>. QED  BY <2>2, <2>3
<1>. QED  BY <1>2, <1>5, <1>6 DEF QtIInv

\* What a client asks for that is no command of the game.
LEMMA AskStep ==
  ASSUME QtIInv, NEW s \in Session, Ask(s)
  PROVE  QtIInv'
<1>0. ui \in [Session -> Window]
  BY DEF QtIInv, QtTypeOK
<1>1. ASSUME NEW m \in Line, Send(s, m), m.op \notin {"gnew", "move"}, UNCHANGED ui
      PROVE  QtIInv'
  BY <1>0, <1>1, SendStep
<1>2. CASE ClubRefresh(s)
  <2>. PICK m : m = [op |-> "tbls"]
    OBVIOUS
  <2>1. m \in Line /\ m.op \notin {"gnew", "move"}
    BY DEF Line, Asked
  <2>2. Send(s, m) /\ UNCHANGED ui
    BY <1>2 DEF ClubRefresh
  <2>. QED  BY <1>1, <2>1, <2>2
<1>3. ASSUME NEW t \in Name, NEW p \in Password, NEW q \in Password, AcceptNewTable(s, t, p, q)
      PROVE  QtIInv'
  <2>. PICK m : m = Request(Form("ntbl", t, t, p, q), NoName)
    OBVIOUS
  <2>1. m \in Line /\ m.op \notin {"gnew", "move"}
    BY NewTableLine
  <2>2. Send(s, m) /\ UNCHANGED ui
    BY <1>3 DEF AcceptNewTable
  <2>. QED  BY <1>1, <2>1, <2>2
<1>4. ASSUME NEW t \in Name, OpenJoinTableDialog(s, t)
      PROVE  /\ ui' \in [Session -> Window]
             /\ \A q \in Session : /\ ui'[q].at = ui[q].at /\ ui'[q].mayStart = ui[q].mayStart
                                   /\ ui'[q].game = ui[q].game
             /\ ui'[s].first \in Name
  <2>. PICK f : f = IF ui[s].first = NoName THEN t ELSE ui[s].first
    OBVIOUS
  <2>. PICK w : w = [ui[s] EXCEPT !.first = f]
    OBVIOUS
  <2>1. ui' = [ui EXCEPT ![s] = w]
    BY <1>4 DEF OpenJoinTableDialog
  <2>2. ui[s] \in Window
    BY <1>0
  <2>3. f \in Name
    BY <2>2 DEF Window
  <2>4. /\ w \in Window /\ w.at = ui[s].at /\ w.mayStart = ui[s].mayStart
        /\ w.game = ui[s].game /\ w.first = f
    BY <2>2, <2>3 DEF Window
  <2>. QED  BY <1>0, <2>1, <2>3, <2>4
<1>5. ASSUME NEW t \in Name, NEW n \in Name, NEW p \in Password, NEW q \in Password,
             AcceptJoinTable(s, t, n, p, q)
      PROVE  QtIInv'
  <2>1. /\ ui' \in [Session -> Window]
        /\ \A v \in Session : /\ ui'[v].at = ui[v].at /\ ui'[v].mayStart = ui[v].mayStart
                              /\ ui'[v].game = ui[v].game
        /\ ui'[s].first \in Name
    BY <1>4, <1>5 DEF AcceptJoinTable
  <2>. PICK f \in Name : f = ui'[s].first
    BY <2>1
  <2>. PICK m : m = Request(Form("join", f, n, p, q), t)
    OBVIOUS
  <2>2. m \in Line /\ m.op = "join"
    BY JoinLine
  <2>3. Send(s, m)
    BY <1>5 DEF AcceptJoinTable
  <2>. QED  BY <2>1, <2>2, <2>3, SendStep
<1>6. ASSUME NEW t \in Name, CancelJoinTable(s, t)  PROVE QtIInv'
  <2>1. /\ ui' \in [Session -> Window]
        /\ \A v \in Session : /\ ui'[v].at = ui[v].at /\ ui'[v].mayStart = ui[v].mayStart
                              /\ ui'[v].game = ui[v].game
    BY <1>4, <1>6 DEF CancelJoinTable
  <2>2. /\ UNCHANGED vars /\ rooms' = rooms /\ made' = made /\ up' = up /\ down' = down
        /\ club' = club /\ told' = told /\ evicted' = evicted
    BY <1>6 DEF CancelJoinTable, vars
  <2>3. IInv'
    BY <2>2, ClubStays DEF QtIInv
  <2>4. QtTypeOK'
    BY <2>1, <2>2 DEF QtIInv, QtTypeOK
  <2>5. ASSUME ~evicted', NEW q \in Session  PROVE InStep(q)' /\ MeantAt(q)'
    <3>1. InStep(q) /\ MeantAt(q)
      BY <2>2, <2>5 DEF QtIInv
    <3>2. Right(club, rooms, ui'[q], down[q], told[q] = "owner", q)
      BY <2>1, <3>1, SameWindow DEF InStep
    <3>. QED  BY <2>2, <3>1, <3>2 DEF InStep, MeantAt, TableOf
  <2>. QED  BY <2>3, <2>4, <2>5 DEF QtIInv
<1>. QED  BY <1>2, <1>3, <1>5, <1>6 DEF Ask

\* In peace, what a client knows is what the server holds.
LEMMA Peace ==
  ASSUME QtIInv, ~evicted, NEW s \in Session, Settled(s), club.wsPlayer[s] # Null
  PROVE  /\ ui[s].mayStart <=> told[s] = "owner"
         /\ ui[s].game.id = rooms[TableOf(s)].id \/ ui[s].game.gstate = -1
<1>. PICK u, d, t : u = ui[s] /\ d = down[s] /\ t = TableOf(s)
  OBVIOUS
<1>0. /\ Title(u, d, t, told[s] = "owner")
      /\ Drawn(u, d, GState(club, rooms, t).game)
  BY DEF QtIInv, InStep, Right, TableOf
<1>1. d \in Seq(Message) /\ \A n \in DOMAIN d : d[n].cmd = "GSTATE" /\ d[n].game.id = u.game.id
  BY DEF Settled, QtIInv, QtTypeOK
<1>2. GState(club, rooms, t).game.id = rooms[t].id
  BY DEF GState
<1>3. u.mayStart <=> told[s] = "owner"
  <2>1. Lacks(d, Moving)
    BY <1>1 DEF Lacks, Moving
  <2>. QED  BY <1>0, <2>1 DEF Title
<1>4. CASE d = <<>>
  <2>1. Lacks(d, Showing)
    BY <1>4 DEF Lacks
  <2>. QED  BY <1>0, <1>2, <1>3, <2>1 DEF Drawn, NoGame
<1>5. CASE d # <<>>
  <2>1. Len(d) \in Nat \ {0} /\ DOMAIN d = 1..Len(d)
    BY <1>1, <1>5, LenProperties, EmptySeq
  <2>2. Len(d) \in DOMAIN d /\ \A k \in DOMAIN d : ~(k > Len(d))
    BY <2>1
  <2>3. FinalOf(d, Showing, Len(d)) /\ d[Len(d)].cmd = "GSTATE"
    BY <1>1, <2>2 DEF FinalOf, Showing
  <2>4. d[Len(d)].game = GState(club, rooms, t).game
    BY <1>0, <2>2, <2>3 DEF Drawn
  <2>5. d[Len(d)].game.id = u.game.id
    BY <1>1, <2>2
  <2>. QED  BY <1>2, <1>3, <2>4, <2>5
<1>. QED  BY <1>4, <1>5

\* The commands of the game.
LEMMA CommandStep ==
  ASSUME QtIInv, NEW s \in Session, NewGame(s) \/ Move(s)
  PROVE  QtIInv'
<1>. PICK op \in {"gnew", "move"} :
       /\ op = "gnew" => ui[s].mayStart
       /\ Send(s, Command(s, op)) /\ UNCHANGED ui
  BY DEF NewGame, Move
<1>. PICK m : m = Command(s, op)
  OBVIOUS
<1>0. ui \in [Session -> Window] /\ ui[s] \in Window
  BY DEF QtIInv, QtTypeOK
<1>1. /\ m.op = op /\ m.gstate = ui[s].game.gstate /\ m.id = ui[s].game.id
      /\ m.settled <=> Settled(s)
  BY DEF Command
<1>2. m \in Line
  <2>1. ui[s].game.gstate \in Int /\ ui[s].game.id \in Nat
    BY <1>0 DEF Window, Game
  <2>2. Settled(s) \in BOOLEAN
    BY DEF Settled
  <2>. QED  BY <2>1, <2>2 DEF Command, Line, GameCommand
<1>3. Send(s, m)
  OBVIOUS
<1>4. ASSUME ~evicted, m.settled
      PROVE  /\ \A k \in DOMAIN up[s] : up[s][k].op \notin {"ntbl", "join"}
             /\ club.wsPlayer[s] # Null /\ m.op = "move" =>
                  m.id = rooms[TableOf(s)].id \/ m.gstate = -1
             /\ club.wsPlayer[s] # Null /\ m.op = "gnew" => told[s] = "owner"
  <2>1. Settled(s)
    BY <1>1, <1>4
  <2>2. \A k \in DOMAIN up[s] : up[s][k].op \notin {"ntbl", "join"}
    BY <2>1 DEF Settled
  <2>3. ASSUME club.wsPlayer[s] # Null
        PROVE  /\ ui[s].mayStart <=> told[s] = "owner"
               /\ ui[s].game.id = rooms[TableOf(s)].id \/ ui[s].game.gstate = -1
    BY <1>4, <2>1, <2>3, Peace
  <2>. QED  BY <1>1, <2>2, <2>3
<1>5. \A q \in Session : /\ ui'[q].at = ui[q].at /\ ui'[q].mayStart = ui[q].mayStart
                         /\ ui'[q].game = ui[q].game
  OBVIOUS
<1>6. ui' \in [Session -> Window]
  BY <1>0
<1>. QED  BY <1>2, <1>3, <1>4, <1>5, <1>6, SendStep

\* A client receives a message.
LEMMA ReceiveStep ==
  ASSUME QtIInv, NEW s \in Session, OnReceived(s)
  PROVE  QtIInv'
<1>. PICK v, e : v = Show(ui[s], Head(down[s])) /\ e = Tail(down[s])
  OBVIOUS
<1>1. /\ down[s] # <<>> /\ ui' = [ui EXCEPT ![s] = v] /\ down' = [down EXCEPT ![s] = e]
      /\ UNCHANGED vars /\ rooms' = rooms /\ made' = made /\ up' = up
      /\ club' = club /\ told' = told /\ evicted' = evicted
  BY DEF OnReceived, vars
<1>2. IInv'
  BY <1>1, ClubStays DEF QtIInv
<1>3. /\ ui \in [Session -> Window] /\ down \in [Session -> Seq(Message)]
      /\ ui[s] \in Window /\ down[s] \in Seq(Message)
  BY DEF QtIInv, QtTypeOK
<1>4. Head(down[s]) \in Message /\ e \in Seq(Message)
  BY <1>1, <1>3, HeadTailProperties
<1>5. v \in Window
  BY <1>3, <1>4, ShowIs
<1>6. QtTypeOK'
  <2>1. ui' \in [Session -> Window] /\ down' \in [Session -> Seq(Message)]
    BY <1>1, <1>3, <1>4, <1>5
  <2>. QED  BY <1>1, <2>1 DEF QtIInv, QtTypeOK
<1>7. ASSUME ~evicted', NEW q \in Session  PROVE InStep(q)' /\ MeantAt(q)'
  <2>1. InStep(q) /\ MeantAt(q)
    BY <1>1, <1>7 DEF QtIInv
  <2>2. Right(club, rooms, ui'[q], down'[q], told[q] = "owner", q)
    <3>1. CASE q # s
      BY <1>1, <1>3, <2>1, <3>1 DEF InStep
    <3>2. CASE q = s
      <4>1. ui'[q] = v /\ down'[q] = e
        BY <1>1, <1>3, <3>2
      <4>2. Right(club, rooms, ui[s], down[s], told[s] = "owner", s)
        BY <2>1, <3>2 DEF InStep
      <4>3. Right(club, rooms, v, e, told[s] = "owner", s)
        <5>. SUFFICES ASSUME club.wsPlayer[s] # Null
             PROVE  /\ Title(v, e, PlayerOf(club, s).table, told[s] = "owner")
                    /\ Drawn(v, e, GState(club, rooms, PlayerOf(club, s).table).game)
                    /\ told[s] = "owner" => IsOwner(club, s)
          BY DEF Right
        <5>. PICK t, g : t = PlayerOf(club, s).table /\ g = GState(club, rooms, t).game
          OBVIOUS
        <5>1. /\ Title(ui[s], down[s], t, told[s] = "owner") /\ Drawn(ui[s], down[s], g)
              /\ told[s] = "owner" => IsOwner(club, s)
          BY <4>2 DEF Right
        <5>2. Title(v, e, t, told[s] = "owner") /\ Drawn(v, e, g)
          BY <1>1, <1>3, <5>1, Received
        <5>. QED  BY <5>1, <5>2
      <4>. QED  BY <3>2, <4>1, <4>3
    <3>. QED  BY <3>1, <3>2
  <2>. QED  BY <1>1, <2>1, <2>2 DEF InStep, MeantAt, TableOf
<1>. QED  BY <1>2, <1>6, <1>7 DEF QtIInv
-----------------------------------------------------------------------------
(* The handlers of the server that leave the registry alone.               *)

\* The next command of s is taken.
LEMMA Taken ==
  ASSUME QtIInv, NEW s \in Session, NEW op, Take(s, op)
  PROVE  /\ up[s] \in Seq(Line) /\ up[s] # <<>>
         /\ Head(up[s]) \in Line /\ Head(up[s]).op = op
         /\ up' \in [Session -> Seq(Line)] /\ up'[s] = Tail(up[s]) /\ ui' = ui
         /\ \A q \in Session : q # s => up'[q] = up[q]
<1>1. up \in [Session -> Seq(Line)] /\ up[s] \in Seq(Line)
  BY DEF QtIInv, QtTypeOK
<1>2. /\ up[s] # <<>> /\ Head(up[s]).op = op /\ ui' = ui
      /\ up' = [up EXCEPT ![s] = Tail(up[s])]
  BY DEF Take
<1>3. Head(up[s]) \in Line /\ Tail(up[s]) \in Seq(Line)
  BY <1>1, <1>2, HeadTailProperties
<1>. QED  BY <1>1, <1>2, <1>3

\* What is behind it keeps its meaning, and cannot depend on where s plays when
\* it moves s.
LEMMA TakenMeant ==
  ASSUME QtIInv, ~evicted, NEW s \in Session, NEW op, Take(s, op), NEW q \in Session
  PROVE  /\ Meant(up'[q], club.wsPlayer[q] # Null, rooms[TableOf(q)].id, told[q] = "owner")
         /\ q = s /\ op \in {"ntbl", "join"} => \A p, i, o : Meant(up'[q], p, i, o)
<1>1. Meant(up[q], club.wsPlayer[q] # Null, rooms[TableOf(q)].id, told[q] = "owner")
  BY DEF QtIInv, MeantAt
<1>2. /\ up[s] \in Seq(Line) /\ up[s] # <<>> /\ Head(up[s]).op = op
      /\ up'[s] = Tail(up[s]) /\ \A v \in Session : v # s => up'[v] = up[v]
  BY Taken
<1>3. CASE q # s
  BY <1>1, <1>2, <1>3
<1>4. CASE q = s
  <2>. PICK c, id : c = up[s] /\ id = rooms[TableOf(s)].id
    OBVIOUS
  <2>1. /\ Meant(Tail(c), club.wsPlayer[s] # Null, id, told[s] = "owner")
        /\ Head(c).op \in {"ntbl", "join"} => \A p, i, o : Meant(Tail(c), p, i, o)
    BY <1>1, <1>2, <1>4, MeantServed
  <2>. QED  BY <1>2, <1>4, <2>1
<1>. QED  BY <1>3, <1>4

\* An answer to s alone, or none.
LEMMA AnswerStep ==
  ASSUME QtIInv, NEW s \in Session, NEW op, op \notin {"ntbl", "join"}, Take(s, op),
         UNCHANGED <<vars, rooms, made>>,
         NEW m \in Message, m.cmd \in {"TBLS", "error"},
         down' = down \/ down' = Push(down, {s}, m)
  PROVE  QtIInv'
<1>1. /\ UNCHANGED vars /\ rooms' = rooms /\ made' = made
      /\ club' = club /\ told' = told /\ evicted' = evicted
  BY DEF vars
<1>2. IInv'
  BY <1>1, ClubStays DEF QtIInv
<1>3. up' \in [Session -> Seq(Line)] /\ ui' = ui
  BY Taken
<1>4. down \in [Session -> Seq(Message)]
  BY DEF QtIInv, QtTypeOK
<1>5. /\ Push(down, {s}, m) \in [Session -> Seq(Message)]
      /\ \A q \in Session :
           Push(down, {s}, m)[q] = IF q \in {s} THEN Append(down[q], m) ELSE down[q]
  BY <1>4, Pushed
<1>6. QtTypeOK'
  <2>1. down' \in [Session -> Seq(Message)]
    BY <1>4, <1>5
  <2>. QED  BY <1>1, <1>3, <2>1 DEF QtIInv, QtTypeOK
<1>7. ASSUME ~evicted', NEW q \in Session  PROVE InStep(q)' /\ MeantAt(q)'
  <2>1. Right(club, rooms, ui[q], down[q], told[q] = "owner", q)
    BY <1>1, <1>7 DEF QtIInv, InStep
  <2>2. Meant(up'[q], club.wsPlayer[q] # Null, rooms[TableOf(q)].id, told[q] = "owner")
    BY <1>1, <1>7, TakenMeant
  <2>3. Right(club, rooms, ui[q], Append(down[q], m), told[q] = "owner", q)
    <3>. SUFFICES ASSUME club.wsPlayer[q] # Null
         PROVE  /\ Title(ui[q], Append(down[q], m), TableOf(q), told[q] = "owner")
                /\ Drawn(ui[q], Append(down[q], m), GState(club, rooms, TableOf(q)).game)
                /\ told[q] = "owner" => IsOwner(club, q)
      BY DEF Right, TableOf
    <3>. PICK d, t, g : d = down[q] /\ t = TableOf(q) /\ g = GState(club, rooms, t).game
      OBVIOUS
    <3>1. /\ Title(ui[q], d, t, told[q] = "owner") /\ Drawn(ui[q], d, g)
          /\ told[q] = "owner" => IsOwner(club, q)
      BY <2>1 DEF Right, TableOf
    <3>2. m.cmd \notin Moving \cup Showing /\ d \in Seq(Message)
      BY <1>4 DEF Moving, Showing
    <3>3. Title(ui[q], Append(d, m), t, told[q] = "owner") /\ Drawn(ui[q], Append(d, m), g)
      BY <3>1, <3>2, OtherSent
    <3>. QED  BY <3>1, <3>3
  <2>4. down'[q] = down[q] \/ down'[q] = Append(down[q], m)
    BY <1>5
  <2>5. Right(club, rooms, ui[q], down'[q], told[q] = "owner", q)
    BY <2>1, <2>3, <2>4
  <2>. QED  BY <1>1, <1>3, <2>2, <2>5 DEF InStep, MeantAt, TableOf
<1>. QED  BY <1>2, <1>6, <1>7 DEF QtIInv

\* The rooms of the tables, and the table where s plays.
LEMMA RoomOf ==
  ASSUME QtIInv, NEW s \in Session, Served(s), club.wsPlayer[s] # Null
  PROVE  /\ TableOf(s) \in Name /\ TableOf(s) \in DOMAIN club.tables
         /\ DOMAIN rooms = DOMAIN club.tables /\ IsRoom(rooms[TableOf(s)])
         /\ IsRegistry(club) /\ Seated(club) /\ Alive(club, open)
<1>1. IsRegistry(club) /\ Seated(club) /\ Alive(club, open)
  BY DEF QtIInv, IInv, Whole
<1>2. PlayerOf(club, s) # Free /\ club.wsPlayer[s] \in Addr
  BY <1>1 DEF Served, IsRegistry
<1>3. TableOf(s) \in DOMAIN club.tables
  BY <1>1, <1>2 DEF Alive, PlayerOf, TableOf
<1>4. TableOf(s) \in Name
  BY <1>1, <1>3 DEF IsRegistry
<1>5. rooms = [t \in DOMAIN club.tables |-> rooms[t]] /\ \A t \in DOMAIN club.tables : IsRoom(rooms[t])
  BY DEF QtIInv, QtTypeOK
<1>6. DOMAIN rooms = DOMAIN club.tables
  BY <1>5
<1>. QED  BY <1>1, <1>3, <1>4, <1>5, <1>6

\* A command of the game.
LEMMA PlayStep ==
  ASSUME QtIInv, NEW s \in Session, Served(s), NEW op, op \notin {"ntbl", "join"},
         Take(s, op), club.wsPlayer[s] # Null, NEW bump \in {0, 1}, Play(s, bump)
  PROVE  QtIInv'
<1>. PICK t : t = TableOf(s)
  OBVIOUS
<1>0. /\ t \in Name /\ t \in DOMAIN club.tables
      /\ DOMAIN rooms = DOMAIN club.tables /\ IsRoom(rooms[t])
      /\ IsRegistry(club) /\ Seated(club) /\ Alive(club, open)
  BY RoomOf
<1>1. /\ UNCHANGED vars /\ made' = made
      /\ club' = club /\ told' = told /\ evicted' = evicted
      /\ rooms' = [rooms EXCEPT ![t].gstate = @ + bump]
      /\ down' = UpdateTableGstate(down, club, rooms', t)
  BY DEF Play, vars, TableOf
<1>2. IInv'
  BY <1>1, ClubStays DEF QtIInv
<1>3. up' \in [Session -> Seq(Line)] /\ ui' = ui
  BY Taken
<1>4. down \in [Session -> Seq(Message)]
  BY DEF QtIInv, QtTypeOK
<1>5. rooms = [u \in DOMAIN club.tables |-> rooms[u]] /\ \A u \in DOMAIN club.tables : IsRoom(rooms[u])
  BY DEF QtIInv, QtTypeOK
<1>6. /\ rooms' = [u \in DOMAIN club.tables |-> rooms'[u]]
      /\ \A u \in DOMAIN club.tables \ {t} : rooms'[u] = rooms[u]
      /\ IsRoom(rooms'[t]) /\ rooms'[t].id = rooms[t].id
  <2>. PICK R : R = rooms[t]
    OBVIOUS
  <2>. PICK v : v = [R EXCEPT !.gstate = @ + bump]
    OBVIOUS
  <2>1. rooms' = [rooms EXCEPT ![t] = v]
    BY <1>1
  <2>2. R = [id |-> R.id, gstate |-> R.gstate, pass |-> R.pass]
        /\ R.id \in Nat \ {0} /\ R.gstate \in Nat
    BY <1>0 DEF IsRoom
  <2>3. R.gstate + bump \in Nat
    BY <2>2
  <2>4. IsRoom(v) /\ v.id = R.id
    <3>. PICK n \in Nat : n = R.gstate + bump
      BY <2>3
    <3>1. v = [id |-> R.id, gstate |-> n, pass |-> R.pass]
      BY <2>2
    <3>. QED  BY <2>2, <3>1 DEF IsRoom
  <2>. QED  BY <1>0, <1>5, <2>1, <2>4
<1>7. down' \in [Session -> Seq(Message)]
  BY <1>0, <1>1, <1>4, <1>6, UpdatedType
<1>8. QtTypeOK'
  <2>1. \A u \in DOMAIN club.tables : IsRoom(rooms'[u])
    BY <1>5, <1>6
  <2>. QED  BY <1>1, <1>3, <1>6, <1>7, <2>1 DEF QtIInv, QtTypeOK
<1>9. ASSUME ~evicted', NEW q \in Session  PROVE InStep(q)' /\ MeantAt(q)'
  <2>1. Right(club, rooms, ui[q], down[q], told[q] = "owner", q) /\ Exact(club)
    BY <1>1, <1>9 DEF QtIInv, InStep, IInv
  <2>2. Meant(up'[q], club.wsPlayer[q] # Null, rooms[TableOf(q)].id, told[q] = "owner")
    BY <1>1, <1>9, TakenMeant
  <2>3. club.wsPlayer[q] # Null => rooms'[TableOf(q)].id = rooms[TableOf(q)].id
    <3>1. club.wsPlayer[q] # Null => TableOf(q) \in DOMAIN club.tables
      BY <1>0, <2>1, PlayerSits DEF TableOf
    <3>. QED  BY <1>6, <3>1
  <2>4. Meant(up'[q], club.wsPlayer[q] # Null, rooms'[TableOf(q)].id, told[q] = "owner")
    BY <2>2, <2>3 DEF Meant
  <2>5. down'[q] = IF club.wsPlayer[q] # Null /\ TableOf(q) = t
                     THEN Append(down[q], GState(club, rooms', t)) ELSE down[q]
    <3>. PICK r2 : r2 = rooms'
      OBVIOUS
    <3>1. IsRoom(r2[t])
      BY <1>6
    <3>2. \A v \in Session :
            UpdateTableGstate(down, club, r2, t)[v]
              = IF club.wsPlayer[v] # Null /\ PlayerOf(club, v).table = t
                  THEN Append(down[v], GState(club, r2, t)) ELSE down[v]
      BY <1>0, <1>4, <2>1, <3>1, Updated
    <3>. QED  BY <1>1, <3>2 DEF TableOf
  <2>6. Right(club, rooms', ui[q], down'[q], told[q] = "owner", q)
    <3>. PICK r2, d, d2 : r2 = rooms' /\ d = down[q] /\ d2 = down'[q]
      OBVIOUS
    <3>. PICK m : m = GState(club, r2, TableOf(q))
      OBVIOUS
    <3>1. ASSUME club.wsPlayer[q] # Null, TableOf(q) = t
          PROVE  m \in Message /\ m.cmd = "GSTATE" /\ m.game \in Game /\ d2 = Append(d, m)
      BY <1>0, <1>6, <2>5, <3>1, GStateTyped
    <3>2. ASSUME club.wsPlayer[q] # Null, TableOf(q) # t
          PROVE  d2 = d /\ m.game = GState(club, rooms, TableOf(q)).game
      <4>1. TableOf(q) \in DOMAIN club.tables
        BY <1>0, <2>1, <3>2, PlayerSits DEF TableOf
      <4>2. r2[TableOf(q)] = rooms[TableOf(q)]
        BY <1>6, <3>2, <4>1
      <4>3. m = GState(club, rooms, TableOf(q))
        BY <4>2, SameGState
      <4>. QED  BY <2>5, <3>2, <4>3
    <3>3. d \in Seq(Message)
      BY <1>4
    <3>4. Right(club, r2, ui[q], d2, told[q] = "owner", q)
      BY <2>1, <3>1, <3>2, <3>3, StaysRight DEF TableOf
    <3>. QED  BY <3>4
  <2>. QED  BY <1>1, <1>3, <2>4, <2>6 DEF InStep, MeantAt, TableOf
<1>. QED  BY <1>2, <1>8, <1>9 DEF QtIInv

\* tbls, gnew and move.
LEMMA GameServed ==
  ASSUME QtIInv, NEW s \in Session, ServeTables(s) \/ ServeNewGame(s) \/ ServeMove(s)
  PROVE  QtIInv'
<1>. PICK err : err = [cmd |-> "error"]
  OBVIOUS
<1>1. err \in Message /\ err.cmd \in {"TBLS", "error"}
  BY DEF Message
<1>2. CASE ServeTables(s)
  <2>. PICK m : m = [cmd |-> "TBLS", listed |-> DOMAIN club.tables]
    OBVIOUS
  <2>1. DOMAIN club.tables \subseteq Name
    BY DEF QtIInv, IInv, Whole, IsRegistry
  <2>2. m \in Message /\ m.cmd \in {"TBLS", "error"}
    BY <2>1 DEF Message
  <2>3. Take(s, "tbls") /\ down' = Push(down, {s}, m) /\ UNCHANGED <<vars, rooms, made>>
    BY <1>2 DEF ServeTables
  <2>. QED  BY <2>2, <2>3, AnswerStep
<1>3. CASE ServeNewGame(s) /\ club.wsPlayer[s] = Null
  <2>1. Take(s, "gnew") /\ down' = Push(down, {s}, err) /\ UNCHANGED <<vars, rooms, made>>
    BY <1>3 DEF ServeNewGame, Error
  <2>. QED  BY <1>1, <2>1, AnswerStep
<1>4. CASE ServeNewGame(s) /\ club.wsPlayer[s] # Null
  <2>1. Served(s) /\ Take(s, "gnew") /\ Play(s, 1)
    BY <1>4 DEF ServeNewGame
  <2>. QED  BY <1>4, <2>1, PlayStep
<1>5. CASE ServeMove(s) /\ Current(s)
  <2>1. Served(s) /\ Take(s, "move") /\ \E bump \in {0, 1} : Play(s, bump)
    BY <1>5 DEF ServeMove
  <2>2. club.wsPlayer[s] # Null
    BY <1>5 DEF Current
  <2>. QED  BY <2>1, <2>2, PlayStep
<1>6. CASE ServeMove(s) /\ ~Current(s)
  <2>1. Take(s, "move") /\ down' = down /\ UNCHANGED <<vars, rooms, made>>
    BY <1>6 DEF ServeMove
  <2>. QED  BY <1>1, <2>1, AnswerStep
<1>. QED  BY <1>2, <1>3, <1>4, <1>5, <1>6
-----------------------------------------------------------------------------
(* The handlers that move a player.                                        *)

\* What NewTable and Join do to the registry, when s has left its seat.
Moved(c, s, t, a, what) ==
  /\ a \in Addr /\ c.heap[a] = Free /\ Seating(c, club', s, t, a)
  /\ t \in DOMAIN c.tables => club'.tables[t][1] = c.tables[t][1]
  /\ Tell(s, what)

Refuses(c, s) == club' = c /\ Tell(s, told[s])

LEMMA NewTableIs ==
  ASSUME NEW s \in Session, Whole(LeaveSeat(club, s), open), NEW t \in Name,
         NEW fine, NewTable(s, t, fine)
  PROVE  \/ Refuses(LeaveSeat(club, s), s)
         \/ \E a \in Addr : /\ Moved(LeaveSeat(club, s), s, t, a, "owner")
                            /\ t \notin DOMAIN LeaveSeat(club, s).tables
                            /\ club'.tables[t] = <<a>>
<1>. PICK c : c = LeaveSeat(club, s)
  OBVIOUS
<1>. DEFINE accepted == /\ t \notin DOMAIN c.tables
                        /\ Cardinality(DOMAIN c.tables) < MaxTables
                        /\ fine
<1>1. CASE accepted
  <2>1. PICK a \in {b \in Addr : c.heap[b] = Free} :
          club' = AddTable(Allocate(c, a, s, t, t), t, a)
    BY <1>1 DEF NewTable
  <2>2. Tell(s, "owner")
    BY <1>1 DEF NewTable
  <2>3. Whole(c, open) /\ IsRegistry(c)
    BY DEF Whole
  <2>4. Seating(c, AddTable(Allocate(c, a, s, t, t), t, a), s, t, a)
        /\ Counted(AddTable(Allocate(c, a, s, t, t), t, a))
    BY <1>1, <2>1, <2>3, NewTableSeats
  <2>5. AddTable(Allocate(c, a, s, t, t), t, a).tables[t] = <<a>>
    BY <2>1, <2>3, FirstSeat
  <2>. QED  BY <1>1, <2>1, <2>2, <2>4, <2>5 DEF Moved
<1>2. CASE ~accepted
  BY <1>2 DEF NewTable, Refuses
<1>. QED  BY <1>1, <1>2

LEMMA JoinIs ==
  ASSUME NEW s \in Session, Whole(LeaveSeat(club, s), open), NEW t \in Name, NEW n \in Name,
         NEW fine, Join(s, t, n, fine)
  PROVE  \/ Refuses(LeaveSeat(club, s), s)
         \/ \E a \in Addr : /\ Moved(LeaveSeat(club, s), s, t, a, "player")
                            /\ t \in DOMAIN LeaveSeat(club, s).tables
<1>. PICK c : c = LeaveSeat(club, s)
  OBVIOUS
<1>. DEFINE accepted == /\ fine
                        /\ t \in DOMAIN c.tables
                        /\ Len(c.tables[t]) < MaxPlayers
<1>1. CASE accepted
  <2>1. PICK a \in {b \in Addr : c.heap[b] = Free} :
          club' = AddSeat(Allocate(c, a, s, t, n), t, a)
    BY <1>1 DEF Join
  <2>2. Tell(s, "player")
    BY <1>1 DEF Join
  <2>3. Whole(c, open) /\ IsRegistry(c) /\ Filled(c)
    BY DEF Whole
  <2>4. Seating(c, AddSeat(Allocate(c, a, s, t, n), t, a), s, t, a)
        /\ Counted(AddSeat(Allocate(c, a, s, t, n), t, a))
    BY <1>1, <2>1, <2>3, JoinSeats
  <2>5. Len(c.tables[t]) # 0
    BY <1>1, <2>3 DEF Filled
  <2>6. AddSeat(Allocate(c, a, s, t, n), t, a).tables[t][1] = c.tables[t][1]
    BY <1>1, <2>1, <2>3, <2>5, LaterSeat
  <2>. QED  BY <1>1, <2>1, <2>2, <2>4, <2>6 DEF Moved
<1>2. CASE ~accepted
  BY <1>2 DEF Join, Refuses
<1>. QED  BY <1>1, <1>2

\* What s leaves behind: the others are told what changed, unless they are sent
\* away.
LEMMA LeftRight ==
  ASSUME QtIInv, NEW s \in Session, Served(s)
  PROVE  /\ Whole(LeaveSeat(club, s), open) /\ LeaveSeat(club, s).wsPlayer[s] = Null
         /\ DOMAIN LeaveSeat(club, s).tables \subseteq DOMAIN club.tables
         /\ LeftBehind(s) \in [Session -> Seq(Message)]
         /\ ~evicted /\ ClosedBy(club, s) = {} =>
              /\ Exact(LeaveSeat(club, s))
              /\ \A q \in Session \ {s} :
                   /\ Right(LeaveSeat(club, s), rooms, ui[q], LeftBehind(s)[q],
                            told[q] = "owner", q)
                   /\ LeaveSeat(club, s).wsPlayer[q] = club.wsPlayer[q]
                   /\ club.wsPlayer[q] # Null =>
                        PlayerOf(LeaveSeat(club, s), q).table = PlayerOf(club, q).table
<1>. PICK c : c = LeaveSeat(club, s)
  OBVIOUS
<1>1. Whole(club, open) /\ IsRegistry(club) /\ down \in [Session -> Seq(Message)]
  BY DEF QtIInv, IInv, QtTypeOK, Whole
<1>2. club.wsPlayer[s] # Null => PlayerOf(club, s) # Free
  BY DEF Served
<1>3. Whole(c, open) /\ IsRegistry(c) /\ Seated(c) /\ Alive(c, open) /\ c.wsPlayer[s] = Null
  BY <1>1, <1>2, LeaveSeatKeeps DEF Whole
<1>4. /\ DOMAIN c.tables \subseteq DOMAIN club.tables
      /\ club.wsPlayer[s] # Null /\ ~IsOwner(club, s) =>
           PlayerOf(club, s).table \in DOMAIN c.tables
  BY <1>1, <1>2, LeftTables
<1>5. ASSUME club.wsPlayer[s] # Null, ~IsOwner(club, s)
      PROVE  /\ TableOf(s) \in Name /\ TableOf(s) \in DOMAIN c.tables /\ IsRoom(rooms[TableOf(s)])
             /\ LeftBehind(s) = UpdateTableGstate(down, c, rooms, TableOf(s))
  BY <1>4, <1>5, RoomOf DEF LeftBehind, TableOf
<1>6. ASSUME club.wsPlayer[s] # Null, IsOwner(club, s)
      PROVE  /\ LeftBehind(s) \in [Session -> Seq(Message)]
             /\ ClosedBy(club, s) = {} => \A q \in Session : LeftBehind(s)[q] = down[q]
  <2>. PICK m, to : m = [cmd |-> "TABLE_CLOSED"] /\ to = ClosedBy(club, s)
    OBVIOUS
  <2>1. m \in Message
    BY DEF Message
  <2>2. LeftBehind(s) = Push(down, to, m)
    BY <1>6 DEF LeftBehind
  <2>3. /\ Push(down, to, m) \in [Session -> Seq(Message)]
        /\ \A q \in Session : Push(down, to, m)[q] = IF q \in to THEN Append(down[q], m) ELSE down[q]
    BY <1>1, <2>1, Pushed
  <2>. QED  BY <2>2, <2>3
<1>7. LeftBehind(s) \in [Session -> Seq(Message)]
  <2>1. CASE club.wsPlayer[s] = Null
    BY <1>1, <2>1 DEF LeftBehind
  <2>2. CASE club.wsPlayer[s] # Null /\ ~IsOwner(club, s)
    <3>. PICK t : t = TableOf(s)
      OBVIOUS
    <3>1. /\ t \in Name /\ t \in DOMAIN c.tables /\ IsRoom(rooms[t])
          /\ LeftBehind(s) = UpdateTableGstate(down, c, rooms, t)
      BY <1>5, <2>2
    <3>. QED  BY <1>1, <1>3, <3>1, UpdatedType
  <2>. QED  BY <1>6, <2>1, <2>2
<1>8. ASSUME ~evicted, ClosedBy(club, s) = {}
      PROVE  /\ Exact(c)
             /\ \A q \in Session \ {s} :
                  /\ Right(c, rooms, ui[q], LeftBehind(s)[q], told[q] = "owner", q)
                  /\ c.wsPlayer[q] = club.wsPlayer[q]
                  /\ club.wsPlayer[q] # Null => PlayerOf(c, q).table = PlayerOf(club, q).table
  <2>0. Exact(club) /\ \A q \in Session : Right(club, rooms, ui[q], down[q], told[q] = "owner", q)
    BY <1>8 DEF QtIInv, IInv, InStep
  <2>1. Exact(c)
    BY <1>1, <1>8, <2>0, LeaveSeatExact
  <2>2. ASSUME NEW T, Keeps(club, c, s, T), NEW q \in Session \ {s}
        PROVE  /\ c.wsPlayer[q] = club.wsPlayer[q]
               /\ club.wsPlayer[q] # Null => PlayerOf(c, q).table = PlayerOf(club, q).table
    BY <2>2 DEF Keeps
  <2>3. CASE club.wsPlayer[s] = Null
    <3>1. c = club /\ LeftBehind(s) = down
      BY <2>3 DEF LeaveSeat, LeftBehind
    <3>. QED  BY <2>0, <2>1, <3>1
  <2>4. CASE club.wsPlayer[s] # Null /\ IsOwner(club, s)
    <3>. PICK T : T = {}
      OBVIOUS
    <3>1. Keeps(club, c, s, T)
      BY <1>1, <1>8, <2>0, <2>4, LeftKeeps
    <3>2. \A t \in DOMAIN c.tables \ T : rooms[t] = rooms[t]
      OBVIOUS
    <3>3. ASSUME NEW q \in Session \ {s}
          PROVE  Right(c, rooms, ui[q], LeftBehind(s)[q], told[q] = "owner", q)
      <4>. PICK d : d = down[q]
        OBVIOUS
      <4>1. d \in Seq(Message) /\ Right(club, rooms, ui[q], d, told[q] = "owner", q)
        BY <1>1, <2>0
      <4>2. Right(c, rooms, ui[q], d, told[q] = "owner", q)
        BY <3>1, <3>2, <4>1, AwayRight
      <4>3. LeftBehind(s)[q] = d
        BY <1>6, <1>8, <2>4
      <4>. QED  BY <4>2, <4>3
    <3>. QED  BY <2>1, <2>2, <3>1, <3>3
  <2>5. CASE club.wsPlayer[s] # Null /\ ~IsOwner(club, s)
    <3>. PICK t : t = TableOf(s)
      OBVIOUS
    <3>1. /\ t \in Name /\ t \in DOMAIN c.tables /\ IsRoom(rooms[t])
          /\ LeftBehind(s) = UpdateTableGstate(down, c, rooms, t)
      BY <1>5, <2>5
    <3>2. Keeps(club, c, s, {t})
      BY <1>1, <1>8, <2>0, <2>5, LeftKeeps DEF TableOf
    <3>3. \A v \in DOMAIN c.tables \ {t} : rooms[v] = rooms[v]
      OBVIOUS
    <3>4. ASSUME NEW q \in Session \ {s}
          PROVE  Right(c, rooms, ui[q], LeftBehind(s)[q], told[q] = "owner", q)
      <4>1. Right(club, rooms, ui[q], down[q], told[q] = "owner", q)
        BY <2>0
      <4>2. Right(c, rooms, ui[q], UpdateTableGstate(down, c, rooms, t)[q], told[q] = "owner", q)
        BY <1>1, <1>3, <2>1, <3>1, <3>2, <3>3, <4>1, ToldRight
      <4>. QED  BY <3>1, <4>2
    <3>. QED  BY <2>1, <2>2, <3>2, <3>4
  <2>. QED  BY <2>3, <2>4, <2>5
<1>. QED  BY <1>3, <1>4, <1>7, <1>8

\* What is left to show of a handler that moves s.
LEMMA MoveStep ==
  ASSUME QtIInv, NEW s \in Session, NEW op \in {"ntbl", "join"}, Take(s, op),
         IInv', QtTypeOK', evicted' = (evicted \/ ClosedBy(club, s) # {}),
         NEW what, Tell(s, what),
         ~evicted /\ ClosedBy(club, s) = {} =>
           /\ Right(club', rooms', ui[s], down'[s], what = "owner", s)
           /\ \A q \in Session \ {s} :
                /\ Right(club', rooms', ui[q], down'[q], told[q] = "owner", q)
                /\ club'.wsPlayer[q] = club.wsPlayer[q]
                /\ club.wsPlayer[q] # Null =>
                     /\ PlayerOf(club', q).table = PlayerOf(club, q).table
                     /\ rooms'[PlayerOf(club, q).table] = rooms[PlayerOf(club, q).table]
  PROVE  QtIInv'
<1>1. ui' = ui
  BY Taken
<1>2. ASSUME ~evicted', NEW q \in Session  PROVE InStep(q)' /\ MeantAt(q)'
  <2>1. ~evicted /\ ClosedBy(club, s) = {}
    BY <1>2
  <2>2. told'[s] = what /\ (q # s => told'[q] = told[q])
    BY <2>1 DEF Tell
  <2>3. CASE q = s
    <3>1. \A p, i, o : Meant(up'[s], p, i, o)
      BY <2>1, TakenMeant
    <3>2. MeantAt(s)'
      <4>. PICK p, i, o : p = (club'.wsPlayer[s] # Null) /\ i = rooms'[TableOf(s)'].id
                          /\ o = (told'[s] = "owner")
        OBVIOUS
      <4>1. Meant(up'[s], p, i, o)
        BY <3>1
      <4>. QED  BY <4>1 DEF MeantAt
    <3>3. InStep(s)'
      BY <1>1, <2>1, <2>2 DEF InStep
    <3>. QED  BY <2>3, <3>2, <3>3
  <2>4. CASE q # s
    <3>1. Meant(up'[q], club.wsPlayer[q] # Null, rooms[TableOf(q)].id, told[q] = "owner")
      BY <2>1, TakenMeant
    <3>2. /\ Right(club', rooms', ui[q], down'[q], told[q] = "owner", q)
          /\ club'.wsPlayer[q] = club.wsPlayer[q]
          /\ club.wsPlayer[q] # Null =>
               /\ PlayerOf(club', q).table = PlayerOf(club, q).table
               /\ rooms'[PlayerOf(club, q).table] = rooms[PlayerOf(club, q).table]
      BY <2>1, <2>4
    <3>3. InStep(q)'
      BY <1>1, <2>2, <2>4, <3>2 DEF InStep
    <3>4. Meant(up'[q], club'.wsPlayer[q] # Null, rooms'[TableOf(q)'].id, told'[q] = "owner")
      <4>1. CASE club.wsPlayer[q] # Null
        BY <2>2, <2>4, <3>1, <3>2, <4>1 DEF TableOf
      <4>2. CASE club.wsPlayer[q] = Null
        BY <3>1, <3>2, <4>2 DEF Meant
      <4>. QED  BY <4>1, <4>2
    <3>. QED  BY <3>3, <3>4 DEF MeantAt
  <2>. QED  BY <2>3, <2>4
<1>. QED  BY <1>2 DEF QtIInv

\* The rooms when tables go.
LEMMA RoomsRestricted ==
  ASSUME QtIInv, NEW D, D \subseteq DOMAIN club.tables, NEW r, r = Restrict(rooms, D)
  PROVE  /\ r = [t \in D |-> r[t]] /\ \A t \in D : r[t] = rooms[t] /\ IsRoom(r[t])
<1>1. \A t \in DOMAIN club.tables : IsRoom(rooms[t])
  BY DEF QtIInv, QtTypeOK
<1>. QED  BY <1>1 DEF Restrict

\* A command that is refused has cost s its seat.
LEMMA RefusedStep ==
  ASSUME QtIInv, NEW s \in Session, Served(s), NEW op \in {"ntbl", "join"}, Take(s, op),
         IInv', evicted' = (evicted \/ ClosedBy(club, s) # {}),
         Refuses(LeaveSeat(club, s), s),
         rooms' = Restrict(rooms, DOMAIN club'.tables),
         down' = Error(LeftBehind(s), s), made' = made
  PROVE  QtIInv'
<1>. PICK lb, m : lb = LeftBehind(s) /\ m = [cmd |-> "error"]
  OBVIOUS
<1>0. club' = LeaveSeat(club, s) /\ Tell(s, told[s])
  BY DEF Refuses
<1>1. /\ club'.wsPlayer[s] = Null
      /\ DOMAIN club'.tables \subseteq DOMAIN club.tables
      /\ lb \in [Session -> Seq(Message)]
      /\ ~evicted /\ ClosedBy(club, s) = {} =>
           /\ Exact(club')
           /\ \A q \in Session \ {s} :
                /\ Right(club', rooms, ui[q], lb[q], told[q] = "owner", q)
                /\ club'.wsPlayer[q] = club.wsPlayer[q]
                /\ club.wsPlayer[q] # Null => PlayerOf(club', q).table = PlayerOf(club, q).table
  BY <1>0, LeftRight
<1>2. m \in Message
  BY DEF Message
<1>3. /\ Push(lb, {s}, m) \in [Session -> Seq(Message)]
      /\ \A q \in Session : Push(lb, {s}, m)[q] = IF q \in {s} THEN Append(lb[q], m) ELSE lb[q]
  BY <1>1, <1>2, Pushed
<1>4. down' = Push(lb, {s}, m)
  BY DEF Error
<1>5. /\ rooms' = [t \in DOMAIN club'.tables |-> rooms'[t]]
      /\ \A t \in DOMAIN club'.tables : rooms'[t] = rooms[t] /\ IsRoom(rooms'[t])
  BY <1>1, RoomsRestricted
<1>6. QtTypeOK'
  <2>1. made' \in Nat /\ ui' \in [Session -> Window] /\ up' \in [Session -> Seq(Line)]
    BY Taken DEF QtIInv, QtTypeOK
  <2>. QED  BY <1>3, <1>4, <1>5, <2>1 DEF QtTypeOK
<1>7. ASSUME ~evicted, ClosedBy(club, s) = {}
      PROVE  /\ Right(club', rooms', ui[s], down'[s], told[s] = "owner", s)
             /\ \A q \in Session \ {s} :
                  /\ Right(club', rooms', ui[q], down'[q], told[q] = "owner", q)
                  /\ club'.wsPlayer[q] = club.wsPlayer[q]
                  /\ club.wsPlayer[q] # Null =>
                       /\ PlayerOf(club', q).table = PlayerOf(club, q).table
                       /\ rooms'[PlayerOf(club, q).table] = rooms[PlayerOf(club, q).table]
  <2>1. Right(club', rooms', ui[s], down'[s], told[s] = "owner", s)
    BY <1>1 DEF Right
  <2>2. ASSUME NEW q \in Session \ {s}
        PROVE  /\ Right(club', rooms', ui[q], down'[q], told[q] = "owner", q)
               /\ club'.wsPlayer[q] = club.wsPlayer[q]
               /\ club.wsPlayer[q] # Null =>
                    /\ PlayerOf(club', q).table = PlayerOf(club, q).table
                    /\ rooms'[PlayerOf(club, q).table] = rooms[PlayerOf(club, q).table]
    <3>1. /\ Right(club', rooms, ui[q], lb[q], told[q] = "owner", q)
          /\ club'.wsPlayer[q] = club.wsPlayer[q]
          /\ club.wsPlayer[q] # Null => PlayerOf(club', q).table = PlayerOf(club, q).table
          /\ Exact(club')
      BY <1>1, <1>7
    <3>2. club'.wsPlayer[q] # Null => PlayerOf(club', q).table \in DOMAIN club'.tables
      <4>. PICK e : e = club'
        OBVIOUS
      <4>1. Whole(e, open') /\ IsRegistry(e) /\ Alive(e, open')
        BY DEF IInv, Whole
      <4>2. e.wsPlayer[q] # Null => PlayerOf(e, q).table \in DOMAIN e.tables
        BY <3>1, <4>1, PlayerSits
      <4>. QED  BY <4>2
    <3>3. club'.wsPlayer[q] # Null =>
            rooms'[PlayerOf(club', q).table] = rooms[PlayerOf(club', q).table]
      BY <1>5, <3>2
    <3>4. Right(club', rooms', ui[q], lb[q], told[q] = "owner", q)
      BY <3>1, <3>3, RoomRight
    <3>5. down'[q] = lb[q]
      BY <1>3, <1>4
    <3>. QED  BY <3>1, <3>3, <3>4, <3>5
  <2>. QED  BY <2>1, <2>2
<1>. QED  BY <1>0, <1>6, <1>7, MoveStep

\* A new player comes to table t: the others stay where they are.
LEMMA MovedKeeps ==
  ASSUME QtIInv, NEW s \in Session, Served(s), NEW t \in Name, NEW a, NEW what,
         Moved(LeaveSeat(club, s), s, t, a, what)
  PROVE  /\ DOMAIN club'.tables = DOMAIN LeaveSeat(club, s).tables \cup {t}
         /\ club'.wsPlayer[s] = a /\ club'.wsPlayer[s] # Null /\ PlayerOf(club', s).table = t
         /\ ~evicted /\ ClosedBy(club, s) = {} =>
              /\ Keeps(LeaveSeat(club, s), club', s, {t})
              /\ \A q \in Session \ {s} :
                   /\ club'.wsPlayer[q] = club.wsPlayer[q]
                   /\ club.wsPlayer[q] # Null =>
                        /\ PlayerOf(club', q).table = PlayerOf(club, q).table
                        /\ PlayerOf(club, q).table \in DOMAIN LeaveSeat(club, s).tables
<1>. PICK c, e : c = LeaveSeat(club, s) /\ e = club'
  OBVIOUS
<1>1. /\ a \in Addr /\ c.heap[a] = Free /\ Seating(c, e, s, t, a)
      /\ t \in DOMAIN c.tables => e.tables[t][1] = c.tables[t][1]
  BY DEF Moved
<1>2. /\ Whole(c, open) /\ c.wsPlayer[s] = Null
      /\ ~evicted /\ ClosedBy(club, s) = {} =>
           /\ Exact(c)
           /\ \A q \in Session \ {s} :
                /\ c.wsPlayer[q] = club.wsPlayer[q]
                /\ club.wsPlayer[q] # Null => PlayerOf(c, q).table = PlayerOf(club, q).table
  BY LeftRight
<1>3. IsRegistry(c) /\ Seated(c) /\ Alive(c, open)
  BY <1>2 DEF Whole
<1>4. DOMAIN e.tables = DOMAIN c.tables \cup {t}
  BY <1>1 DEF Seating
<1>5. e.wsPlayer[s] = a /\ e.wsPlayer[s] # Null /\ PlayerOf(e, s).table = t
  <2>1. e.wsPlayer[s] = a
    BY <1>1, <1>3 DEF Seating, IsRegistry
  <2>2. e.heap[a] # Free /\ e.heap[a].table = t
    BY <1>1 DEF Seating, NewPlayer
  <2>. QED  BY <1>1, <2>1, <2>2, NullAssumption DEF PlayerOf
<1>6. ASSUME ~evicted, ClosedBy(club, s) = {}
      PROVE  /\ Keeps(c, e, s, {t})
             /\ \A q \in Session \ {s} :
                  /\ e.wsPlayer[q] = club.wsPlayer[q]
                  /\ club.wsPlayer[q] # Null =>
                       /\ PlayerOf(e, q).table = PlayerOf(club, q).table
                       /\ PlayerOf(club, q).table \in DOMAIN c.tables
  <2>1. Exact(c)
    BY <1>2, <1>6
  <2>2. Keeps(c, e, s, {t})
    BY <1>1, <1>2, <1>3, <2>1, SeatedKeeps
  <2>3. ASSUME NEW q \in Session \ {s}
        PROVE  /\ e.wsPlayer[q] = club.wsPlayer[q]
               /\ club.wsPlayer[q] # Null =>
                    /\ PlayerOf(e, q).table = PlayerOf(club, q).table
                    /\ PlayerOf(club, q).table \in DOMAIN c.tables
    <3>1. /\ c.wsPlayer[q] = club.wsPlayer[q]
          /\ club.wsPlayer[q] # Null => PlayerOf(c, q).table = PlayerOf(club, q).table
      BY <1>2, <1>6
    <3>2. e.wsPlayer[q] = c.wsPlayer[q]
      BY <1>1, <1>3 DEF Seating, IsRegistry
    <3>3. c.wsPlayer[q] # Null => PlayerOf(e, q) = PlayerOf(c, q)
      BY <2>2 DEF Keeps
    <3>4. c.wsPlayer[q] # Null => PlayerOf(c, q).table \in DOMAIN c.tables
      BY <1>3, <2>1, PlayerSits
    <3>. QED  BY <3>1, <3>2, <3>3, <3>4
  <2>. QED  BY <2>2, <2>3
<1>. QED  BY <1>4, <1>5, <1>6

\* A new table.
LEMMA NewTableStep ==
  ASSUME QtIInv, NEW s \in Session, ServeNewTable(s)
  PROVE  QtIInv'
<1>. PICK f, t : f = Read(SSplit(Head(up[s]).words)) /\ t = Head(up[s]).words[2]
  OBVIOUS
<1>. PICK fine \in BOOLEAN : fine = (f # Refused)
  OBVIOUS
<1>1. /\ Take(s, "ntbl") /\ NewTable(s, t, fine)
      /\ IF club'.wsPlayer[s] # Null
           THEN /\ made' = made + 1
                /\ rooms' = [u \in DOMAIN club'.tables |->
                               IF u = t THEN [id |-> made + 1, gstate |-> 0, pass |-> f.tpass]
                               ELSE rooms[u]]
                /\ down' = Push(LeftBehind(s), {s}, [cmd |-> "NTBL", table |-> t])
           ELSE /\ rooms' = Restrict(rooms, DOMAIN club'.tables)
                /\ down' = Error(LeftBehind(s), s) /\ made' = made
  BY DEF ServeNewTable
<1>2. t \in Name
  <2>1. Head(up[s]) \in Line /\ Head(up[s]).op = "ntbl"
    BY <1>1, Taken
  <2>. QED  BY <2>1, Worded
<1>3. IInv'
  <2>1. Next
    BY <1>1, <1>2 DEF Next
  <2>. QED  BY <2>1, ClubNext DEF QtIInv
<1>4. /\ Served(s) /\ evicted' = (evicted \/ ClosedBy(club, s) # {}) /\ UNCHANGED <<open, broken>>
  BY <1>1 DEF NewTable
<1>. PICK c, lb : c = LeaveSeat(club, s) /\ lb = LeftBehind(s)
  OBVIOUS
<1>5. /\ Whole(c, open) /\ c.wsPlayer[s] = Null /\ DOMAIN c.tables \subseteq DOMAIN club.tables
      /\ lb \in [Session -> Seq(Message)]
      /\ ~evicted /\ ClosedBy(club, s) = {} =>
           \A q \in Session \ {s} : Right(c, rooms, ui[q], lb[q], told[q] = "owner", q)
  BY <1>4, LeftRight
<1>6. \/ Refuses(c, s)
      \/ \E a \in Addr : /\ Moved(c, s, t, a, "owner") /\ t \notin DOMAIN c.tables
                         /\ club'.tables[t] = <<a>>
  BY <1>1, <1>2, <1>5, NewTableIs
<1>7. CASE Refuses(c, s)
  <2>1. club'.wsPlayer[s] = Null
    BY <1>5, <1>7 DEF Refuses
  <2>. QED  BY <1>1, <1>3, <1>4, <1>7, <2>1, RefusedStep
<1>8. ASSUME NEW a \in Addr, Moved(c, s, t, a, "owner"), t \notin DOMAIN c.tables,
             club'.tables[t] = <<a>>
      PROVE  QtIInv'
  <2>. PICK T : T = {t}
    OBVIOUS
  <2>1. /\ DOMAIN club'.tables = DOMAIN c.tables \cup {t}
        /\ club'.wsPlayer[s] = a /\ club'.wsPlayer[s] # Null /\ PlayerOf(club', s).table = t
        /\ ~evicted /\ ClosedBy(club, s) = {} =>
             /\ Keeps(c, club', s, T)
             /\ \A q \in Session \ {s} :
                  /\ club'.wsPlayer[q] = club.wsPlayer[q]
                  /\ club.wsPlayer[q] # Null =>
                       /\ PlayerOf(club', q).table = PlayerOf(club, q).table
                       /\ PlayerOf(club, q).table \in DOMAIN c.tables
    <3>. PICK what : what = "owner"
      OBVIOUS
    <3>1. Moved(LeaveSeat(club, s), s, t, a, what) /\ QtIInv /\ Served(s) /\ t \in Name
          /\ s \in Session
      BY <1>2, <1>4, <1>8
    <3>2. /\ DOMAIN club'.tables = DOMAIN LeaveSeat(club, s).tables \cup {t}
          /\ club'.wsPlayer[s] = a /\ club'.wsPlayer[s] # Null /\ PlayerOf(club', s).table = t
          /\ ~evicted /\ ClosedBy(club, s) = {} =>
               /\ Keeps(LeaveSeat(club, s), club', s, {t})
               /\ \A q \in Session \ {s} :
                    /\ club'.wsPlayer[q] = club.wsPlayer[q]
                    /\ club.wsPlayer[q] # Null =>
                         /\ PlayerOf(club', q).table = PlayerOf(club, q).table
                         /\ PlayerOf(club, q).table \in DOMAIN LeaveSeat(club, s).tables
      BY ONLY <3>1, MovedKeeps
    <3>. QED  BY <3>2
  <2>. PICK m : m = [cmd |-> "NTBL", table |-> t]
    OBVIOUS
  <2>2. /\ m \in Message /\ m.cmd = "NTBL" /\ m.cmd \in Moving /\ m.table = t
    BY <1>2 DEF Message, Moving
  <2>3. /\ made' = made + 1
        /\ rooms' = [u \in DOMAIN club'.tables |->
                       IF u = t THEN [id |-> made + 1, gstate |-> 0, pass |-> f.tpass]
                       ELSE rooms[u]]
        /\ down' = Push(lb, {s}, m)
    BY <1>1, <2>1
  <2>4. /\ down' \in [Session -> Seq(Message)] /\ down'[s] = Append(lb[s], m)
        /\ \A q \in Session : q # s => down'[q] = lb[q]
    <3>1. /\ Push(lb, {s}, m) \in [Session -> Seq(Message)]
          /\ \A q \in Session :
               Push(lb, {s}, m)[q] = IF q \in {s} THEN Append(lb[q], m) ELSE lb[q]
      BY <1>5, <2>2, Pushed
    <3>. QED  BY <2>3, <3>1
  <2>5. /\ made \in Nat /\ \A u \in DOMAIN club.tables : IsRoom(rooms[u])
    BY DEF QtIInv, QtTypeOK
  <2>6. /\ rooms' = [u \in DOMAIN club'.tables |-> rooms'[u]]
        /\ rooms'[t].gstate = 0 /\ IsRoom(rooms'[t])
        /\ \A u \in DOMAIN c.tables : rooms'[u] = rooms[u] /\ IsRoom(rooms'[u])
    <3>. PICK v : v = [id |-> made + 1, gstate |-> 0, pass |-> f.tpass]
      OBVIOUS
    <3>1. v.gstate = 0 /\ IsRoom(v)
      BY <2>5 DEF IsRoom
    <3>2. rooms' = [u \in DOMAIN club'.tables |-> IF u = t THEN v ELSE rooms[u]]
      BY <2>3
    <3>. QED  BY <1>5, <1>8, <2>1, <2>5, <3>1, <3>2
  <2>7. QtTypeOK'
    <3>1. made' \in Nat
      BY <2>3, <2>5
    <3>2. ui' \in [Session -> Window] /\ up' \in [Session -> Seq(Line)]
      BY <1>1, Taken DEF QtIInv, QtTypeOK
    <3>3. \A u \in DOMAIN club'.tables : IsRoom(rooms'[u])
      BY <2>1, <2>6
    <3>. QED  BY <2>4, <2>6, <3>1, <3>2, <3>3 DEF QtTypeOK
  <2>8. ASSUME ~evicted, ClosedBy(club, s) = {}
        PROVE  /\ Right(club', rooms', ui[s], down'[s], "owner" = "owner", s)
               /\ \A q \in Session \ {s} :
                    /\ Right(club', rooms', ui[q], down'[q], told[q] = "owner", q)
                    /\ club'.wsPlayer[q] = club.wsPlayer[q]
                    /\ club.wsPlayer[q] # Null =>
                         /\ PlayerOf(club', q).table = PlayerOf(club, q).table
                         /\ rooms'[PlayerOf(club, q).table] = rooms[PlayerOf(club, q).table]
    <3>1. Right(club', rooms', ui[s], down'[s], "owner" = "owner", s)
      <4>1. IsOwner(club', s)
        <5>1. club'.tables[t][1] = a
          BY <1>8
        <5>2. club'.wsPlayer[s] = a /\ PlayerOf(club', s).table = t
          BY <2>1
        <5>. QED  BY ONLY <5>1, <5>2 DEF IsOwner
      <4>. PICK d, g : d = lb[s] /\ g = GState(club', rooms', t).game
        OBVIOUS
      <4>2. g.gstate = 0
        BY <2>6 DEF GState
      <4>3. d \in Seq(Message)
        BY <1>5
      <4>4. Title(ui[s], Append(d, m), t, m.cmd = "NTBL") /\ Drawn(ui[s], Append(d, m), g)
        <5>1. /\ Title(ui[s], Append(d, m), t, m.cmd = "NTBL")
              /\ \A h : m.cmd = "NTBL" /\ h.gstate = 0 => Drawn(ui[s], Append(d, m), h)
          BY ONLY <1>2, <2>2, <4>3, MoveSent
        <5>. QED  BY ONLY <2>2, <4>2, <5>1
      <4>5. Title(ui[s], Append(d, m), t, "owner" = "owner")
        BY <2>2, <4>4 DEF Title
      <4>. QED  BY <2>1, <2>4, <4>1, <4>4, <4>5 DEF Right
    <3>2. ASSUME NEW q \in Session \ {s}
          PROVE  /\ Right(club', rooms', ui[q], down'[q], told[q] = "owner", q)
                 /\ club'.wsPlayer[q] = club.wsPlayer[q]
                 /\ club.wsPlayer[q] # Null =>
                      /\ PlayerOf(club', q).table = PlayerOf(club, q).table
                      /\ rooms'[PlayerOf(club, q).table] = rooms[PlayerOf(club, q).table]
      <4>. PICK e, r2, d : e = club' /\ r2 = rooms' /\ d = lb[q]
        OBVIOUS
      <4>1. /\ Keeps(c, e, s, T) /\ e.wsPlayer[q] = club.wsPlayer[q]
            /\ club.wsPlayer[q] # Null =>
                 /\ PlayerOf(e, q).table = PlayerOf(club, q).table
                 /\ PlayerOf(club, q).table \in DOMAIN c.tables
        BY <2>1, <2>8
      <4>2. e.wsPlayer[q] # Null => PlayerOf(e, q).table \notin T
        BY <1>8, <4>1
      <4>3. \A u \in DOMAIN e.tables \ T : r2[u] = rooms[u]
        BY <2>1, <2>6
      <4>4. d \in Seq(Message) /\ Right(c, rooms, ui[q], d, told[q] = "owner", q)
        BY <1>5, <2>8
      <4>5. Right(e, r2, ui[q], d, told[q] = "owner", q)
        BY <4>1, <4>2, <4>3, <4>4, AwayRight
      <4>. QED  BY <2>4, <2>6, <4>1, <4>5
    <3>. QED  BY <3>1, <3>2
  <2>9. Tell(s, "owner")
    BY <1>8 DEF Moved
  <2>. QED  BY <1>1, <1>3, <1>4, <2>7, <2>8, <2>9, MoveStep
<1>. QED  BY <1>6, <1>7, <1>8

\* A player joins.
LEMMA JoinStep ==
  ASSUME QtIInv, NEW s \in Session, ServeJoin(s)
  PROVE  QtIInv'
<1>. PICK t, n : t = Head(up[s]).words[2] /\ n = Head(up[s]).words[3]
  OBVIOUS
<1>1. PICK fine \in BOOLEAN : Join(s, t, n, fine)
  <2>. DEFINE f == Read(SSplit(Head(up[s]).words))
              fine == f # Refused /\ (t \in DOMAIN rooms => rooms[t].pass = f.tpass)
  <2>1. Join(s, t, n, fine)
    BY DEF ServeJoin
  <2>2. fine \in BOOLEAN
    OBVIOUS
  <2>. QED  BY <2>1, <2>2
<1>2. /\ Take(s, "join") /\ made' = made
      /\ rooms' = Restrict(rooms, DOMAIN club'.tables)
      /\ down' = IF club'.wsPlayer[s] # Null
                   THEN UpdateTableGstate(Push(LeftBehind(s), {s}, [cmd |-> "JOIN", table |-> t]),
                                          club', rooms', t)
                   ELSE Error(LeftBehind(s), s)
  BY DEF ServeJoin
<1>3. t \in Name /\ n \in Name
  <2>1. Head(up[s]) \in Line /\ Head(up[s]).op = "join"
    BY <1>2, Taken
  <2>. QED  BY <2>1, Worded
<1>4. IInv'
  <2>1. Next
    BY <1>1, <1>3 DEF Next
  <2>. QED  BY <2>1, ClubNext DEF QtIInv
<1>5. /\ Served(s) /\ evicted' = (evicted \/ ClosedBy(club, s) # {}) /\ UNCHANGED <<open, broken>>
  BY <1>1 DEF Join
<1>. PICK c, lb : c = LeaveSeat(club, s) /\ lb = LeftBehind(s)
  OBVIOUS
<1>6. /\ Whole(c, open) /\ c.wsPlayer[s] = Null /\ DOMAIN c.tables \subseteq DOMAIN club.tables
      /\ lb \in [Session -> Seq(Message)]
      /\ ~evicted /\ ClosedBy(club, s) = {} =>
           \A q \in Session \ {s} : Right(c, rooms, ui[q], lb[q], told[q] = "owner", q)
  BY <1>5, LeftRight
<1>7. \/ Refuses(c, s)
      \/ \E a \in Addr : Moved(c, s, t, a, "player") /\ t \in DOMAIN c.tables
  BY <1>1, <1>3, <1>6, JoinIs
<1>8. CASE Refuses(c, s)
  <2>1. club'.wsPlayer[s] = Null
    BY <1>6, <1>8 DEF Refuses
  <2>. QED  BY <1>2, <1>4, <1>5, <1>8, <2>1, RefusedStep
<1>9. ASSUME NEW a \in Addr, Moved(c, s, t, a, "player"), t \in DOMAIN c.tables
      PROVE  QtIInv'
  <2>. PICK e : e = club'
    OBVIOUS
  <2>1. /\ DOMAIN e.tables = DOMAIN c.tables
        /\ e.wsPlayer[s] # Null /\ PlayerOf(e, s).table = t
        /\ ~evicted /\ ClosedBy(club, s) = {} =>
             /\ Keeps(c, e, s, {t})
             /\ \A q \in Session \ {s} :
                  /\ e.wsPlayer[q] = club.wsPlayer[q]
                  /\ club.wsPlayer[q] # Null =>
                       /\ PlayerOf(e, q).table = PlayerOf(club, q).table
                       /\ PlayerOf(club, q).table \in DOMAIN c.tables
    <3>. PICK what : what = "player"
      OBVIOUS
    <3>1. Moved(LeaveSeat(club, s), s, t, a, what) /\ QtIInv /\ Served(s) /\ t \in Name
          /\ s \in Session
      BY <1>3, <1>5, <1>9
    <3>2. /\ DOMAIN club'.tables = DOMAIN LeaveSeat(club, s).tables \cup {t}
          /\ club'.wsPlayer[s] = a /\ club'.wsPlayer[s] # Null /\ PlayerOf(club', s).table = t
          /\ ~evicted /\ ClosedBy(club, s) = {} =>
               /\ Keeps(LeaveSeat(club, s), club', s, {t})
               /\ \A q \in Session \ {s} :
                    /\ club'.wsPlayer[q] = club.wsPlayer[q]
                    /\ club.wsPlayer[q] # Null =>
                         /\ PlayerOf(club', q).table = PlayerOf(club, q).table
                         /\ PlayerOf(club, q).table \in DOMAIN LeaveSeat(club, s).tables
      BY ONLY <3>1, MovedKeeps
    <3>. QED  BY <1>9, <3>2
  <2>. PICK m : m = [cmd |-> "JOIN", table |-> t]
    OBVIOUS
  <2>2. /\ m \in Message /\ m.cmd = "JOIN" /\ m.cmd \in Moving /\ m.table = t
    BY <1>3 DEF Message, Moving
  <2>. PICK d1, r2 : d1 = Push(lb, {s}, m) /\ r2 = rooms'
    OBVIOUS
  <2>3. /\ d1 \in [Session -> Seq(Message)]
        /\ \A q \in Session : d1[q] = IF q \in {s} THEN Append(lb[q], m) ELSE lb[q]
    <3>1. /\ Push(lb, {s}, m) \in [Session -> Seq(Message)]
          /\ \A q \in Session :
               Push(lb, {s}, m)[q] = IF q \in {s} THEN Append(lb[q], m) ELSE lb[q]
      <4>1. lb \in [Session -> Seq(Message)] /\ m \in Message
        BY <1>6, <2>2
      <4>. QED  BY ONLY <4>1, Pushed
    <3>. QED  BY <3>1
  <2>4. down' = UpdateTableGstate(d1, e, r2, t)
    BY <1>2, <2>1
  <2>5. /\ r2 = [u \in DOMAIN e.tables |-> r2[u]]
        /\ \A u \in DOMAIN e.tables : r2[u] = rooms[u] /\ IsRoom(r2[u])
    <3>1. /\ QtIInv /\ DOMAIN e.tables \subseteq DOMAIN club.tables
          /\ r2 = Restrict(rooms, DOMAIN e.tables)
      BY <1>2, <1>6, <2>1
    <3>. QED  BY ONLY <3>1, RoomsRestricted
  <2>6. IsRegistry(e) /\ Seated(e) /\ Alive(e, open) /\ t \in DOMAIN e.tables /\ IsRoom(r2[t])
    <3>1. Whole(club', open')
      BY <1>4 DEF IInv
    <3>. QED  BY <1>5, <1>9, <2>1, <2>5, <3>1 DEF Whole
  <2>7. down' \in [Session -> Seq(Message)]
    BY <1>3, <2>3, <2>4, <2>6, UpdatedType
  <2>8. QtTypeOK'
    <3>1. made' \in Nat /\ ui' \in [Session -> Window] /\ up' \in [Session -> Seq(Line)]
      BY <1>2, Taken DEF QtIInv, QtTypeOK
    <3>. QED  BY <2>5, <2>7, <3>1 DEF QtTypeOK
  <2>9. ASSUME ~evicted, ClosedBy(club, s) = {}
        PROVE  /\ Right(club', rooms', ui[s], down'[s], "player" = "owner", s)
               /\ \A q \in Session \ {s} :
                    /\ Right(club', rooms', ui[q], down'[q], told[q] = "owner", q)
                    /\ club'.wsPlayer[q] = club.wsPlayer[q]
                    /\ club.wsPlayer[q] # Null =>
                         /\ PlayerOf(club', q).table = PlayerOf(club, q).table
                         /\ rooms'[PlayerOf(club, q).table] = rooms[PlayerOf(club, q).table]
    <3>1. Exact(e)
      <4>1. ~evicted'
        BY <1>5, <2>9
      <4>. QED  BY <1>4, <4>1 DEF IInv
    <3>2. Right(e, r2, ui[s], down'[s], FALSE, s)
      <4>. PICK d, g, M : d = lb[s] /\ M = GState(e, r2, t) /\ g = M.game
        OBVIOUS
      <4>1. d \in Seq(Message) /\ d1[s] = Append(d, m) /\ Append(d, m) \in Seq(Message)
        BY <1>6, <2>2, <2>3, AppendProperties
      <4>2. Title(ui[s], Append(d, m), t, m.cmd = "NTBL")
        BY <1>3, <2>2, <4>1, MoveSent
      <4>3. M \in Message /\ M.cmd = "GSTATE" /\ g \in Game
        BY <1>3, <2>6, GStateTyped
      <4>. PICK b : b = Append(d, m)
        OBVIOUS
      <4>4. Title(ui[s], b, t, FALSE)
        BY <2>2, <4>2 DEF Title
      <4>5. Title(ui[s], Append(b, M), t, FALSE) /\ Drawn(ui[s], Append(b, M), g)
        BY <4>1, <4>3, <4>4, GStateSent
      <4>6. down'[s] = Append(b, M)
        <5>1. UpdateTableGstate(d1, e, r2, t)[s]
                = IF e.wsPlayer[s] # Null /\ PlayerOf(e, s).table = t
                    THEN Append(d1[s], GState(e, r2, t)) ELSE d1[s]
          <6>1. /\ IsRegistry(e) /\ Seated(e) /\ Alive(e, open) /\ Exact(e) /\ IsRoom(r2[t])
                /\ t \in Name /\ t \in DOMAIN e.tables /\ d1 \in [Session -> Seq(Message)]
                /\ s \in Session
            BY <1>3, <2>3, <2>6, <3>1
          <6>2. \A q \in Session :
                  UpdateTableGstate(d1, e, r2, t)[q]
                    = IF e.wsPlayer[q] # Null /\ PlayerOf(e, q).table = t
                        THEN Append(d1[q], GState(e, r2, t)) ELSE d1[q]
            BY ONLY <6>1, Updated
          <6>. QED  BY <6>2
        <5>. QED  BY <2>1, <2>4, <4>1, <5>1
      <4>. QED  BY <2>1, <4>5, <4>6 DEF Right
    <3>3. ASSUME NEW q \in Session \ {s}
          PROVE  /\ Right(e, r2, ui[q], down'[q], told[q] = "owner", q)
                 /\ e.wsPlayer[q] = club.wsPlayer[q]
                 /\ club.wsPlayer[q] # Null =>
                      /\ PlayerOf(e, q).table = PlayerOf(club, q).table
                      /\ r2[PlayerOf(club, q).table] = rooms[PlayerOf(club, q).table]
      <4>1. /\ Keeps(c, e, s, {t}) /\ e.wsPlayer[q] = club.wsPlayer[q]
            /\ club.wsPlayer[q] # Null =>
                 /\ PlayerOf(e, q).table = PlayerOf(club, q).table
                 /\ PlayerOf(club, q).table \in DOMAIN c.tables
        BY <2>1, <2>9
      <4>2. d1[q] = lb[q]
        BY <2>3
      <4>3. Right(c, rooms, ui[q], d1[q], told[q] = "owner", q)
        BY <1>6, <2>9, <4>2
      <4>4. \A v \in DOMAIN e.tables \ {t} : r2[v] = rooms[v]
        BY <2>5
      <4>5. Right(e, r2, ui[q], UpdateTableGstate(d1, e, r2, t)[q], told[q] = "owner", q)
        <5>1. /\ IsRegistry(e) /\ Seated(e) /\ Alive(e, open) /\ Exact(e) /\ IsRoom(r2[t])
              /\ t \in Name /\ t \in DOMAIN e.tables /\ d1 \in [Session -> Seq(Message)]
              /\ s \in Session /\ q \in Session /\ q # s
          BY <1>3, <2>3, <2>6, <3>1
        <5>. PICK w, own : w = ui[q] /\ own = (told[q] = "owner")
          OBVIOUS
        <5>2. Keeps(c, e, s, {t}) /\ Right(c, rooms, w, d1[q], own, q)
          BY <4>1, <4>3
        <5>3. Right(e, r2, w, UpdateTableGstate(d1, e, r2, t)[q], own, q)
          BY ONLY <4>4, <5>1, <5>2, ToldRight
        <5>. QED  BY <5>3
      <4>. QED  BY <2>1, <2>4, <2>5, <4>1, <4>5
    <3>4. ("player" = "owner") = FALSE
      OBVIOUS
    <3>. QED  BY <3>2, <3>3, <3>4
  <2>10. Tell(s, "player")
    BY <1>9 DEF Moved
  <2>. QED  BY <1>2, <1>4, <1>5, <2>8, <2>9, <2>10, MoveStep
<1>. QED  BY <1>7, <1>8, <1>9

\* The end of a session makes no table.
LEMMA EndedTables ==
  ASSUME NEW c, NEW o, IsRegistry(c), Seated(c), Alive(c, o), NEW q \in Session,
         c.wsPlayer[q] # Null, PlayerOf(c, q) # Free
  PROVE  DOMAIN Ended(c, q).tables \subseteq DOMAIN c.tables
<1>. PICK a, t : a = c.wsPlayer[q] /\ t = PlayerOf(c, q).table
  OBVIOUS
<1>1. IsRegistry(Unseat(c, q)) /\ DOMAIN Unseat(c, q).tables = DOMAIN c.tables
      /\ t \in DOMAIN c.tables
  BY UnseatEffect
<1>2. PICK d : d = EraseEntry(Unseat(c, q), q)
  OBVIOUS
<1>3. IsRegistry(d) /\ DOMAIN d.tables = DOMAIN c.tables
  <2>1. IsRegistry(EraseEntry(Unseat(c, q), q))
        /\ EraseEntry(Unseat(c, q), q).tables = Unseat(c, q).tables
    BY <1>1, EraseEntryEffect
  <2>. QED  BY <1>1, <1>2, <2>1
<1>4. EraseTable(d, t).tables = [u \in DOMAIN d.tables \ {t} |-> d.tables[u]]
  <2>1. IsRegistry(d) /\ t \in DOMAIN d.tables
    BY <1>1, <1>3
  <2>. QED  BY ONLY <2>1, EraseTableEffect
<1>5. Ended(c, q) = d \/ Ended(c, q) = EraseTable(d, t)
  BY <1>2 DEF Ended
<1>. QED  BY <1>3, <1>4, <1>5

\* A connection is lost.
LEMMA LostStep ==
  ASSUME QtIInv, NEW s \in Session, Lost(s)
  PROVE  QtIInv'
<1>. PICK t, d : t = TableOf(s) /\ d = [down EXCEPT ![s] = <<>>]
  OBVIOUS
<1>. PICK e, r2 : e = club' /\ r2 = rooms'
  OBVIOUS
<1>1. /\ WsDeleted(s) /\ Served(s) /\ told' = told /\ evicted' = evicted /\ made' = made
      /\ club.wsPlayer[s] = Null => e = club
      /\ club.wsPlayer[s] # Null => e = Ended(club, s)
      /\ r2 = Restrict(rooms, DOMAIN e.tables)
      /\ up' = [up EXCEPT ![s] = <<>>] /\ ui' = [ui EXCEPT ![s] = NewUi]
      /\ down' = IF club.wsPlayer[s] # Null /\ t \in DOMAIN e.tables
                   THEN UpdateTableGstate(d, e, rooms, t) ELSE d
  BY DEF Lost, WsDeleted, Ended, TableOf
<1>2. IInv'
  <2>1. Next
    BY <1>1 DEF Next
  <2>. QED  BY <2>1, ClubNext DEF QtIInv
<1>3. /\ IsRegistry(club) /\ Seated(club) /\ Alive(club, open) /\ Whole(club, open)
      /\ IsRegistry(e) /\ Seated(e) /\ Alive(e, open')
  BY <1>2 DEF QtIInv, IInv, Whole
<1>4. DOMAIN e.tables \subseteq DOMAIN club.tables
  BY <1>1, <1>3, EndedTables DEF Served
<1>5. /\ r2 = [u \in DOMAIN e.tables |-> r2[u]]
      /\ \A u \in DOMAIN e.tables : r2[u] = rooms[u] /\ IsRoom(r2[u])
  BY <1>1, <1>4, RoomsRestricted
<1>6. /\ up \in [Session -> Seq(Line)] /\ down \in [Session -> Seq(Message)]
      /\ ui \in [Session -> Window] /\ made \in Nat
  BY DEF QtIInv, QtTypeOK
<1>7. /\ d \in [Session -> Seq(Message)] /\ \A q \in Session : q # s => d[q] = down[q]
  <2>1. <<>> \in Seq(Message)
    OBVIOUS
  <2>. QED  BY <1>6, <2>1
<1>8. ASSUME club.wsPlayer[s] # Null, t \in DOMAIN e.tables
      PROVE  t \in Name /\ IsRoom(rooms[t])
  BY <1>3, <1>5, <1>8 DEF IsRegistry
<1>9. QtTypeOK'
  <2>1. down' \in [Session -> Seq(Message)]
    <3>1. CASE club.wsPlayer[s] # Null /\ t \in DOMAIN e.tables
      <4>1. t \in Name /\ IsRoom(rooms[t])
        BY <1>8, <3>1
      <4>2. UpdateTableGstate(d, e, rooms, t) \in [Session -> Seq(Message)]
        BY <1>3, <1>7, <3>1, <4>1, UpdatedType
      <4>. QED  BY <1>1, <3>1, <4>2
    <3>2. CASE ~(club.wsPlayer[s] # Null /\ t \in DOMAIN e.tables)
      BY <1>1, <1>7, <3>2
    <3>. QED  BY <3>1, <3>2
  <2>2. NewUi \in Window
    BY DEF NewUi, Window, NoGame, Game
  <2>3. ui' \in [Session -> Window]
    BY <1>1, <1>6, <2>2
  <2>4. up' \in [Session -> Seq(Line)]
    <3>1. <<>> \in Seq(Line)
      OBVIOUS
    <3>. QED  BY <1>1, <1>6, <3>1
  <2>. QED  BY <1>1, <1>5, <1>6, <2>1, <2>3, <2>4 DEF QtTypeOK
<1>10. ASSUME ~evicted', NEW q \in Session  PROVE InStep(q)' /\ MeantAt(q)'
  <2>0. /\ Exact(club) /\ Exact(e)
        /\ \A v \in Session : Right(club, rooms, ui[v], down[v], told[v] = "owner", v)
        /\ \A v \in Session : MeantAt(v)
    BY <1>1, <1>2, <1>10 DEF QtIInv, IInv, InStep
  <2>1. CASE q = s
    <3>1. e.wsPlayer[s] = Null
      <4>1. club.wsPlayer[s] # Null => Ended(club, s).wsPlayer[s] = Null
        BY <1>3, <2>0, EndedKeeps
      <4>. QED  BY <1>1, <4>1
    <3>2. up'[s] = <<>>
      BY <1>1, <1>6
    <3>. QED  BY <2>1, <3>1, <3>2 DEF InStep, Right, MeantAt, Meant
  <2>2. CASE q # s
    <3>. PICK w, own : w = ui[q] /\ own = (told[q] = "owner")
      OBVIOUS
    <3>1. /\ ui'[q] = w /\ up'[q] = up[q] /\ d[q] = down[q] /\ d[q] \in Seq(Message)
          /\ Right(club, rooms, w, d[q], own, q)
      BY <1>1, <1>6, <1>7, <2>0, <2>2
    <3>2. /\ e.wsPlayer[q] = club.wsPlayer[q]
          /\ e.wsPlayer[q] # Null => PlayerOf(e, q) = PlayerOf(club, q)
          /\ Right(e, rooms, w, down'[q], own, q)
      <4>1. CASE club.wsPlayer[s] = Null
        BY <1>1, <3>1, <4>1
      <4>2. CASE club.wsPlayer[s] # Null /\ t \in DOMAIN e.tables
        <5>1. Keeps(club, e, s, {t})
          <6>1. PlayerOf(club, s).table \in DOMAIN Ended(club, s).tables =>
                  Keeps(club, Ended(club, s), s, {PlayerOf(club, s).table})
            BY <1>3, <2>0, <4>2, EndedKeeps
          <6>. QED  BY <1>1, <4>2, <6>1 DEF TableOf
        <5>2. e.wsPlayer[q] = club.wsPlayer[q]
              /\ (e.wsPlayer[q] # Null => PlayerOf(e, q) = PlayerOf(club, q))
          <6>1. e.wsPlayer[q] = club.wsPlayer[q]
            BY <2>2, <5>1 DEF Keeps
          <6>. QED  BY <2>2, <5>1, <6>1 DEF Keeps
        <5>3. /\ IsRegistry(e) /\ Seated(e) /\ Alive(e, open') /\ Exact(e) /\ IsRoom(rooms[t])
              /\ t \in Name /\ t \in DOMAIN e.tables /\ d \in [Session -> Seq(Message)]
              /\ s \in Session /\ q \in Session /\ q # s
              /\ \A v \in DOMAIN e.tables \ {t} : rooms[v] = rooms[v]
          BY <1>3, <1>7, <1>8, <2>0, <2>2, <4>2
        <5>. PICK o, r : o = open' /\ r = rooms
          OBVIOUS
        <5>4. Right(e, r, w, UpdateTableGstate(d, e, r, t)[q], own, q)
          BY <3>1, <5>1, <5>3, ToldRight
        <5>. QED  BY <1>1, <4>2, <5>2, <5>4
      <4>3. CASE club.wsPlayer[s] # Null /\ t \notin DOMAIN e.tables
        <5>. PICK T : T = {}
          OBVIOUS
        <5>1. Keeps(club, e, s, T)
          <6>1. PlayerOf(club, s).table \notin DOMAIN Ended(club, s).tables =>
                  Keeps(club, Ended(club, s), s, {})
            BY <1>3, <2>0, <4>3, EndedKeeps
          <6>. QED  BY <1>1, <4>3, <6>1 DEF TableOf
        <5>2. e.wsPlayer[q] = club.wsPlayer[q]
              /\ (e.wsPlayer[q] # Null => PlayerOf(e, q) = PlayerOf(club, q))
          <6>1. e.wsPlayer[q] = club.wsPlayer[q]
            BY <2>2, <5>1 DEF Keeps
          <6>. QED  BY <2>2, <5>1, <6>1 DEF Keeps
        <5>. PICK b : b = d[q]
          OBVIOUS
        <5>3. Right(e, rooms, w, b, own, q)
          BY <2>2, <3>1, <5>1, AwayRight
        <5>. QED  BY <1>1, <4>3, <5>2, <5>3
      <4>. QED  BY <4>1, <4>2, <4>3
    <3>3. e.wsPlayer[q] # Null => r2[PlayerOf(e, q).table] = rooms[PlayerOf(e, q).table]
      <4>1. e.wsPlayer[q] # Null => PlayerOf(e, q).table \in DOMAIN e.tables
        BY <1>3, <2>0, PlayerSits
      <4>. QED  BY <1>5, <4>1
    <3>4. Right(e, r2, w, down'[q], own, q)
      BY <3>2, <3>3, RoomRight
    <3>5. Meant(up[q], club.wsPlayer[q] # Null, rooms[TableOf(q)].id, told[q] = "owner")
      BY <2>0 DEF MeantAt
    <3>6. Meant(up[q], e.wsPlayer[q] # Null, r2[PlayerOf(e, q).table].id, told[q] = "owner")
      <4>1. CASE e.wsPlayer[q] # Null
        BY <3>2, <3>3, <3>5, <4>1 DEF TableOf
      <4>2. CASE e.wsPlayer[q] = Null
        BY <3>2, <3>5, <4>2 DEF Meant
      <4>. QED  BY <4>1, <4>2
    <3>. QED  BY <1>1, <3>1, <3>4, <3>6 DEF InStep, MeantAt, TableOf
  <2>. QED  BY <2>1, <2>2
<1>. QED  BY <1>2, <1>9, <1>10 DEF QtIInv

-----------------------------------------------------------------------------
(* The invariant.                                                          *)

LEMMA QtStart == QtInit => QtIInv
<1>. SUFFICES ASSUME QtInit PROVE QtIInv
  OBVIOUS
<1>1. IInv
  BY ClubInit DEF QtInit
<1>2. /\ rooms = [t \in {} |-> 0] /\ made = 0
      /\ up = [s \in Session |-> <<[op |-> "tbls"]>>]
      /\ down = [s \in Session |-> <<>>] /\ ui = [s \in Session |-> NewUi]
  BY DEF QtInit
<1>3. /\ DOMAIN club.tables = {} /\ \A s \in Session : club.wsPlayer[s] = Null
  BY DEF QtInit, Init
<1>4. QtTypeOK
  <2>1. rooms = [t \in DOMAIN club.tables |-> rooms[t]]
    BY <1>2, <1>3
  <2>2. \A t \in DOMAIN club.tables : IsRoom(rooms[t])
    BY <1>3
  <2>3. up \in [Session -> Seq(Line)]
    <3>. PICK m : m = [op |-> "tbls"]
      OBVIOUS
    <3>1. m \in Line
      BY DEF Line, Asked
    <3>2. <<m>> \in Seq(Line)
      BY <3>1
    <3>. QED  BY <1>2, <3>2
  <2>4. down \in [Session -> Seq(Message)]
    <3>1. <<>> \in Seq(Message)
      OBVIOUS
    <3>. QED  BY <1>2, <3>1
  <2>5. NewUi \in Window
    BY DEF NewUi, Window, NoGame, Game
  <2>6. made \in Nat /\ ui \in [Session -> Window]
    BY <1>2, <2>5
  <2>. QED  BY <2>1, <2>2, <2>3, <2>4, <2>6 DEF QtTypeOK
<1>5. ASSUME NEW s \in Session  PROVE InStep(s) /\ MeantAt(s)
  <2>1. InStep(s)
    BY <1>3 DEF InStep, Right
  <2>2. \A n \in DOMAIN up[s] : up[s][n].op = "tbls"
    <3>. PICK m : m = [op |-> "tbls"]
      OBVIOUS
    <3>1. up[s] = <<m>> /\ m.op = "tbls"
      BY <1>2
    <3>. QED  BY <3>1
  <2>3. MeantAt(s)
    BY <2>2 DEF MeantAt, Meant
  <2>. QED  BY <2>1, <2>3
<1>. QED  BY <1>1, <1>4, <1>5 DEF QtIInv

LEMMA QtStep == QtIInv /\ [QtNext]_qtVars => QtIInv'
<1>. SUFFICES ASSUME QtIInv, [QtNext]_qtVars PROVE QtIInv'
  OBVIOUS
<1>1. ASSUME NEW s \in Session, Ask(s)  PROVE QtIInv'
  BY <1>1, AskStep
<1>2. ASSUME NEW s \in Session, NewGame(s) \/ Move(s)  PROVE QtIInv'
  BY <1>2, CommandStep
<1>3. ASSUME NEW s \in Session, OnReceived(s)  PROVE QtIInv'
  BY <1>3, ReceiveStep
<1>4. ASSUME NEW s \in Session, Serve(s)  PROVE QtIInv'
  BY <1>4, NewTableStep, JoinStep, GameServed DEF Serve
<1>5. ASSUME NEW s \in Session, Lost(s)  PROVE QtIInv'
  BY <1>5, LostStep
<1>6. CASE UNCHANGED qtVars
  <2>1. /\ UNCHANGED vars /\ club' = club /\ told' = told /\ evicted' = evicted
        /\ rooms' = rooms /\ made' = made /\ up' = up /\ down' = down /\ ui' = ui
    BY <1>6 DEF qtVars, vars
  <2>2. IInv'
    BY <2>1, ClubStays DEF QtIInv
  <2>. QED  BY <2>1, <2>2 DEF QtIInv, QtTypeOK, InStep, MeantAt, TableOf
<1>. QED  BY <1>1, <1>2, <1>3, <1>4, <1>5, <1>6 DEF QtNext

LEMMA AlwaysQtIInv == QtSpec => []QtIInv
BY QtStart, QtStep, PTL DEF QtSpec

-----------------------------------------------------------------------------
(* Theorems.                                                               *)

\* The lines that the server reads and the windows show are of their types, and
\* the words it takes for names are names, also after players were evicted.
THEOREM QtTypeCorrect == QtSpec => []QtTypeOK
<1>1. QtIInv => QtTypeOK
  BY DEF QtIInv
<1>. QED  BY AlwaysQtIInv, <1>1, PTL

\* Until an owner leaves a table where others sit, a move that is accepted was
\* made on this table's board and New Game comes from its owner, if they were
\* sent while no change of tables was under way.
THEOREM ServedAsMeantThm == QtSpec => [](~evicted => ServedAsMeant)
<1>1. QtIInv => (~evicted => ServedAsMeant)
  <2>. SUFFICES ASSUME QtIInv, ~evicted, NEW s \in Session, Plays(s), NEW n \in DOMAIN up[s]
       PROVE  /\ up[s][n].op = "move" /\ up[s][n].settled
                   /\ up[s][n].gstate = rooms[TableOf(s)].gstate =>
                   up[s][n].id = rooms[TableOf(s)].id
              /\ up[s][n].op = "gnew" /\ up[s][n].settled => IsOwner(club, s)
    BY DEF ServedAsMeant
  <2>1. MeantAt(s) /\ InStep(s) /\ club.wsPlayer[s] # Null
    BY DEF QtIInv, Plays
  <2>2. rooms[TableOf(s)].gstate \in Nat
    <3>1. PlayerOf(club, s).table \in DOMAIN club.tables
      <4>1. IsRegistry(club) /\ Alive(club, open) /\ Exact(club)
        BY DEF QtIInv, IInv, Whole
      <4>. QED  BY <2>1, <4>1, PlayerSits
    <3>. QED  BY <3>1 DEF QtIInv, QtTypeOK, IsRoom, TableOf
  <2>3. /\ up[s][n].op = "move" /\ up[s][n].settled =>
             up[s][n].id = rooms[TableOf(s)].id \/ up[s][n].gstate = -1
        /\ up[s][n].op = "gnew" /\ up[s][n].settled => told[s] = "owner"
    BY <2>1 DEF MeantAt, Meant
  <2>4. told[s] = "owner" => IsOwner(club, s)
    BY <2>1 DEF InStep, Right
  <2>. QED  BY <2>2, <2>3, <2>4
<1>. QED  BY AlwaysQtIInv, <1>1, PTL

\* Until then, a window that has nothing to receive shows the table its player
\* is at, as the owner or not, with the players and the game.
THEOREM QuietMeansCurrentThm == QtSpec => [](~evicted => QuietMeansCurrent)
<1>1. QtIInv => (~evicted => QuietMeansCurrent)
  <2>. SUFFICES ASSUME QtIInv, ~evicted, NEW s \in Session, Plays(s), down[s] = <<>>
       PROVE  /\ ui[s].at = TableOf(s)
              /\ ui[s].mayStart <=> told[s] = "owner"
              /\ \/ ui[s].game = GState(club, rooms, TableOf(s)).game
                 \/ ui[s].game = NoGame /\ rooms[TableOf(s)].gstate = 0
    BY DEF QuietMeansCurrent
  <2>. PICK d, g : d = down[s] /\ g = GState(club, rooms, TableOf(s)).game
    OBVIOUS
  <2>1. Title(ui[s], d, TableOf(s), told[s] = "owner") /\ Drawn(ui[s], d, g)
    BY DEF QtIInv, InStep, Right, Plays, TableOf
  <2>2. Lacks(d, Moving) /\ Lacks(d, Showing)
    BY DEF Lacks
  <2>3. g.gstate = rooms[TableOf(s)].gstate
    BY DEF GState
  <2>. QED  BY <2>1, <2>2, <2>3 DEF Title, Drawn
<1>. QED  BY AlwaysQtIInv, <1>1, PTL
=============================================================================
