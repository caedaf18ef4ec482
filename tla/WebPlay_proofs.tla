---------------------------- MODULE WebPlay_proofs ----------------------------
(***************************************************************************)
(* Proofs about the tables of the Python server and the pages that play at *)
(* them, for every set of clients and tables and every deck.  Types hold   *)
(* always; what the pages show and what the server judges is proved for    *)
(* the time in which nobody changes tables.                                *)
(***************************************************************************)
EXTENDS WebPlay, Basics_proofs, FiniteSetTheorems

-----------------------------------------------------------------------------
(* Types.                                                                  *)

Spot == Nat \ {0}
Triples == {s \in [1..3 -> Spot] : IsInjective(s)}
Picks == {s \in Seq(Spot) : IsInjective(s)}

Score == [found : Nat, bad : Nat, good : Nat, wrong : Nat]
Roster == UNION {[S -> Score] : S \in SUBSET Client}

TableRec == [tstate : Int, gstate : Nat, gactive : BOOLEAN, deck : SUBSET Deck0,
             active : Seq(Deck0), numbers : Roster]
Game == [tstate : Int, gstate : Nat, gactive : BOOLEAN, deck : Nat,
         active : Seq(Deck0), numbers : Roster]

Codes == {"OK", "COLLISION", "NOT_A_SET", "FALSE_NONE", "YES_MORE", "raised", "NAME_USED"}
Found == [pos : Triples, cards : [1..3 -> Deck0]]
StateMsg == [cmd : {"GSTATE"}, game : Game]
FoundMsg == [cmd : {"SET_FOUND"}, found : Found]
OtherMsg == [cmd : {"NTBL", "JOIN"}] \cup [cmd : {"error"}, rc : Codes]
Message == StateMsg \cup FoundMsg \cup OtherMsg

Claim == [op : {"try3"}, gstate : Int, pos : Triples, cards : [1..3 -> Int]]
Move == [op : {"add3", "nmor"}, gstate : Int]
Switch == [op : {"ntbl", "join"}, to : Tables]
Command == Claim \cup Move \cup Switch \cup [op : {"gnew"}]

Page == [tstate : Int, players : Roster, gstate : Int, board : Seq(Deck0),
         deck : Nat, active : BOOLEAN, owner : BOOLEAN,
         buttons : SUBSET {"add3", "nmor"}, selected : Picks, notASet : BOOLEAN,
         over : BOOLEAN, joining : BOOLEAN, delayed : Found \cup {Nothing},
         held : Seq(Message)]

\* Events are held back only while a found set is shown.
Tidy(pg) == pg.delayed = Nothing => pg.held = <<>>

\* A table that was created counts its changes.
Counted(T) == T = NoTable \/ T.gstate <= T.tstate

TypeInv ==
  /\ table \in [Tables -> TableRec]
  /\ up \in [Client -> Seq(Command)]
  /\ fut \in [Client -> Seq(Message)]
  /\ down \in [Client -> Seq(Message)]
  /\ dead \subseteq Client
  /\ page \in [Client -> Page]

Orderly ==
  /\ \A c \in Client : Tidy(page[c])
  /\ \A t \in Tables : Counted(table[t])
  /\ \A c \in Client : \A n \in DOMAIN up[c] :
       up[c][n].op = "join" => Open(up[c][n].to)
  /\ \A c \in Client, t, u \in Tables : At(c, t) /\ At(c, u) => t = u

-----------------------------------------------------------------------------
(* What a page and the messages on their way to it have to do with a table.*)

\* What is said of the table is not ahead of it, and is true as long as its
\* numbers are.
Faithful(g, T) ==
  /\ g.gstate <= T.gstate /\ g.tstate <= T.tstate
  /\ g.gstate = T.gstate =>
       g.active = T.active /\ g.deck = Cardinality(T.deck) /\ g.gactive = T.gactive
  /\ g.tstate = T.tstate => g.numbers = T.numbers

\* The state that a page shows.
Shown(pg) == [tstate |-> pg.tstate, gstate |-> pg.gstate, gactive |-> pg.active,
              deck |-> pg.deck, active |-> pg.board, numbers |-> pg.players]

States(s) == {n \in DOMAIN s : s[n].cmd = "GSTATE"}
Founds(s) == {n \in DOMAIN s : s[n].cmd = "SET_FOUND"}

\* The last state among the first n messages, in a set of one or none.
LastState(s, n) ==
  {i \in 1..n : i \in States(s) /\ \A j \in States(s) : j <= i \/ j > n}

\* The board that a page shows when it has handled n of the messages.
BoardAfter(pg, s, n) ==
  IF LastState(s, n) = {} THEN pg.board
  ELSE s[CHOOSE i \in LastState(s, n) : TRUE].game.active

LiesOn(board, found) ==
  \A k \in 1..3 : CardAt(board, found.pos[k]) = found.cards[k]

\* A later state has no lower gstate, and with the same one the same board.
Before(g, h) == g.gstate <= h.gstate /\ (g.gstate = h.gstate => g.active = h.active)

\* The page and its messages tell the history of one table, in order; sets are
\* found on the board that is shown then.
InOrder(pg, s) ==
  /\ \A n \in States(s) : Before(Shown(pg), s[n].game)
  /\ \A i, j \in States(s) : i < j => Before(s[i].game, s[j].game)
  /\ \A n \in Founds(s) : LiesOn(BoardAfter(pg, s, n - 1), s[n].found)
  /\ pg.delayed # Nothing => LiesOn(pg.board, pg.delayed)

Follows(pg, s, T) ==
  /\ Faithful(Shown(pg), T)
  /\ \A n \in States(s) : Faithful(s[n].game, T)
  /\ InOrder(pg, s)

\* Whether the present game of T is or will be shown.
Hears(pg, s, T) ==
  pg.gstate = T.gstate \/ \E n \in States(s) : s[n].game.gstate = T.gstate

\* Nothing of any table.
Blank(pg, s) ==
  /\ pg.gstate = -1 /\ pg.tstate = -1 /\ pg.board = <<>> /\ pg.delayed = Nothing
  /\ States(s) = {} /\ Founds(s) = {}

\* The commands of the game that T would not turn down were made on its board.
Fits(m, T) ==
  /\ m.op \in {"try3", "add3"} => m.gstate <= T.gstate
  /\ m.op = "try3" /\ m.gstate = T.gstate =>
       \A k \in 1..3 : CardAt(T.active, m.pos[k]) = m.cards[k]

HasDeck(c, m, T) ==
  c \notin Newer /\ m.op = "add3" /\ m.gstate = T.gstate => Cardinality(T.deck) # 0

-----------------------------------------------------------------------------
(* The invariant.                                                          *)

Stream(c) == page[c].held \o down[c] \o fut[c]

\* What was claimed on the present game, or shown, or is on its way.
Current(c, t) ==
  \/ Hears(page[c], Stream(c), table[t])
  \/ \E n \in DOMAIN up[c] : up[c][n].op = "try3" /\ up[c][n].gstate = table[t].gstate

LastBoard(c) == BoardAfter(page[c], Stream(c), Len(Stream(c)))

Outsiders ==
  \A c \in Client : ~Seated(c) =>
    /\ Blank(page[c], Stream(c))
    /\ \A n \in DOMAIN up[c] : up[c][n].op \in {"try3", "add3"} => up[c][n].gstate = -1

Players ==
  \A c \in Client, t \in Tables : At(c, t) =>
    /\ Follows(page[c], Stream(c), table[t])
    /\ \A n \in DOMAIN up[c] : Fits(up[c][n], table[t]) /\ HasDeck(c, up[c][n], table[t])

\* When one client has heard of the present game, all hear of it.
AllHear ==
  \A c, d \in Client, t \in Tables :
    At(c, t) /\ At(d, t) /\ Current(c, t) => LastBoard(d) = table[t].active

\* 3333.js has no Add 3 button without a deck.
ButtonsFit ==
  \A c \in Client \ Newer : "add3" \in page[c].buttons => page[c].deck # 0

PlayInv == Outsiders /\ Players /\ AllHear /\ ButtonsFit

InThrees == \A t \in Tables : Cardinality(table[t].deck) % 3 = 0

\* Nobody who sits at a table leaves it, or asks for another one.
Staying ==
  \A c \in Client, t \in Tables : At(c, t) =>
    /\ At(c, t)'
    /\ \A u \in Tables : ~SendNewTable(c, u) /\ ~SendJoin(c, u)

-----------------------------------------------------------------------------
(* The loop over the events that were held back.                           *)

\* The loop over the events that were held back comes to its end over pages
\* each of which is the one before with the next event handled.
LEMMA DelayedLoop ==
  ASSUME NEW c, NEW pg, Len(pg.held) \in Nat
  PROVE  \E q : /\ q[0] = [pg EXCEPT !.held = <<>>]
                /\ \A n \in 1..Len(pg.held) : q[n] = Handle(c, q[n - 1], pg.held[n])
                /\ HandleDelayed(c, pg) = q[Len(pg.held)]
<1>. DEFINE N == Len(pg.held)
            first == [pg EXCEPT !.held = <<>>]
            Solves(g, n) == g = [k \in 0..n |-> IF k = 0 THEN first
                                   ELSE Handle(c, g[k - 1], pg.held[k])]
            T == {n \in 0..N : \E g : Solves(g, n)}
            after == CHOOSE g : Solves(g, N)
<1>. HIDE DEF first
<1>1. 0 \in T
  <2>. DEFINE g0 == [k \in 0..0 |-> first]
  <2>1. Solves(g0, 0)
    <3>1. \A k \in 0..0 : k = 0
      OBVIOUS
    <3>. QED  BY <3>1
  <2>. HIDE DEF Solves
  <2>. QED  BY <2>1
<1>2. ASSUME NEW n \in 1..N, n - 1 \in T  PROVE n \in T
  <2>1. PICK g : Solves(g, n - 1)
    BY <1>2
  <2>. DEFINE h == [k \in 0..n |-> IF k = n THEN Handle(c, g[n - 1], pg.held[n]) ELSE g[k]]
  <2>2. ASSUME NEW k \in 0..n
        PROVE  h[k] = IF k = 0 THEN first ELSE Handle(c, h[k - 1], pg.held[k])
    <3>1. CASE k = n
      <4>1. n - 1 \in 0..n /\ n - 1 # n /\ n # 0
        OBVIOUS
      <4>2. h[n - 1] = g[n - 1]
        BY <4>1
      <4>. QED  BY <3>1, <4>1, <4>2
    <3>2. CASE k # n
      <4>1. k \in 0..(n - 1)
        BY <3>2
      <4>2. h[k] = g[k]
        BY <3>2
      <4>3. g[k] = IF k = 0 THEN first ELSE Handle(c, g[k - 1], pg.held[k])
        <5>. DEFINE r == [j \in 0..(n - 1) |-> IF j = 0 THEN first
                                  ELSE Handle(c, g[j - 1], pg.held[j])]
        <5>1. r[k] = IF k = 0 THEN first ELSE Handle(c, g[k - 1], pg.held[k])
          BY <4>1
        <5>2. g = r
          BY <2>1, Zenon
        <5>. HIDE DEF r
        <5>. QED  BY <5>1, <5>2, Zenon
      <4>4. k # 0 => h[k - 1] = g[k - 1]
        BY <4>1
      <4>. QED  BY <4>2, <4>3, <4>4
    <3>. QED  BY <3>1, <3>2
  <2>3. Solves(h, n)
    <3>. DEFINE r == [k \in 0..n |-> IF k = 0 THEN first ELSE Handle(c, h[k - 1], pg.held[k])]
    <3>1. \A k \in 0..n : h[k] = r[k]
      BY <2>2
    <3>2. h = r
      BY <3>1
    <3>. QED  BY <3>2, Zenon
  <2>. HIDE DEF Solves, h
  <2>4. n \in 0..N
    OBVIOUS
  <2>. QED  BY <2>3, <2>4
<1>3. \E g : Solves(g, N)
  <2>. HIDE DEF T
  <2>1. 0..N \subseteq T
    BY <1>1, <1>2, UpTo
  <2>2. N \in T
    BY <2>1
  <2>. QED  BY <2>2 DEF T
<1>4. Solves(after, N)
  <2>. HIDE DEF Solves
  <2>. QED  BY <1>3, Zenon
<1>5. HandleDelayed(c, pg) = after[N]
  BY DEF HandleDelayed, first
<1>6. ASSUME NEW n \in 0..N
      PROVE  after[n] = IF n = 0 THEN first ELSE Handle(c, after[n - 1], pg.held[n])
  <2>. DEFINE r == [k \in 0..N |-> IF k = 0 THEN first
                            ELSE Handle(c, after[k - 1], pg.held[k])]
  <2>1. r[n] = IF n = 0 THEN first ELSE Handle(c, after[n - 1], pg.held[n])
    OBVIOUS
  <2>2. after = r
    BY <1>4, Zenon
  <2>. HIDE DEF r, after
  <2>. QED  BY <2>1, <2>2, Zenon
<1>. HIDE DEF after
<1>7. after[0] = first
  BY <1>6
<1>8. \A n \in 1..N : after[n] = Handle(c, after[n - 1], pg.held[n])
  <2>1. \A n \in 1..N : n \in 0..N /\ n # 0
    OBVIOUS
  <2>. QED  BY <1>6, <2>1
<1>. QED  BY <1>5, <1>7, <1>8 DEF first

\* sort() of three different numbers.
LEMMA SortedTriple ==
  ASSUME NEW a \in Triples
  PROVE  /\ Sorted(a) \in Triples
         /\ OnBoard(Sorted(a)) = OnBoard(a)
         /\ Sorted(a)[1] < Sorted(a)[2] /\ Sorted(a)[2] < Sorted(a)[3]
<1>. DEFINE x == a[1]
            y == a[2]
            z == a[3]
            lo == Min(OnBoard(a))
            hi == Max(OnBoard(a))
            mid == x + y + z - lo - hi
<1>1. /\ x \in Nat \ {0} /\ y \in Nat \ {0} /\ z \in Nat \ {0}
      /\ x # y /\ y # z /\ x # z
  <2>1. DOMAIN a = 1..3 /\ \A i, j \in 1..3 : a[i] = a[j] => i = j
    BY DEF Triples, IsInjective
  <2>2. 1 \in 1..3 /\ 2 \in 1..3 /\ 3 \in 1..3
    OBVIOUS
  <2>3. a[1] \in Spot /\ a[2] \in Spot /\ a[3] \in Spot
    BY <2>2 DEF Triples
  <2>. QED  BY <2>1, <2>2, <2>3 DEF Spot
<1>2. OnBoard(a) = {x, y, z}
  <2>1. DOMAIN a = 1..3
    BY DEF Triples
  <2>2. 1..3 = {1, 2, 3}
    OBVIOUS
  <2>. QED  BY <2>1, <2>2 DEF OnBoard
<1>. HIDE DEF x, y, z
<1>3. lo \in {x, y, z} /\ lo <= x /\ lo <= y /\ lo <= z
  <2>1. \E m \in {x, y, z} : \A k \in {x, y, z} : m <= k
    BY <1>1
  <2>. QED  BY <1>2, <2>1 DEF Min
<1>4. hi \in {x, y, z} /\ x <= hi /\ y <= hi /\ z <= hi
  <2>1. \E m \in {x, y, z} : \A k \in {x, y, z} : k <= m
    BY <1>1
  <2>. QED  BY <1>2, <2>1 DEF Max
<1>. HIDE DEF lo, hi
<1>5. mid \in {x, y, z} /\ lo < mid /\ mid < hi /\ {lo, mid, hi} = {x, y, z}
  BY <1>1, <1>3, <1>4
<1>6. Sorted(a) = <<lo, mid, hi>>
  BY DEF Sorted, lo, hi, x, y, z
<1>. HIDE DEF mid
<1>7. lo \in Spot /\ mid \in Spot /\ hi \in Spot
  BY <1>1, <1>5 DEF Spot
<1>8. OnBoard(<<lo, mid, hi>>) = {lo, mid, hi}
  <2>1. DOMAIN <<lo, mid, hi>> = {1, 2, 3}
    OBVIOUS
  <2>. QED  BY <2>1 DEF OnBoard
<1>9. <<lo, mid, hi>> \in [1..3 -> Spot]
  BY <1>7
<1>10. IsInjective(<<lo, mid, hi>>)
  BY <1>5, <1>7 DEF IsInjective, Spot
<1>. QED  BY <1>2, <1>5, <1>6, <1>8, <1>9, <1>10 DEF Triples

-----------------------------------------------------------------------------
(* What the methods of a table do.                                         *)

\* The decks are finite.
LEMMA DeckFinite ==
  ASSUME NEW d \in SUBSET Deck0
  PROVE  IsFiniteSet(d) /\ Cardinality(d) \in Nat
<1>1. IsFiniteSet(Card)
  <2>1. 0 \in Int /\ 80 \in Int
    OBVIOUS
  <2>2. IsFiniteSet(0..80)
    BY <2>1, FS_Interval, Zenon
  <2>. QED  BY <2>2 DEF Card
<1>2. IsFiniteSet(d)
  <2>1. d \in SUBSET Card
    BY DeckAssumption
  <2>. QED  BY <1>1, <2>1, FS_Subset
<1>. QED  BY <1>2, FS_CardinalityType

\* Everything of T2 is as in T, except for the fields that are given.
SameBoard(T2, T) == T2.active = T.active /\ T2.deck = T.deck /\ T2.gactive = T.gactive
SamePlayers(T2, T) == DOMAIN T2.numbers = DOMAIN T.numbers

\* state_bump and game_state_bump.
LEMMA Bumps ==
  ASSUME NEW T \in TableRec
  PROVE  /\ StateBump(T) \in TableRec /\ SameBoard(StateBump(T), T)
         /\ StateBump(T).numbers = T.numbers
         /\ StateBump(T).tstate = T.tstate + 1 /\ StateBump(T).gstate = T.gstate
         /\ GameStateBump(T) \in TableRec /\ SameBoard(GameStateBump(T), T)
         /\ GameStateBump(T).numbers = T.numbers
         /\ GameStateBump(T).tstate = T.tstate + 1
         /\ GameStateBump(T).gstate = T.gstate + 1
<1>1. StateBump(T) \in TableRec /\ StateBump(T) = [T EXCEPT !.tstate = T.tstate + 1]
  BY DEF StateBump, TableRec
<1>2. GameStateBump(T) = [T EXCEPT !.tstate = T.tstate + 1, !.gstate = T.gstate + 1]
  BY DEF StateBump, GameStateBump, TableRec
<1>3. /\ StateBump(T) \in TableRec /\ SameBoard(StateBump(T), T)
      /\ StateBump(T).numbers = T.numbers
      /\ StateBump(T).tstate = T.tstate + 1 /\ StateBump(T).gstate = T.gstate
  BY <1>1 DEF TableRec, SameBoard
<1>4. GameStateBump(T) \in TableRec
  <2>1. T.tstate + 1 \in Int /\ T.gstate + 1 \in Nat
    BY DEF TableRec
  <2>. QED  BY <1>2, <2>1 DEF TableRec
<1>5. /\ SameBoard(GameStateBump(T), T) /\ GameStateBump(T).numbers = T.numbers
      /\ GameStateBump(T).tstate = T.tstate + 1
      /\ GameStateBump(T).gstate = T.gstate + 1
  BY <1>2 DEF TableRec, SameBoard
<1>. QED  BY <1>3, <1>4, <1>5

\* The numbers shown of a player.
LEMMA RosterScore ==
  ASSUME NEW r \in Roster, NEW p \in DOMAIN r, NEW x \in Score
  PROVE  /\ r[p] \in Score
         /\ [r EXCEPT ![p] = x] \in Roster
         /\ DOMAIN [r EXCEPT ![p] = x] = DOMAIN r
<1>1. PICK S \in SUBSET Client : r \in [S -> Score]
  BY DEF Roster
<1>2. DOMAIN r = S /\ r[p] \in Score
  BY <1>1
<1>3. [r EXCEPT ![p] = x] \in [S -> Score]
  BY <1>1, <1>2
<1>. QED  BY <1>1, <1>2, <1>3 DEF Roster

\* A change of one player's numbers is no change of the game.
LEMMA Scores ==
  ASSUME NEW T \in TableRec, NEW p \in DOMAIN T.numbers,
         NEW T2 \in {[T EXCEPT !.numbers[p].found = @ + 1],
                     [T EXCEPT !.numbers[p].bad = @ + 1],
                     [T EXCEPT !.numbers[p].good = @ + 1],
                     [T EXCEPT !.numbers[p].wrong = @ + 1]}
  PROVE  /\ T2 \in TableRec /\ SameBoard(T2, T) /\ SamePlayers(T2, T)
         /\ T2.tstate = T.tstate /\ T2.gstate = T.gstate
<1>1. T.numbers \in Roster
  BY DEF TableRec
<1>2. T.numbers[p] \in Score
  <2>1. [found |-> 0, bad |-> 0, good |-> 0, wrong |-> 0] \in Score
    BY DEF Score
  <2>. QED  BY <1>1, <2>1, RosterScore
<1>3. PICK x \in Score : T2 = [T EXCEPT !.numbers = [T.numbers EXCEPT ![p] = x]]
  <2>. DEFINE y == T.numbers[p]
  <2>1. /\ [y EXCEPT !.found = @ + 1] \in Score
        /\ [y EXCEPT !.bad = @ + 1] \in Score
        /\ [y EXCEPT !.good = @ + 1] \in Score
        /\ [y EXCEPT !.wrong = @ + 1] \in Score
    BY <1>2 DEF Score
  <2>2. CASE T2 = [T EXCEPT !.numbers[p].found = @ + 1]
    BY <2>1, <2>2
  <2>3. CASE T2 = [T EXCEPT !.numbers[p].bad = @ + 1]
    BY <2>1, <2>3
  <2>4. CASE T2 = [T EXCEPT !.numbers[p].good = @ + 1]
    BY <2>1, <2>4
  <2>5. CASE T2 = [T EXCEPT !.numbers[p].wrong = @ + 1]
    BY <2>1, <2>5
  <2>. QED  BY <2>2, <2>3, <2>4, <2>5
<1>4. [T.numbers EXCEPT ![p] = x] \in Roster /\ DOMAIN [T.numbers EXCEPT ![p] = x] = DOMAIN T.numbers
  BY <1>1, RosterScore
<1>. HIDE DEF Roster
<1>. QED  BY <1>3, <1>4 DEF TableRec, SameBoard, SamePlayers

\* Cards drawn for the places in S are as many cards of the deck.
LEMMA Drawn ==
  ASSUME NEW d \in SUBSET Deck0, NEW S, IsFiniteSet(S), NEW f \in Draws(S, d)
  PROVE  /\ f \in [S -> d]
         /\ d \ OnBoard(f) \in SUBSET Deck0
         /\ Cardinality(d \ OnBoard(f)) = Cardinality(d) - Cardinality(S)
<1>1. f \in [S -> d] /\ \A i, j \in S : f[i] = f[j] => i = j
  BY DEF Draws
<1>2. OnBoard(f) \subseteq d
  BY <1>1 DEF OnBoard
<1>3. Cardinality(OnBoard(f)) = Cardinality(S)
  <2>1. f \in Surjection(S, OnBoard(f))
    BY <1>1 DEF OnBoard, Surjection
  <2>2. f \in Injection(S, OnBoard(f))
    BY <1>1 DEF OnBoard, Injection, IsInjective
  <2>. QED  BY <2>1, <2>2, FS_Surjection
<1>4. Cardinality(d \ OnBoard(f)) = Cardinality(d) - Cardinality(d \cap OnBoard(f))
  BY DeckFinite, FS_Difference
<1>5. d \cap OnBoard(f) = OnBoard(f)
  BY <1>2
<1>. QED  BY <1>1, <1>3, <1>4, <1>5

\* deal_cards_append deals n cards, or all and raises.
LEMMA AppendDoes ==
  ASSUME NEW T \in TableRec, NEW n \in Nat, NEW o \in DealCardsAppend(T, n)
  PROVE  /\ o = Outcome(o.table, o.rc)
         /\ o.table \in TableRec
         /\ o.table.numbers = T.numbers /\ o.table.gactive = T.gactive
         /\ o.table.tstate = T.tstate + 1 /\ o.table.gstate = T.gstate + 1
         /\ o.rc \in {"OK", "raised"}
         /\ Cardinality(o.table.deck) \in {Cardinality(T.deck) - n, 0}
<1>. DEFINE b == GameStateBump(T)
            N == Cardinality(T.deck)
            k == Min({n, N})
<1>1. T.deck \in SUBSET Deck0 /\ T.active \in Seq(Deck0) /\ N \in Nat
  BY DeckFinite DEF TableRec
<1>2. k \in {n, N} /\ k <= n /\ k <= N
  <2>1. \E m \in {n, N} : \A i \in {n, N} : m <= i
    BY <1>1
  <2>. QED  BY <1>1, <2>1 DEF Min
<1>. HIDE DEF k
<1>3. PICK f \in Draws(1..k, T.deck) :
        o = Outcome([b EXCEPT !.active = @ \o f, !.deck = @ \ OnBoard(f)],
                    IF k < n THEN "raised" ELSE "OK")
  BY DEF DealCardsAppend, k
<1>4. IsFiniteSet(1..k) /\ Cardinality(1..k) = k
  <2>1. k \in Nat
    BY <1>1, <1>2
  <2>2. 1 \in Int /\ k \in Int /\ (IF 1 > k THEN 0 ELSE k - 1 + 1) = k
    BY <2>1
  <2>. QED  BY <2>2, FS_Interval
<1>5. /\ f \in [1..k -> T.deck] /\ T.deck \ OnBoard(f) \in SUBSET Deck0
      /\ Cardinality(T.deck \ OnBoard(f)) = N - k
  BY <1>1, <1>3, <1>4, Drawn, ZenonT(60)
<1>6. T.active \o f \in Seq(Deck0)
  <2>1. f \in Seq(T.deck)
    BY <1>1, <1>2, <1>5, SeqDef
  <2>2. f \in Seq(Deck0)
    BY <1>1, <2>1, SeqMonotonic
  <2>. QED  BY <1>1, <2>2, ConcatProperties
<1>7. /\ b \in TableRec /\ b.active = T.active /\ b.deck = T.deck /\ b.gactive = T.gactive
      /\ b.numbers = T.numbers /\ b.tstate = T.tstate + 1 /\ b.gstate = T.gstate + 1
  BY Bumps DEF SameBoard
<1>. HIDE DEF b, N
<1>8. o.table = [b EXCEPT !.active = T.active \o f, !.deck = T.deck \ OnBoard(f)]
  BY <1>3, <1>7 DEF Outcome, TableRec
<1>9. o = Outcome(o.table, o.rc) /\ o.rc \in {"OK", "raised"}
  BY <1>3 DEF Outcome
<1>10. o.table \in TableRec /\ o.table.deck = T.deck \ OnBoard(f)
  BY <1>5, <1>6, <1>7, <1>8 DEF TableRec
<1>11. /\ o.table.numbers = T.numbers /\ o.table.gactive = T.gactive
       /\ o.table.tstate = T.tstate + 1 /\ o.table.gstate = T.gstate + 1
  BY <1>7, <1>8 DEF TableRec
<1>12. Cardinality(o.table.deck) \in {N - n, 0}
  BY <1>1, <1>2, <1>5, <1>10
<1>. QED  BY <1>9, <1>10, <1>11, <1>12 DEF N

\* deal_cards_to puts three cards in the places of others.
LEMMA DealToDoes ==
  ASSUME NEW T \in TableRec, NEW a \in Triples, OnBoard(a) \subseteq DOMAIN T.active,
         NEW D \in DealCardsTo(T, a)
  PROVE  /\ D \in TableRec
         /\ D.numbers = T.numbers /\ D.gactive = T.gactive
         /\ D.tstate = T.tstate + 1 /\ D.gstate = T.gstate + 1
         /\ Cardinality(D.deck) = Cardinality(T.deck) - 3
<1>. DEFINE b == GameStateBump(T)
            S == OnBoard(a)
<1>1. /\ T.deck \in SUBSET Deck0 /\ T.active \in Seq(Deck0)
      /\ Len(T.active) \in Nat /\ DOMAIN T.active = 1..Len(T.active)
      /\ \A i \in DOMAIN T.active : T.active[i] \in Deck0
  <2>1. T.deck \in SUBSET Deck0 /\ T.active \in Seq(Deck0)
    BY DEF TableRec
  <2>. QED  BY <2>1, LenProperties, ElementOfSeq
<1>2. IsFiniteSet(S) /\ Cardinality(S) = 3
  <2>1. a \in [1..3 -> Spot] /\ \A i, j \in 1..3 : a[i] = a[j] => i = j
    BY DEF Triples, IsInjective
  <2>2. a \in Surjection(1..3, S)
    BY <2>1 DEF OnBoard, Surjection
  <2>3. a \in Injection(1..3, S)
    BY <2>1 DEF OnBoard, Injection, IsInjective
  <2>4. IsFiniteSet(1..3) /\ Cardinality(1..3) = 3
    <3>1. 1 \in Int /\ 3 \in Int /\ (IF 1 > 3 THEN 0 ELSE 3 - 1 + 1) = 3
      OBVIOUS
    <3>. QED  BY <3>1, FS_Interval
  <2>. QED  BY <2>2, <2>3, <2>4, FS_Surjection
<1>3. /\ b \in TableRec /\ b.active = T.active /\ b.deck = T.deck /\ b.gactive = T.gactive
      /\ b.numbers = T.numbers /\ b.tstate = T.tstate + 1 /\ b.gstate = T.gstate + 1
  BY Bumps DEF SameBoard
<1>4. PICK f \in Draws(S, T.deck) :
        D = [b EXCEPT !.active = [i \in DOMAIN @ |-> IF i \in DOMAIN f THEN f[i] ELSE @[i]],
                      !.deck = @ \ OnBoard(f)]
  BY DEF DealCardsTo
<1>5. /\ f \in [S -> T.deck] /\ T.deck \ OnBoard(f) \in SUBSET Deck0
      /\ Cardinality(T.deck \ OnBoard(f)) = Cardinality(T.deck) - 3
  <2>. HIDE DEF b, S
  <2>1. /\ f \in [S -> T.deck] /\ T.deck \ OnBoard(f) \in SUBSET Deck0
        /\ Cardinality(T.deck \ OnBoard(f)) = Cardinality(T.deck) - Cardinality(S)
    BY <1>1, <1>2, <1>4, Drawn
  <2>. QED  BY <1>2, <2>1
<1>. HIDE DEF b, S
<1>. DEFINE new == [i \in DOMAIN T.active |-> IF i \in DOMAIN f THEN f[i] ELSE T.active[i]]
<1>6. new \in Seq(Deck0)
  <2>1. \A i \in DOMAIN T.active :
          (IF i \in DOMAIN f THEN f[i] ELSE T.active[i]) \in Deck0
    BY <1>1, <1>5
  <2>2. new \in [1..Len(T.active) -> Deck0]
    BY <1>1, <2>1
  <2>. QED  BY <1>1, <2>2, SeqDef
<1>7. D = [b EXCEPT !.active = new, !.deck = T.deck \ OnBoard(f)]
  BY <1>3, <1>4 DEF TableRec
<1>. HIDE DEF new
<1>8. D \in TableRec /\ D.deck = T.deck \ OnBoard(f)
  BY <1>3, <1>5, <1>6, <1>7 DEF TableRec
<1>9. /\ D.numbers = T.numbers /\ D.gactive = T.gactive
      /\ D.tstate = T.tstate + 1 /\ D.gstate = T.gstate + 1
  BY <1>3, <1>7 DEF TableRec
<1>. QED  BY <1>5, <1>8, <1>9

\* active_pop3 takes three cards off the board.
LEMMA PopDoes ==
  ASSUME NEW T \in TableRec, NEW a \in Triples, OnBoard(a) \subseteq DOMAIN T.active
  PROVE  LET D == ActivePop3(T, a)
         IN  /\ D \in TableRec /\ D.deck = T.deck
             /\ D.numbers = T.numbers /\ D.gactive = T.gactive
             /\ D.tstate = T.tstate /\ D.gstate = T.gstate
<1>. DEFINE s == Sorted(a)
            b0 == T.active
            b1 == SwapOut(b0, s[3])
            b2 == SwapOut(b1, s[2])
            b3 == SwapOut(b2, s[1])
<1>1. b0 \in Seq(Deck0) /\ Len(b0) \in Nat /\ DOMAIN b0 = 1..Len(b0)
  <2>1. T.active \in Seq(Deck0)
    BY DEF TableRec
  <2>. QED  BY <2>1, LenProperties
<1>2. /\ s[1] \in 1..Len(b0) /\ s[2] \in 1..Len(b0) /\ s[3] \in 1..Len(b0)
      /\ s[1] < s[2] /\ s[2] < s[3]
  <2>1. s \in Triples /\ OnBoard(s) = OnBoard(a) /\ s[1] < s[2] /\ s[2] < s[3]
    BY SortedTriple
  <2>2. DOMAIN s = 1..3
    BY <2>1 DEF Triples
  <2>3. s[1] \in OnBoard(s) /\ s[2] \in OnBoard(s) /\ s[3] \in OnBoard(s)
    BY <2>2, SMTT(60) DEF OnBoard
  <2>. QED  BY <1>1, <2>1, <2>3
<1>. HIDE DEF s, b0
<1>3. b1 \in Seq(Deck0) /\ Len(b1) = Len(b0) - 1
  BY <1>1, <1>2, SwapOutSeq
<1>. HIDE DEF b1
<1>4. b2 \in Seq(Deck0) /\ Len(b2) = Len(b0) - 2
  <2>1. s[2] \in 1..Len(b1)
    BY <1>1, <1>2, <1>3
  <2>2. b2 \in Seq(Deck0) /\ Len(b2) = Len(b1) - 1
    BY <1>3, <2>1, SwapOutSeq
  <2>. QED  BY <1>1, <1>3, <2>2
<1>. HIDE DEF b2
<1>5. b3 \in Seq(Deck0)
  <2>1. s[1] \in 1..Len(b2)
    BY <1>1, <1>2, <1>4
  <2>. QED  BY <1>4, <2>1, SwapOutSeq
<1>. HIDE DEF b3
<1>6. ActivePop3(T, a) = [T EXCEPT !.active = b3]
  BY DEF ActivePop3, s, b0, b1, b2, b3
<1>. QED  BY <1>5, <1>6 DEF TableRec

\* A change of a table that its players have to hear of.
Grows(T, T2) ==
  /\ T2 \in TableRec /\ SamePlayers(T2, T)
  /\ T.tstate < T2.tstate /\ T.gstate <= T2.gstate
  /\ T.gstate <= T.tstate => T2.gstate <= T2.tstate
  /\ T.gstate = T2.gstate => SameBoard(T2, T)
  /\ Cardinality(Deck0) % 3 = 0 /\ BoardSize % 3 = 0 /\ Cardinality(T.deck) % 3 = 0
       => Cardinality(T2.deck) % 3 = 0

\* try3 that finds a set.
LEMMA Try3GoodDoes ==
  ASSUME NEW T \in TableRec, NEW p \in DOMAIN T.numbers, NEW a \in Triples,
         OnBoard(a) \subseteq DOMAIN T.active, NEW D \in Try3Good(T, p, a)
  PROVE  Grows(T, D) /\ T.gstate < D.gstate
<1>. DEFINE b == [T EXCEPT !.numbers[p].found = @ + 1]
<1>1. /\ b \in TableRec /\ SameBoard(b, T) /\ SamePlayers(b, T)
      /\ b.tstate = T.tstate /\ b.gstate = T.gstate
  BY Scores
<1>. HIDE DEF b
<1>2. b.active = T.active /\ b.deck = T.deck /\ b.gactive = T.gactive
  BY <1>1 DEF SameBoard
<1>3. PICK d : /\ D = GameStateBump(d)
               /\ d \in DealCardsTo(b, a) \/ d = ActivePop3(b, a)
  BY DEF Try3Good, b
<1>4. Cardinality(T.deck) \in Nat /\ T.tstate \in Int /\ T.gstate \in Nat
  BY DeckFinite DEF TableRec
<1>5. /\ d \in TableRec /\ d.numbers = b.numbers
      /\ b.tstate <= d.tstate /\ b.gstate <= d.gstate
      /\ d.tstate - b.tstate = d.gstate - b.gstate
      /\ Cardinality(d.deck) \in {Cardinality(b.deck), Cardinality(b.deck) - 3}
  <2>1. OnBoard(a) \subseteq DOMAIN b.active
    BY <1>2
  <2>2. CASE d \in DealCardsTo(b, a)
    <3>1. /\ d \in TableRec /\ d.numbers = b.numbers
          /\ d.tstate = b.tstate + 1 /\ d.gstate = b.gstate + 1
          /\ Cardinality(d.deck) = Cardinality(b.deck) - 3
      BY <1>1, <2>1, <2>2, DealToDoes
    <3>. QED  BY <1>1, <1>4, <3>1
  <2>3. CASE d = ActivePop3(b, a)
    <3>1. /\ d \in TableRec /\ d.numbers = b.numbers
          /\ d.tstate = b.tstate /\ d.gstate = b.gstate /\ d.deck = b.deck
      BY <1>1, <2>1, <2>3, PopDoes
    <3>. QED  BY <1>1, <1>4, <3>1
  <2>. QED  BY <1>3, <2>2, <2>3
<1>6. /\ D \in TableRec /\ D.numbers = d.numbers /\ D.deck = d.deck
      /\ D.tstate = d.tstate + 1 /\ D.gstate = d.gstate + 1
  BY <1>3, <1>5, Bumps DEF SameBoard
<1>7. T.tstate < D.tstate /\ T.gstate < D.gstate /\ (T.gstate <= T.tstate => D.gstate <= D.tstate)
  <2>1. d.tstate \in Int /\ d.gstate \in Int
    BY <1>5 DEF TableRec
  <2>. QED  BY <1>1, <1>4, <1>5, <1>6, <2>1
<1>8. SamePlayers(D, T)
  BY <1>1, <1>5, <1>6 DEF SamePlayers
<1>9. Cardinality(T.deck) % 3 = 0 => Cardinality(D.deck) % 3 = 0
  BY <1>2, <1>4, <1>5, <1>6
<1>10. T.gstate # D.gstate /\ T.gstate <= D.gstate
  <2>1. D.gstate \in Int
    BY <1>6 DEF TableRec
  <2>. QED  BY <1>4, <1>7, <2>1
<1>. QED  BY <1>6, <1>7, <1>8, <1>9, <1>10 DEF Grows

\* What a command of the game does to a table: nothing, or it is changed with
\* a new number; the game is changed with a new number of its own.
LEMMA OutcomeIs ==
  ASSUME NEW T \in TableRec, NEW c \in DOMAIN T.numbers, NEW m \in Command,
         m.op \in {"gnew", "try3", "add3", "nmor"}, NEW o \in Outcomes(c, m, T)
  PROVE  /\ o.rc \in {"OK", "COLLISION", "NOT_A_SET", "FALSE_NONE", "YES_MORE", "raised"}
         /\ \/ o.table = T /\ o.rc \in {"COLLISION", "raised"}
            \/ Grows(T, o.table) /\ o.rc # "COLLISION"
                 /\ (o.rc = "raised" => T.gstate < o.table.gstate)
         /\ m.op = "try3" /\ o.rc = "OK" =>
              m.gstate = T.gstate /\ OnBoard(m.pos) \subseteq DOMAIN T.active
         /\ m.op = "gnew" => o.rc # "COLLISION"
<1>1. T.tstate \in Int /\ T.gstate \in Nat /\ T.deck \in SUBSET Deck0 /\ Cardinality(T.deck) \in Nat
  BY DeckFinite DEF TableRec
<1>2. ASSUME NEW b \in TableRec, SamePlayers(b, T), NEW n \in Nat,
             b.tstate \in T.tstate .. T.tstate + 1, b.gstate - T.gstate = b.tstate - T.tstate,
             NEW D \in DealCardsAppend(b, n),
             Cardinality(Deck0) % 3 = 0 /\ BoardSize % 3 = 0 /\ Cardinality(T.deck) % 3 = 0
               => (Cardinality(b.deck) - n) % 3 = 0
      PROVE  /\ Grows(T, D.table) /\ T.gstate < D.table.gstate /\ D.rc \in {"OK", "raised"}
             /\ D = Outcome(D.table, D.rc)
  <2>1. /\ D = Outcome(D.table, D.rc)
        /\ D.table \in TableRec /\ D.table.numbers = b.numbers
        /\ D.table.tstate = b.tstate + 1 /\ D.table.gstate = b.gstate + 1
        /\ D.rc \in {"OK", "raised"}
        /\ Cardinality(D.table.deck) \in {Cardinality(b.deck) - n, 0}
    BY <1>2, AppendDoes
  <2>2. b.tstate \in Int /\ b.gstate \in Int
    BY <1>2 DEF TableRec
  <2>3. /\ T.tstate < D.table.tstate /\ T.gstate < D.table.gstate /\ T.gstate <= D.table.gstate
        /\ T.gstate # D.table.gstate
        /\ T.gstate <= T.tstate => D.table.gstate <= D.table.tstate
    BY <1>1, <1>2, <2>1, <2>2
  <2>4. SamePlayers(D.table, T)
    BY <1>2, <2>1 DEF SamePlayers
  <2>5. Cardinality(Deck0) % 3 = 0 /\ BoardSize % 3 = 0 /\ Cardinality(T.deck) % 3 = 0
          => Cardinality(D.table.deck) % 3 = 0
    BY <1>2, <2>1
  <2>. QED  BY <2>1, <2>3, <2>4, <2>5 DEF Grows
<1>3. CASE m.op = "gnew"
  <2>. DEFINE b == [GameStateBump(T) EXCEPT !.deck = Deck0, !.active = <<>>,
                      !.numbers = [p \in DOMAIN @ |-> NoNumbers]]
              r == [p \in DOMAIN T.numbers |-> NoNumbers]
  <2>1. /\ GameStateBump(T) \in TableRec /\ GameStateBump(T).numbers = T.numbers
        /\ GameStateBump(T).tstate = T.tstate + 1 /\ GameStateBump(T).gstate = T.gstate + 1
    BY Bumps
  <2>2. r \in Roster /\ DOMAIN r = DOMAIN T.numbers
    <3>1. T.numbers \in Roster
      BY DEF TableRec
    <3>2. DOMAIN T.numbers \in SUBSET Client
      BY <3>1 DEF Roster
    <3>3. NoNumbers \in Score
      BY DEF NoNumbers, Score
    <3>. QED  BY <3>2, <3>3 DEF Roster
  <2>. HIDE DEF r
  <2>3. b = [GameStateBump(T) EXCEPT !.deck = Deck0, !.active = <<>>, !.numbers = r]
    BY <2>1 DEF TableRec, r
  <2>4. <<>> \in Seq(Deck0)
    BY EmptySeq
  <2>5. /\ b \in TableRec /\ b.numbers = r /\ b.deck = Deck0
        /\ b.tstate = T.tstate + 1 /\ b.gstate = T.gstate + 1
    BY <2>1, <2>2, <2>3, <2>4 DEF TableRec
  <2>6. PICK D \in DealCardsAppend(b, BoardSize) : o = [D EXCEPT !.table.gactive = TRUE]
    BY <1>3 DEF Outcomes, NewGame
  <2>. HIDE DEF b
  <2>7. /\ Grows(T, D.table) /\ T.gstate < D.table.gstate /\ D.rc \in {"OK", "raised"}
        /\ D = Outcome(D.table, D.rc)
    <3>1. BoardSize \in Nat /\ Cardinality(Deck0) \in Nat
      BY BoardSizeAssumption, DeckFinite
    <3>2. Cardinality(Deck0) % 3 = 0 /\ BoardSize % 3 = 0 => (Cardinality(b.deck) - BoardSize) % 3 = 0
      BY <2>5, <3>1
    <3>3. SamePlayers(b, T)
      BY <2>2, <2>5 DEF SamePlayers
    <3>4. b.tstate \in T.tstate .. T.tstate + 1 /\ b.gstate - T.gstate = b.tstate - T.tstate
      BY <1>1, <2>5
    <3>. QED  BY <1>2, <2>5, <3>1, <3>2, <3>3, <3>4
  <2>8. o = Outcome([D.table EXCEPT !.gactive = TRUE], D.rc)
    BY <2>6, <2>7 DEF Outcome
  <2>9. o.rc = D.rc /\ o.table = [D.table EXCEPT !.gactive = TRUE]
    BY <2>8 DEF Outcome
  <2>10. D.table \in TableRec
    BY <2>7 DEF Grows
  <2>11. /\ o.table \in TableRec /\ o.table.numbers = D.table.numbers
         /\ o.table.tstate = D.table.tstate /\ o.table.gstate = D.table.gstate
         /\ o.table.deck = D.table.deck
    BY <2>9, <2>10 DEF TableRec
  <2>12. T.gstate # D.table.gstate
    BY <1>1, <2>7, <2>10 DEF TableRec
  <2>13. Grows(T, o.table) /\ T.gstate < o.table.gstate
    BY <2>7, <2>11, <2>12 DEF Grows, SamePlayers
  <2>. QED  BY <1>3, <2>7, <2>9, <2>13
<1>4. ASSUME NEW b \in TableRec, SameBoard(b, T), SamePlayers(b, T),
             b.tstate = T.tstate, b.gstate = T.gstate
      PROVE  Grows(T, StateBump(b))
  <2>1. /\ StateBump(b) \in TableRec /\ SameBoard(StateBump(b), b)
        /\ StateBump(b).numbers = b.numbers
        /\ StateBump(b).tstate = b.tstate + 1 /\ StateBump(b).gstate = b.gstate
    BY Bumps
  <2>2. SameBoard(StateBump(b), T) /\ SamePlayers(StateBump(b), T)
    BY <1>4, <2>1 DEF SameBoard, SamePlayers
  <2>3. StateBump(b).deck = T.deck
    BY <2>2 DEF SameBoard
  <2>4. /\ T.tstate < StateBump(b).tstate /\ T.gstate <= StateBump(b).gstate
        /\ T.gstate <= T.tstate => StateBump(b).gstate <= StateBump(b).tstate
    BY <1>1, <1>4, <2>1
  <2>. QED  BY <2>1, <2>2, <2>3, <2>4 DEF Grows
<1>5. CASE m.op = "try3"
  <2>1. m.pos \in Triples
    BY <1>5 DEF Command, Claim, Move, Switch
  <2>2. o \in Try3(T, m.gstate, c, m.pos)
    BY <1>5 DEF Outcomes
  <2>3. CASE m.gstate # T.gstate
    <3>1. o = Outcome(T, "COLLISION")
      BY <2>2, <2>3 DEF Try3
    <3>. QED  BY <1>5, <3>1 DEF Outcome
  <2>4. CASE m.gstate = T.gstate /\ ~(OnBoard(m.pos) \subseteq DOMAIN T.active)
    <3>1. o = Outcome(T, "raised")
      BY <2>2, <2>4 DEF Try3
    <3>. QED  BY <1>5, <3>1 DEF Outcome
  <2>5. CASE /\ m.gstate = T.gstate /\ OnBoard(m.pos) \subseteq DOMAIN T.active
             /\ PyIsSet(T.active[m.pos[1]], T.active[m.pos[2]], T.active[m.pos[3]])
    <3>1. PICK D \in Try3Good(T, c, m.pos) : o = Outcome(D, "OK")
      BY <2>2, <2>5 DEF Try3
    <3>2. Grows(T, D) /\ T.gstate < D.gstate
      BY <2>1, <2>5, Try3GoodDoes
    <3>3. o.table = D /\ o.rc = "OK"
      BY <3>1 DEF Outcome
    <3>. QED  BY <2>5, <3>2, <3>3
  <2>6. CASE /\ m.gstate = T.gstate /\ OnBoard(m.pos) \subseteq DOMAIN T.active
             /\ ~PyIsSet(T.active[m.pos[1]], T.active[m.pos[2]], T.active[m.pos[3]])
    <3>. DEFINE b == [T EXCEPT !.numbers[c].bad = @ + 1]
    <3>1. o = Outcome(StateBump(b), "NOT_A_SET")
      BY <2>2, <2>6 DEF Try3
    <3>2. /\ b \in TableRec /\ SameBoard(b, T) /\ SamePlayers(b, T)
          /\ b.tstate = T.tstate /\ b.gstate = T.gstate
      BY Scores
    <3>. HIDE DEF b
    <3>3. Grows(T, StateBump(b))
      BY <1>4, <3>2
    <3>4. o.table = StateBump(b) /\ o.rc = "NOT_A_SET"
      BY <3>1 DEF Outcome
    <3>. QED  BY <3>3, <3>4
  <2>. QED  BY <2>3, <2>4, <2>5, <2>6
<1>6. CASE m.op = "add3"
  <2>1. o \in Add3(T, m.gstate, c)
    BY <1>6 DEF Outcomes
  <2>2. CASE m.gstate # T.gstate
    <3>1. o = Outcome(T, "COLLISION")
      BY <2>1, <2>2 DEF Add3
    <3>. QED  BY <1>6, <3>1 DEF Outcome
  <2>3. ASSUME NEW b \in {[T EXCEPT !.numbers[c].good = @ + 1],
                          [T EXCEPT !.numbers[c].wrong = @ + 1]},
               NEW D \in DealCardsAppend(b, 3)
        PROVE  /\ Grows(T, D.table) /\ T.gstate < D.table.gstate /\ D.rc \in {"OK", "raised"}
               /\ D = Outcome(D.table, D.rc)
    <3>1. /\ b \in TableRec /\ SameBoard(b, T) /\ SamePlayers(b, T)
          /\ b.tstate = T.tstate /\ b.gstate = T.gstate
      <4>1. b \in {[T EXCEPT !.numbers[c].found = @ + 1],
                   [T EXCEPT !.numbers[c].bad = @ + 1],
                   [T EXCEPT !.numbers[c].good = @ + 1],
                   [T EXCEPT !.numbers[c].wrong = @ + 1]}
        BY <2>3, Zenon
      <4>. QED  BY <4>1, Scores
    <3>2. Cardinality(T.deck) % 3 = 0 => (Cardinality(b.deck) - 3) % 3 = 0
      <4>1. b.deck = T.deck
        BY <3>1 DEF SameBoard
      <4>. QED  BY <1>1, <4>1
    <3>3. b.tstate \in T.tstate .. T.tstate + 1 /\ b.gstate - T.gstate = b.tstate - T.tstate
      BY <1>1, <3>1
    <3>. QED  BY <1>2, <2>3, <3>1, <3>2, <3>3, SMTT(60)
  <2>4. CASE m.gstate = T.gstate /\ ActiveHasSet(T.active)
    <3>. DEFINE b == [T EXCEPT !.numbers[c].wrong = @ + 1]
    <3>1. PICK D \in DealCardsAppend(b, 3) :
            o = IF D.rc = "OK" THEN [D EXCEPT !.rc = "FALSE_NONE"] ELSE D
      BY <2>1, <2>4 DEF Add3
    <3>2. /\ Grows(T, D.table) /\ T.gstate < D.table.gstate /\ D.rc \in {"OK", "raised"}
          /\ D = Outcome(D.table, D.rc)
      BY <2>3, <3>1
    <3>. HIDE DEF b
    <3>3. o.table = D.table /\ o.rc \in {"FALSE_NONE", "raised"}
      BY <3>1, <3>2 DEF Outcome
    <3>. QED  BY <1>6, <3>2, <3>3
  <2>5. CASE m.gstate = T.gstate /\ ~ActiveHasSet(T.active)
    <3>1. o \in DealCardsAppend([T EXCEPT !.numbers[c].good = @ + 1], 3)
      BY <2>1, <2>5 DEF Add3
    <3>2. Grows(T, o.table) /\ T.gstate < o.table.gstate /\ o.rc \in {"OK", "raised"}
      BY <2>3, <3>1
    <3>. QED  BY <1>6, <3>2
  <2>. QED  BY <2>2, <2>4, <2>5
<1>7. CASE m.op = "nmor"
  <2>1. o \in NoMore(T, m.gstate, c)
    BY <1>7 DEF Outcomes
  <2>2. CASE m.gstate # T.gstate
    <3>1. o = Outcome(T, "COLLISION")
      BY <2>1, <2>2 DEF NoMore
    <3>. QED  BY <1>7, <3>1 DEF Outcome
  <2>3. CASE m.gstate = T.gstate /\ T.deck = {} /\ ~ActiveHasSet(T.active)
    <3>. DEFINE g == [T EXCEPT !.numbers[c].good = @ + 1]
                b == [g EXCEPT !.gactive = FALSE]
    <3>1. /\ g \in TableRec /\ SameBoard(g, T) /\ SamePlayers(g, T)
          /\ g.tstate = T.tstate /\ g.gstate = T.gstate
      BY Scores
    <3>2. [T EXCEPT !.gactive = FALSE, !.numbers[c].good = @ + 1] = b
      BY DEF TableRec
    <3>3. o = Outcome(GameStateBump(b), "OK")
      BY <2>1, <2>3, <3>2 DEF NoMore
    <3>. HIDE DEF g
    <3>4. /\ b \in TableRec /\ b.deck = g.deck /\ b.numbers = g.numbers
          /\ b.tstate = g.tstate /\ b.gstate = g.gstate
      BY <3>1 DEF TableRec
    <3>. HIDE DEF b
    <3>. DEFINE D == GameStateBump(b)
    <3>5. /\ D \in TableRec /\ D.deck = b.deck /\ D.numbers = b.numbers
          /\ D.tstate = b.tstate + 1 /\ D.gstate = b.gstate + 1
      BY <3>4, Bumps DEF SameBoard
    <3>. HIDE DEF D
    <3>6. D.deck = T.deck /\ SamePlayers(D, T)
      BY <3>1, <3>4, <3>5 DEF SameBoard, SamePlayers
    <3>7. /\ T.tstate < D.tstate /\ T.gstate < D.gstate /\ T.gstate <= D.gstate /\ T.gstate # D.gstate
          /\ T.gstate <= T.tstate => D.gstate <= D.tstate
      BY <1>1, <3>1, <3>4, <3>5
    <3>8. Grows(T, D)
      BY <3>5, <3>6, <3>7 DEF Grows
    <3>9. o.table = D /\ o.rc = "OK"
      BY <3>3 DEF Outcome, D
    <3>. QED  BY <1>7, <3>7, <3>8, <3>9
  <2>4. CASE m.gstate = T.gstate /\ ~(T.deck = {} /\ ~ActiveHasSet(T.active))
    <3>. DEFINE b == [T EXCEPT !.numbers[c].wrong = @ + 1]
    <3>1. o = Outcome(StateBump(b), "YES_MORE")
      BY <2>1, <2>4 DEF NoMore
    <3>2. /\ b \in TableRec /\ SameBoard(b, T) /\ SamePlayers(b, T)
          /\ b.tstate = T.tstate /\ b.gstate = T.gstate
      BY Scores
    <3>. HIDE DEF b
    <3>3. Grows(T, StateBump(b))
      BY <1>4, <3>2
    <3>4. o.table = StateBump(b) /\ o.rc = "YES_MORE"
      BY <3>1 DEF Outcome
    <3>. QED  BY <1>7, <3>3, <3>4
  <2>. QED  BY <2>2, <2>3, <2>4
<1>. QED  BY <1>3, <1>5, <1>6, <1>7

-----------------------------------------------------------------------------
(* Messages in a row, and the boards that they show.                       *)

\* A message is a state, a found set or something else.
LEMMA MessageKinds ==
  ASSUME NEW m \in Message
  PROVE  /\ m.cmd \in {"GSTATE", "SET_FOUND", "NTBL", "JOIN", "error"}
         /\ m.cmd = "GSTATE" <=> m \in StateMsg
         /\ m.cmd = "SET_FOUND" <=> m \in FoundMsg
         /\ m.cmd \in {"NTBL", "JOIN", "error"} <=> m \in OtherMsg
  BY DEF Message, StateMsg, FoundMsg, OtherMsg

\* Messages in a row may be taken together anywhere.
LEMMA MessagesInARow ==
  \A x, y, z \in Seq(Message) :
    (x \o y) \o z = x \o (y \o z) /\ x \o y \in Seq(Message)
  BY ConcatAssociative, ConcatProperties

\* Places of a sequence.
LEMMA Places ==
  ASSUME NEW S, NEW s \in Seq(S)
  PROVE  /\ Len(s) \in Nat /\ DOMAIN s = 1..Len(s)
         /\ \A n \in DOMAIN s : s[n] \in S
  BY LenProperties, ElementOfSeq

\* Nothing has been shown before the first message.
LEMMA BoardAtFirst ==
  ASSUME NEW pg, NEW s
  PROVE  BoardAfter(pg, s, 0) = pg.board
<1>1. LastState(s, 0) = {}
  <2>1. 1..0 = {}
    OBVIOUS
  <2>. QED  BY <2>1 DEF LastState
<1>. QED  BY <1>1 DEF BoardAfter

\* A state shows its board, another message leaves the board.
LEMMA BoardStep ==
  ASSUME NEW pg, NEW s \in Seq(Message), NEW n \in 1..Len(s)
  PROVE  BoardAfter(pg, s, n) =
           IF n \in States(s) THEN s[n].game.active ELSE BoardAfter(pg, s, n - 1)
<1>1. \A j \in States(s) : j \in Nat \ {0}
  BY Places DEF States
<1>2. CASE n \in States(s)
  <2>1. LastState(s, n) = {n}
    BY <1>1, <1>2 DEF LastState
  <2>. QED  BY <1>2, <2>1 DEF BoardAfter
<1>3. CASE n \notin States(s)
  <2>1. LastState(s, n) = LastState(s, n - 1)
    <3>1. \A j \in States(s) : j > n <=> j > n - 1
      BY <1>1, <1>3
    <3>2. \A i \in States(s) : i \in 1..n <=> i \in 1..(n - 1)
      BY <1>1, <1>3
    <3>. QED  BY <3>1, <3>2 DEF LastState
  <2>. QED  BY <1>3, <2>1 DEF BoardAfter
<1>. QED  BY <1>2, <1>3

\* The board depends on the messages handled only.
LEMMA BoardPrefix ==
  ASSUME NEW pg, NEW s \in Seq(Message), NEW u \in Seq(Message), NEW n \in Nat,
         n <= Len(s), n <= Len(u), \A k \in 1..n : s[k] = u[k]
  PROVE  BoardAfter(pg, s, n) = BoardAfter(pg, u, n)
<1>1. /\ \A j \in States(s) : j \in Nat \ {0}
      /\ \A j \in States(u) : j \in Nat \ {0}
  BY Places DEF States
<1>2. \A k \in 1..n : k \in States(s) <=> k \in States(u)
  <2>1. \A k \in 1..n : k \in DOMAIN s /\ k \in DOMAIN u
    BY Places
  <2>. QED  BY <2>1 DEF States
<1>3. ASSUME NEW i \in 1..n
      PROVE  (\A j \in States(s) : j <= i \/ j > n) <=> (\A j \in States(u) : j <= i \/ j > n)
  <2>1. \A j \in Nat \ {0} : j > n \/ j \in 1..n
    OBVIOUS
  <2>. QED  BY <1>1, <1>2, <2>1
<1>4. LastState(s, n) = LastState(u, n)
  BY <1>2, <1>3 DEF LastState
<1>5. CASE LastState(s, n) = {}
  BY <1>4, <1>5 DEF BoardAfter
<1>6. CASE LastState(s, n) # {}
  <2>. DEFINE i == CHOOSE i \in LastState(s, n) : TRUE
  <2>1. i \in LastState(s, n)
    BY <1>6
  <2>2. i \in 1..n
    BY <2>1 DEF LastState
  <2>3. BoardAfter(pg, s, n) = s[i].game.active /\ BoardAfter(pg, u, n) = u[i].game.active
    BY <1>4, <1>6 DEF BoardAfter
  <2>. HIDE DEF i
  <2>. QED  BY <2>2, <2>3
<1>. QED  BY <1>5, <1>6

\* A message in front of others.
LEMMA Front1 ==
  ASSUME NEW m \in Message, NEW r \in Seq(Message)
  PROVE  LET s == <<m>> \o r
         IN  /\ s \in Seq(Message) /\ Len(s) = Len(r) + 1 /\ s[1] = m
             /\ \A n \in 1..Len(r) : s[n + 1] = r[n]
             /\ \A n \in DOMAIN r : n + 1 \in DOMAIN s
             /\ \A n \in DOMAIN s : n = 1 \/ n - 1 \in DOMAIN r
<1>. DEFINE s == <<m>> \o r
<1>1. <<m>> \in Seq(Message) /\ Len(<<m>>) = 1 /\ <<m>>[1] = m
  OBVIOUS
<1>2. s \in Seq(Message) /\ Len(s) = Len(r) + 1
  BY <1>1, Places
<1>3. s[1] = m
  BY <1>1, Places
<1>4. \A n \in 1..Len(r) : s[n + 1] = r[n]
  BY <1>1, Places
<1>. HIDE DEF s
<1>5. DOMAIN s = 1..Len(r) + 1 /\ DOMAIN r = 1..Len(r) /\ Len(r) \in Nat
  BY <1>2, Places
<1>6. \A n \in DOMAIN r : n + 1 \in DOMAIN s
  BY <1>5
<1>7. \A n \in DOMAIN s : n = 1 \/ n - 1 \in DOMAIN r
  BY <1>5
<1>. QED  BY <1>2, <1>3, <1>4, <1>6, <1>7 DEF s

\* When the page has handled the first message it goes on as before.
LEMMA BoardShift ==
  ASSUME NEW pg, NEW q, NEW m \in Message, NEW r \in Seq(Message),
         q.board = BoardAfter(pg, <<m>> \o r, 1), NEW n \in 0..Len(r)
  PROVE  BoardAfter(q, r, n) = BoardAfter(pg, <<m>> \o r, n + 1)
<1>. DEFINE s == <<m>> \o r
            T == {k \in 0..Len(r) : BoardAfter(q, r, k) = BoardAfter(pg, s, k + 1)}
<1>1. Len(r) \in Nat /\ DOMAIN r = 1..Len(r)
  BY Places
<1>2. s \in Seq(Message) /\ Len(s) = Len(r) + 1 /\ \A k \in 1..Len(r) : s[k + 1] = r[k]
  BY Front1
<1>3. DOMAIN s = 1..Len(s)
  BY <1>2, Places
<1>4. q.board = BoardAfter(pg, s, 1)
  OBVIOUS
<1>. HIDE DEF s
<1>5. 0 \in T
  BY <1>1, <1>4, BoardAtFirst
<1>6. ASSUME NEW k \in 1..Len(r), k - 1 \in T  PROVE k \in T
  <2>1. BoardAfter(q, r, k - 1) = BoardAfter(pg, s, k)
    BY <1>6
  <2>2. k \in States(r) <=> k + 1 \in States(s)
    BY <1>1, <1>2, <1>3 DEF States
  <2>3. BoardAfter(q, r, k) = IF k \in States(r) THEN r[k].game.active
                              ELSE BoardAfter(q, r, k - 1)
    BY BoardStep
  <2>4. k + 1 \in 1..Len(s) /\ (k + 1) - 1 = k
    BY <1>1, <1>2
  <2>. HIDE DEF T
  <2>5. ASSUME NEW i \in 1..Len(s), i - 1 = k
        PROVE  BoardAfter(pg, s, i) = IF i \in States(s) THEN s[i].game.active
                                      ELSE BoardAfter(pg, s, k)
    BY <1>2, <2>5, BoardStep
  <2>6. BoardAfter(pg, s, k + 1) = IF k + 1 \in States(s) THEN s[k + 1].game.active
                                   ELSE BoardAfter(pg, s, k)
    BY <2>4, <2>5, Zenon
  <2>7. BoardAfter(q, r, k) = BoardAfter(pg, s, k + 1)
    BY <1>2, <2>1, <2>2, <2>3, <2>6
  <2>. QED  BY <2>7 DEF T
<1>7. 0..Len(r) \subseteq T
  <2>. HIDE DEF T
  <2>. QED  BY <1>1, <1>5, <1>6, UpTo
<1>. QED  BY <1>7 DEF s

-----------------------------------------------------------------------------
(* Pages that follow a table, message by message.                          *)

\* A page or a game as a state of a table.
ShowsState(g) == g.gstate \in Int /\ g.tstate \in Int

\* A table that changes lets what was said of it stay said.
Advances(T, T2) ==
  /\ T.tstate < T2.tstate /\ T.gstate <= T2.gstate
  /\ T.gstate = T2.gstate => SameBoard(T2, T)

\* Where a page is, and the numbers on it.
LEMMA PageTypes ==
  ASSUME NEW pg \in Page
  PROVE  /\ pg.tstate \in Int /\ pg.gstate \in Int /\ pg.board \in Seq(Deck0)
         /\ pg.deck \in Nat /\ pg.active \in BOOLEAN /\ pg.players \in Roster
         /\ pg.held \in Seq(Message) /\ pg.selected \in Picks
         /\ pg.buttons \in SUBSET {"add3", "nmor"}
         /\ pg.owner \in BOOLEAN /\ pg.notASet \in BOOLEAN /\ pg.over \in BOOLEAN
         /\ pg.joining \in BOOLEAN /\ pg.delayed \in Found \cup {Nothing}
         /\ ShowsState(Shown(pg))
  BY DEF Page, ShowsState, Shown

\* The states of a sequence of messages are games.
LEMMA StateGames ==
  ASSUME NEW s \in Seq(Message), NEW n \in States(s)
  PROVE  n \in 1..Len(s) /\ s[n].game \in Game /\ ShowsState(s[n].game)
<1>1. n \in 1..Len(s) /\ s[n] \in Message /\ s[n].cmd = "GSTATE"
  BY Places DEF States
<1>2. s[n].game \in Game
  BY <1>1, MessageKinds DEF StateMsg
<1>. QED  BY <1>1, <1>2 DEF Game, ShowsState

\* What is true of a table stays so until the table has new numbers.
LEMMA FaithfulGrows ==
  ASSUME NEW T \in TableRec, NEW T2 \in TableRec, Advances(T, T2),
         NEW g, ShowsState(g), Faithful(g, T)
  PROVE  Faithful(g, T2)
<1>1. /\ T.tstate \in Int /\ T.gstate \in Int /\ T2.tstate \in Int /\ T2.gstate \in Int
      /\ g.tstate \in Int /\ g.gstate \in Int
  BY DEF TableRec, ShowsState
<1>2. g.gstate <= T2.gstate /\ g.tstate < T2.tstate
  BY <1>1 DEF Advances, Faithful
<1>3. ASSUME g.gstate = T2.gstate
      PROVE  g.active = T2.active /\ g.deck = Cardinality(T2.deck) /\ g.gactive = T2.gactive
  <2>1. g.gstate = T.gstate /\ T.gstate = T2.gstate
    BY <1>1, <1>3 DEF Advances, Faithful
  <2>. QED  BY <2>1 DEF Advances, Faithful, SameBoard
<1>. QED  BY <1>1, <1>2, <1>3 DEF Faithful

\* Who follows a table follows it when it changes.
LEMMA FollowsGrows ==
  ASSUME NEW T \in TableRec, NEW T2 \in TableRec, Advances(T, T2),
         NEW pg \in Page, NEW s \in Seq(Message), Follows(pg, s, T)
  PROVE  Follows(pg, s, T2)
<1>1. Faithful(Shown(pg), T2)
  BY PageTypes, FaithfulGrows DEF Follows
<1>2. \A n \in States(s) : Faithful(s[n].game, T2)
  BY StateGames, FaithfulGrows DEF Follows
<1>. QED  BY <1>1, <1>2 DEF Follows

\* Who knows nothing of any table follows every one.
LEMMA BlankFollows ==
  ASSUME NEW T \in TableRec, T.tstate >= 0, NEW pg \in Page, NEW s, Blank(pg, s)
  PROVE  Follows(pg, s, T)
<1>1. T.tstate \in Nat /\ T.gstate \in Nat
  BY DEF TableRec
<1>2. Shown(pg).gstate = -1 /\ Shown(pg).tstate = -1
  BY DEF Blank, Shown
<1>3. Faithful(Shown(pg), T)
  BY <1>1, <1>2 DEF Faithful
<1>. QED  BY <1>3 DEF Blank, Follows, InOrder

\* One more message at the end.
LEMMA AppendPlaces ==
  ASSUME NEW s \in Seq(Message), NEW m \in Message
  PROVE  LET u == Append(s, m)
         IN  /\ u \in Seq(Message) /\ Len(u) = Len(s) + 1 /\ u[Len(u)] = m
             /\ \A k \in 1..Len(s) : u[k] = s[k]
             /\ States(u) = States(s) \cup (IF m.cmd = "GSTATE" THEN {Len(u)} ELSE {})
             /\ Founds(u) = Founds(s) \cup (IF m.cmd = "SET_FOUND" THEN {Len(u)} ELSE {})
             /\ States(s) \subseteq 1..Len(s) /\ Founds(s) \subseteq 1..Len(s)
<1>. DEFINE u == Append(s, m)
<1>1. /\ u \in Seq(Message) /\ Len(u) = Len(s) + 1 /\ u[Len(s) + 1] = m
      /\ \A k \in 1..Len(s) : u[k] = s[k]
  BY AppendProperties
<1>. HIDE DEF u
<1>2. DOMAIN s = 1..Len(s) /\ DOMAIN u = 1..(Len(s) + 1) /\ Len(s) \in Nat
  BY <1>1, Places
<1>3. \A k \in DOMAIN u : k \in DOMAIN s \/ k = Len(s) + 1
  BY <1>2
<1>4. DOMAIN s \subseteq DOMAIN u /\ Len(s) + 1 \in DOMAIN u
  BY <1>2
<1>5. States(u) = States(s) \cup (IF m.cmd = "GSTATE" THEN {Len(s) + 1} ELSE {})
  BY <1>1, <1>2, <1>3, <1>4 DEF States
<1>6. Founds(u) = Founds(s) \cup (IF m.cmd = "SET_FOUND" THEN {Len(s) + 1} ELSE {})
  BY <1>1, <1>2, <1>3, <1>4 DEF Founds
<1>7. States(s) \subseteq 1..Len(s) /\ Founds(s) \subseteq 1..Len(s)
  BY <1>2 DEF States, Founds
<1>. QED  BY <1>1, <1>5, <1>6, <1>7 DEF u

\* The boards shown before it are the same.
LEMMA AppendBoards ==
  ASSUME NEW pg, NEW s \in Seq(Message), NEW m \in Message
  PROVE  LET u == Append(s, m)
         IN  /\ \A n \in 0..Len(s) : BoardAfter(pg, u, n) = BoardAfter(pg, s, n)
             /\ BoardAfter(pg, u, Len(u)) = IF m.cmd = "GSTATE" THEN m.game.active
                                            ELSE BoardAfter(pg, s, Len(s))
<1>. DEFINE u == Append(s, m)
<1>1. /\ u \in Seq(Message) /\ Len(u) = Len(s) + 1 /\ u[Len(u)] = m
      /\ \A k \in 1..Len(s) : u[k] = s[k]
      /\ States(u) = States(s) \cup (IF m.cmd = "GSTATE" THEN {Len(u)} ELSE {})
      /\ States(s) \subseteq 1..Len(s)
  BY AppendPlaces
<1>. HIDE DEF u
<1>2. Len(s) \in Nat
  BY Places
<1>3. ASSUME NEW n \in 0..Len(s)  PROVE BoardAfter(pg, u, n) = BoardAfter(pg, s, n)
  <2>1. n \in Nat /\ n <= Len(s) /\ n <= Len(u) /\ \A k \in 1..n : u[k] = s[k]
    BY <1>1, <1>2
  <2>. QED  BY <1>1, <2>1, BoardPrefix
<1>4. Len(u) \in 1..Len(u) /\ Len(u) - 1 = Len(s) /\ Len(s) \in 0..Len(s) /\ Len(u) \notin States(s)
  BY <1>1, <1>2
<1>5. BoardAfter(pg, u, Len(u)) = IF Len(u) \in States(u) THEN u[Len(u)].game.active
                                  ELSE BoardAfter(pg, u, Len(u) - 1)
  BY <1>1, <1>4, BoardStep
<1>6. BoardAfter(pg, u, Len(u)) = IF m.cmd = "GSTATE" THEN m.game.active
                                  ELSE BoardAfter(pg, s, Len(s))
  BY <1>1, <1>3, <1>4, <1>5
<1>. QED  BY <1>3, <1>6 DEF u

\* GSTATE tells what there is.
LEMMA GStateTells ==
  ASSUME NEW T \in TableRec
  PROVE  /\ GState(T) \in StateMsg /\ GState(T) \in Message /\ GState(T).cmd = "GSTATE"
         /\ GState(T).game.gstate = T.gstate /\ GState(T).game.tstate = T.tstate
         /\ GState(T).game.active = T.active /\ GState(T).game.numbers = T.numbers
         /\ GState(T).game.gactive = T.gactive
         /\ GState(T).game.deck = Cardinality(T.deck)
         /\ Faithful(GState(T).game, T)
<1>. DEFINE g == [T EXCEPT !.deck = Cardinality(T.deck)]
<1>1. Cardinality(T.deck) \in Nat
  BY DeckFinite DEF TableRec
<1>2. /\ g \in Game /\ g.gstate = T.gstate /\ g.tstate = T.tstate
      /\ g.active = T.active /\ g.numbers = T.numbers /\ g.gactive = T.gactive
      /\ g.deck = Cardinality(T.deck)
  BY <1>1 DEF TableRec, Game
<1>3. GState(T) = [cmd |-> "GSTATE", game |-> g]
  BY DEF GState
<1>. HIDE DEF g
<1>4. T.gstate \in Int /\ T.tstate \in Int
  BY DEF TableRec
<1>5. Faithful(g, T)
  BY <1>2, <1>4 DEF Faithful
<1>6. GState(T) \in StateMsg /\ GState(T).cmd = "GSTATE" /\ GState(T).game = g
  BY <1>2, <1>3 DEF StateMsg
<1>7. GState(T) \in Message
  BY <1>6 DEF Message
<1>. QED  BY <1>2, <1>5, <1>6, <1>7

\* A page follows its table when it is sent the state of the table, a set that
\* was found on the board it will show, or anything else.
LEMMA AppendFollows ==
  ASSUME NEW T \in TableRec, NEW pg \in Page, NEW s \in Seq(Message), NEW m \in Message,
         Follows(pg, s, T),
         m.cmd = "GSTATE" => m = GState(T),
         m.cmd = "SET_FOUND" => LiesOn(BoardAfter(pg, s, Len(s)), m.found)
  PROVE  Follows(pg, Append(s, m), T)
<1>. DEFINE u == Append(s, m)
<1>1. /\ u \in Seq(Message) /\ Len(u) = Len(s) + 1 /\ u[Len(u)] = m
      /\ \A k \in 1..Len(s) : u[k] = s[k]
      /\ States(u) = States(s) \cup (IF m.cmd = "GSTATE" THEN {Len(u)} ELSE {})
      /\ Founds(u) = Founds(s) \cup (IF m.cmd = "SET_FOUND" THEN {Len(u)} ELSE {})
      /\ States(s) \subseteq 1..Len(s) /\ Founds(s) \subseteq 1..Len(s)
  BY AppendPlaces
<1>2. \A n \in 0..Len(s) : BoardAfter(pg, u, n) = BoardAfter(pg, s, n)
  BY AppendBoards
<1>3. Len(s) \in Nat
  BY Places
<1>. HIDE DEF u
<1>4. \A n \in States(u) : n \in States(s) \/ (n = Len(u) /\ m = GState(T))
  BY <1>1
<1>5. ASSUME NEW g, ShowsState(g), Faithful(g, T)  PROVE Before(g, GState(T).game)
  BY <1>5, GStateTells DEF Faithful, Before
<1>6. Faithful(Shown(pg), T)
  BY DEF Follows
<1>7. \A n \in States(u) : Faithful(u[n].game, T)
  <2>1. \A n \in States(s) : Faithful(u[n].game, T)
    BY <1>1 DEF Follows
  <2>2. m = GState(T) => Faithful(u[Len(u)].game, T)
    BY <1>1, GStateTells
  <2>. QED  BY <1>4, <2>1, <2>2
<1>8. \A n \in States(u) : Before(Shown(pg), u[n].game)
  <2>1. \A n \in States(s) : Before(Shown(pg), u[n].game)
    BY <1>1 DEF Follows, InOrder
  <2>2. m = GState(T) => Before(Shown(pg), u[Len(u)].game)
    BY <1>1, <1>5, <1>6, PageTypes
  <2>. QED  BY <1>4, <2>1, <2>2
<1>9. ASSUME NEW i \in States(u), NEW j \in States(u), i < j
      PROVE  Before(u[i].game, u[j].game)
  <2>1. i \in States(s)
    <3>1. i \in 1..Len(u) /\ j \in 1..Len(u)
      BY <1>1, <1>9, StateGames
    <3>2. i # Len(u)
      BY <1>1, <1>3, <1>9, <3>1
    <3>. QED  BY <1>4, <3>2
  <2>2. CASE j \in States(s)
    BY <1>1, <1>9, <2>1, <2>2 DEF Follows, InOrder
  <2>3. CASE j = Len(u) /\ m = GState(T)
    <3>1. Faithful(u[i].game, T) /\ ShowsState(u[i].game)
      BY <1>1, <1>7, StateGames
    <3>2. u[j].game = GState(T).game
      BY <1>1, <2>3
    <3>. QED  BY <1>5, <3>1, <3>2
  <2>. QED  BY <1>4, <2>2, <2>3
<1>10. ASSUME NEW n \in Founds(u)
       PROVE  LiesOn(BoardAfter(pg, u, n - 1), u[n].found)
  <2>1. CASE n \in Founds(s)
    <3>1. n \in 1..Len(s) /\ n - 1 \in 0..Len(s)
      BY <1>1, <1>3, <2>1
    <3>2. LiesOn(BoardAfter(pg, s, n - 1), s[n].found)
      BY <2>1 DEF Follows, InOrder
    <3>. QED  BY <1>1, <1>2, <3>1, <3>2
  <2>2. CASE n \notin Founds(s)
    <3>1. n = Len(u) /\ m.cmd = "SET_FOUND" /\ n - 1 = Len(s) /\ Len(s) \in 0..Len(s)
      BY <1>1, <1>3, <1>10, <2>2
    <3>. QED  BY <1>1, <1>2, <3>1
  <2>. QED  BY <2>1, <2>2
<1>11. pg.delayed # Nothing => LiesOn(pg.board, pg.delayed)
  BY DEF Follows, InOrder
<1>12. InOrder(pg, u)
  BY <1>8, <1>9, <1>10, <1>11 DEF InOrder
<1>13. Follows(pg, u, T)
  BY <1>6, <1>7, <1>12 DEF Follows
<1>. QED  BY <1>13 DEF u

\* What is no state does not make the present game heard of.
LEMMA AppendHears ==
  ASSUME NEW T, NEW pg, NEW s \in Seq(Message), NEW m \in Message, m.cmd # "GSTATE"
  PROVE  Hears(pg, Append(s, m), T) <=> Hears(pg, s, T)
<1>. DEFINE u == Append(s, m)
<1>1. /\ States(u) = States(s) \cup (IF m.cmd = "GSTATE" THEN {Len(u)} ELSE {})
      /\ States(s) \subseteq 1..Len(s) /\ \A k \in 1..Len(s) : u[k] = s[k]
  BY AppendPlaces
<1>. HIDE DEF u
<1>2. States(u) = States(s)
  BY <1>1
<1>3. Hears(pg, u, T) <=> Hears(pg, s, T)
  BY <1>1, <1>2 DEF Hears
<1>. QED  BY <1>3 DEF u

\* Errors and notices tell nothing of a table.
LEMMA AppendBlank ==
  ASSUME NEW pg, NEW s \in Seq(Message), NEW m \in OtherMsg, Blank(pg, s)
  PROVE  Blank(pg, Append(s, m))
<1>1. m \in Message /\ m.cmd # "GSTATE" /\ m.cmd # "SET_FOUND"
  <2>1. m \in Message
    BY DEF Message
  <2>2. m.cmd \in {"NTBL", "JOIN", "error"}
    BY <2>1, MessageKinds
  <2>. QED  BY <2>1, <2>2
<1>. DEFINE u == Append(s, m)
<1>2. /\ States(u) = States(s) \cup (IF m.cmd = "GSTATE" THEN {Len(u)} ELSE {})
      /\ Founds(u) = Founds(s) \cup (IF m.cmd = "SET_FOUND" THEN {Len(u)} ELSE {})
  BY <1>1, AppendPlaces
<1>. HIDE DEF u
<1>3. States(u) = States(s) /\ Founds(u) = Founds(s)
  BY <1>1, <1>2
<1>4. Blank(pg, u)
  BY <1>3 DEF Blank
<1>. QED  BY <1>4 DEF u

-----------------------------------------------------------------------------
(* A page handles messages.                                                *)

\* A table that was created.
Opened == {T \in TableRec : T.tstate \in Nat}

\* The page q before the messages r is what pg before s becomes.
Keeps(pg, s, q, r) ==
  /\ \A T \in Opened : Follows(pg, s, T) =>
       /\ Follows(q, r, T)
       /\ Hears(q, r, T) => Hears(pg, s, T)
       /\ BoardAfter(q, r, Len(r)) = BoardAfter(pg, s, Len(s))
  /\ Blank(pg, s) => Blank(q, r)

\* 3333.js shows the Add 3 button only with a deck.
ButtonFits(c, pg) == c \notin Newer /\ "add3" \in pg.buttons => pg.deck # 0

\* The first message is handled: the state that is shown afterwards is the one
\* that was shown or the one that came.
LEMMA StepKeeps ==
  ASSUME NEW T \in TableRec, NEW pg \in Page, NEW q \in Page,
         NEW m \in Message, NEW r \in Seq(Message),
         Follows(pg, <<m>> \o r, T), Faithful(Shown(q), T),
         q.gstate = (IF m.cmd = "GSTATE" THEN m.game.gstate ELSE pg.gstate),
         q.board = (IF m.cmd = "GSTATE" THEN m.game.active ELSE pg.board),
         q.delayed # Nothing => LiesOn(q.board, q.delayed)
  PROVE  /\ Follows(q, r, T)
         /\ Hears(q, r, T) => Hears(pg, <<m>> \o r, T)
         /\ BoardAfter(q, r, Len(r)) = BoardAfter(pg, <<m>> \o r, Len(<<m>> \o r))
<1>. DEFINE s == <<m>> \o r
<1>1. /\ s \in Seq(Message) /\ Len(s) = Len(r) + 1 /\ s[1] = m
      /\ \A n \in 1..Len(r) : s[n + 1] = r[n]
      /\ \A n \in DOMAIN r : n + 1 \in DOMAIN s
      /\ \A n \in DOMAIN s : n = 1 \/ n - 1 \in DOMAIN r
  BY Front1
<1>2. DOMAIN s = 1..Len(s) /\ DOMAIN r = 1..Len(r) /\ Len(r) \in Nat
  BY <1>1, Places
<1>3. q.board = BoardAfter(pg, s, 1)
  <2>. HIDE DEF s
  <2>1. 1 \in 1..Len(s) /\ 1 - 1 = 0
    BY <1>1, <1>2
  <2>2. BoardAfter(pg, s, 1) = IF 1 \in States(s) THEN s[1].game.active
                               ELSE BoardAfter(pg, s, 1 - 1)
    BY <1>1, <2>1, BoardStep
  <2>3. BoardAfter(pg, s, 1 - 1) = pg.board
    BY <2>1, BoardAtFirst
  <2>4. 1 \in States(s) <=> m.cmd = "GSTATE"
    BY <1>1, <1>2, <2>1 DEF States
  <2>. QED  BY <1>1, <2>2, <2>3, <2>4
<1>4. \A n \in 0..Len(r) : BoardAfter(q, r, n) = BoardAfter(pg, s, n + 1)
  BY <1>3, BoardShift
<1>5. Follows(pg, s, T)
  OBVIOUS
<1>. HIDE DEF s
<1>6. \A n \in States(r) : n \in 1..Len(r) /\ n + 1 \in States(s) /\ s[n + 1].game = r[n].game
  BY <1>1, <1>2 DEF States
<1>7. \A n \in Founds(r) : n \in 1..Len(r) /\ n + 1 \in Founds(s) /\ s[n + 1].found = r[n].found
  BY <1>1, <1>2 DEF Founds
<1>8. \A n \in States(r) : Faithful(r[n].game, T)
  BY <1>5, <1>6 DEF Follows
<1>9. ASSUME NEW n \in States(r)  PROVE Before(Shown(q), r[n].game)
  <2>1. CASE m.cmd = "GSTATE"
    <3>1. 1 \in States(s)
      BY <1>1, <1>2, <2>1 DEF States
    <3>2. 1 < n + 1
      BY <1>6
    <3>3. Before(s[1].game, s[n + 1].game)
      BY <1>5, <1>6, <3>1, <3>2 DEF Follows, InOrder
    <3>4. Before(m.game, r[n].game)
      BY <1>1, <1>6, <3>3
    <3>. QED  BY <2>1, <3>4 DEF Before, Shown
  <2>2. CASE m.cmd # "GSTATE"
    <3>1. Before(Shown(pg), r[n].game)
      BY <1>5, <1>6 DEF Follows, InOrder
    <3>. QED  BY <2>2, <3>1 DEF Before, Shown
  <2>. QED  BY <2>1, <2>2
<1>10. ASSUME NEW i \in States(r), NEW j \in States(r), i < j
       PROVE  Before(r[i].game, r[j].game)
  <2>1. i + 1 < j + 1
    BY <1>6, <1>10
  <2>2. Before(s[i + 1].game, s[j + 1].game)
    BY <1>5, <1>6, <2>1 DEF Follows, InOrder
  <2>. QED  BY <1>6, <2>2
<1>11. ASSUME NEW n \in Founds(r)  PROVE LiesOn(BoardAfter(q, r, n - 1), r[n].found)
  <2>1. n - 1 \in 0..Len(r) /\ (n - 1) + 1 = n /\ (n + 1) - 1 = n
    BY <1>2, <1>7
  <2>2. BoardAfter(q, r, n - 1) = BoardAfter(pg, s, (n - 1) + 1)
    BY <1>4, <2>1
  <2>3. LiesOn(BoardAfter(pg, s, (n + 1) - 1), s[n + 1].found)
    BY <1>5, <1>7 DEF Follows, InOrder
  <2>4. BoardAfter(pg, s, (n + 1) - 1) = BoardAfter(pg, s, (n - 1) + 1)
    BY <2>1
  <2>. QED  BY <1>7, <2>2, <2>3, <2>4, Zenon
<1>12. InOrder(q, r)
  BY <1>9, <1>10, <1>11 DEF InOrder
<1>13. Follows(q, r, T)
  BY <1>8, <1>12 DEF Follows
<1>14. ASSUME Hears(q, r, T)  PROVE Hears(pg, s, T)
  <2>1. CASE q.gstate = T.gstate
    <3>1. CASE m.cmd = "GSTATE"
      <4>1. 1 \in States(s)
        BY <1>1, <1>2, <3>1 DEF States
      <4>. QED  BY <1>1, <2>1, <3>1, <4>1 DEF Hears
    <3>2. CASE m.cmd # "GSTATE"
      BY <2>1, <3>2 DEF Hears
    <3>. QED  BY <3>1, <3>2
  <2>2. CASE \E n \in States(r) : r[n].game.gstate = T.gstate
    BY <1>6, <2>2 DEF Hears
  <2>. QED  BY <1>14, <2>1, <2>2 DEF Hears
<1>15. BoardAfter(q, r, Len(r)) = BoardAfter(pg, s, Len(s))
  BY <1>1, <1>2, <1>4
<1>. QED  BY <1>13, <1>14, <1>15 DEF s

\* Three positions are a selection.
LEMMA TriplePicked ==
  ASSUME NEW a \in Triples
  PROVE  a \in Picks
<1>1. a \in [1..3 -> Spot] /\ IsInjective(a)
  BY DEF Triples
<1>2. a \in Seq(Spot)
  <2>1. 3 \in Nat
    OBVIOUS
  <2>2. [1..3 -> Spot] \in {[1..n -> Spot] : n \in Nat}
    BY <2>1
  <2>. QED  BY <1>1, <2>2, SeqDef, Zenon
<1>. QED  BY <1>1, <1>2 DEF Picks

\* event_handler_now shows a state that is not older than what is shown.
LEMMA UpdateKeeps ==
  ASSUME NEW c \in Client, NEW pg \in Page, NEW g \in Game
  PROVE  LET q == StateUpdate(c, pg, g)
         IN  /\ q \in Page /\ q.delayed = pg.delayed /\ q.held = pg.held
             /\ ButtonFits(c, pg) => ButtonFits(c, q)
             /\ Before(Shown(pg), g) => q.gstate = g.gstate /\ q.board = g.active
             /\ \A T \in TableRec : Faithful(Shown(pg), T) /\ Faithful(g, T)
                  => Faithful(Shown(q), T)
<1>. DEFINE p == IF pg.tstate < g.tstate
                   THEN [pg EXCEPT !.tstate = g.tstate, !.players = g.numbers] ELSE pg
            b == IF c \in Newer THEN NewButtons(pg, g) ELSE OldButtons(g)
            v == pg.over \/ (c \in Newer /\ pg.active /\ ~g.gactive)
            q == StateUpdate(c, pg, g)
<1>1. /\ g.tstate \in Int /\ g.gstate \in Int /\ g.gactive \in BOOLEAN /\ g.deck \in Nat
      /\ g.active \in Seq(Deck0) /\ g.numbers \in Roster
  BY DEF Game
<1>2. /\ pg.tstate \in Int /\ pg.gstate \in Int /\ pg.over \in BOOLEAN
      /\ pg.active \in BOOLEAN /\ pg.buttons \in SUBSET {"add3", "nmor"}
      /\ pg.players \in Roster /\ pg.deck \in Nat
  BY PageTypes
<1>3. b \in SUBSET {"add3", "nmor"}
  BY <1>2 DEF NewButtons, OldButtons
<1>4. v \in BOOLEAN
  OBVIOUS
<1>5. c \notin Newer /\ "add3" \in b => g.deck # 0
  BY DEF OldButtons
<1>. HIDE DEF b, v
<1>6. /\ p \in Page /\ p.delayed = pg.delayed /\ p.held = pg.held
      /\ p.gstate = pg.gstate /\ p.board = pg.board /\ p.deck = pg.deck
      /\ p.active = pg.active /\ p.buttons = pg.buttons /\ p.over = pg.over
      /\ p.tstate = (IF pg.tstate < g.tstate THEN g.tstate ELSE pg.tstate)
      /\ p.players = (IF pg.tstate < g.tstate THEN g.numbers ELSE pg.players)
  BY <1>1 DEF Page
<1>7. CASE ~(pg.gstate < g.gstate)
  <2>1. q = p
    BY <1>7 DEF StateUpdate
  <2>. HIDE DEF p, q
  <2>2. ButtonFits(c, pg) => ButtonFits(c, q)
    BY <1>6, <2>1 DEF ButtonFits
  <2>3. Before(Shown(pg), g) => q.gstate = g.gstate /\ q.board = g.active
    BY <1>1, <1>2, <1>6, <1>7, <2>1 DEF Before, Shown
  <2>4. ASSUME NEW T \in TableRec, Faithful(Shown(pg), T), Faithful(g, T)
        PROVE  Faithful(Shown(q), T)
    BY <1>1, <1>2, <1>6, <2>1, <2>4 DEF Faithful, Shown
  <2>. QED  BY <1>6, <2>1, <2>2, <2>3, <2>4 DEF q
<1>8. CASE pg.gstate < g.gstate
  <2>1. q = [p EXCEPT !.gstate = g.gstate, !.board = g.active, !.deck = g.deck,
               !.active = g.gactive, !.buttons = b, !.over = v]
    <3>1. q = [p EXCEPT !.gstate = g.gstate, !.board = g.active, !.deck = g.deck,
                 !.active = g.gactive, !.buttons = b,
                 !.over = p.over \/ (c \in Newer /\ pg.active /\ ~g.gactive)]
      BY <1>8 DEF StateUpdate, b
    <3>. HIDE DEF p, q
    <3>2. v = (p.over \/ (c \in Newer /\ pg.active /\ ~g.gactive))
      BY <1>6 DEF v
    <3>. QED  BY <3>1, <3>2
  <2>. HIDE DEF p, q
  <2>2. /\ q \in Page /\ q.delayed = p.delayed /\ q.held = p.held
        /\ q.gstate = g.gstate /\ q.board = g.active /\ q.deck = g.deck
        /\ q.active = g.gactive /\ q.buttons = b
        /\ q.tstate = p.tstate /\ q.players = p.players
    BY <1>1, <1>3, <1>4, <1>6, <2>1 DEF Page
  <2>3. ButtonFits(c, q)
    BY <1>5, <2>2 DEF ButtonFits
  <2>4. ASSUME NEW T \in TableRec, Faithful(Shown(pg), T), Faithful(g, T)
        PROVE  Faithful(Shown(q), T)
    BY <1>1, <1>2, <1>6, <2>2, <2>4 DEF Faithful, Shown
  <2>. QED  BY <1>6, <2>2, <2>3, <2>4 DEF q
<1>. QED  BY <1>7, <1>8

\* event_handler_now, and event_handler before it.
LEMMA HandleKeeps ==
  ASSUME NEW c \in Client, NEW pg \in Page, Tidy(pg), NEW m \in Message, NEW r \in Seq(Message)
  PROVE  LET q == Handle(c, pg, m)
         IN  /\ q \in Page /\ Tidy(q)
             /\ ButtonFits(c, pg) => ButtonFits(c, q)
             /\ Keeps(pg, pg.held \o (<<m>> \o r), q, q.held \o r)
<1>. DEFINE q == Handle(c, pg, m)
<1>1. pg.held \in Seq(Message) /\ <<m>> \in Seq(Message)
  BY PageTypes
<1>2. CASE pg.delayed # Nothing
  <2>1. q = [pg EXCEPT !.held = Append(pg.held, m)]
    BY <1>2 DEF Handle
  <2>2. Append(pg.held, m) \in Seq(Message) /\ Append(pg.held, m) = pg.held \o <<m>>
    BY <1>1, AppendProperties, AppendIsConcat
  <2>. HIDE DEF q
  <2>3. /\ q \in Page /\ q.held = pg.held \o <<m>> /\ q.delayed = pg.delayed
        /\ q.gstate = pg.gstate /\ q.tstate = pg.tstate /\ q.board = pg.board
        /\ q.deck = pg.deck /\ q.buttons = pg.buttons /\ Shown(q) = Shown(pg)
    BY <2>1, <2>2 DEF Page, Shown
  <2>4. q.held \o r = pg.held \o (<<m>> \o r)
    <3>1. (pg.held \o <<m>>) \o r = pg.held \o (<<m>> \o r)
      BY <1>1, MessagesInARow, Zenon
    <3>. QED  BY <2>3, <3>1, Zenon
  <2>. DEFINE s == q.held \o r
  <2>5. s = pg.held \o (<<m>> \o r)
    BY <2>4
  <2>. HIDE DEF s
  <2>6. \A n : BoardAfter(q, s, n) = BoardAfter(pg, s, n)
    BY <2>3 DEF BoardAfter
  <2>7. \A T : Follows(pg, s, T) => Follows(q, s, T)
    BY <2>3, <2>6 DEF Follows, InOrder
  <2>8. \A T : Hears(q, s, T) => Hears(pg, s, T)
    BY <2>3 DEF Hears
  <2>9. Blank(pg, s) => Blank(q, s)
    BY <2>3 DEF Blank
  <2>10. Keeps(pg, s, q, s)
    BY <2>6, <2>7, <2>8, <2>9 DEF Keeps
  <2>11. Tidy(q) /\ (ButtonFits(c, pg) => ButtonFits(c, q))
    BY <1>2, <2>3 DEF Tidy, ButtonFits
  <2>. QED  BY <2>3, <2>5, <2>10, <2>11 DEF q, s
<1>3. CASE pg.delayed = Nothing
  <2>. DEFINE s == <<m>> \o r
  <2>1. pg.held = <<>> /\ q = HandleNow(c, pg, m)
    BY <1>3 DEF Tidy, Handle
  <2>2. s \in Seq(Message)
    BY Front1
  <2>3. pg.held \o (<<m>> \o r) = s
    BY <2>1, <2>2, ConcatEmptySeq
  <2>4. 1 \in DOMAIN s /\ s[1] = m
    <3>1. s[1] = m /\ Len(s) = Len(r) + 1
      BY Front1
    <3>2. Len(r) \in Nat /\ DOMAIN s = 1..Len(s)
      BY <2>2, Places
    <3>. HIDE DEF s
    <3>. QED  BY <3>1, <3>2
  <2>. HIDE DEF q, s
  <2>5. m.cmd = "GSTATE" => 1 \in States(s)
    BY <2>4 DEF States
  <2>6. m.cmd = "SET_FOUND" => 1 \in Founds(s)
    BY <2>4 DEF Founds
  \* What each kind of message does.
  <2>7. /\ q \in Page /\ q.held = <<>>
        /\ ButtonFits(c, pg) => ButtonFits(c, q)
        /\ Blank(pg, s) => q.gstate = -1 /\ q.tstate = -1 /\ q.board = <<>> /\ q.delayed = Nothing
        /\ \A T \in TableRec : Follows(pg, s, T) =>
             /\ Faithful(Shown(q), T)
             /\ q.gstate = (IF m.cmd = "GSTATE" THEN m.game.gstate ELSE pg.gstate)
             /\ q.board = (IF m.cmd = "GSTATE" THEN m.game.active ELSE pg.board)
             /\ q.delayed # Nothing => LiesOn(q.board, q.delayed)
    <3>1. CASE m.cmd = "GSTATE"
      <4>1. m.game \in Game
        BY <3>1, MessageKinds DEF StateMsg
      <4>2. q = StateUpdate(c, pg, m.game)
        BY <2>1, <3>1 DEF HandleNow
      <4>3. /\ q \in Page /\ q.delayed = pg.delayed /\ q.held = pg.held
            /\ ButtonFits(c, pg) => ButtonFits(c, q)
            /\ Before(Shown(pg), m.game) => q.gstate = m.game.gstate /\ q.board = m.game.active
            /\ \A T \in TableRec : Faithful(Shown(pg), T) /\ Faithful(m.game, T)
                 => Faithful(Shown(q), T)
        BY <4>1, <4>2, UpdateKeeps
      <4>4. ~Blank(pg, s)
        BY <2>5, <3>1 DEF Blank
      <4>5. ASSUME NEW T \in TableRec, Follows(pg, s, T)
            PROVE  /\ Before(Shown(pg), m.game)
                   /\ Faithful(Shown(pg), T) /\ Faithful(m.game, T)
        BY <2>4, <2>5, <3>1, <4>5 DEF Follows, InOrder
      <4>. QED  BY <1>3, <2>1, <3>1, <4>3, <4>4, <4>5
    <3>2. CASE m.cmd = "SET_FOUND"
      <4>1. m.found \in Found
        BY <3>2, MessageKinds DEF FoundMsg
      <4>2. q = [pg EXCEPT !.selected = m.found.pos, !.delayed = m.found]
        BY <2>1, <3>2 DEF HandleNow
      <4>3. m.found.pos \in Picks
        <5>1. m.found.pos \in Triples
          BY <4>1 DEF Found
        <5>. QED  BY <5>1, TriplePicked
      <4>4. /\ q \in Page /\ q.delayed = m.found /\ q.held = pg.held
            /\ q.gstate = pg.gstate /\ q.board = pg.board /\ Shown(q) = Shown(pg)
            /\ q.buttons = pg.buttons /\ q.deck = pg.deck
        BY <4>1, <4>2, <4>3 DEF Page, Shown
      <4>5. ~Blank(pg, s)
        BY <2>6, <3>2 DEF Blank
      <4>6. ASSUME NEW T \in TableRec, Follows(pg, s, T)
            PROVE  Faithful(Shown(pg), T) /\ LiesOn(pg.board, m.found)
        <5>1. LiesOn(BoardAfter(pg, s, 1 - 1), m.found)
          BY <2>4, <2>6, <3>2, <4>6 DEF Follows, InOrder
        <5>2. BoardAfter(pg, s, 1 - 1) = pg.board
          <6>1. 1 - 1 = 0
            OBVIOUS
          <6>. QED  BY <6>1, BoardAtFirst
        <5>. QED  BY <4>6, <5>1, <5>2 DEF Follows
      <4>7. ButtonFits(c, pg) => ButtonFits(c, q)
        BY <4>4 DEF ButtonFits
      <4>. QED  BY <2>1, <3>2, <4>4, <4>5, <4>6, <4>7
    <3>3. CASE m.cmd \in {"NTBL", "JOIN", "error"}
      <4>1. q \in {[pg EXCEPT !.owner = TRUE],
                   [pg EXCEPT !.owner = FALSE, !.joining = FALSE],
                   [pg EXCEPT !.notASet = (m.rc = "NOT_A_SET")]}
        BY <2>1, <3>3 DEF HandleNow
      <4>2. /\ q \in Page /\ q.delayed = pg.delayed /\ q.held = pg.held
            /\ q.gstate = pg.gstate /\ q.tstate = pg.tstate /\ q.board = pg.board
            /\ q.buttons = pg.buttons /\ q.deck = pg.deck /\ Shown(q) = Shown(pg)
        BY <4>1 DEF Page, Shown
      <4>3. ButtonFits(c, pg) => ButtonFits(c, q)
        BY <4>2 DEF ButtonFits
      <4>4. \A T \in TableRec : Follows(pg, s, T) => Faithful(Shown(pg), T)
        BY DEF Follows
      <4>5. Blank(pg, s) => q.gstate = -1 /\ q.tstate = -1 /\ q.board = <<>>
        BY <4>2 DEF Blank
      <4>. QED  BY <1>3, <2>1, <3>3, <4>2, <4>3, <4>4, <4>5
    <3>. QED  BY <3>1, <3>2, <3>3, MessageKinds
  <2>8. q.held \o r = r
    BY <2>7, ConcatEmptySeq
  <2>9. ASSUME NEW T \in TableRec, Follows(pg, s, T)
        PROVE  /\ Follows(q, r, T)
               /\ Hears(q, r, T) => Hears(pg, s, T)
               /\ BoardAfter(q, r, Len(r)) = BoardAfter(pg, s, Len(s))
    BY <2>7, <2>9, StepKeeps DEF s
  <2>10. Blank(pg, s) => Blank(q, r)
    <3>1. DOMAIN r = 1..Len(r) /\ \A n \in 1..Len(r) : s[n + 1] = r[n]
      BY Front1, Places DEF s
    <3>2. \A n \in DOMAIN r : n + 1 \in DOMAIN s
      BY Front1 DEF s
    <3>3. \A n \in States(r) : n + 1 \in States(s)
      BY <3>1, <3>2 DEF States
    <3>4. \A n \in Founds(r) : n + 1 \in Founds(s)
      BY <3>1, <3>2 DEF Founds
    <3>. QED  BY <2>7, <3>3, <3>4 DEF Blank
  <2>11. Keeps(pg, s, q, r)
    BY <2>9, <2>10 DEF Keeps, Opened
  <2>12. Tidy(q)
    BY <2>7 DEF Tidy
  <2>. QED  BY <2>3, <2>7, <2>8, <2>11, <2>12 DEF q
<1>. QED  BY <1>2, <1>3

\* What is kept by two steps.
LEMMA KeepsOn ==
  ASSUME NEW p1, NEW s1, NEW p2, NEW s2, NEW p3, NEW s3,
         Keeps(p1, s1, p2, s2), Keeps(p2, s2, p3, s3)
  PROVE  Keeps(p1, s1, p3, s3)
<1>1. ASSUME NEW T \in Opened, Follows(p1, s1, T)
      PROVE  /\ Follows(p3, s3, T)
             /\ Hears(p3, s3, T) => Hears(p1, s1, T)
             /\ BoardAfter(p3, s3, Len(s3)) = BoardAfter(p1, s1, Len(s1))
  <2>1. /\ Follows(p2, s2, T) /\ (Hears(p2, s2, T) => Hears(p1, s1, T))
        /\ BoardAfter(p2, s2, Len(s2)) = BoardAfter(p1, s1, Len(s1))
    BY <1>1 DEF Keeps
  <2>2. /\ Follows(p3, s3, T) /\ (Hears(p3, s3, T) => Hears(p2, s2, T))
        /\ BoardAfter(p3, s3, Len(s3)) = BoardAfter(p2, s2, Len(s2))
    BY <2>1 DEF Keeps
  <2>. QED  BY <2>1, <2>2
<1>2. Blank(p1, s1) => Blank(p3, s3)
  BY DEF Keeps
<1>. QED  BY <1>1, <1>2 DEF Keeps

\* A page with the same state shown keeps what it follows, and may forget what
\* was found.
LEMMA SameKeeps ==
  ASSUME NEW pg, NEW q, NEW s, Shown(q) = Shown(pg), q.delayed \in {pg.delayed, Nothing}
  PROVE  Keeps(pg, s, q, s)
<1>1. q.board = pg.board /\ q.gstate = pg.gstate /\ q.tstate = pg.tstate
  BY DEF Shown
<1>2. \A n : BoardAfter(q, s, n) = BoardAfter(pg, s, n)
  BY <1>1 DEF BoardAfter
<1>3. ASSUME NEW T, Follows(pg, s, T)  PROVE Follows(q, s, T)
  BY <1>1, <1>2, <1>3 DEF Follows, InOrder
<1>4. \A T : Hears(q, s, T) => Hears(pg, s, T)
  BY <1>1 DEF Hears
<1>5. Blank(pg, s) => Blank(q, s)
  BY <1>1 DEF Blank
<1>. QED  BY <1>2, <1>3, <1>4, <1>5 DEF Keeps

\* The timeout of a found set.
LEMMA TimeoutKeeps ==
  ASSUME NEW c \in Client, NEW pg \in Page, NEW r \in Seq(Message)
  PROVE  LET q == HandleDelayed(c, [pg EXCEPT !.delayed = Nothing, !.selected = <<>>])
         IN  /\ q \in Page /\ Tidy(q)
             /\ ButtonFits(c, pg) => ButtonFits(c, q)
             /\ Keeps(pg, pg.held \o r, q, q.held \o r)
<1>. DEFINE p == [pg EXCEPT !.delayed = Nothing, !.selected = <<>>]
            h == pg.held
            N == Len(h)
            s == h \o r
            first == [p EXCEPT !.held = <<>>]
            rest(n) == SubSeq(h, n + 1, N) \o r
            q == HandleDelayed(c, p)
<1>1. h \in Seq(Message) /\ N \in Nat
  BY PageTypes, Places
<1>2. p.held = h
  BY DEF Page
<1>3. /\ first \in Page /\ first.held = <<>> /\ first.delayed = Nothing
      /\ Shown(first) = Shown(pg) /\ first.buttons = pg.buttons /\ first.deck = pg.deck
  <2>1. <<>> \in Picks /\ <<>> \in Seq(Message)
    <3>1. <<>> \in Seq(Spot) /\ <<>> \in Seq(Message)
      BY EmptySeq
    <3>2. IsInjective(<<>>)
      BY DEF IsInjective
    <3>. QED  BY <3>1, <3>2 DEF Picks
  <2>. QED  BY <2>1 DEF Page, Shown
<1>. HIDE DEF p
<1>4. PICK f : /\ f[0] = first
               /\ \A n \in 1..N : f[n] = Handle(c, f[n - 1], h[n])
               /\ q = f[N]
  BY <1>1, <1>2, DelayedLoop
<1>. HIDE DEF first, q, h
<1>5. \A n \in 0..N : SubSeq(h, n + 1, N) \in Seq(Message)
  <2>1. ASSUME NEW n \in 0..N  PROVE SubSeq(h, n + 1, N) \in Seq(Message)
    <3>1. \A i \in (n + 1)..N : h[i] \in Message
      BY <1>1, ElementOfSeq
    <3>2. n + 1 \in Int /\ N \in Int
      BY <1>1
    <3>. QED  BY <3>1, <3>2, SubSeqProperties
  <2>. QED  BY <2>1
<1>6. \A n \in 0..N : rest(n) \in Seq(Message)
  BY <1>5, ConcatProperties
<1>7. \A n \in 1..N : h[n] \in Message /\ rest(n - 1) = <<h[n]>> \o rest(n)
  <2>1. ASSUME NEW n \in 1..N  PROVE h[n] \in Message /\ rest(n - 1) = <<h[n]>> \o rest(n)
    <3>1. h[n] \in Message
      BY <1>1, ElementOfSeq
    <3>2. (n - 1) + 1 = n /\ N \in n..N /\ n \in 0..N
      BY <1>1
    <3>3. SubSeq(h, n, N) = <<h[n]>> \o SubSeq(h, n + 1, N)
      BY <1>1, <3>2, SubSeqRecursiveFirst
    <3>4. <<h[n]>> \in Seq(Message) /\ SubSeq(h, n + 1, N) \in Seq(Message)
      BY <1>5, <3>1, <3>2
    <3>5. (<<h[n]>> \o SubSeq(h, n + 1, N)) \o r = <<h[n]>> \o (SubSeq(h, n + 1, N) \o r)
      BY <3>4, MessagesInARow, Zenon
    <3>. QED  BY <3>1, <3>2, <3>3, <3>5
  <2>. QED  BY <2>1
<1>8. rest(0) = s /\ rest(N) = r
  <2>1. SubSeq(h, 1, N) = h
    BY <1>1, SubSeqFull
  <2>2. SubSeq(h, N + 1, N) = <<>>
    BY <1>1, SubSeqEmpty
  <2>3. <<>> \o r = r
    BY ConcatEmptySeq
  <2>4. 0 + 1 = 1
    OBVIOUS
  <2>. QED  BY <2>1, <2>2, <2>3, <2>4
<1>. HIDE DEF rest, s, N
<1>. DEFINE Fine(n) == /\ f[n] \in Page /\ Tidy(f[n])
                       /\ ButtonFits(c, pg) => ButtonFits(c, f[n])
                       /\ Keeps(pg, s, f[n], f[n].held \o rest(n))
            T == {n \in 0..N : Fine(n)}
<1>9. Fine(0)
  <2>1. f[0] \in Page /\ Tidy(f[0]) /\ (ButtonFits(c, pg) => ButtonFits(c, f[0]))
    BY <1>3, <1>4 DEF Tidy, ButtonFits
  <2>2. 0 \in 0..N
    BY <1>1
  <2>3. f[0].held \o rest(0) = s
    <3>1. rest(0) \in Seq(Message) /\ f[0].held = <<>>
      BY <1>3, <1>4, <1>6, <2>2
    <3>2. <<>> \o rest(0) = rest(0)
      BY <3>1, ConcatEmptySeq
    <3>. QED  BY <1>8, <3>1, <3>2
  <2>4. Keeps(pg, s, f[0], s)
    BY <1>3, <1>4, SameKeeps
  <2>. QED  BY <2>1, <2>3, <2>4
<1>10. ASSUME NEW n \in 1..N, Fine(n - 1)  PROVE Fine(n)
  <2>. DEFINE a == f[n - 1]
  <2>1. /\ a \in Page /\ Tidy(a) /\ (ButtonFits(c, pg) => ButtonFits(c, a))
        /\ Keeps(pg, s, a, a.held \o (<<h[n]>> \o rest(n)))
    BY <1>7, <1>10
  <2>2. f[n] = Handle(c, a, h[n]) /\ h[n] \in Message /\ rest(n) \in Seq(Message)
    <3>1. n \in 0..N
      BY <1>1
    <3>. QED  BY <1>4, <1>6, <1>7, <3>1
  <2>. HIDE DEF a
  <2>3. /\ f[n] \in Page /\ Tidy(f[n])
        /\ ButtonFits(c, a) => ButtonFits(c, f[n])
        /\ Keeps(a, a.held \o (<<h[n]>> \o rest(n)), f[n], f[n].held \o rest(n))
    BY <2>1, <2>2, HandleKeeps
  <2>4. Keeps(pg, s, f[n], f[n].held \o rest(n))
    BY <2>1, <2>3, KeepsOn
  <2>. QED  BY <2>1, <2>3, <2>4
<1>. HIDE DEF Fine
<1>11. 0..N \subseteq T
  <2>1. 0 \in T
    BY <1>1, <1>9
  <2>2. \A n \in 1..N : n - 1 \in T => n \in T
    BY <1>1, <1>10
  <2>. HIDE DEF T
  <2>. QED  BY <1>1, <2>1, <2>2, UpTo
<1>12. Fine(N)
  BY <1>1, <1>11
<1>. QED  BY <1>4, <1>8, <1>12 DEF Fine, p, h, s, q

-----------------------------------------------------------------------------
(* Types: tables.                                                          *)

\* Seat and Leave change the players only.
LEMMA SeatDoes ==
  ASSUME NEW T \in TableRec, NEW c \in Client
  PROVE  /\ Seat(T, c) \in TableRec /\ SameBoard(Seat(T, c), T)
         /\ Seat(T, c).gstate = T.gstate /\ Seat(T, c).tstate = T.tstate + 1
         /\ DOMAIN Seat(T, c).numbers = DOMAIN T.numbers \cup {c}
<1>. DEFINE b == StateBump(T)
            r == [q \in DOMAIN T.numbers \cup {c} |->
                    IF q \in DOMAIN T.numbers THEN T.numbers[q] ELSE NoNumbers]
<1>1. /\ b \in TableRec /\ SameBoard(b, T) /\ b.numbers = T.numbers
      /\ b.tstate = T.tstate + 1 /\ b.gstate = T.gstate
  BY Bumps
<1>2. r \in Roster
  <2>1. PICK S \in SUBSET Client : T.numbers \in [S -> Score]
    BY DEF TableRec, Roster
  <2>2. NoNumbers \in Score
    BY DEF NoNumbers, Score
  <2>3. r \in [S \cup {c} -> Score]
    BY <2>1, <2>2
  <2>4. S \cup {c} \in SUBSET Client
    OBVIOUS
  <2>. HIDE DEF r
  <2>. QED  BY <2>3, <2>4 DEF Roster
<1>3. DOMAIN r = DOMAIN T.numbers \cup {c}
  OBVIOUS
<1>. HIDE DEF b
<1>4. Seat(T, c) = [b EXCEPT !.numbers = r]
  BY <1>1 DEF Seat, b, TableRec
<1>. HIDE DEF r
<1>. QED  BY <1>1, <1>2, <1>3, <1>4 DEF TableRec, SameBoard

\* Leave takes one player off and keeps the board and the game.
LEMMA LeaveDoes ==
  ASSUME NEW T \in TableRec, NEW c \in Client
  PROVE  /\ Leave(T, c) \in TableRec /\ SameBoard(Leave(T, c), T)
         /\ Leave(T, c).gstate = T.gstate /\ Leave(T, c).tstate = T.tstate + 1
         /\ DOMAIN Leave(T, c).numbers = DOMAIN T.numbers \ {c}
<1>. DEFINE b == StateBump(T)
            r == [q \in DOMAIN T.numbers \ {c} |-> T.numbers[q]]
<1>1. /\ b \in TableRec /\ SameBoard(b, T) /\ b.numbers = T.numbers
      /\ b.tstate = T.tstate + 1 /\ b.gstate = T.gstate
  BY Bumps
<1>2. r \in Roster
  <2>1. PICK S \in SUBSET Client : T.numbers \in [S -> Score]
    BY DEF TableRec, Roster
  <2>2. r \in [S \ {c} -> Score]
    BY <2>1
  <2>3. S \ {c} \in SUBSET Client
    OBVIOUS
  <2>. HIDE DEF r
  <2>. QED  BY <2>2, <2>3 DEF Roster
<1>3. DOMAIN r = DOMAIN T.numbers \ {c}
  OBVIOUS
<1>. HIDE DEF b
<1>4. Leave(T, c) = [b EXCEPT !.numbers = r]
  BY <1>1 DEF Leave, b, TableRec
<1>. HIDE DEF r
<1>. QED  BY <1>1, <1>2, <1>3, <1>4 DEF TableRec, SameBoard

\* Tables to come, and the table that a client opens.
OpenedBy(c) == [OpenTable EXCEPT !.numbers = [q \in {c} |-> NoNumbers]]

\* What the tables to come and a table just opened hold.
LEMMA NewTables ==
  /\ NoTable \in TableRec /\ NoTable.tstate = -1 /\ DOMAIN NoTable.numbers = {}
  /\ NoTable.deck = Deck0 /\ NoTable.active = <<>>
  /\ \A c \in Client :
       /\ OpenedBy(c) \in TableRec /\ DOMAIN OpenedBy(c).numbers = {c}
       /\ OpenedBy(c).tstate = 0 /\ OpenedBy(c).gstate = 0
       /\ OpenedBy(c).active = <<>> /\ OpenedBy(c).deck = Deck0
<1>1. <<>> \in Seq(Deck0) /\ Deck0 \in SUBSET Deck0
  BY EmptySeq
<1>2. <<>> \in [{} -> Score] /\ {} \in SUBSET Client
  OBVIOUS
<1>3. <<>> \in Roster /\ DOMAIN <<>> = {}
  <2>1. [{} -> Score] \in {[S -> Score] : S \in SUBSET Client}
    BY <1>2
  <2>. QED  BY <1>2, <2>1 DEF Roster
<1>4. OpenTable \in TableRec
  BY <1>1, <1>3 DEF OpenTable, TableRec
<1>5. /\ OpenTable.tstate = 0 /\ OpenTable.gstate = 0 /\ OpenTable.numbers = <<>>
      /\ OpenTable.deck = Deck0 /\ OpenTable.active = <<>>
  BY DEF OpenTable
<1>6. /\ NoTable \in TableRec /\ NoTable.tstate = -1 /\ DOMAIN NoTable.numbers = {}
      /\ NoTable.deck = Deck0 /\ NoTable.active = <<>>
  BY <1>3, <1>4, <1>5 DEF NoTable, TableRec
<1>7. ASSUME NEW c \in Client
      PROVE  /\ OpenedBy(c) \in TableRec /\ DOMAIN OpenedBy(c).numbers = {c}
             /\ OpenedBy(c).tstate = 0 /\ OpenedBy(c).gstate = 0
             /\ OpenedBy(c).active = <<>> /\ OpenedBy(c).deck = Deck0
  <2>. DEFINE r == [q \in {c} |-> NoNumbers]
  <2>1. NoNumbers \in Score
    BY DEF NoNumbers, Score
  <2>2. r \in [{c} -> Score] /\ DOMAIN r = {c}
    BY <2>1
  <2>. HIDE DEF r
  <2>3. r \in Roster
    <3>1. {c} \in SUBSET Client
      OBVIOUS
    <3>. QED  BY <2>2, <3>1 DEF Roster
  <2>4. OpenedBy(c) = [OpenTable EXCEPT !.numbers = r]
    BY DEF OpenedBy, r
  <2>. QED  BY <1>4, <1>5, <2>2, <2>3, <2>4 DEF TableRec
<1>. QED  BY <1>6, <1>7

\* A table at which somebody sits is open and counts.
LEMMA SeatedIsOpen ==
  ASSUME TypeInv, Orderly, NEW c \in Client, NEW t \in Tables, At(c, t)
  PROVE  /\ table[t] \in TableRec /\ table[t] \in Opened /\ table[t] # NoTable
         /\ table[t].gstate <= table[t].tstate /\ Open(t)
<1>1. table[t] \in TableRec /\ Counted(table[t])
  BY DEF TypeInv, Orderly
<1>2. table[t] # NoTable
  BY NewTables DEF At
<1>3. table[t].gstate <= table[t].tstate
  BY <1>1, <1>2 DEF Counted
<1>4. table[t].tstate \in Int /\ table[t].gstate \in Nat
  BY <1>1 DEF TableRec
<1>5. table[t].tstate \in Nat /\ table[t].tstate >= 0
  BY <1>3, <1>4
<1>. QED  BY <1>1, <1>2, <1>3, <1>5 DEF Opened, Open

-----------------------------------------------------------------------------
(* Types: commands and messages.                                           *)

\* What the commands carry.
LEMMA CommandKinds ==
  ASSUME NEW m \in Command
  PROVE  /\ m.op \in Ops
         /\ m.op = "try3" => m \in Claim /\ m.pos \in Triples /\ m.gstate \in Int
         /\ m.op \in {"add3", "nmor"} => m.gstate \in Int
         /\ m.op \in {"ntbl", "join"} => m.to \in Tables
  BY DEF Command, Claim, Move, Switch, Ops

\* Errors and notices are messages.
LEMMA OtherMessages ==
  /\ \A rc \in Codes : Error(rc) \in OtherMsg /\ Error(rc) \in Message /\ Error(rc).cmd = "error"
  /\ [cmd |-> "NTBL"] \in OtherMsg /\ [cmd |-> "NTBL"] \in Message
  /\ [cmd |-> "JOIN"] \in OtherMsg /\ [cmd |-> "JOIN"] \in Message
  BY DEF Error, OtherMsg, Message

\* A set that was found lies on the board it was found on.
LEMMA SetFoundTells ==
  ASSUME NEW a \in Triples, NEW b \in Seq(Deck0), OnBoard(a) \subseteq DOMAIN b
  PROVE  LET m == SetFound(Sorted(a), b)
         IN  /\ m \in Message /\ m.cmd = "SET_FOUND" /\ LiesOn(b, m.found)
<1>. DEFINE s == Sorted(a)
            f == [pos |-> s, cards |-> [k \in 1..3 |-> b[s[k]]]]
<1>1. s \in Triples /\ OnBoard(s) = OnBoard(a)
  BY SortedTriple
<1>. HIDE DEF s
<1>2. \A k \in 1..3 : s[k] \in DOMAIN b
  <2>1. DOMAIN s = 1..3
    BY <1>1 DEF Triples
  <2>. QED  BY <1>1, <2>1 DEF OnBoard
<1>3. \A k \in 1..3 : b[s[k]] \in Deck0
  BY <1>2, Places
<1>4. f \in Found
  BY <1>1, <1>3 DEF Found
<1>5. LiesOn(b, f)
  BY <1>2 DEF LiesOn, CardAt
<1>6. SetFound(s, b) = [cmd |-> "SET_FOUND", found |-> f]
  BY DEF SetFound
<1>. HIDE DEF f
<1>7. SetFound(s, b) \in FoundMsg
  BY <1>4, <1>6 DEF FoundMsg
<1>. QED  BY <1>5, <1>6, <1>7 DEF Message, s

\* pre_send puts one more message into some futures.
LEMMA PreSendDoes ==
  ASSUME NEW f \in [Client -> Seq(Message)], NEW to, NEW m \in Message
  PROVE  /\ PreSend(f, to, m) \in [Client -> Seq(Message)]
         /\ \A d \in Client : PreSend(f, to, m)[d] = IF d \in to THEN Append(f[d], m) ELSE f[d]
  BY AppendProperties DEF PreSend

-----------------------------------------------------------------------------
(* What a page does: with a message, after a timeout, when clicked.        *)

\* The page of c becomes q.  It keeps what it follows unless its client asks
\* for another table.
PageTurns(c, q) ==
  /\ q \in Page /\ Tidy(q)
  /\ page' = [page EXCEPT ![c] = q]
  /\ UNCHANGED <<table, fut, dead>>
  /\ down' \in [Client -> Seq(Message)]
  /\ \A d \in Client \ {c} : down'[d] = down[d]
  /\ ButtonFits(c, page[c]) => ButtonFits(c, q)
  /\ Blank(page[c], Stream(c)) => Blank(q, Stream(c)')
  /\ (\A u \in Tables : ~SendNewTable(c, u) /\ ~SendJoin(c, u)) =>
       Keeps(page[c], Stream(c), q, Stream(c)')

\* A command is made from what the page shows.
MadeOn(pg, m) ==
  /\ m.op \in {"try3", "add3"} => m.gstate = pg.gstate
  /\ m.op = "try3" => \A k \in 1..3 : m.cards[k] = CardAt(pg.board, m.pos[k])
  /\ m.op = "add3" => "add3" \in pg.buttons

Asks(c, m) ==
  /\ m \in Command /\ MadeOn(page[c], m)
  /\ m.op = "join" => Open(m.to)
  /\ up' = [up EXCEPT ![c] = Append(@, m)]

UpTurns(c) == up' = up \/ \E m : Asks(c, m)

\* Streams are sequences of messages.
LEMMA StreamTypes ==
  ASSUME TypeInv, NEW c \in Client
  PROVE  /\ page[c] \in Page /\ page[c].held \in Seq(Message) /\ down[c] \in Seq(Message)
         /\ fut[c] \in Seq(Message) /\ Stream(c) \in Seq(Message) /\ up[c] \in Seq(Command)
         /\ Stream(c) = page[c].held \o (down[c] \o fut[c])
         /\ down[c] \o fut[c] \in Seq(Message)
<1>1. page[c] \in Page /\ down[c] \in Seq(Message) /\ fut[c] \in Seq(Message) /\ up[c] \in Seq(Command)
  BY DEF TypeInv
<1>2. page[c].held \in Seq(Message)
  BY <1>1, PageTypes
<1>3. page[c].held \o down[c] \in Seq(Message)
  BY <1>1, <1>2, MessagesInARow, Zenon
<1>4. (page[c].held \o down[c]) \o fut[c] \in Seq(Message)
  BY <1>1, <1>3, MessagesInARow, Zenon
<1>5. (page[c].held \o down[c]) \o fut[c] = page[c].held \o (down[c] \o fut[c])
  BY <1>1, <1>2, MessagesInARow, Zenon
<1>6. down[c] \o fut[c] \in Seq(Message)
  BY <1>1, MessagesInARow, Zenon
<1>. QED  BY <1>1, <1>2, <1>4, <1>5, <1>6 DEF Stream

\* The event of a message.
LEMMA OnMessageTurns ==
  ASSUME TypeInv, Orderly, NEW c \in Client, OnMessage(c)
  PROVE  \E q : PageTurns(c, q) /\ UpTurns(c)
<1>. DEFINE pg == page[c]
            m == Head(down[c])
            d == Tail(down[c])
            r == d \o fut[c]
            q == Handle(c, pg, m)
<1>1. /\ pg \in Page /\ pg.held \in Seq(Message) /\ down[c] \in Seq(Message) /\ fut[c] \in Seq(Message)
      /\ Stream(c) = pg.held \o (down[c] \o fut[c])
  BY StreamTypes
<1>2. down[c] # <<>>
  BY DEF OnMessage
<1>3. /\ m \in Message /\ d \in Seq(Message) /\ <<m>> \in Seq(Message)
      /\ down[c] = <<m>> \o d
  <2>1. m \in Message /\ d \in Seq(Message)
    BY <1>1, <1>2, HeadTailProperties
  <2>2. <<m>> \in Seq(Message)
    BY <2>1
  <2>3. down[c] = <<m>> \o d
    BY <1>1, <1>2
  <2>. QED  BY <2>1, <2>2, <2>3
<1>4. Tidy(pg)
  BY DEF Orderly
<1>5. page' = [page EXCEPT ![c] = q] /\ down' = [down EXCEPT ![c] = d]
  BY DEF OnMessage
<1>6. page \in [Client -> Page] /\ down \in [Client -> Seq(Message)]
  BY DEF TypeInv
<1>7. UNCHANGED <<table, up, fut, dead>>
  BY DEF OnMessage
<1>. HIDE DEF pg, m, d, q
<1>8. r \in Seq(Message) /\ down[c] \o fut[c] = <<m>> \o r
  <2>1. r \in Seq(Message)
    BY <1>1, <1>3, MessagesInARow, Zenon
  <2>2. (<<m>> \o d) \o fut[c] = <<m>> \o (d \o fut[c])
    <3>1. <<m>> \in Seq(Message) /\ d \in Seq(Message) /\ fut[c] \in Seq(Message)
      BY <1>1, <1>3
    <3>. QED  BY <3>1, MessagesInARow, Zenon
  <2>3. down[c] \o fut[c] = (<<m>> \o d) \o fut[c]
    BY <1>3, Zenon
  <2>. QED  BY <2>1, <2>2, <2>3, Zenon
<1>9. /\ q \in Page /\ Tidy(q)
      /\ ButtonFits(c, pg) => ButtonFits(c, q)
      /\ Keeps(pg, pg.held \o (<<m>> \o r), q, q.held \o r)
  <2>. HIDE DEF r
  <2>. QED  BY <1>1, <1>3, <1>4, <1>8, HandleKeeps DEF q
<1>10. page'[c] = q /\ down'[c] = d /\ fut'[c] = fut[c]
  BY <1>5, <1>6, <1>7
<1>11. Stream(c)' = q.held \o r
  <2>1. Stream(c)' = (q.held \o d) \o fut[c]
    BY <1>10 DEF Stream
  <2>2. q.held \in Seq(Message)
    BY <1>9, PageTypes
  <2>. QED  BY <1>1, <1>3, <2>1, <2>2, MessagesInARow, Zenon
<1>12. Keeps(pg, Stream(c), q, Stream(c)')
  BY <1>1, <1>8, <1>9, <1>11, Zenon
<1>13. down' \in [Client -> Seq(Message)] /\ \A e \in Client \ {c} : down'[e] = down[e]
  BY <1>3, <1>5, <1>6
<1>14. PageTurns(c, q)
  BY <1>5, <1>7, <1>9, <1>12, <1>13 DEF PageTurns, Keeps, pg
<1>. QED  BY <1>7, <1>14 DEF UpTurns

\* The timeout.
LEMMA OnTimeoutTurns ==
  ASSUME TypeInv, Orderly, NEW c \in Client, OnTimeout(c)
  PROVE  \E q : PageTurns(c, q) /\ UpTurns(c)
<1>. DEFINE pg == page[c]
            r == down[c] \o fut[c]
            q == HandleDelayed(c, [pg EXCEPT !.delayed = Nothing, !.selected = <<>>])
<1>1. /\ pg \in Page /\ down[c] \in Seq(Message) /\ fut[c] \in Seq(Message) /\ r \in Seq(Message)
      /\ Stream(c) = pg.held \o r
  BY StreamTypes
<1>2. page' = [page EXCEPT ![c] = q]
  BY DEF OnTimeout
<1>3. page \in [Client -> Page] /\ down \in [Client -> Seq(Message)]
  BY DEF TypeInv
<1>4. UNCHANGED <<table, up, fut, down, dead>>
  BY DEF OnTimeout
<1>. HIDE DEF pg, r
<1>5. /\ q \in Page /\ Tidy(q)
      /\ ButtonFits(c, pg) => ButtonFits(c, q)
      /\ Keeps(pg, pg.held \o r, q, q.held \o r)
  BY <1>1, TimeoutKeeps
<1>. HIDE DEF q
<1>6. page'[c] = q /\ down'[c] = down[c] /\ fut'[c] = fut[c]
  BY <1>2, <1>3, <1>4
<1>7. Stream(c)' = q.held \o r
  <2>1. Stream(c)' = (q.held \o down[c]) \o fut[c]
    BY <1>6 DEF Stream
  <2>2. q.held \in Seq(Message)
    BY <1>5, PageTypes
  <2>. QED  BY <1>1, <2>1, <2>2, MessagesInARow, Zenon DEF r
<1>8. Keeps(pg, Stream(c), q, Stream(c)')
  BY <1>1, <1>5, <1>7, Zenon
<1>9. PageTurns(c, q)
  BY <1>2, <1>3, <1>4, <1>5, <1>8 DEF PageTurns, Keeps, pg
<1>. QED  BY <1>4, <1>9 DEF UpTurns

\* What changes neither the state shown nor what is held back.
LEMMA SameTurns ==
  ASSUME TypeInv, Orderly, NEW c \in Client, NEW q \in Page,
         page' = [page EXCEPT ![c] = q], UNCHANGED <<table, fut, down, dead>>,
         Shown(q) = Shown(page[c]), q.delayed = page[c].delayed, q.held = page[c].held,
         q.buttons \subseteq page[c].buttons
  PROVE  PageTurns(c, q)
<1>1. page \in [Client -> Page] /\ down \in [Client -> Seq(Message)] /\ Tidy(page[c])
  BY DEF TypeInv, Orderly
<1>2. page'[c] = q
  BY <1>1
<1>3. Stream(c)' = Stream(c)
  BY <1>2 DEF Stream
<1>4. Keeps(page[c], Stream(c), q, Stream(c))
  BY SameKeeps
<1>5. Tidy(q)
  BY <1>1 DEF Tidy
<1>6. ButtonFits(c, page[c]) => ButtonFits(c, q)
  <2>1. q.deck = page[c].deck
    BY DEF Shown
  <2>. QED  BY <2>1 DEF ButtonFits
<1>7. Blank(page[c], Stream(c)) => Blank(q, Stream(c))
  BY <1>4 DEF Keeps
<1>. QED  BY <1>1, <1>3, <1>4, <1>5, <1>6, <1>7 DEF PageTurns

\* A click, and the dialogs.
LEMMA ClickTurns ==
  ASSUME TypeInv, Orderly, NEW c \in Client,
         \/ DismissNotASet(c) \/ DismissGameOver(c) \/ CloseJoinDialog(c)
         \/ \E k \in 1..4 : DeselectCard(c, k)
  PROVE  \E q : PageTurns(c, q) /\ UpTurns(c)
<1>. DEFINE pg == page[c]
<1>1. /\ pg \in Page /\ page \in [Client -> Page] /\ down \in [Client -> Seq(Message)]
      /\ pg.selected \in Picks /\ pg.selected \in Seq(Spot) /\ IsInjective(pg.selected)
      /\ pg.buttons \in SUBSET {"add3", "nmor"}
  <2>1. pg \in Page /\ page \in [Client -> Page] /\ down \in [Client -> Seq(Message)]
    BY DEF TypeInv
  <2>2. pg.selected \in Picks /\ pg.buttons \in SUBSET {"add3", "nmor"}
    BY <2>1, PageTypes
  <2>. QED  BY <2>1, <2>2 DEF Picks
<1>. DEFINE Turn(q) == /\ q \in Page /\ page' = [page EXCEPT ![c] = q]
                       /\ Shown(q) = Shown(pg) /\ q.delayed = pg.delayed /\ q.held = pg.held
                       /\ q.buttons \subseteq pg.buttons
<1>2. ASSUME NEW s \in Picks, page' = [page EXCEPT ![c] = [pg EXCEPT !.selected = s]]
      PROVE  Turn([pg EXCEPT !.selected = s])
  BY <1>1, <1>2 DEF Page, Shown
<1>3. CASE DismissNotASet(c)
  <2>. DEFINE s == IF pg.selected = <<>> THEN pg.selected ELSE Front(pg.selected)
              q == [pg EXCEPT !.notASet = FALSE, !.selected = s]
  <2>1. s \in Picks
    <3>1. CASE pg.selected = <<>>
      BY <1>1, <3>1
    <3>2. CASE pg.selected # <<>>
      <4>. DEFINE z == pg.selected
                  n == Len(z) - 1
      <4>1. z \in Seq(Spot) /\ Len(z) \in Nat \ {0} /\ DOMAIN z = 1..Len(z)
        BY <1>1, <3>2, EmptySeq, LenProperties
      <4>2. \A i, j \in 1..Len(z) : z[i] = z[j] => i = j
        BY <1>1, <4>1 DEF IsInjective
      <4>. HIDE DEF z
      <4>3. \A i \in 1..n : z[i] \in Spot
        BY <4>1, ElementOfSeq
      <4>4. /\ SubSeq(z, 1, n) \in Seq(Spot) /\ Len(SubSeq(z, 1, n)) = n
            /\ \A i \in 1..n : SubSeq(z, 1, n)[i] = z[i]
        <5>1. 1 \in Int /\ n \in Int /\ n - 1 + 1 = n /\ n \in Nat
          BY <4>1
        <5>2. /\ SubSeq(z, 1, n) \in Seq(Spot)
              /\ Len(SubSeq(z, 1, n)) = IF 1 <= n THEN n - 1 + 1 ELSE 0
              /\ \A i \in 1..(n - 1 + 1) : SubSeq(z, 1, n)[i] = z[1 + i - 1]
          BY <4>3, <5>1, SubSeqProperties
        <5>. QED  BY <5>1, <5>2
      <4>. DEFINE y == SubSeq(z, 1, n)
      <4>5. DOMAIN y = 1..n
        BY <4>4, LenProperties
      <4>. HIDE DEF y
      <4>6. \A i, j \in 1..n : y[i] = y[j] => i = j
        BY <4>1, <4>2, <4>4 DEF y
      <4>7. IsInjective(y)
        BY <4>5, <4>6 DEF IsInjective
      <4>8. y \in Picks
        BY <4>4, <4>7 DEF Picks, y
      <4>. QED  BY <3>2, <4>8 DEF Front, y, z
    <3>. QED  BY <3>1, <3>2
  <2>2. page' = [page EXCEPT ![c] = q]
    BY <1>1, <1>3 DEF DismissNotASet
  <2>. HIDE DEF s
  <2>3. q \in Page /\ Shown(q) = Shown(pg) /\ q.delayed = pg.delayed /\ q.held = pg.held
        /\ q.buttons = pg.buttons
    BY <1>1, <2>1 DEF Page, Shown
  <2>4. UNCHANGED <<table, up, fut, down, dead>>
    BY <1>3 DEF DismissNotASet
  <2>5. PageTurns(c, q)
    BY <2>2, <2>3, <2>4, SameTurns
  <2>. QED  BY <2>4, <2>5 DEF UpTurns
<1>4. CASE DismissGameOver(c)
  <2>. DEFINE q == [pg EXCEPT !.over = FALSE, !.buttons = pg.buttons \ {"nmor"}]
  <2>1. page' = [page EXCEPT ![c] = q]
    BY <1>1, <1>4 DEF DismissGameOver
  <2>2. pg.buttons \ {"nmor"} \in SUBSET {"add3", "nmor"}
    BY <1>1
  <2>3. q \in Page /\ Shown(q) = Shown(pg) /\ q.delayed = pg.delayed /\ q.held = pg.held
        /\ q.buttons = pg.buttons \ {"nmor"}
    BY <1>1, <2>2 DEF Page, Shown
  <2>4. UNCHANGED <<table, up, fut, down, dead>>
    BY <1>4 DEF DismissGameOver
  <2>5. PageTurns(c, q)
    BY <2>1, <2>3, <2>4, SameTurns
  <2>. QED  BY <2>4, <2>5 DEF UpTurns
<1>5. CASE CloseJoinDialog(c)
  <2>. DEFINE q == [pg EXCEPT !.joining = FALSE]
  <2>1. page' = [page EXCEPT ![c] = q]
    BY <1>1, <1>5 DEF CloseJoinDialog
  <2>2. q \in Page /\ Shown(q) = Shown(pg) /\ q.delayed = pg.delayed /\ q.held = pg.held
        /\ q.buttons = pg.buttons
    BY <1>1 DEF Page, Shown
  <2>3. UNCHANGED <<table, up, fut, down, dead>>
    BY <1>5 DEF CloseJoinDialog
  <2>4. PageTurns(c, q)
    BY <2>1, <2>2, <2>3, SameTurns
  <2>. QED  BY <2>3, <2>4 DEF UpTurns
<1>6. CASE \E k \in 1..4 : DeselectCard(c, k)
  <2>1. PICK k \in 1..4 : DeselectCard(c, k)
    BY <1>6
  <2>. DEFINE s == SwapOut(pg.selected, k)
              q == [pg EXCEPT !.selected = s]
  <2>2. k \in 1..Len(pg.selected)
    <3>1. k \in DOMAIN pg.selected
      BY <2>1 DEF DeselectCard
    <3>. QED  BY <1>1, <3>1, LenProperties
  <2>3. s \in Picks
    BY <1>1, <2>2, SwapOutSeq, SwapOutElements DEF Picks
  <2>4. page' = [page EXCEPT ![c] = q]
    BY <1>1, <2>1 DEF DeselectCard
  <2>. HIDE DEF s
  <2>5. q \in Page /\ Shown(q) = Shown(pg) /\ q.delayed = pg.delayed /\ q.held = pg.held
        /\ q.buttons = pg.buttons
    BY <1>1, <2>3 DEF Page, Shown
  <2>6. UNCHANGED <<table, up, fut, down, dead>>
    BY <2>1 DEF DeselectCard
  <2>7. PageTurns(c, q)
    BY <2>4, <2>5, <2>6, SameTurns
  <2>. QED  BY <2>6, <2>7 DEF UpTurns
<1>. QED  BY <1>3, <1>4, <1>5, <1>6

\* What the page sends.
LEMMA SelectTurns ==
  ASSUME TypeInv, Orderly, NEW c \in Client, NEW i \in 1..Cardinality(Deck0), SelectCard(c, i)
  PROVE  \E q : PageTurns(c, q) /\ UpTurns(c)
<1>. DEFINE pg == page[c]
            s == Append(pg.selected, i)
            q == [pg EXCEPT !.selected = s]
            m == [op |-> "try3", gstate |-> pg.gstate, pos |-> s,
                  cards |-> [k \in 1..3 |-> CardAt(pg.board, s[k])]]
<1>1. /\ pg \in Page /\ page \in [Client -> Page] /\ pg.board \in Seq(Deck0)
      /\ pg.selected \in Seq(Spot) /\ IsInjective(pg.selected) /\ pg.gstate \in Int
  <2>1. pg \in Page /\ page \in [Client -> Page]
    BY DEF TypeInv
  <2>2. pg.selected \in Picks /\ pg.board \in Seq(Deck0) /\ pg.gstate \in Int
    BY <2>1, PageTypes
  <2>. QED  BY <2>1, <2>2 DEF Picks
<1>2. i \notin OnBoard(pg.selected) /\ i \in Spot
  <2>1. Cardinality(Deck0) \in Nat
    BY DeckFinite
  <2>. QED  BY <2>1 DEF SelectCard, Spot
<1>3. s \in Picks
  <2>. DEFINE z == pg.selected
  <2>1. z \in Seq(Spot) /\ DOMAIN z = 1..Len(z) /\ Len(z) \in Nat
    BY <1>1, LenProperties
  <2>2. s \in Seq(Spot) /\ Len(s) = Len(z) + 1 /\ s[Len(z) + 1] = i /\ \A k \in 1..Len(z) : s[k] = z[k]
    BY <1>2, <2>1, AppendProperties
  <2>3. \A k, j \in 1..Len(z) : z[k] = z[j] => k = j
    BY <1>1, <2>1 DEF IsInjective
  <2>4. \A k \in 1..Len(z) : z[k] # i
    BY <1>2, <2>1 DEF OnBoard
  <2>5. DOMAIN s = 1..(Len(z) + 1)
    BY <2>2, LenProperties
  <2>. HIDE DEF z, s
  <2>6. \A k \in 1..(Len(z) + 1) : k \in 1..Len(z) \/ k = Len(z) + 1
    BY <2>1
  <2>7. \A k, j \in DOMAIN s : s[k] = s[j] => k = j
    BY <2>2, <2>3, <2>4, <2>5, <2>6
  <2>. QED  BY <2>2, <2>7 DEF Picks, IsInjective
<1>4. q \in Page /\ Shown(q) = Shown(pg) /\ q.delayed = pg.delayed /\ q.held = pg.held
      /\ q.buttons = pg.buttons
  <2>. HIDE DEF s
  <2>. QED  BY <1>1, <1>3 DEF Page, Shown
<1>5. CASE Len(s) # 3
  <2>1. page' = [page EXCEPT ![c] = q]
    BY <1>1, <1>5 DEF SelectCard
  <2>2. UNCHANGED <<table, up, fut, down, dead>>
    BY <1>5 DEF SelectCard
  <2>. HIDE DEF q
  <2>3. PageTurns(c, q)
    BY <1>4, <2>1, <2>2, SameTurns
  <2>. QED  BY <2>2, <2>3 DEF UpTurns
<1>6. CASE Len(s) = 3
  <2>1. Send(c, q, m)
    BY <1>6 DEF SelectCard
  <2>2. m \in Command
    <3>1. s \in Triples
      <4>1. s \in Seq(Spot) /\ IsInjective(s)
        BY <1>3 DEF Picks
      <4>. HIDE DEF s
      <4>2. s \in [1..3 -> Spot]
        BY <1>6, <4>1, LenProperties
      <4>. QED  BY <4>1, <4>2 DEF Triples
    <3>. HIDE DEF s
    <3>2. \A k \in 1..3 : CardAt(pg.board, s[k]) \in Int
      <4>1. \A j \in DOMAIN pg.board : pg.board[j] \in Int
        <5>1. \A j \in DOMAIN pg.board : pg.board[j] \in Deck0
          BY <1>1, LenProperties, ElementOfSeq
        <5>2. \A x \in Deck0 : x \in Int
          BY DeckAssumption DEF Card
        <5>. QED  BY <5>1, <5>2
      <4>. QED  BY <4>1 DEF CardAt
    <3>3. m \in Claim
      BY <1>1, <3>1, <3>2 DEF Claim
    <3>. QED  BY <3>3 DEF Command
  <2>3. MadeOn(pg, m) /\ m.op # "join"
    <3>. HIDE DEF s
    <3>. QED  BY DEF MadeOn
  <2>. HIDE DEF q, m
  <2>4. page' = [page EXCEPT ![c] = q] /\ UNCHANGED <<table, fut, down, dead>>
    BY <2>1 DEF Send
  <2>5. PageTurns(c, q)
    BY <1>4, <2>4, SameTurns
  <2>6. Asks(c, m)
    BY <2>1, <2>2, <2>3 DEF Send, Asks
  <2>. QED  BY <2>5, <2>6 DEF UpTurns
<1>. QED  BY <1>5, <1>6

\* A command that is sent, and the page that sends it.
LEMMA SendTurns ==
  ASSUME TypeInv, Orderly, NEW c \in Client,
         \/ \E op \in {"add3", "nmor"} : SendAdd3NoMore(c, op)
         \/ SendNewGame(c)
  PROVE  \E q : PageTurns(c, q) /\ UpTurns(c)
<1>. DEFINE pg == page[c]
<1>1. pg \in Page /\ page \in [Client -> Page] /\ pg.gstate \in Int
  <2>1. pg \in Page /\ page \in [Client -> Page]
    BY DEF TypeInv
  <2>. QED  BY <2>1, PageTypes
<1>2. ASSUME NEW m \in Command, MadeOn(pg, m), m.op # "join", Send(c, pg, m)
      PROVE  \E q : PageTurns(c, q) /\ UpTurns(c)
  <2>1. page' = [page EXCEPT ![c] = pg] /\ UNCHANGED <<table, fut, down, dead>>
    BY <1>2 DEF Send
  <2>2. PageTurns(c, pg)
    BY <1>1, <2>1, SameTurns
  <2>3. Asks(c, m)
    BY <1>2 DEF Send, Asks
  <2>. QED  BY <2>2, <2>3 DEF UpTurns
<1>3. CASE SendNewGame(c)
  <2>. DEFINE m == [op |-> "gnew"]
  <2>1. m \in Command /\ MadeOn(pg, m) /\ m.op # "join"
    BY DEF Command, MadeOn
  <2>2. Send(c, pg, m)
    BY <1>3 DEF SendNewGame
  <2>. QED  BY <1>2, <2>1, <2>2
<1>4. CASE \E op \in {"add3", "nmor"} : SendAdd3NoMore(c, op)
  <2>1. PICK op \in {"add3", "nmor"} : SendAdd3NoMore(c, op)
    BY <1>4
  <2>. DEFINE m == [op |-> op, gstate |-> pg.gstate]
  <2>2. m \in Move /\ m.op = op /\ m.gstate = pg.gstate
    BY <1>1 DEF Move
  <2>3. Send(c, pg, m) /\ op \in pg.buttons
    BY <2>1 DEF SendAdd3NoMore
  <2>. HIDE DEF m
  <2>4. m \in Command /\ MadeOn(pg, m) /\ m.op # "join"
    BY <2>2, <2>3 DEF Command, MadeOn
  <2>. QED  BY <1>2, <2>3, <2>4
<1>. QED  BY <1>3, <1>4

\* New Table and Join Table: the page of 3333.js shows no active game then.
LEMMA SwitchTurns ==
  ASSUME TypeInv, Orderly, NEW c \in Client, NEW t \in Tables,
         SendNewTable(c, t) \/ SendJoin(c, t)
  PROVE  \E q : PageTurns(c, q) /\ UpTurns(c)
<1>. DEFINE pg == page[c]
            q == [pg EXCEPT !.active = FALSE]
<1>1. pg \in Page /\ page \in [Client -> Page] /\ Tidy(pg) /\ down \in [Client -> Seq(Message)]
  BY DEF TypeInv, Orderly
<1>2. PICK m \in Switch : /\ Send(c, pg, m) \/ Send(c, q, m)
                          /\ m.op = "join" => Open(m.to)
  <2>1. [op |-> "ntbl", to |-> t] \in Switch /\ [op |-> "join", to |-> t] \in Switch
    BY DEF Switch
  <2>2. CASE SendNewTable(c, t)
    <3>. DEFINE m == [op |-> "ntbl", to |-> t]
    <3>1. Send(c, IF c \in Newer THEN pg ELSE q, m)
      BY <2>2 DEF SendNewTable
    <3>2. Send(c, pg, m) \/ Send(c, q, m)
      BY <3>1
    <3>. QED  BY <2>1, <3>2
  <2>3. CASE SendJoin(c, t)
    <3>. DEFINE m == [op |-> "join", to |-> t]
    <3>1. Send(c, pg, m) \/ Send(c, q, m)
      BY <2>3 DEF SendJoin
    <3>2. Open(t) /\ m.to = t
      BY <2>3 DEF SendJoin
    <3>. QED  BY <2>1, <3>1, <3>2
  <2>. QED  BY <2>2, <2>3
<1>3. m \in Command /\ MadeOn(pg, m)
  BY DEF Command, Switch, MadeOn
<1>4. UpTurns(c)
  <2>1. up' = [up EXCEPT ![c] = Append(@, m)]
    BY <1>2 DEF Send
  <2>2. Asks(c, m)
    BY <1>2, <1>3, <2>1 DEF Asks
  <2>. QED  BY <2>2 DEF UpTurns
<1>5. UNCHANGED <<table, fut, down, dead>>
  BY <1>2 DEF Send
<1>6. CASE Send(c, pg, m)
  <2>1. page' = [page EXCEPT ![c] = pg]
    BY <1>6 DEF Send
  <2>2. PageTurns(c, pg)
    BY <1>1, <1>5, <2>1, SameTurns
  <2>. QED  BY <1>4, <2>2
<1>7. CASE Send(c, q, m)
  <2>1. page' = [page EXCEPT ![c] = q]
    BY <1>7 DEF Send
  <2>2. /\ q \in Page /\ q.delayed = pg.delayed /\ q.held = pg.held
        /\ q.buttons = pg.buttons /\ q.deck = pg.deck /\ q.gstate = pg.gstate
        /\ q.tstate = pg.tstate /\ q.board = pg.board
    BY <1>1 DEF Page
  <2>. HIDE DEF q
  <2>3. Stream(c)' = Stream(c)
    <3>1. page'[c] = q
      BY <1>1, <2>1
    <3>. QED  BY <1>5, <2>2, <3>1 DEF Stream
  <2>4. Blank(pg, Stream(c)) => Blank(q, Stream(c)')
    BY <2>2, <2>3 DEF Blank
  <2>5. Tidy(q) /\ (ButtonFits(c, pg) => ButtonFits(c, q))
    BY <1>1, <2>2 DEF Tidy, ButtonFits
  <2>6. ~(\A u \in Tables : ~SendNewTable(c, u) /\ ~SendJoin(c, u))
    OBVIOUS
  <2>7. PageTurns(c, q)
    BY <1>1, <1>5, <2>1, <2>2, <2>4, <2>5, <2>6 DEF PageTurns
  <2>. QED  BY <1>4, <2>7
<1>. QED  BY <1>2, <1>6, <1>7

\* m3333.js forgets the states when it opens the dialog for another table.
LEMMA OpenJoinTurns ==
  ASSUME TypeInv, Orderly, NEW c \in Client, OpenJoinDialog(c)
  PROVE  \E q : PageTurns(c, q) /\ UpTurns(c)
<1>. DEFINE pg == page[c]
            s == Stream(c)
            q == [pg EXCEPT !.tstate = -1, !.gstate = -1, !.joining = TRUE]
<1>1. pg \in Page /\ page \in [Client -> Page] /\ Tidy(pg) /\ down \in [Client -> Seq(Message)]
  BY DEF TypeInv, Orderly
<1>2. page' = [page EXCEPT ![c] = q] /\ UNCHANGED <<table, up, fut, down, dead>>
  BY <1>1 DEF OpenJoinDialog
<1>3. /\ q \in Page /\ q.delayed = pg.delayed /\ q.held = pg.held
      /\ q.buttons = pg.buttons /\ q.deck = pg.deck /\ q.gstate = -1
      /\ q.tstate = -1 /\ q.board = pg.board
  <2>1. ASSUME NEW z \in Int, NEW y \in Page, y = [pg EXCEPT !.tstate = z, !.gstate = z]
        PROVE  LET x == [y EXCEPT !.joining = TRUE]
               IN  /\ x \in Page /\ x.delayed = pg.delayed /\ x.held = pg.held
                   /\ x.buttons = pg.buttons /\ x.deck = pg.deck /\ x.gstate = z
                   /\ x.tstate = z /\ x.board = pg.board
    BY <1>1, <2>1 DEF Page
  <2>2. ASSUME NEW z \in Int  PROVE [pg EXCEPT !.tstate = z, !.gstate = z] \in Page
    BY <1>1 DEF Page
  <2>3. -1 \in Int
    OBVIOUS
  <2>4. q = [[pg EXCEPT !.tstate = -1, !.gstate = -1] EXCEPT !.joining = TRUE]
    BY <1>1 DEF Page
  <2>. QED  BY <2>1, <2>2, <2>3, <2>4
<1>4. Stream(c)' = s
  <2>. HIDE DEF q
  <2>1. page'[c] = q
    BY <1>1, <1>2
  <2>. QED  BY <1>2, <1>3, <2>1 DEF Stream
<1>5. s \in Seq(Message)
  BY StreamTypes
<1>. HIDE DEF q, s
<1>6. Blank(pg, s) => Blank(q, s)
  BY <1>3 DEF Blank
<1>7. \A n : BoardAfter(q, s, n) = BoardAfter(pg, s, n)
  BY <1>3 DEF BoardAfter
<1>8. ASSUME NEW T \in Opened, Follows(pg, s, T)
      PROVE  Follows(q, s, T) /\ (Hears(q, s, T) => Hears(pg, s, T))
  <2>1. T.gstate \in Nat /\ T.tstate \in Nat
    BY DEF Opened, TableRec
  <2>2. Shown(q).gstate = -1 /\ Shown(q).tstate = -1
    BY <1>3 DEF Shown
  <2>3. Faithful(Shown(q), T)
    BY <2>1, <2>2 DEF Faithful
  <2>4. \A n \in States(s) : Before(Shown(q), s[n].game)
    <3>1. \A n \in States(s) : s[n].game.gstate \in Nat
      BY <1>5, StateGames DEF Game
    <3>. QED  BY <2>2, <3>1 DEF Before
  <2>5. InOrder(q, s)
    BY <1>3, <1>7, <1>8, <2>4 DEF Follows, InOrder
  <2>6. Hears(q, s, T) => Hears(pg, s, T)
    BY <1>3, <2>1 DEF Hears
  <2>. QED  BY <1>8, <2>3, <2>5, <2>6 DEF Follows
<1>9. Keeps(pg, s, q, s)
  BY <1>6, <1>7, <1>8 DEF Keeps
<1>10. Tidy(q) /\ (ButtonFits(c, pg) => ButtonFits(c, q))
  BY <1>1, <1>3 DEF Tidy, ButtonFits
<1>11. PageTurns(c, q)
  BY <1>1, <1>2, <1>3, <1>4, <1>6, <1>9, <1>10 DEF PageTurns, s
<1>. QED  BY <1>2, <1>11 DEF UpTurns

\* What the page of a client and its user do.
PageNext(c) ==
  \/ OnMessage(c) \/ OnTimeout(c)
  \/ DismissNotASet(c) \/ DismissGameOver(c)
  \/ \E i \in 1..Cardinality(Deck0) : SelectCard(c, i)
  \/ \E k \in 1..4 : DeselectCard(c, k)
  \/ \E op \in {"add3", "nmor"} : SendAdd3NoMore(c, op)
  \/ SendNewGame(c) \/ OpenJoinDialog(c) \/ CloseJoinDialog(c)
  \/ \E t \in Tables : SendNewTable(c, t) \/ SendJoin(c, t)

\* Whatever a page does is a turn of it.
LEMMA PageNextTurns ==
  ASSUME TypeInv, Orderly, NEW c \in Client, PageNext(c)
  PROVE  \E q : PageTurns(c, q) /\ UpTurns(c)
<1>1. CASE OnMessage(c)
  BY <1>1, OnMessageTurns
<1>2. CASE OnTimeout(c)
  BY <1>2, OnTimeoutTurns
<1>3. CASE \/ DismissNotASet(c) \/ DismissGameOver(c) \/ CloseJoinDialog(c)
           \/ \E k \in 1..4 : DeselectCard(c, k)
  BY <1>3, ClickTurns
<1>4. CASE \E i \in 1..Cardinality(Deck0) : SelectCard(c, i)
  BY <1>4, SelectTurns
<1>5. CASE (\E op \in {"add3", "nmor"} : SendAdd3NoMore(c, op)) \/ SendNewGame(c)
  BY <1>5, SendTurns
<1>6. CASE OpenJoinDialog(c)
  BY <1>6, OpenJoinTurns
<1>7. CASE \E t \in Tables : SendNewTable(c, t) \/ SendJoin(c, t)
  BY <1>7, SwitchTurns
<1>. QED  BY <1>1, <1>2, <1>3, <1>4, <1>5, <1>6, <1>7 DEF PageNext

-----------------------------------------------------------------------------
(* A turn of a page keeps the invariant.                                   *)

\* The commands on their way are the old ones, and what c asks.
LEMMA UpAfterTurn ==
  ASSUME TypeInv, NEW c \in Client, UpTurns(c)
  PROVE  /\ up' \in [Client -> Seq(Command)]
         /\ \A d \in Client : \A n \in DOMAIN up'[d] :
              \/ n \in DOMAIN up[d] /\ up'[d][n] = up[d][n]
              \/ d = c /\ Asks(c, up'[d][n])
<1>1. up \in [Client -> Seq(Command)]
  BY DEF TypeInv
<1>2. CASE up' = up
  BY <1>1, <1>2
<1>3. CASE \E m : Asks(c, m)
  <2>1. PICK m : Asks(c, m)
    BY <1>3
  <2>2. m \in Command /\ up' = [up EXCEPT ![c] = Append(up[c], m)]
    BY <1>1, <2>1 DEF Asks
  <2>. DEFINE u == up[c]
              w == Append(u, m)
  <2>3. u \in Seq(Command)
    BY <1>1
  <2>4. /\ w \in Seq(Command) /\ Len(w) = Len(u) + 1 /\ w[Len(u) + 1] = m
        /\ \A k \in 1..Len(u) : w[k] = u[k]
    BY <2>2, <2>3, AppendProperties
  <2>5. DOMAIN u = 1..Len(u) /\ Len(u) \in Nat /\ DOMAIN w = 1..Len(w)
    BY <2>3, <2>4, LenProperties
  <2>. HIDE DEF u, w
  <2>6. up' = [up EXCEPT ![c] = w]
    BY <2>2 DEF u, w
  <2>7. up' \in [Client -> Seq(Command)] /\ up'[c] = w /\ \A d \in Client \ {c} : up'[d] = up[d]
    BY <1>1, <2>4, <2>6
  <2>8. \A n \in DOMAIN w : (n \in DOMAIN u /\ w[n] = u[n]) \/ w[n] = m
    BY <2>4, <2>5
  <2>. QED  BY <2>1, <2>7, <2>8 DEF u
<1>. QED  BY <1>2, <1>3 DEF UpTurns

\* Types, after a turn.
LEMMA TurnTypes ==
  ASSUME TypeInv, Orderly, NEW c \in Client, NEW q, PageTurns(c, q), UpTurns(c)
  PROVE  TypeInv' /\ Orderly'
<1>1. /\ table' = table /\ fut' = fut /\ dead' = dead /\ q \in Page /\ Tidy(q)
      /\ page' = [page EXCEPT ![c] = q] /\ down' \in [Client -> Seq(Message)]
  BY DEF PageTurns
<1>2. /\ table \in [Tables -> TableRec] /\ fut \in [Client -> Seq(Message)] /\ dead \subseteq Client
      /\ page \in [Client -> Page]
  BY DEF TypeInv
<1>3. page' \in [Client -> Page] /\ \A d \in Client : page'[d] = IF d = c THEN q ELSE page[d]
  BY <1>1, <1>2
<1>4. /\ up' \in [Client -> Seq(Command)]
      /\ \A d \in Client : \A n \in DOMAIN up'[d] :
           \/ n \in DOMAIN up[d] /\ up'[d][n] = up[d][n]
           \/ d = c /\ Asks(c, up'[d][n])
  BY UpAfterTurn
<1>5. TypeInv'
  BY <1>1, <1>2, <1>3, <1>4 DEF TypeInv
<1>6. \A t : Open(t)' <=> Open(t)
  BY <1>1 DEF Open
<1>7. \A d, t : At(d, t)' <=> At(d, t)
  BY <1>1 DEF At
<1>8. \A d \in Client : Tidy(page'[d])
  BY <1>1, <1>3 DEF Orderly
<1>9. \A t \in Tables : Counted(table'[t])
  BY <1>1 DEF Orderly
<1>10. ASSUME NEW d \in Client, NEW n \in DOMAIN up'[d], up'[d][n].op = "join"
       PROVE  table'[up'[d][n].to].tstate >= 0
  <2>1. CASE n \in DOMAIN up[d] /\ up'[d][n] = up[d][n]
    <3>1. Open(up[d][n].to)
      BY <1>10, <2>1 DEF Orderly
    <3>. QED  BY <1>1, <2>1, <3>1 DEF Open
  <2>2. CASE Asks(c, up'[d][n])
    <3>1. Open(up'[d][n].to)
      BY <1>10, <2>2 DEF Asks
    <3>. QED  BY <1>1, <3>1 DEF Open
  <2>. QED  BY <1>4, <2>1, <2>2
<1>11. \A d \in Client, t, u \in Tables : At(d, t)' /\ At(d, u)' => t = u
  BY <1>7 DEF Orderly
<1>12. Orderly'
  BY <1>8, <1>9, <1>10, <1>11 DEF Orderly, Open
<1>. QED  BY <1>5, <1>12

\* The game, after a turn that does not ask for another table.
LEMMA TurnPlay ==
  ASSUME TypeInv, Orderly, PlayInv, NEW c \in Client, NEW q, PageTurns(c, q), UpTurns(c),
         Seated(c) => \A u \in Tables : ~SendNewTable(c, u) /\ ~SendJoin(c, u)
  PROVE  PlayInv'
<1>1. /\ table' = table /\ fut' = fut /\ q \in Page
      /\ page' = [page EXCEPT ![c] = q] /\ page \in [Client -> Page]
      /\ \A d \in Client \ {c} : down'[d] = down[d]
      /\ ButtonFits(c, page[c]) => ButtonFits(c, q)
      /\ Blank(page[c], Stream(c)) => Blank(q, Stream(c)')
      /\ Seated(c) => Keeps(page[c], Stream(c), q, Stream(c)')
  BY DEF PageTurns, TypeInv
<1>2. page'[c] = q /\ \A d \in Client \ {c} : page'[d] = page[d]
  BY <1>1
<1>3. \A d \in Client \ {c} : Stream(d)' = Stream(d)
  BY <1>1, <1>2 DEF Stream
<1>4. \A d \in Client : \A n \in DOMAIN up'[d] :
        \/ n \in DOMAIN up[d] /\ up'[d][n] = up[d][n]
        \/ d = c /\ Asks(c, up'[d][n])
  BY UpAfterTurn
<1>5. \A d, t : At(d, t)' <=> At(d, t)
  BY <1>1 DEF At
<1>6. \A d : Seated(d)' <=> Seated(d)
  BY <1>5 DEF Seated
<1>7. Outsiders'
  <2>1. ASSUME NEW d \in Client, ~Seated(d)  PROVE Blank(page'[d], Stream(d)')
    <3>1. Blank(page[d], Stream(d))
      BY <2>1 DEF PlayInv, Outsiders
    <3>. QED  BY <1>1, <1>2, <1>3, <3>1
  <2>2. ASSUME NEW d \in Client, ~Seated(d), NEW n \in DOMAIN up'[d],
               up'[d][n].op \in {"try3", "add3"}
        PROVE  up'[d][n].gstate = -1
    <3>1. Blank(page[d], Stream(d)) /\
            \A k \in DOMAIN up[d] : up[d][k].op \in {"try3", "add3"} => up[d][k].gstate = -1
      BY <2>2 DEF PlayInv, Outsiders
    <3>2. Asks(c, up'[d][n]) /\ d = c => up'[d][n].gstate = page[d].gstate
      BY <2>2 DEF Asks, MadeOn
    <3>. QED  BY <1>4, <2>2, <3>1, <3>2 DEF Blank
  <2>. QED  BY <1>6, <2>1, <2>2 DEF Outsiders
<1>8. ASSUME NEW d \in Client, NEW t \in Tables, At(d, t)
      PROVE  /\ Follows(page[d], Stream(d), table[t])
             /\ Follows(page'[d], Stream(d)', table[t])
             /\ Hears(page'[d], Stream(d)', table[t]) => Hears(page[d], Stream(d), table[t])
             /\ LastBoard(d)' = LastBoard(d)
  <2>1. Follows(page[d], Stream(d), table[t])
    BY <1>8 DEF PlayInv, Players
  <2>2. CASE d # c
    BY <1>2, <1>3, <2>1, <2>2 DEF LastBoard
  <2>3. CASE d = c
    <3>1. Keeps(page[c], Stream(c), q, Stream(c)')
      BY <1>1, <1>8, <2>3 DEF Seated
    <3>2. table[t] \in Opened
      BY <1>8, SeatedIsOpen
    <3>3. /\ Follows(q, Stream(c)', table[t])
          /\ Hears(q, Stream(c)', table[t]) => Hears(page[c], Stream(c), table[t])
          /\ BoardAfter(q, Stream(c)', Len(Stream(c)'))
               = BoardAfter(page[c], Stream(c), Len(Stream(c)))
      BY <2>1, <2>3, <3>1, <3>2 DEF Keeps
    <3>4. LastBoard(c)' = BoardAfter(q, Stream(c)', Len(Stream(c)'))
      BY <1>2 DEF LastBoard
    <3>5. LastBoard(c) = BoardAfter(page[c], Stream(c), Len(Stream(c)))
      BY DEF LastBoard
    <3>. QED  BY <1>2, <2>1, <2>3, <3>3, <3>4, <3>5
  <2>. QED  BY <2>2, <2>3
<1>9. ASSUME NEW d \in Client, NEW t \in Tables, At(d, t), NEW m, d = c, Asks(c, m)
      PROVE  /\ Fits(m, table[t]) /\ HasDeck(d, m, table[t])
             /\ m.op = "try3" /\ m.gstate = table[t].gstate =>
                  Hears(page[d], Stream(d), table[t])
  <2>1. Faithful(Shown(page[c]), table[t])
    BY <1>8, <1>9 DEF Follows
  <2>2. /\ page[c].gstate <= table[t].gstate
        /\ page[c].gstate = table[t].gstate =>
             page[c].board = table[t].active /\ page[c].deck = Cardinality(table[t].deck)
    BY <2>1 DEF Faithful, Shown
  <2>3. MadeOn(page[c], m)
    BY <1>9 DEF Asks
  <2>4. Fits(m, table[t])
    BY <2>2, <2>3 DEF MadeOn, Fits
  <2>5. HasDeck(d, m, table[t])
    BY <1>9, <2>2, <2>3 DEF MadeOn, HasDeck, PlayInv, ButtonsFit
  <2>6. m.op = "try3" /\ m.gstate = table[t].gstate => Hears(page[d], Stream(d), table[t])
    BY <1>9, <2>3 DEF MadeOn, Hears
  <2>. QED  BY <2>4, <2>5, <2>6
<1>10. Players'
  <2>1. ASSUME NEW d \in Client, NEW t \in Tables, At(d, t), NEW n \in DOMAIN up'[d]
        PROVE  Fits(up'[d][n], table[t]) /\ HasDeck(d, up'[d][n], table[t])
    <3>1. CASE n \in DOMAIN up[d] /\ up'[d][n] = up[d][n]
      BY <2>1, <3>1 DEF PlayInv, Players
    <3>2. CASE d = c /\ Asks(c, up'[d][n])
      BY <1>9, <2>1, <3>2
    <3>. QED  BY <1>4, <3>1, <3>2
  <2>. QED  BY <1>1, <1>5, <1>8, <2>1 DEF Players
<1>11. ASSUME NEW d \in Client, NEW t \in Tables, At(d, t), Current(d, t)'
       PROVE  Current(d, t)
  <2>1. CASE Hears(page'[d], Stream(d)', table[t])
    BY <1>8, <1>11, <2>1 DEF Current
  <2>2. CASE \E n \in DOMAIN up'[d] : up'[d][n].op = "try3" /\ up'[d][n].gstate = table[t].gstate
    <3>1. PICK n \in DOMAIN up'[d] : up'[d][n].op = "try3" /\ up'[d][n].gstate = table[t].gstate
      BY <2>2
    <3>2. CASE n \in DOMAIN up[d] /\ up'[d][n] = up[d][n]
      BY <3>1, <3>2 DEF Current
    <3>3. CASE d = c /\ Asks(c, up'[d][n])
      BY <1>9, <1>11, <3>1, <3>3 DEF Current
    <3>. QED  BY <1>4, <3>2, <3>3
  <2>. QED  BY <1>1, <1>11, <2>1, <2>2 DEF Current
<1>12. AllHear'
  <2>1. ASSUME NEW d \in Client, NEW e \in Client, NEW t \in Tables,
               At(d, t), At(e, t), Current(d, t)'
        PROVE  LastBoard(e)' = table[t].active
    <3>1. LastBoard(e) = table[t].active
      BY <1>11, <2>1 DEF PlayInv, AllHear
    <3>. QED  BY <1>8, <2>1, <3>1
  <2>. QED  BY <1>1, <1>5, <2>1 DEF AllHear
<1>13. ButtonsFit'
  <2>1. ASSUME NEW d \in Client \ Newer, "add3" \in page'[d].buttons
        PROVE  page'[d].deck # 0
    <3>1. ButtonFits(d, page[d])
      BY DEF PlayInv, ButtonsFit, ButtonFits
    <3>2. ButtonFits(d, page'[d])
      BY <1>1, <1>2, <3>1
    <3>. QED  BY <2>1, <3>2 DEF ButtonFits
  <2>. QED  BY <2>1 DEF ButtonsFit
<1>. QED  BY <1>7, <1>10, <1>12, <1>13 DEF PlayInv

-----------------------------------------------------------------------------
(* What the server does with the futures.                                  *)

\* The messages for d when f holds the futures.
StreamOf(d, f) == page[d].held \o down[d] \o f[d]

\* pre_send puts one more message after those for its receivers.
LEMMA StreamSent ==
  ASSUME TypeInv, NEW f \in [Client -> Seq(Message)], NEW to, NEW m \in Message, NEW d \in Client
  PROVE  /\ StreamOf(d, f) \in Seq(Message)
         /\ StreamOf(d, PreSend(f, to, m)) =
              IF d \in to THEN Append(StreamOf(d, f), m) ELSE StreamOf(d, f)
<1>1. page[d].held \in Seq(Message) /\ down[d] \in Seq(Message) /\ f[d] \in Seq(Message)
  BY StreamTypes
<1>. DEFINE b == page[d].held \o down[d]
            g == PreSend(f, to, m)
<1>2. b \in Seq(Message)
  BY <1>1, MessagesInARow, Zenon
<1>3. g[d] = IF d \in to THEN Append(f[d], m) ELSE f[d]
  BY PreSendDoes
<1>4. b \o f[d] \in Seq(Message)
  BY <1>1, <1>2, MessagesInARow, Zenon
<1>5. b \o Append(f[d], m) = Append(b \o f[d], m)
  <2>1. <<m>> \in Seq(Message)
    OBVIOUS
  <2>. HIDE DEF b
  <2>2. Append(f[d], m) = f[d] \o <<m>>
    BY <1>1, AppendIsConcat
  <2>3. Append(b \o f[d], m) = (b \o f[d]) \o <<m>>
    BY <1>4, AppendIsConcat
  <2>4. (b \o f[d]) \o <<m>> = b \o (f[d] \o <<m>>)
    <3>1. b \in Seq(Message) /\ f[d] \in Seq(Message) /\ <<m>> \in Seq(Message)
      BY <1>1, <1>2, <2>1
    <3>. QED  BY <3>1, MessagesInARow, Zenon
  <2>. QED  BY <2>2, <2>3, <2>4, Zenon
<1>. HIDE DEF b, g
<1>6. StreamOf(d, f) = b \o f[d] /\ StreamOf(d, g) = b \o g[d]
  BY DEF StreamOf, b
<1>. QED  BY <1>3, <1>4, <1>5, <1>6 DEF g

\* Nothing about the game is said to d.
Chat(d) ==
  Stream(d)' = Stream(d) \/ \E m \in OtherMsg : Stream(d)' = Append(Stream(d), m)

\* What is not about the game leaves all that a page knows of it.
LEMMA ChatKeeps ==
  ASSUME TypeInv, page' = page, NEW d \in Client, Chat(d)
  PROVE  /\ Stream(d)' \in Seq(Message)
         /\ \A T \in TableRec : Follows(page[d], Stream(d), T) => Follows(page[d], Stream(d)', T)
         /\ \A T : Hears(page[d], Stream(d)', T) <=> Hears(page[d], Stream(d), T)
         /\ LastBoard(d)' = LastBoard(d)
         /\ Blank(page[d], Stream(d)) => Blank(page[d], Stream(d)')
<1>. DEFINE s == Stream(d)
            u == Stream(d)'
<1>1. s \in Seq(Message) /\ page[d] \in Page
  BY StreamTypes
<1>2. LastBoard(d) = BoardAfter(page[d], s, Len(s))
  BY DEF LastBoard
<1>3. LastBoard(d)' = BoardAfter(page[d], u, Len(u))
  BY DEF LastBoard
<1>4. CASE u = s
  <2>. HIDE DEF u, s
  <2>1. u \in Seq(Message) /\ LastBoard(d)' = LastBoard(d)
    BY <1>1, <1>2, <1>3, <1>4
  <2>. QED  BY <1>4, <2>1 DEF u, s
<1>5. CASE \E m \in OtherMsg : u = Append(s, m)
  <2>1. PICK m \in OtherMsg : u = Append(s, m)
    BY <1>5
  <2>2. m \in Message
    BY DEF Message
  <2>3. m.cmd # "GSTATE" /\ m.cmd # "SET_FOUND"
    <3>1. m.cmd \in {"NTBL", "JOIN", "error"}
      BY <2>2, MessageKinds
    <3>. QED  BY <3>1
  <2>. HIDE DEF u, s
  <2>4. u \in Seq(Message)
    BY <1>1, <2>1, <2>2, AppendProperties
  <2>5. \A T \in TableRec : Follows(page[d], s, T) => Follows(page[d], u, T)
    BY <1>1, <2>1, <2>2, <2>3, AppendFollows
  <2>6. \A T : Hears(page[d], u, T) <=> Hears(page[d], s, T)
    BY <1>1, <2>1, <2>2, <2>3, AppendHears
  <2>7. BoardAfter(page[d], u, Len(u)) = BoardAfter(page[d], s, Len(s))
    <3>1. BoardAfter(page[d], Append(s, m), Len(Append(s, m))) =
            IF m.cmd = "GSTATE" THEN m.game.active ELSE BoardAfter(page[d], s, Len(s))
      BY <1>1, <2>2, AppendBoards
    <3>. QED  BY <2>1, <2>3, <3>1
  <2>8. Blank(page[d], s) => Blank(page[d], u)
    BY <1>1, <2>1, AppendBlank
  <2>9. LastBoard(d)' = LastBoard(d)
    BY <1>2, <1>3, <2>7
  <2>. QED  BY <2>4, <2>5, <2>6, <2>8, <2>9 DEF u, s
<1>. QED  BY <1>4, <1>5 DEF Chat

\* The page is told the state of its table.
LEMMA Refreshed ==
  ASSUME NEW T \in TableRec, NEW pg \in Page, NEW s \in Seq(Message), Follows(pg, s, T)
  PROVE  LET u == Append(s, GState(T))
         IN  /\ u \in Seq(Message) /\ Follows(pg, u, T)
             /\ BoardAfter(pg, u, Len(u)) = T.active
<1>. DEFINE m == GState(T)
            u == Append(s, m)
<1>1. m \in Message /\ m.cmd = "GSTATE" /\ m.game.active = T.active
  BY GStateTells
<1>2. m = GState(T)
  OBVIOUS
<1>. HIDE DEF m
<1>3. m.cmd # "SET_FOUND"
  BY <1>1
<1>4. Follows(pg, u, T)
  BY <1>1, <1>2, <1>3, AppendFollows
<1>5. u \in Seq(Message)
  BY <1>1, AppendProperties
<1>6. BoardAfter(pg, u, Len(u)) = IF m.cmd = "GSTATE" THEN m.game.active
                                  ELSE BoardAfter(pg, s, Len(s))
  BY <1>1, AppendBoards
<1>7. BoardAfter(pg, u, Len(u)) = T.active
  BY <1>1, <1>6
<1>. QED  BY <1>4, <1>5, <1>7 DEF m

\* Commands stay what they are when the table changes.
LEMMA FitsGrows ==
  ASSUME NEW T \in TableRec, NEW T2 \in TableRec, T2 = T \/ Advances(T, T2),
         NEW c, NEW m \in Command, Fits(m, T), HasDeck(c, m, T)
  PROVE  Fits(m, T2) /\ HasDeck(c, m, T2)
<1>1. CASE T2 = T
  BY <1>1
<1>2. CASE Advances(T, T2)
  <2>1. T.gstate \in Int /\ T2.gstate \in Int
    BY DEF TableRec
  <2>2. m.op \in {"try3", "add3"} => m.gstate \in Int
    BY CommandKinds
  <2>3. m.op \in {"try3", "add3"} => m.gstate <= T.gstate
    BY DEF Fits
  <2>4. T.gstate <= T2.gstate /\ (T.gstate = T2.gstate => SameBoard(T2, T))
    BY <1>2 DEF Advances
  <2>5. m.op \in {"try3", "add3"} =>
          m.gstate <= T2.gstate /\ (m.gstate = T2.gstate => T.gstate = T2.gstate)
    BY <2>1, <2>2, <2>3, <2>4
  <2>. QED  BY <2>4, <2>5 DEF Fits, HasDeck, SameBoard
<1>. QED  BY <1>1, <1>2

\* Commands of pages that know no game fit every table.
LEMMA FitsFresh ==
  ASSUME NEW T \in TableRec, NEW c, NEW m, m.op \in {"try3", "add3"} => m.gstate = -1
  PROVE  Fits(m, T) /\ HasDeck(c, m, T)
<1>1. T.gstate \in Nat
  BY DEF TableRec
<1>. QED  BY <1>1 DEF Fits, HasDeck

\* No board is shown to who knows nothing.
LEMMA BlankBoard ==
  ASSUME NEW pg, NEW s, Blank(pg, s), NEW n
  PROVE  BoardAfter(pg, s, n) = <<>>
<1>1. LastState(s, n) = {}
  BY DEF Blank, LastState
<1>. QED  BY <1>1 DEF BoardAfter, Blank

-----------------------------------------------------------------------------
(* One command taken.                                                      *)

\* The first command is taken, the others stay.
LEMMA Taken ==
  ASSUME TypeInv, NEW c \in Client, NEW ops, Take(c, ops)
  PROVE  /\ Head(up[c]) \in Command /\ Head(up[c]).op \in ops
         /\ 1 \in DOMAIN up[c] /\ Head(up[c]) = up[c][1]
         /\ up' \in [Client -> Seq(Command)] /\ page' = page /\ down' = down
         /\ \A d \in Client : \A n \in DOMAIN up'[d] :
              up'[d][n] \in Command /\ \E k \in DOMAIN up[d] : up'[d][n] = up[d][k]
<1>1. up \in [Client -> Seq(Command)] /\ up[c] \in Seq(Command) /\ up[c] # <<>>
  BY DEF TypeInv, Take
<1>2. up' = [up EXCEPT ![c] = Tail(up[c])] /\ page' = page /\ down' = down /\ Head(up[c]).op \in ops
  BY <1>1 DEF Take
<1>. DEFINE u == up[c]
            w == Tail(u)
<1>3. /\ Head(u) \in Command /\ w \in Seq(Command) /\ Len(w) = Len(u) - 1
      /\ \A i \in 1..Len(w) : w[i] = u[i + 1]
  BY <1>1, HeadTailProperties
<1>4. DOMAIN u = 1..Len(u) /\ Len(u) \in Nat \ {0} /\ DOMAIN w = 1..Len(w)
  BY <1>1, <1>3, LenProperties, EmptySeq
<1>5. Head(u) = u[1] /\ 1 \in DOMAIN u
  BY <1>1, <1>4
<1>. HIDE DEF w, u
<1>6. /\ up' \in [Client -> Seq(Command)] /\ up'[c] = w
      /\ \A d \in Client \ {c} : up'[d] = up[d]
  BY <1>1, <1>2, <1>3 DEF w, u
<1>7. \A n \in DOMAIN w : n + 1 \in DOMAIN u /\ w[n] = u[n + 1]
  BY <1>3, <1>4
<1>8. ASSUME NEW d \in Client, NEW n \in DOMAIN up'[d]
      PROVE  up'[d][n] \in Command /\ \E k \in DOMAIN up[d] : up'[d][n] = up[d][k]
  <2>1. up'[d] \in Seq(Command)
    BY <1>6
  <2>2. up'[d][n] \in Command
    <3>. DEFINE x == up'[d]
    <3>1. x \in Seq(Command) /\ n \in DOMAIN x
      BY <2>1
    <3>. HIDE DEF x
    <3>2. x[n] \in Command
      BY <3>1, LenProperties, ElementOfSeq
    <3>. QED  BY <3>2 DEF x
  <2>3. CASE d = c
    BY <1>6, <1>7, <2>2, <2>3 DEF u
  <2>4. CASE d # c
    BY <1>6, <2>2, <2>4
  <2>. QED  BY <2>3, <2>4
<1>. QED  BY <1>2, <1>3, <1>5, <1>6, <1>8 DEF u

\* Types, after a command is served, from what its handler does.
LEMMA TakenTypes ==
  ASSUME TypeInv, Orderly, NEW c \in Client, NEW ops, Take(c, ops),
         table' \in [Tables -> TableRec], fut' \in [Client -> Seq(Message)], dead' \subseteq Client,
         \A t \in Tables : Counted(table'[t]),
         \A t \in Tables : Open(t) => table'[t].tstate >= 0,
         \A d \in Client, t, u \in Tables :
           d \in DOMAIN table'[t].numbers /\ d \in DOMAIN table'[u].numbers => t = u
  PROVE  TypeInv' /\ Orderly'
<1>1. /\ up' \in [Client -> Seq(Command)] /\ page' = page /\ down' = down
      /\ \A d \in Client : \A n \in DOMAIN up'[d] :
           up'[d][n] \in Command /\ \E k \in DOMAIN up[d] : up'[d][n] = up[d][k]
  BY Taken
<1>2. TypeInv'
  BY <1>1 DEF TypeInv
<1>3. ASSUME NEW d \in Client, NEW n \in DOMAIN up'[d], up'[d][n].op = "join"
      PROVE  table'[up'[d][n].to].tstate >= 0
  <2>1. PICK k \in DOMAIN up[d] : up'[d][n] = up[d][k]
    BY <1>1
  <2>2. Open(up[d][k].to)
    BY <1>3, <2>1 DEF Orderly
  <2>3. up'[d][n].to \in Tables
    BY <1>1, <1>3, CommandKinds
  <2>. QED  BY <2>1, <2>2, <2>3
<1>4. \A d \in Client : Tidy(page'[d])
  BY <1>1 DEF Orderly
<1>5. Orderly'
  BY <1>3, <1>4 DEF Orderly, Open, At
<1>. QED  BY <1>2, <1>5

\* set_player takes c off the other tables.
LEMMA LeaveOthersDoes ==
  ASSUME TypeInv, Orderly, NEW c \in Client, NEW t \in Tables
  PROVE  LET L == LeaveOthers(c, t)
         IN  /\ L \in [Tables -> TableRec] /\ L[t] = table[t]
             /\ \A u \in Tables : /\ Counted(L[u])
                                  /\ Open(u) => L[u].tstate >= 0
                                  /\ DOMAIN L[u].numbers \subseteq DOMAIN table[u].numbers
                                  /\ u # t => c \notin DOMAIN L[u].numbers
                                  /\ L[u].deck = table[u].deck
             /\ (\A u \in Tables : At(c, u) => u = t) => L = table
<1>. DEFINE L == LeaveOthers(c, t)
<1>1. table \in [Tables -> TableRec]
  BY DEF TypeInv
<1>2. \A u \in Tables : L[u] = IF u # t /\ At(c, u) THEN Leave(table[u], c) ELSE table[u]
  BY DEF LeaveOthers
<1>3. DOMAIN L = Tables /\ L = [u \in Tables |-> L[u]]
  BY DEF LeaveOthers
<1>. HIDE DEF L
<1>4. ASSUME NEW u \in Tables
      PROVE  /\ L[u] \in TableRec /\ Counted(L[u])
             /\ Open(u) => L[u].tstate >= 0
             /\ DOMAIN L[u].numbers \subseteq DOMAIN table[u].numbers
             /\ u # t => c \notin DOMAIN L[u].numbers
             /\ L[u].deck = table[u].deck
  <2>1. table[u] \in TableRec /\ Counted(table[u])
    BY <1>1 DEF Orderly
  <2>2. CASE u # t /\ At(c, u)
    <3>1. /\ Leave(table[u], c) \in TableRec /\ SameBoard(Leave(table[u], c), table[u])
          /\ Leave(table[u], c).gstate = table[u].gstate
          /\ Leave(table[u], c).tstate = table[u].tstate + 1
          /\ DOMAIN Leave(table[u], c).numbers = DOMAIN table[u].numbers \ {c}
      BY <2>1, LeaveDoes
    <3>2. table[u].gstate <= table[u].tstate /\ table[u].gstate \in Nat /\ table[u].tstate \in Int
      BY <2>1, <2>2, SeatedIsOpen DEF TableRec
    <3>3. L[u] = Leave(table[u], c)
      BY <1>2, <2>2
    <3>4. Counted(L[u]) /\ L[u].tstate >= 0
      BY <3>1, <3>2, <3>3 DEF Counted
    <3>. QED  BY <3>1, <3>3, <3>4 DEF SameBoard
  <2>3. CASE ~(u # t /\ At(c, u))
    <3>1. L[u] = table[u]
      BY <1>2, <2>3
    <3>. QED  BY <2>1, <2>3, <3>1 DEF Open, At
  <2>. QED  BY <2>2, <2>3
<1>5. L \in [Tables -> TableRec]
  BY <1>3, <1>4
<1>6. (\A u \in Tables : At(c, u) => u = t) => L = table
  <2>1. ASSUME \A u \in Tables : At(c, u) => u = t  PROVE \A u \in Tables : L[u] = table[u]
    BY <1>2, <2>1
  <2>. QED  BY <1>1, <1>5, <2>1
<1>7. L[t] = table[t]
  BY <1>2
<1>. QED  BY <1>4, <1>5, <1>6, <1>7 DEF L

\* Types, after ntbl.
LEMMA NewTableTypes ==
  ASSUME TypeInv, Orderly, NEW c \in Client, ServeNewTable(c)
  PROVE  TypeInv' /\ Orderly'
<1>. DEFINE t == Head(up[c]).to
            L == LeaveOthers(c, t)
<1>1. Take(c, {"ntbl"}) /\ dead' = dead
  BY DEF ServeNewTable
<1>2. t \in Tables
  BY <1>1, Taken, CommandKinds
<1>3. /\ table \in [Tables -> TableRec] /\ fut \in [Client -> Seq(Message)] /\ dead \subseteq Client
      /\ \A u \in Tables : Counted(table[u])
      /\ \A d \in Client, u, v \in Tables : At(d, u) /\ At(d, v) => u = v
  BY DEF TypeInv, Orderly
<1>4. CASE Open(t)
  <2>1. table' = table /\ fut' = PreSend(fut, {c}, Error("NAME_USED"))
    BY <1>4 DEF ServeNewTable
  <2>2. fut' \in [Client -> Seq(Message)]
    <3>1. Error("NAME_USED") \in Message
      BY OtherMessages DEF Codes
    <3>. HIDE DEF t, L
    <3>2. PreSend(fut, {c}, Error("NAME_USED")) \in [Client -> Seq(Message)]
      BY <1>3, <3>1, PreSendDoes
    <3>. QED  BY <2>1, <3>2
  <2>. QED  BY <1>1, <1>3, <2>1, <2>2, TakenTypes DEF Open, At
<1>5. CASE ~Open(t)
  <2>1. table' = [L EXCEPT ![t] = OpenedBy(c)] /\ fut' = PreSend(fut, {c}, [cmd |-> "NTBL"])
    BY <1>5 DEF ServeNewTable, OpenedBy
  <2>2. fut' \in [Client -> Seq(Message)]
    BY <1>3, <2>1, OtherMessages, PreSendDoes
  <2>3. /\ L \in [Tables -> TableRec]
        /\ \A u \in Tables : /\ Counted(L[u])
                             /\ Open(u) => L[u].tstate >= 0
                             /\ DOMAIN L[u].numbers \subseteq DOMAIN table[u].numbers
                             /\ u # t => c \notin DOMAIN L[u].numbers
    BY <1>2, LeaveOthersDoes
  <2>4. /\ OpenedBy(c) \in TableRec /\ DOMAIN OpenedBy(c).numbers = {c}
        /\ OpenedBy(c).tstate = 0 /\ OpenedBy(c).gstate = 0
    BY NewTables
  <2>. HIDE DEF L, t
  <2>5. table' \in [Tables -> TableRec] /\ table'[t] = OpenedBy(c)
        /\ \A u \in Tables \ {t} : table'[u] = L[u]
    BY <1>2, <2>1, <2>3, <2>4
  <2>6. \A u \in Tables : Counted(table'[u])
    BY <2>3, <2>4, <2>5 DEF Counted
  <2>7. \A u \in Tables : Open(u) => table'[u].tstate >= 0
    BY <2>3, <2>4, <2>5
  <2>8. ASSUME NEW d \in Client, NEW u \in Tables, NEW v \in Tables,
               d \in DOMAIN table'[u].numbers, d \in DOMAIN table'[v].numbers
        PROVE  u = v
    <3>1. d = c => u = t /\ v = t
      BY <2>3, <2>5, <2>8
    <3>2. d # c => u # t /\ v # t
      BY <2>4, <2>5, <2>8
    <3>3. d # c => At(d, u) /\ At(d, v)
      BY <2>3, <2>5, <2>8, <3>2 DEF At
    <3>. QED  BY <1>3, <3>1, <3>3
  <2>. QED  BY <1>1, <1>3, <2>2, <2>5, <2>6, <2>7, <2>8, TakenTypes
<1>. QED  BY <1>4, <1>5

\* Types, after join.
LEMMA JoinTypes ==
  ASSUME TypeInv, Orderly, NEW c \in Client, ServeJoin(c)
  PROVE  /\ TypeInv' /\ Orderly'
         /\ LET t == Head(up[c]).to
            IN  t \in Tables /\ Open(t) /\ table'[t] = Seat(table[t], c)
<1>. DEFINE t == Head(up[c]).to
            L == LeaveOthers(c, t)
<1>1. Take(c, {"join"}) /\ dead' = dead
  BY DEF ServeJoin
<1>2. t \in Tables /\ Open(t)
  <2>1. /\ Head(up[c]) \in Command /\ Head(up[c]).op \in {"join"}
        /\ 1 \in DOMAIN up[c] /\ Head(up[c]) = up[c][1]
    BY <1>1, Taken
  <2>. QED  BY <2>1, CommandKinds DEF Orderly
<1>3. /\ table \in [Tables -> TableRec] /\ fut \in [Client -> Seq(Message)] /\ dead \subseteq Client
      /\ \A u \in Tables : Counted(table[u])
      /\ \A d \in Client, u, v \in Tables : At(d, u) /\ At(d, v) => u = v
  BY DEF TypeInv, Orderly
<1>4. /\ L \in [Tables -> TableRec] /\ L[t] = table[t]
      /\ \A u \in Tables : /\ Counted(L[u])
                           /\ Open(u) => L[u].tstate >= 0
                           /\ DOMAIN L[u].numbers \subseteq DOMAIN table[u].numbers
                           /\ u # t => c \notin DOMAIN L[u].numbers
  BY <1>2, LeaveOthersDoes, SMTT(60)
<1>5. /\ table' = [L EXCEPT ![t] = Seat(L[t], c)]
      /\ fut' = Refresh(PreSend(fut, {c}, [cmd |-> "JOIN"]), table'[t])
  BY <1>2, <1>4 DEF ServeJoin
<1>. DEFINE S == Seat(table[t], c)
<1>6. /\ S \in TableRec /\ S.gstate = table[t].gstate /\ S.tstate = table[t].tstate + 1
      /\ DOMAIN S.numbers = DOMAIN table[t].numbers \cup {c}
  BY <1>2, <1>3, SeatDoes
<1>. HIDE DEF S, L, t
<1>7. /\ table' \in [Tables -> TableRec] /\ table'[t] = S
      /\ \A u \in Tables \ {t} : table'[u] = L[u]
  BY <1>2, <1>4, <1>5, <1>6 DEF S
<1>8. fut' \in [Client -> Seq(Message)]
  <2>1. PreSend(fut, {c}, [cmd |-> "JOIN"]) \in [Client -> Seq(Message)]
    BY <1>3, OtherMessages, PreSendDoes
  <2>. DEFINE f == PreSend(fut, {c}, [cmd |-> "JOIN"])
              T2 == table'[t]
              m == GState(T2)
  <2>2. m \in Message
    BY <1>6, <1>7, GStateTells
  <2>3. fut' = PreSend(f, DOMAIN T2.numbers, m)
    BY <1>5 DEF Refresh
  <2>. HIDE DEF f, T2, m
  <2>4. PreSend(f, DOMAIN T2.numbers, m) \in [Client -> Seq(Message)]
    BY <2>1, <2>2, PreSendDoes DEF f
  <2>. QED  BY <2>3, <2>4
<1>9. table[t].tstate >= 0 /\ table[t] \in TableRec /\ table[t] # NoTable
  BY <1>2, <1>3, NewTables DEF Open
<1>10. Counted(S) /\ S.tstate >= 0
  <2>1. table[t].gstate <= table[t].tstate
    BY <1>2, <1>3, <1>9 DEF Counted
  <2>2. table[t].gstate \in Nat /\ table[t].tstate \in Int
    BY <1>9 DEF TableRec
  <2>. QED  BY <1>6, <2>1, <2>2 DEF Counted
<1>11. \A u \in Tables : Counted(table'[u]) /\ (Open(u) => table'[u].tstate >= 0)
  BY <1>4, <1>7, <1>10
<1>12. ASSUME NEW d \in Client, NEW u \in Tables, NEW v \in Tables,
              d \in DOMAIN table'[u].numbers, d \in DOMAIN table'[v].numbers
       PROVE  u = v
  <2>1. d = c => u = t /\ v = t
    BY <1>4, <1>7, <1>12
  <2>2. d # c => At(d, u) /\ At(d, v)
    BY <1>4, <1>6, <1>7, <1>12 DEF At
  <2>. QED  BY <1>3, <2>1, <2>2
<1>13. TypeInv' /\ Orderly'
  BY <1>1, <1>3, <1>7, <1>8, <1>11, <1>12, TakenTypes
<1>. QED  BY <1>2, <1>7, <1>13 DEF t, S

\* What is told after a command of the game, step by step.
ToldError(c, o) == IF o.rc = "OK" THEN fut ELSE PreSend(fut, {c}, Error(o.rc))
ToldFound(c, m, T, o) ==
  IF m.op = "try3" /\ o.rc = "OK"
  THEN PreSend(ToldError(c, o), DOMAIN T.numbers, SetFound(Sorted(m.pos), T.active))
  ELSE ToldError(c, o)
ToldState(c, m, T, o) ==
  IF o.rc = "COLLISION" THEN ToldFound(c, m, T, o) ELSE Refresh(ToldFound(c, m, T, o), o.table)

\* These steps make up Told.
LEMMA ToldIs ==
  ASSUME NEW c, NEW m, NEW T, NEW o
  PROVE  Told(c, m, T, o) =
           IF o.rc = "raised" THEN fut
           ELSE IF m.op = "gnew" THEN PreSend(ToldState(c, m, T, o), {c}, GState(o.table))
           ELSE ToldState(c, m, T, o)
  BY DEF Told, ToldState, ToldFound, ToldError

\* The parts of it are messages.
LEMMA ToldTypes ==
  ASSUME TypeInv, NEW c \in Client, NEW m \in Command, NEW T \in TableRec,
         NEW o, o.table \in TableRec, o.rc \in Codes,
         m.op = "try3" /\ o.rc = "OK" => OnBoard(m.pos) \subseteq DOMAIN T.active
  PROVE  /\ ToldError(c, o) \in [Client -> Seq(Message)]
         /\ ToldFound(c, m, T, o) \in [Client -> Seq(Message)]
         /\ ToldState(c, m, T, o) \in [Client -> Seq(Message)]
         /\ Told(c, m, T, o) \in [Client -> Seq(Message)]
         /\ Error(o.rc) \in Message /\ Error(o.rc) \in OtherMsg /\ Error(o.rc).cmd = "error"
         /\ GState(o.table) \in Message
         /\ m.op = "try3" /\ o.rc = "OK" =>
              LET x == SetFound(Sorted(m.pos), T.active)
              IN  x \in Message /\ x.cmd = "SET_FOUND" /\ LiesOn(T.active, x.found)
<1>1. fut \in [Client -> Seq(Message)]
  BY DEF TypeInv
<1>2. Error(o.rc) \in Message /\ Error(o.rc) \in OtherMsg /\ Error(o.rc).cmd = "error"
  BY OtherMessages
<1>3. GState(o.table) \in Message
  BY GStateTells
<1>. DEFINE x == SetFound(Sorted(m.pos), T.active)
<1>4. m.op = "try3" /\ o.rc = "OK" => x \in Message /\ x.cmd = "SET_FOUND" /\ LiesOn(T.active, x.found)
  <2>1. T.active \in Seq(Deck0) /\ (m.op = "try3" => m.pos \in Triples)
    BY CommandKinds DEF TableRec
  <2>. QED  BY <2>1, SetFoundTells
<1>. HIDE DEF x
<1>5. ToldError(c, o) \in [Client -> Seq(Message)]
  <2>1. PreSend(fut, {c}, Error(o.rc)) \in [Client -> Seq(Message)]
    BY <1>1, <1>2, PreSendDoes
  <2>. QED  BY <1>1, <2>1 DEF ToldError
<1>6. ToldFound(c, m, T, o) \in [Client -> Seq(Message)]
  <2>1. CASE m.op = "try3" /\ o.rc = "OK"
    <3>1. PreSend(ToldError(c, o), DOMAIN T.numbers, x) \in [Client -> Seq(Message)]
      BY <1>4, <1>5, <2>1, PreSendDoes
    <3>. QED  BY <2>1, <3>1 DEF ToldFound, x
  <2>2. CASE ~(m.op = "try3" /\ o.rc = "OK")
    BY <1>5, <2>2 DEF ToldFound
  <2>. QED  BY <2>1, <2>2
<1>7. ToldState(c, m, T, o) \in [Client -> Seq(Message)]
  <2>1. Refresh(ToldFound(c, m, T, o), o.table) \in [Client -> Seq(Message)]
    <3>1. PreSend(ToldFound(c, m, T, o), DOMAIN o.table.numbers, GState(o.table))
            \in [Client -> Seq(Message)]
      BY <1>3, <1>6, PreSendDoes
    <3>. QED  BY <3>1 DEF Refresh
  <2>. QED  BY <1>6, <2>1 DEF ToldState
<1>8. Told(c, m, T, o) \in [Client -> Seq(Message)]
  <2>1. PreSend(ToldState(c, m, T, o), {c}, GState(o.table)) \in [Client -> Seq(Message)]
    BY <1>3, <1>7, PreSendDoes
  <2>. QED  BY <1>1, <1>7, <2>1, ToldIs
<1>. QED  BY <1>2, <1>3, <1>4, <1>5, <1>6, <1>7, <1>8 DEF x

\* Grows is an advance.
LEMMA GrowsAdvances ==
  ASSUME NEW T \in TableRec, NEW T2, Grows(T, T2)
  PROVE  T2 \in TableRec /\ Advances(T, T2) /\ DOMAIN T2.numbers = DOMAIN T.numbers
  BY DEF Grows, Advances, SamePlayers

\* The table at which a command of the game is served.
Serves(c, t, o) ==
  /\ Take(c, {"gnew", "try3", "add3", "nmor"}) /\ At(c, t)
  /\ o \in Outcomes(c, Head(up[c]), table[t])
  /\ table' = [table EXCEPT ![t] = o.table]
  /\ fut' = Told(c, Head(up[c]), table[t], o)
  /\ dead' = IF o.rc = "raised" THEN dead \cup {c} ELSE dead

\* The command served, its table and its outcome.
LEMMA ServesDoes ==
  ASSUME TypeInv, Orderly, NEW c \in Client, NEW t \in Tables, NEW o, Serves(c, t, o)
  PROVE  LET m == Head(up[c])
             T == table[t]
         IN  /\ m \in Command /\ m.op \in {"gnew", "try3", "add3", "nmor"}
             /\ 1 \in DOMAIN up[c] /\ m = up[c][1]
             /\ T \in TableRec /\ T \in Opened /\ c \in DOMAIN T.numbers
             /\ o.table \in TableRec /\ o.rc \in Codes
             /\ \/ o.table = T /\ o.rc \in {"COLLISION", "raised"}
                \/ Grows(T, o.table) /\ o.rc # "COLLISION"
                     /\ (o.rc = "raised" => T.gstate < o.table.gstate)
             /\ m.op = "try3" /\ o.rc = "OK" =>
                  m.gstate = T.gstate /\ OnBoard(m.pos) \subseteq DOMAIN T.active
             /\ m.op = "gnew" => o.rc # "COLLISION"
<1>. DEFINE m == Head(up[c])
            T == table[t]
<1>1. /\ m \in Command /\ m.op \in {"gnew", "try3", "add3", "nmor"}
      /\ 1 \in DOMAIN up[c] /\ m = up[c][1]
  BY Taken DEF Serves
<1>2. T \in TableRec /\ T \in Opened /\ c \in DOMAIN T.numbers
  BY SeatedIsOpen DEF Serves, At
<1>3. o \in Outcomes(c, m, T)
  BY DEF Serves
<1>. HIDE DEF m, T
<1>4. /\ o.rc \in {"OK", "COLLISION", "NOT_A_SET", "FALSE_NONE", "YES_MORE", "raised"}
      /\ \/ o.table = T /\ o.rc \in {"COLLISION", "raised"}
         \/ Grows(T, o.table) /\ o.rc # "COLLISION"
              /\ (o.rc = "raised" => T.gstate < o.table.gstate)
      /\ m.op = "try3" /\ o.rc = "OK" =>
           m.gstate = T.gstate /\ OnBoard(m.pos) \subseteq DOMAIN T.active
      /\ m.op = "gnew" => o.rc # "COLLISION"
  BY <1>1, <1>2, <1>3, OutcomeIs
<1>5. o.table \in TableRec /\ o.rc \in Codes
  BY <1>2, <1>4 DEF Grows, Codes
<1>. QED  BY <1>1, <1>2, <1>4, <1>5 DEF m, T

\* Types, after a command of the game.
LEMMA GameTypes ==
  ASSUME TypeInv, Orderly, NEW c \in Client, NEW t \in Tables, NEW o, Serves(c, t, o)
  PROVE  TypeInv' /\ Orderly'
<1>. DEFINE m == Head(up[c])
            T == table[t]
<1>1. /\ m \in Command /\ T \in TableRec /\ T \in Opened /\ o.table \in TableRec /\ o.rc \in Codes
      /\ o.table = T \/ Grows(T, o.table)
      /\ m.op = "try3" /\ o.rc = "OK" => OnBoard(m.pos) \subseteq DOMAIN T.active
  BY ServesDoes
<1>2. /\ table \in [Tables -> TableRec] /\ dead \subseteq Client
      /\ \A u \in Tables : Counted(table[u])
      /\ \A d \in Client, u, v \in Tables : At(d, u) /\ At(d, v) => u = v
  BY DEF TypeInv, Orderly
<1>3. /\ table' = [table EXCEPT ![t] = o.table] /\ fut' = Told(c, m, T, o)
      /\ dead' \subseteq dead \cup {c} /\ Take(c, {"gnew", "try3", "add3", "nmor"})
  BY DEF Serves
<1>4. T.gstate <= T.tstate
  BY SeatedIsOpen DEF Serves
<1>5. T = table[t]
  OBVIOUS
<1>. HIDE DEF m, T
<1>6. fut' \in [Client -> Seq(Message)]
  BY <1>1, <1>3, ToldTypes
<1>7. /\ table' \in [Tables -> TableRec] /\ table'[t] = o.table
      /\ \A u \in Tables \ {t} : table'[u] = table[u]
  BY <1>1, <1>2, <1>3
<1>8. Counted(o.table) /\ o.table.tstate >= 0 /\ DOMAIN o.table.numbers = DOMAIN T.numbers
  <2>1. CASE o.table = T
    BY <1>1, <1>4, <2>1 DEF Opened, Counted
  <2>2. CASE Grows(T, o.table)
    <3>1. o.table.gstate <= o.table.tstate /\ DOMAIN o.table.numbers = DOMAIN T.numbers
      BY <1>4, <2>2 DEF Grows, SamePlayers
    <3>2. o.table.gstate \in Nat /\ o.table.tstate \in Int
      BY <1>1 DEF TableRec
    <3>. QED  BY <3>1, <3>2 DEF Counted
  <2>. QED  BY <1>1, <2>1, <2>2
<1>9. \A u \in Tables : Counted(table'[u]) /\ (Open(u) => table'[u].tstate >= 0)
  BY <1>2, <1>7, <1>8 DEF Open
<1>10. \A d \in Client, u \in Tables : d \in DOMAIN table'[u].numbers => At(d, u)
  BY <1>5, <1>7, <1>8 DEF At
<1>. QED  BY <1>2, <1>3, <1>6, <1>7, <1>9, <1>10, TakenTypes

\* Types, after produce, which leaves the messages for each client as they are.
LEMMA ProduceDoes ==
  ASSUME TypeInv, Orderly, NEW c \in Client, Produce(c)
  PROVE  /\ TypeInv' /\ Orderly'
         /\ table' = table /\ up' = up /\ page' = page
         /\ \A d \in Client : Stream(d)' = Stream(d)
<1>1. /\ table' = table /\ up' = up /\ page' = page /\ dead' = dead
      /\ down' = [down EXCEPT ![c] = down[c] \o fut[c]]
      /\ fut' = [fut EXCEPT ![c] = <<>>]
  BY DEF Produce, TypeInv
<1>2. /\ fut \in [Client -> Seq(Message)] /\ down \in [Client -> Seq(Message)]
      /\ down[c] \o fut[c] \in Seq(Message)
  BY StreamTypes DEF TypeInv
<1>3. fut' \in [Client -> Seq(Message)] /\ down' \in [Client -> Seq(Message)]
  BY <1>1, <1>2, EmptySeq
<1>4. \A d \in Client \ {c} : fut'[d] = fut[d] /\ down'[d] = down[d]
  BY <1>1, <1>2
<1>5. fut'[c] = <<>> /\ down'[c] = down[c] \o fut[c]
  BY <1>1, <1>2
<1>6. Stream(c)' = Stream(c)
  <2>1. Stream(c)' = (page[c].held \o (down[c] \o fut[c])) \o <<>>
    BY <1>1, <1>5 DEF Stream
  <2>2. Stream(c) = page[c].held \o (down[c] \o fut[c]) /\ Stream(c) \in Seq(Message)
    BY StreamTypes
  <2>3. Stream(c) \o <<>> = Stream(c)
    BY <2>2, ConcatEmptySeq
  <2>. QED  BY <2>1, <2>2, <2>3, Zenon
<1>7. \A d \in Client \ {c} : Stream(d)' = Stream(d)
  BY <1>1, <1>4 DEF Stream
<1>8. TypeInv'
  BY <1>1, <1>3 DEF TypeInv
<1>9. Orderly'
  BY <1>1 DEF Orderly, Open, At
<1>. QED  BY <1>1, <1>6, <1>7, <1>8, <1>9

-----------------------------------------------------------------------------
(* What the server does keeps the invariant.                               *)

\* The invariant of one table.
Sound(t) ==
  \A c \in Client : At(c, t) =>
    /\ Follows(page[c], Stream(c), table[t])
    /\ \A n \in DOMAIN up[c] : Fits(up[c][n], table[t]) /\ HasDeck(c, up[c][n], table[t])

Heard(t) ==
  \A c, d \in Client :
    At(c, t) /\ At(d, t) /\ Current(c, t) => LastBoard(d) = table[t].active

\* The invariant, one table at a time.
LEMMA TableByTable ==
  /\ Players <=> \A t \in Tables : Sound(t)
  /\ AllHear <=> \A t \in Tables : Heard(t)
  BY DEF Players, AllHear, Sound, Heard

\* The commands on their way are some of those that were.
FewerUp ==
  \A d \in Client : \A n \in DOMAIN up'[d] :
    up'[d][n] \in Command /\ \E k \in DOMAIN up[d] : up'[d][n] = up[d][k]

\* A table that stays, and of whose game nothing is said.
LEMMA StillTable ==
  ASSUME TypeInv, NEW t \in Tables, Sound(t), Heard(t), page' = page, FewerUp,
         table'[t] = table[t], \A d \in Client : At(d, t) => Chat(d)
  PROVE  Sound(t)' /\ Heard(t)'
<1>1. table[t] \in TableRec
  BY DEF TypeInv
<1>2. \A d : At(d, t)' <=> At(d, t)
  BY DEF At
<1>3. ASSUME NEW d \in Client, At(d, t)
      PROVE  /\ Follows(page[d], Stream(d)', table[t])
             /\ Hears(page[d], Stream(d)', table[t]) <=> Hears(page[d], Stream(d), table[t])
             /\ LastBoard(d)' = LastBoard(d)
  BY <1>1, <1>3, ChatKeeps DEF Sound
<1>4. ASSUME NEW d \in Client, At(d, t), NEW n \in DOMAIN up'[d]
      PROVE  Fits(up'[d][n], table[t]) /\ HasDeck(d, up'[d][n], table[t])
  BY <1>4 DEF FewerUp, Sound
<1>5. Sound(t)'
  BY <1>2, <1>3, <1>4 DEF Sound
<1>6. ASSUME NEW d \in Client, At(d, t), Current(d, t)'  PROVE Current(d, t)
  <2>1. CASE Hears(page[d], Stream(d)', table[t])
    BY <1>3, <1>6, <2>1 DEF Current
  <2>2. CASE \E n \in DOMAIN up'[d] : up'[d][n].op = "try3" /\ up'[d][n].gstate = table[t].gstate
    BY <2>2 DEF FewerUp, Current
  <2>. QED  BY <1>6, <2>1, <2>2 DEF Current
<1>7. Heard(t)'
  <2>1. ASSUME NEW d \in Client, NEW e \in Client, At(d, t), At(e, t), Current(d, t)'
        PROVE  LastBoard(e)' = table[t].active
    BY <1>3, <1>6, <2>1 DEF Heard
  <2>. QED  BY <1>2, <2>1 DEF Heard
<1>. QED  BY <1>5, <1>7

\* Outsiders to whom nothing is said stay so.
LEMMA StillOutsiders ==
  ASSUME TypeInv, Outsiders, page' = page, FewerUp,
         \A d \in Client : Seated(d) => Seated(d)',
         \A d \in Client : ~Seated(d)' => Chat(d)
  PROVE  Outsiders'
<1>1. ASSUME NEW d \in Client, ~Seated(d)'  PROVE Blank(page[d], Stream(d)')
  BY <1>1, ChatKeeps DEF Outsiders
<1>2. ASSUME NEW d \in Client, ~Seated(d)', NEW n \in DOMAIN up'[d],
             up'[d][n].op \in {"try3", "add3"}
      PROVE  up'[d][n].gstate = -1
  <2>1. PICK k \in DOMAIN up[d] : up'[d][n] = up[d][k]
    BY DEF FewerUp
  <2>2. ~Seated(d)
    BY <1>2
  <2>. QED  BY <1>2, <2>1, <2>2 DEF Outsiders
<1>. QED  BY <1>1, <1>2 DEF Outsiders

\* The commands of who sat at the table, or nowhere, fit what it becomes.
LEMMA FewerFits ==
  ASSUME TypeInv, NEW d \in Client, NEW t \in Tables, NEW T2 \in TableRec, FewerUp,
         \/ At(d, t) /\ Sound(t) /\ (T2 = table[t] \/ Advances(table[t], T2))
         \/ ~Seated(d) /\ Outsiders
  PROVE  \A n \in DOMAIN up'[d] : Fits(up'[d][n], T2) /\ HasDeck(d, up'[d][n], T2)
<1>1. ASSUME NEW n \in DOMAIN up'[d]  PROVE Fits(up'[d][n], T2) /\ HasDeck(d, up'[d][n], T2)
  <2>1. PICK k \in DOMAIN up[d] : up'[d][n] \in Command /\ up'[d][n] = up[d][k]
    BY DEF FewerUp
  <2>2. CASE At(d, t) /\ Sound(t) /\ (T2 = table[t] \/ Advances(table[t], T2))
    <3>1. Fits(up'[d][n], table[t]) /\ HasDeck(d, up'[d][n], table[t])
      BY <2>1, <2>2 DEF Sound
    <3>2. table[t] \in TableRec
      BY DEF TypeInv
    <3>. QED  BY <2>1, <2>2, <3>1, <3>2, FitsGrows
  <2>3. CASE ~Seated(d) /\ Outsiders
    <3>1. up'[d][n].op \in {"try3", "add3"} => up'[d][n].gstate = -1
      BY <2>1, <2>3 DEF Outsiders
    <3>. QED  BY <3>1, FitsFresh
  <2>. QED  BY <2>2, <2>3
<1>. QED  BY <1>1

\* Nobody leaves a table or changes the page otherwise.
LEMMA StillButtons ==
  ASSUME ButtonsFit, page' = page
  PROVE  ButtonsFit'
  BY DEF ButtonsFit

\* client.produce.
LEMMA ProducePlay ==
  ASSUME TypeInv, Orderly, PlayInv, NEW c \in Client, Produce(c)
  PROVE  PlayInv'
<1>1. table' = table /\ up' = up /\ page' = page /\ \A d \in Client : Chat(d)
  BY ProduceDoes DEF Chat
<1>2. FewerUp
  <2>1. up \in [Client -> Seq(Command)]
    BY DEF TypeInv
  <2>2. ASSUME NEW d \in Client, NEW n \in DOMAIN up[d]  PROVE up[d][n] \in Command
    <3>. DEFINE x == up[d]
    <3>1. x \in Seq(Command) /\ n \in DOMAIN x
      BY <2>1
    <3>. HIDE DEF x
    <3>2. x[n] \in Command
      BY <3>1, LenProperties, ElementOfSeq
    <3>. QED  BY <3>2 DEF x
  <2>. QED  BY <1>1, <2>2 DEF FewerUp
<1>3. \A t \in Tables : Sound(t) /\ Heard(t)
  BY TableByTable DEF PlayInv
<1>4. \A t \in Tables : Sound(t)' /\ Heard(t)'
  BY <1>1, <1>2, <1>3, StillTable
<1>5. \A d : Seated(d)' <=> Seated(d)
  BY <1>1 DEF Seated, At
<1>6. Outsiders'
  BY <1>1, <1>2, <1>5, StillOutsiders DEF PlayInv
<1>7. ButtonsFit'
  BY <1>1, StillButtons DEF PlayInv
<1>8. Players' /\ AllHear'
  BY <1>4 DEF Players, AllHear, Sound, Heard
<1>. QED  BY <1>6, <1>7, <1>8 DEF PlayInv

\* Nobody is taken off a table.
AllStay == \A d \in Client, u \in Tables : At(d, u) => At(d, u)'

\* ntbl, of somebody who sits nowhere or asks for a name that is used.
LEMMA NewTablePlay ==
  ASSUME TypeInv, Orderly, PlayInv, NEW c \in Client, ServeNewTable(c), AllStay
  PROVE  PlayInv'
<1>. DEFINE t == Head(up[c]).to
            T2 == OpenedBy(c)
<1>1. Take(c, {"ntbl"})
  BY DEF ServeNewTable
<1>2. page' = page /\ down' = down /\ FewerUp /\ t \in Tables
  BY <1>1, Taken, CommandKinds DEF FewerUp
<1>3. \A u \in Tables : Sound(u) /\ Heard(u)
  BY TableByTable DEF PlayInv
<1>4. \A d \in Client : Seated(d) => Seated(d)'
  BY DEF AllStay, Seated
<1>5. fut \in [Client -> Seq(Message)] /\ table \in [Tables -> TableRec]
  BY DEF TypeInv
<1>6. ASSUME NEW m \in OtherMsg, fut' = PreSend(fut, {c}, m)
      PROVE  \A d \in Client : Chat(d)
  <2>1. ASSUME NEW d \in Client  PROVE Chat(d)
    <3>1. m \in Message
      BY DEF Message
    <3>2. StreamOf(d, PreSend(fut, {c}, m)) =
            IF d \in {c} THEN Append(StreamOf(d, fut), m) ELSE StreamOf(d, fut)
      BY <1>5, <3>1, StreamSent
    <3>3. Stream(d)' = StreamOf(d, fut') /\ Stream(d) = StreamOf(d, fut)
      BY <1>2 DEF Stream, StreamOf
    <3>. QED  BY <1>6, <3>2, <3>3 DEF Chat
  <2>. QED  BY <2>1
<1>7. \A d \in Client : Chat(d)
  <2>1. Error("NAME_USED") \in OtherMsg /\ [cmd |-> "NTBL"] \in OtherMsg
    BY OtherMessages DEF Codes
  <2>2. CASE Open(t)
    <3>1. fut' = PreSend(fut, {c}, Error("NAME_USED"))
      BY <2>2 DEF ServeNewTable
    <3>. QED  BY <1>6, <2>1, <3>1
  <2>3. CASE ~Open(t)
    <3>1. fut' = PreSend(fut, {c}, [cmd |-> "NTBL"])
      BY <2>3 DEF ServeNewTable
    <3>. QED  BY <1>6, <2>1, <3>1
  <2>. QED  BY <2>2, <2>3
<1>8. Outsiders' /\ ButtonsFit'
  BY <1>2, <1>4, <1>7, StillOutsiders, StillButtons DEF PlayInv
<1>9. ASSUME NEW u \in Tables  PROVE Sound(u)' /\ Heard(u)'
  <2>1. CASE table'[u] = table[u]
    BY <1>2, <1>3, <1>7, <2>1, StillTable
  <2>2. CASE table'[u] # table[u]
    <3>1. ~Open(t)
      BY <2>2 DEF ServeNewTable
    <3>2. table' = [LeaveOthers(c, t) EXCEPT ![t] = T2]
      BY <3>1 DEF ServeNewTable, OpenedBy
    <3>3. /\ T2 \in TableRec /\ DOMAIN T2.numbers = {c}
          /\ T2.tstate = 0 /\ T2.gstate = 0 /\ T2.active = <<>>
      BY NewTables
    <3>. DEFINE L == LeaveOthers(c, t)
    <3>4. /\ L \in [Tables -> TableRec]
          /\ \A v \in Tables : v # t => c \notin DOMAIN L[v].numbers
          /\ (\A v \in Tables : At(c, v) => v = t) => L = table
      BY <1>2, LeaveOthersDoes
    <3>. HIDE DEF L, T2
    <3>5. table' = [L EXCEPT ![t] = T2]
      BY <3>2 DEF L
    <3>. HIDE DEF t
    <3>6. table'[t] = T2 /\ \A v \in Tables \ {t} : table'[v] = L[v]
      BY <1>2, <3>4, <3>5
    <3>7. \A v \in Tables : At(c, v) => v = t
      BY <3>4, <3>6 DEF AllStay, At
    <3>8. u = t
      BY <2>2, <3>4, <3>6, <3>7
    <3>9. ~Seated(c)
      <4>1. ~At(c, t)
        BY <1>2, <3>1, SeatedIsOpen
      <4>. QED  BY <3>7, <4>1 DEF Seated
    <3>10. Blank(page[c], Stream(c)')
      BY <1>2, <1>7, <3>9, ChatKeeps DEF PlayInv, Outsiders
    <3>11. Follows(page[c], Stream(c)', T2)
      <4>1. page[c] \in Page /\ Stream(c)' \in Seq(Message)
        BY <1>2, <1>7, StreamTypes, ChatKeeps
      <4>2. T2.tstate >= 0
        BY <3>3
      <4>. QED  BY <3>3, <3>10, <4>1, <4>2, BlankFollows
    <3>12. \A n \in DOMAIN up'[c] : Fits(up'[c][n], T2) /\ HasDeck(c, up'[c][n], T2)
      BY <1>2, <3>3, <3>9, FewerFits DEF PlayInv
    <3>13. LastBoard(c)' = T2.active
      BY <1>2, <3>3, <3>10, BlankBoard DEF LastBoard
    <3>14. \A d : At(d, u)' => d = c
      BY <3>3, <3>6, <3>8 DEF At
    <3>15. table'[u] = T2
      BY <3>6, <3>8
    <3>16. Sound(u)'
      BY <1>2, <3>11, <3>12, <3>14, <3>15 DEF Sound
    <3>17. Heard(u)'
      BY <3>13, <3>14, <3>15 DEF Heard
    <3>. QED  BY <3>16, <3>17
  <2>. QED  BY <2>1, <2>2
<1>10. Players' /\ AllHear'
  BY <1>9 DEF Players, AllHear, Sound, Heard
<1>. QED  BY <1>8, <1>10 DEF PlayInv

\* join, of somebody who sits nowhere or at this table.
LEMMA JoinPlay ==
  ASSUME TypeInv, Orderly, PlayInv, NEW c \in Client, ServeJoin(c), AllStay
  PROVE  PlayInv'
<1>. DEFINE t == Head(up[c]).to
            T == table[t]
            T2 == Seat(T, c)
            L == LeaveOthers(c, t)
            f == PreSend(fut, {c}, [cmd |-> "JOIN"])
<1>1. Take(c, {"join"})
  BY DEF ServeJoin
<1>2. page' = page /\ down' = down /\ FewerUp /\ t \in Tables /\ Open(t) /\ table'[t] = T2
  BY <1>1, Taken, JoinTypes DEF FewerUp
<1>3. \A u \in Tables : Sound(u) /\ Heard(u)
  BY TableByTable DEF PlayInv
<1>4. \A d \in Client : Seated(d) => Seated(d)'
  BY DEF AllStay, Seated
<1>5. /\ fut \in [Client -> Seq(Message)] /\ table \in [Tables -> TableRec] /\ T \in TableRec
  BY <1>2 DEF TypeInv
<1>6. /\ T2 \in TableRec /\ SameBoard(T2, T) /\ T2.gstate = T.gstate /\ T2.tstate = T.tstate + 1
      /\ DOMAIN T2.numbers = DOMAIN T.numbers \cup {c}
  BY <1>5, SeatDoes
<1>7. /\ L \in [Tables -> TableRec]
      /\ \A v \in Tables : v # t => c \notin DOMAIN L[v].numbers
      /\ (\A v \in Tables : At(c, v) => v = t) => L = table
  BY <1>2, LeaveOthersDoes
<1>8. /\ table' = [L EXCEPT ![t] = Seat(L[t], c)] /\ fut' = Refresh(f, table'[t])
  BY DEF ServeJoin
<1>9. T.tstate >= 0 /\ T.tstate \in Int /\ T.gstate \in Int
  BY <1>2, <1>5, SMTT(60) DEF Open, TableRec
<1>10. Advances(T, T2) /\ T2.tstate >= 0
  BY <1>6, <1>9 DEF Advances
<1>T. T = table[t]
  OBVIOUS
<1>. HIDE DEF L, f, T2, T, t
<1>11. \A v \in Tables \ {t} : table'[v] = L[v]
  BY <1>2, <1>7, <1>8
<1>12. \A v \in Tables : At(c, v) => v = t
  BY <1>7, <1>11 DEF AllStay, At
<1>13. \A v \in Tables \ {t} : table'[v] = table[v]
  BY <1>7, <1>11, <1>12
<1>14. f \in [Client -> Seq(Message)]
  <2>1. [cmd |-> "JOIN"] \in Message
    BY OtherMessages
  <2>. QED  BY <1>5, <2>1, PreSendDoes DEF f
<1>15. fut' = PreSend(f, DOMAIN T2.numbers, GState(T2))
  BY <1>2, <1>8 DEF Refresh
<1>16. ASSUME NEW d \in Client
       PROVE  /\ StreamOf(d, f) = IF d = c THEN Append(Stream(d), [cmd |-> "JOIN"]) ELSE Stream(d)
              /\ StreamOf(d, f) \in Seq(Message)
              /\ Stream(d)' = IF d \in DOMAIN T2.numbers THEN Append(StreamOf(d, f), GState(T2))
                              ELSE StreamOf(d, f)
  <2>1. [cmd |-> "JOIN"] \in Message /\ GState(T2) \in Message
    BY <1>6, OtherMessages, GStateTells
  <2>. DEFINE g == GState(T2)
              S == DOMAIN T2.numbers
  <2>5. g \in Message
    BY <2>1
  <2>. HIDE DEF g, S
  <2>2. StreamOf(d, PreSend(fut, {c}, [cmd |-> "JOIN"])) =
          IF d \in {c} THEN Append(StreamOf(d, fut), [cmd |-> "JOIN"]) ELSE StreamOf(d, fut)
    BY <1>5, <2>1, StreamSent
  <2>3. /\ StreamOf(d, f) \in Seq(Message)
        /\ StreamOf(d, PreSend(f, S, g)) =
             IF d \in S THEN Append(StreamOf(d, f), g) ELSE StreamOf(d, f)
    BY <1>14, <2>5, StreamSent
  <2>4. Stream(d)' = StreamOf(d, fut') /\ Stream(d) = StreamOf(d, fut)
    BY <1>2 DEF Stream, StreamOf
  <2>. QED  BY <1>15, <2>2, <2>3, <2>4 DEF f, g, S
<1>17. \A d \in Client : d \notin DOMAIN T2.numbers => Stream(d)' = Stream(d)
  BY <1>6, <1>16
<1>18. Outsiders' /\ ButtonsFit'
  <2>1. \A d \in Client : ~Seated(d)' => d \notin DOMAIN T2.numbers
    BY <1>2 DEF Seated, At
  <2>2. \A d \in Client : ~Seated(d)' => Chat(d)
    BY <1>17, <2>1 DEF Chat
  <2>. QED  BY <1>2, <1>4, <2>2, StillOutsiders, StillButtons DEF PlayInv
<1>19. ASSUME NEW u \in Tables, u # t  PROVE Sound(u)' /\ Heard(u)'
  <2>1. \A d \in Client : At(d, u) => d \notin DOMAIN T2.numbers
    <3>1. \A d \in Client : At(d, u) => ~At(d, t) /\ d # c
      BY <1>2, <1>12, <1>19 DEF Orderly
    <3>. QED  BY <1>6, <1>T, <3>1 DEF At
  <2>2. \A d \in Client : At(d, u) => Chat(d)
    BY <1>17, <2>1 DEF Chat
  <2>. QED  BY <1>2, <1>3, <1>13, <1>19, <2>2, StillTable
<1>20. ASSUME NEW d \in Client, d \in DOMAIN T2.numbers
       PROVE  /\ Follows(page[d], Stream(d)', T2)
              /\ LastBoard(d)' = T2.active
              /\ \A n \in DOMAIN up'[d] : Fits(up'[d][n], T2) /\ HasDeck(d, up'[d][n], T2)
  <2>. DEFINE s == Stream(d)
              s1 == StreamOf(d, f)
  <2>1. page[d] \in Page /\ s \in Seq(Message)
    BY StreamTypes
  <2>2. At(d, t) \/ (d = c /\ ~Seated(d))
    BY <1>2, <1>6, <1>12, <1>20, <1>T DEF At, Seated
  <2>3. s1 \in Seq(Message) /\ (s1 = s \/ s1 = Append(s, [cmd |-> "JOIN"]))
    BY <1>16
  <2>4. Stream(d)' = Append(s1, GState(T2))
    BY <1>16, <1>20
  <2>. HIDE DEF s, s1
  <2>5. [cmd |-> "JOIN"] \in OtherMsg /\ [cmd |-> "JOIN"] \in Message
    BY OtherMessages
  <2>6. Follows(page[d], s, T2)
    <3>1. CASE At(d, t)
      <4>1. Follows(page[d], s, T)
        BY <1>2, <1>3, <1>T, <3>1 DEF Sound, s
      <4>. QED  BY <1>5, <1>6, <1>10, <2>1, <4>1, FollowsGrows
    <3>2. CASE d = c /\ ~Seated(d)
      <4>1. Blank(page[d], s)
        BY <3>2 DEF PlayInv, Outsiders, s
      <4>. QED  BY <1>6, <1>10, <2>1, <4>1, BlankFollows
    <3>. QED  BY <2>2, <3>1, <3>2
  <2>7. Follows(page[d], s1, T2)
    <3>1. Follows(page[d], Append(s, [cmd |-> "JOIN"]), T2)
      <4>. DEFINE m == [cmd |-> "JOIN"]
      <4>1. m.cmd # "GSTATE" /\ m.cmd # "SET_FOUND" /\ m \in Message
        BY <2>5
      <4>. HIDE DEF m
      <4>2. Follows(page[d], Append(s, m), T2)
        BY <1>6, <2>1, <2>6, <4>1, AppendFollows
      <4>. QED  BY <4>2 DEF m
    <3>. QED  BY <2>3, <2>6, <3>1
  <2>8. /\ Follows(page[d], Append(s1, GState(T2)), T2)
        /\ BoardAfter(page[d], Append(s1, GState(T2)), Len(Append(s1, GState(T2)))) = T2.active
    BY <1>6, <2>1, <2>3, <2>7, Refreshed
  <2>9. LastBoard(d)' = T2.active
    BY <1>2, <2>4, <2>8 DEF LastBoard
  <2>10. \A n \in DOMAIN up'[d] : Fits(up'[d][n], T2) /\ HasDeck(d, up'[d][n], T2)
    BY <1>2, <1>3, <1>6, <1>10, <1>T, <2>2, FewerFits DEF PlayInv
  <2>. QED  BY <2>4, <2>8, <2>9, <2>10
<1>21. ASSUME NEW u \in Tables, u = t  PROVE Sound(u)' /\ Heard(u)'
  <2>1. table'[u] = T2
    BY <1>2, <1>21
  <2>2. \A d : At(d, u)' <=> d \in DOMAIN T2.numbers
    BY <2>1 DEF At
  <2>. QED  BY <1>2, <1>20, <2>1, <2>2 DEF Sound, Heard
<1>22. Players' /\ AllHear'
  <2>1. \A u \in Tables : Sound(u)' /\ Heard(u)'
    BY <1>19, <1>21
  <2>. QED  BY <2>1 DEF Players, AllHear, Sound, Heard
<1>. QED  BY <1>18, <1>22 DEF PlayInv

\* The messages for d grow by what is told, step by step.
LEMMA ToldSteps ==
  ASSUME TypeInv, Orderly, NEW c \in Client, NEW t \in Tables, NEW o, Serves(c, t, o),
         NEW d \in Client
  PROVE  LET m == Head(up[c])
             T == table[t]
             s0 == Stream(d)
             s1 == StreamOf(d, ToldError(c, o))
             s2 == StreamOf(d, ToldFound(c, m, T, o))
             s3 == StreamOf(d, ToldState(c, m, T, o))
         IN  /\ s0 \in Seq(Message) /\ s1 \in Seq(Message)
             /\ s2 \in Seq(Message) /\ s3 \in Seq(Message)
             /\ s1 = IF o.rc # "OK" /\ d = c THEN Append(s0, Error(o.rc)) ELSE s0
             /\ s2 = IF m.op = "try3" /\ o.rc = "OK" /\ At(d, t)
                     THEN Append(s1, SetFound(Sorted(m.pos), T.active)) ELSE s1
             /\ s3 = IF o.rc # "COLLISION" /\ At(d, t) THEN Append(s2, GState(o.table)) ELSE s2
             /\ Stream(d)' = IF o.rc = "raised" THEN s0
                             ELSE IF m.op = "gnew" /\ d = c THEN Append(s3, GState(o.table))
                             ELSE s3
<1>. DEFINE m == Head(up[c])
            T == table[t]
            T2 == o.table
            f1 == ToldError(c, o)
            f2 == ToldFound(c, m, T, o)
            f3 == ToldState(c, m, T, o)
            e == Error(o.rc)
            x == SetFound(Sorted(m.pos), T.active)
            g == GState(T2)
<1>1. /\ m \in Command /\ T \in TableRec /\ T2 \in TableRec /\ o.rc \in Codes
      /\ T2 = T \/ Grows(T, T2)
      /\ m.op = "try3" /\ o.rc = "OK" => OnBoard(m.pos) \subseteq DOMAIN T.active
  BY ServesDoes
<1>2. DOMAIN T2.numbers = DOMAIN T.numbers
  BY <1>1, GrowsAdvances
<1>3. fut' = Told(c, m, T, o) /\ page' = page /\ down' = down
  BY Taken DEF Serves
<1>4. fut \in [Client -> Seq(Message)]
  BY DEF TypeInv
<1>5. At(d, t) <=> d \in DOMAIN T.numbers
  BY DEF At
<1>. HIDE DEF m, T, T2
<1>6. /\ f1 \in [Client -> Seq(Message)] /\ f2 \in [Client -> Seq(Message)]
      /\ f3 \in [Client -> Seq(Message)]
      /\ e \in Message /\ g \in Message /\ (m.op = "try3" /\ o.rc = "OK" => x \in Message)
  BY <1>1, ToldTypes DEF T2
<1>7. /\ f1 = IF o.rc = "OK" THEN fut ELSE PreSend(fut, {c}, e)
      /\ f2 = IF m.op = "try3" /\ o.rc = "OK" THEN PreSend(f1, DOMAIN T.numbers, x) ELSE f1
      /\ f3 = IF o.rc = "COLLISION" THEN f2 ELSE PreSend(f2, DOMAIN T.numbers, g)
  BY <1>2 DEF ToldError, ToldFound, ToldState, Refresh, T2
<1>8. fut' = IF o.rc = "raised" THEN fut
             ELSE IF m.op = "gnew" THEN PreSend(f3, {c}, g) ELSE f3
  BY <1>3, ToldIs DEF T2
<1>9. Stream(d)' = StreamOf(d, fut') /\ Stream(d) = StreamOf(d, fut)
  BY <1>3 DEF Stream, StreamOf
<1>. HIDE DEF f1, f2, f3, e, x, g
<1>. DEFINE S == DOMAIN T.numbers
<1>. HIDE DEF S
<1>S. \A f \in [Client -> Seq(Message)] : \A to : \A y \in Message :
        StreamOf(d, PreSend(f, to, y)) =
          IF d \in to THEN Append(StreamOf(d, f), y) ELSE StreamOf(d, f)
  BY StreamSent
<1>10. StreamOf(d, f1) = IF o.rc # "OK" /\ d = c THEN Append(Stream(d), e) ELSE Stream(d)
  <2>1. StreamOf(d, PreSend(fut, {c}, e)) =
          IF d \in {c} THEN Append(StreamOf(d, fut), e) ELSE StreamOf(d, fut)
    BY <1>4, <1>6, <1>S
  <2>. QED  BY <1>7, <1>9, <2>1
<1>11. StreamOf(d, f2) = IF m.op = "try3" /\ o.rc = "OK" /\ d \in S
                         THEN Append(StreamOf(d, f1), x) ELSE StreamOf(d, f1)
  <2>1. CASE m.op = "try3" /\ o.rc = "OK"
    <3>1. StreamOf(d, PreSend(f1, S, x)) =
            IF d \in S THEN Append(StreamOf(d, f1), x) ELSE StreamOf(d, f1)
      BY <1>6, <2>1, <1>S
    <3>2. f2 = PreSend(f1, S, x)
      BY <1>7, <2>1 DEF S
    <3>. QED  BY <2>1, <3>1, <3>2
  <2>2. CASE ~(m.op = "try3" /\ o.rc = "OK")
    <3>1. f2 = f1
      BY <1>7, <2>2
    <3>. QED  BY <2>2, <3>1
  <2>. QED  BY <2>1, <2>2
<1>12. StreamOf(d, f3) = IF o.rc # "COLLISION" /\ d \in S
                         THEN Append(StreamOf(d, f2), g) ELSE StreamOf(d, f2)
  <2>1. StreamOf(d, PreSend(f2, S, g)) =
          IF d \in S THEN Append(StreamOf(d, f2), g) ELSE StreamOf(d, f2)
    BY <1>6, <1>S
  <2>2. f3 = IF o.rc = "COLLISION" THEN f2 ELSE PreSend(f2, S, g)
    BY <1>7 DEF S
  <2>. QED  BY <2>1, <2>2
<1>13. Stream(d)' = IF o.rc = "raised" THEN Stream(d)
                    ELSE IF m.op = "gnew" /\ d = c THEN Append(StreamOf(d, f3), g)
                    ELSE StreamOf(d, f3)
  <2>1. StreamOf(d, PreSend(f3, {c}, g)) =
          IF d \in {c} THEN Append(StreamOf(d, f3), g) ELSE StreamOf(d, f3)
    BY <1>6, <1>S
  <2>. QED  BY <1>8, <1>9, <2>1
<1>14. /\ StreamOf(d, fut) \in Seq(Message) /\ StreamOf(d, f1) \in Seq(Message)
       /\ StreamOf(d, f2) \in Seq(Message) /\ StreamOf(d, f3) \in Seq(Message)
  BY <1>4, <1>6, StreamSent
<1>15. At(d, t) <=> d \in S
  BY <1>5 DEF S
<1>. QED
  BY <1>9, <1>10, <1>11, <1>12, <1>13, <1>14, <1>15 DEF m, T, T2, f1, f2, f3, e, x, g

\* Who sits at another table is told nothing, and nobody is told of a command
\* that came too late or ended its handler.
LEMMA ToldNothing ==
  ASSUME TypeInv, Orderly, NEW c \in Client, NEW t \in Tables, NEW o, Serves(c, t, o),
         NEW d \in Client, ~At(d, t) \/ o.rc \in {"COLLISION", "raised"}
  PROVE  Chat(d)
<1>. DEFINE m == Head(up[c])
            s1 == StreamOf(d, ToldError(c, o))
            s2 == StreamOf(d, ToldFound(c, m, table[t], o))
            s3 == StreamOf(d, ToldState(c, m, table[t], o))
            x == SetFound(Sorted(m.pos), table[t].active)
<1>1. At(c, t) /\ (m.op = "gnew" => o.rc # "COLLISION") /\ o.rc \in Codes
  BY ServesDoes DEF Serves
<1>2. /\ s1 = IF o.rc # "OK" /\ d = c THEN Append(Stream(d), Error(o.rc)) ELSE Stream(d)
      /\ s2 = IF m.op = "try3" /\ o.rc = "OK" /\ At(d, t) THEN Append(s1, x) ELSE s1
      /\ s3 = IF o.rc # "COLLISION" /\ At(d, t) THEN Append(s2, GState(o.table)) ELSE s2
      /\ Stream(d)' = IF o.rc = "raised" THEN Stream(d)
                      ELSE IF m.op = "gnew" /\ d = c THEN Append(s3, GState(o.table))
                      ELSE s3
  BY ToldSteps
<1>. HIDE DEF m, s1, s2, s3, x
<1>3. CASE ~At(d, t)
  <2>1. d # c
    BY <1>1, <1>3
  <2>2. Stream(d)' = Stream(d)
    BY <1>2, <1>3, <2>1
  <2>. QED  BY <2>2 DEF Chat
<1>4. CASE o.rc = "COLLISION"
  <2>1. Stream(d)' = s1
    BY <1>1, <1>2, <1>4
  <2>2. Error(o.rc) \in OtherMsg
    BY <1>1, OtherMessages
  <2>. QED  BY <1>2, <2>1, <2>2 DEF Chat
<1>5. CASE o.rc = "raised"
  BY <1>2, <1>5 DEF Chat
<1>. QED  BY <1>3, <1>4, <1>5

\* Who sits at the table is told of the found set on its board, and then of the
\* table as it is now.
LEMMA ToldFollows ==
  ASSUME TypeInv, Orderly, NEW c \in Client, NEW t \in Tables, NEW o, Serves(c, t, o),
         Sound(t), Heard(t), o.rc \notin {"COLLISION", "raised"},
         NEW d \in Client, At(d, t)
  PROVE  Follows(page[d], Stream(d)', o.table) /\ LastBoard(d)' = o.table.active
<1>. DEFINE m == Head(up[c])
            T == table[t]
            T2 == o.table
            pg == page[d]
            s0 == Stream(d)
            s1 == StreamOf(d, ToldError(c, o))
            s2 == StreamOf(d, ToldFound(c, m, T, o))
            s3 == StreamOf(d, ToldState(c, m, T, o))
            x == SetFound(Sorted(m.pos), T.active)
            e == Error(o.rc)
            g == GState(T2)
<1>1. /\ m \in Command /\ T \in TableRec /\ T2 \in TableRec /\ o.rc \in Codes
      /\ Grows(T, T2) /\ 1 \in DOMAIN up[c] /\ m = up[c][1]
      /\ m.op = "try3" /\ o.rc = "OK" =>
           m.gstate = T.gstate /\ OnBoard(m.pos) \subseteq DOMAIN T.active
  BY ServesDoes
<1>2. /\ s0 \in Seq(Message) /\ s1 \in Seq(Message) /\ s2 \in Seq(Message) /\ s3 \in Seq(Message)
      /\ s1 = IF o.rc # "OK" /\ d = c THEN Append(s0, e) ELSE s0
      /\ s2 = IF m.op = "try3" /\ o.rc = "OK" /\ At(d, t) THEN Append(s1, x) ELSE s1
      /\ s3 = IF o.rc # "COLLISION" /\ At(d, t) THEN Append(s2, g) ELSE s2
      /\ Stream(d)' = IF o.rc = "raised" THEN s0
                      ELSE IF m.op = "gnew" /\ d = c THEN Append(s3, g) ELSE s3
  BY ToldSteps
<1>3. pg \in Page /\ page' = page
  BY StreamTypes, Taken DEF Serves
<1>4. Follows(pg, s0, T)
  BY DEF Sound
<1>5. m.op = "try3" /\ o.rc = "OK" => BoardAfter(pg, s0, Len(s0)) = T.active
  <2>1. ASSUME m.op = "try3", o.rc = "OK"  PROVE Current(c, t)
    BY <1>1, <2>1 DEF Current
  <2>2. At(c, t)
    BY DEF Serves
  <2>. QED  BY <2>1, <2>2 DEF Heard, LastBoard
<1>6. LastBoard(d)' = BoardAfter(pg, Stream(d)', Len(Stream(d)'))
  BY <1>3 DEF LastBoard
<1>. HIDE DEF m, T, T2
<1>7. /\ e \in Message /\ e.cmd = "error" /\ g = GState(T2)
      /\ m.op = "try3" /\ o.rc = "OK" =>
           x \in Message /\ x.cmd = "SET_FOUND" /\ LiesOn(T.active, x.found)
  BY <1>1, ToldTypes, SMTT(60) DEF T2
<1>. HIDE DEF pg, s0, s1, s2, s3, x, e, g
<1>8. Follows(pg, s1, T)
  <2>1. Follows(pg, Append(s0, e), T)
    <3>1. e.cmd # "GSTATE" /\ e.cmd # "SET_FOUND"
      BY <1>7
    <3>. QED  BY <1>1, <1>2, <1>3, <1>4, <1>7, <3>1, AppendFollows
  <2>. QED  BY <1>2, <1>4, <2>1
<1>9. Follows(pg, s2, T)
  <2>1. CASE m.op = "try3" /\ o.rc = "OK"
    <3>1. s1 = s0 /\ s2 = Append(s1, x)
      BY <1>2, <2>1
    <3>2. x \in Message /\ x.cmd # "GSTATE" /\ LiesOn(BoardAfter(pg, s1, Len(s1)), x.found)
      BY <1>5, <1>7, <2>1, <3>1
    <3>3. Follows(pg, Append(s1, x), T)
      BY <1>1, <1>2, <1>3, <1>8, <3>2, AppendFollows
    <3>. QED  BY <3>1, <3>3
  <2>2. CASE ~(m.op = "try3" /\ o.rc = "OK")
    BY <1>2, <1>8, <2>2
  <2>. QED  BY <2>1, <2>2
<1>10. Follows(pg, s2, T2)
  BY <1>1, <1>2, <1>3, <1>9, GrowsAdvances, FollowsGrows
<1>11. s3 = Append(s2, g)
  BY <1>2
<1>. DEFINE w == Append(s3, g)
<1>R. ASSUME NEW s \in Seq(Message), Follows(pg, s, T2)
      PROVE  LET u == Append(s, g)
             IN  Follows(pg, u, T2) /\ BoardAfter(pg, u, Len(u)) = T2.active
  <2>1. pg \in Page /\ T2 \in TableRec
    BY <1>1, <1>3
  <2>. QED  BY <1>7, <1>R, <2>1, Refreshed
<1>12. Follows(pg, s3, T2) /\ BoardAfter(pg, s3, Len(s3)) = T2.active
  BY <1>2, <1>10, <1>11, <1>R
<1>13. Follows(pg, w, T2) /\ BoardAfter(pg, w, Len(w)) = T2.active
  BY <1>2, <1>12, <1>R
<1>14. Stream(d)' = s3 \/ Stream(d)' = w
  BY <1>2
<1>. HIDE DEF w
<1>. QED  BY <1>6, <1>12, <1>13, <1>14 DEF pg, T2

\* A command of the game: its table changes for all who sit there, or its
\* handler ends and the game is one that nobody has heard of.
LEMMA GamePlay ==
  ASSUME TypeInv, Orderly, PlayInv, NEW c \in Client, NEW t \in Tables, NEW o, Serves(c, t, o)
  PROVE  PlayInv'
<1>. DEFINE T == table[t]
            T2 == o.table
<1>1. /\ T \in TableRec /\ T2 \in TableRec
      /\ \/ T2 = T /\ o.rc \in {"COLLISION", "raised"}
         \/ Grows(T, T2) /\ o.rc # "COLLISION" /\ (o.rc = "raised" => T.gstate < T2.gstate)
  BY ServesDoes
<1>2. page' = page /\ FewerUp
  BY Taken DEF Serves, FewerUp
<1>3. /\ table \in [Tables -> TableRec] /\ table' = [table EXCEPT ![t] = T2]
  BY DEF TypeInv, Serves
<1>4. DOMAIN T2.numbers = DOMAIN T.numbers /\ (Grows(T, T2) => Advances(T, T2))
  BY <1>1, GrowsAdvances
<1>5. table'[t] = T2 /\ \A u \in Tables \ {t} : table'[u] = table[u]
  BY <1>1, <1>3
<1>6. \A d \in Client, u \in Tables : At(d, u)' <=> At(d, u)
  <2>1. ASSUME NEW u \in Tables  PROVE DOMAIN table'[u].numbers = DOMAIN table[u].numbers
    BY <1>4, <1>5
  <2>. QED  BY <2>1 DEF At
<1>7. \A u \in Tables : Sound(u) /\ Heard(u)
  BY TableByTable DEF PlayInv
<1>8. \A d \in Client : Seated(d)' <=> Seated(d)
  BY <1>6 DEF Seated
<1>9. \A d \in Client : ~At(d, t) \/ o.rc \in {"COLLISION", "raised"} => Chat(d)
  BY ToldNothing
<1>10. Outsiders' /\ ButtonsFit'
  <2>1. \A d \in Client : ~Seated(d)' => Chat(d)
    BY <1>8, <1>9 DEF Seated
  <2>. QED  BY <1>2, <1>8, <2>1, StillOutsiders, StillButtons DEF PlayInv
<1>11. ASSUME NEW u \in Tables, u # t  PROVE Sound(u)' /\ Heard(u)'
  <2>1. \A d \in Client : At(d, u) => Chat(d)
    BY <1>9, <1>11 DEF Orderly
  <2>. QED  BY <1>2, <1>5, <1>7, <1>11, <2>1, StillTable
<1>12. CASE T2 = T
  <2>1. \A d \in Client : Chat(d) \/ ~(o.rc \in {"COLLISION", "raised"})
    BY <1>9
  <2>. QED
    <3>1. CASE o.rc \in {"COLLISION", "raised"}
      <4>1. ASSUME NEW u \in Tables  PROVE Sound(u)' /\ Heard(u)'
        BY <1>2, <1>5, <1>7, <1>12, <2>1, <3>1, StillTable
      <4>. QED  BY <1>10, <4>1, TableByTable, Zenon DEF PlayInv, Players, AllHear, Sound, Heard
    <3>2. CASE o.rc \notin {"COLLISION", "raised"}
      <4>1. T.tstate < T2.tstate /\ T.tstate \in Int
        BY <1>1, <3>2 DEF Grows, TableRec
      <4>. QED  BY <1>12, <4>1
    <3>. QED  BY <3>1, <3>2
<1>13. CASE Grows(T, T2)
  <2>1. Advances(T, T2)
    BY <1>4, <1>13
  <2>2. ASSUME NEW d \in Client, At(d, t)
        PROVE  \A n \in DOMAIN up'[d] : Fits(up'[d][n], T2) /\ HasDeck(d, up'[d][n], T2)
    BY <1>1, <1>2, <1>7, <2>1, <2>2, FewerFits
  <2>. HIDE DEF T, T2
  <2>. DEFINE Better(d) == Follows(page[d], Stream(d)', T2)
  <2>3. ASSUME NEW u \in Tables, u = t, \A d \in Client : At(d, u) => Better(d)
        PROVE  Sound(u)'
    BY <1>2, <1>5, <1>6, <2>2, <2>3 DEF Sound
  <2>4. CASE o.rc # "raised"
    <3>1. o.rc \notin {"COLLISION", "raised"}
      BY <1>1, <1>13, <2>1, <2>4 DEF Advances, TableRec
    <3>2. ASSUME NEW d \in Client, At(d, t)
          PROVE  Better(d) /\ LastBoard(d)' = T2.active
      BY <1>7, <3>1, <3>2, ToldFollows DEF T2
    <3>3. ASSUME NEW u \in Tables, u = t  PROVE Sound(u)' /\ Heard(u)'
      <4>1. table'[u] = T2 /\ \A d \in Client : At(d, u)' <=> At(d, t)
        BY <1>5, <1>6, <3>3
      <4>2. Heard(u)'
        BY <3>2, <4>1 DEF Heard
      <4>3. Sound(u)'
        BY <2>3, <3>2, <3>3
      <4>. QED  BY <4>2, <4>3
    <3>4. \A u \in Tables : Sound(u)' /\ Heard(u)'
      BY <1>11, <3>3
    <3>. QED  BY <1>10, <3>4 DEF PlayInv, Players, AllHear, Sound, Heard
  <2>5. CASE o.rc = "raised"
    <3>1. T.gstate < T2.gstate /\ T.gstate \in Int /\ T2.gstate \in Int
      <4>1. T.gstate < T2.gstate
        BY <1>1, <1>13, <2>1, <2>5 DEF Advances, TableRec
      <4>. QED  BY <1>1, <4>1 DEF TableRec
    <3>2. ASSUME NEW d \in Client, At(d, t)
          PROVE  Follows(page[d], Stream(d)', T) /\ Stream(d)' \in Seq(Message)
      <4>1. Follows(page[d], Stream(d), T)
        BY <1>7, <3>2 DEF Sound, T
      <4>. QED  BY <1>1, <1>2, <1>9, <2>5, <4>1, ChatKeeps
    <3>3. ASSUME NEW d \in Client, At(d, t)  PROVE Better(d)
      <4>1. page[d] \in Page
        BY StreamTypes
      <4>. QED  BY <1>1, <2>1, <3>2, <3>3, <4>1, FollowsGrows
    <3>4. ASSUME NEW d \in Client, At(d, t)  PROVE ~Hears(page[d], Stream(d)', T2)
      <4>. DEFINE s == Stream(d)'
                  pg == page[d]
      <4>1. /\ pg \in Page /\ s \in Seq(Message) /\ Follows(pg, s, T)
        BY <3>2, <3>4, StreamTypes
      <4>. HIDE DEF s, pg
      <4>2. pg.gstate <= T.gstate /\ pg.gstate \in Int
        BY <4>1, PageTypes DEF Follows, Faithful, Shown
      <4>3. \A n \in States(s) : s[n].game.gstate <= T.gstate /\ s[n].game.gstate \in Int
        BY <4>1, StateGames DEF Follows, Faithful, ShowsState
      <4>. QED  BY <3>1, <4>2, <4>3 DEF Hears, s, pg
    <3>5. ASSUME NEW d \in Client, At(d, t), NEW n \in DOMAIN up'[d], up'[d][n].op = "try3"
          PROVE  up'[d][n].gstate # T2.gstate
      <4>1. PICK k \in DOMAIN up[d] : up'[d][n] = up[d][k] /\ up'[d][n] \in Command
        BY <1>2 DEF FewerUp
      <4>2. up'[d][n].gstate <= T.gstate
        BY <1>7, <3>5, <4>1 DEF Sound, Fits, T
      <4>3. up'[d][n].gstate \in Int
        BY <3>5, <4>1, CommandKinds
      <4>. QED  BY <3>1, <4>2, <4>3
    <3>6. ASSUME NEW u \in Tables, u = t  PROVE Sound(u)' /\ Heard(u)'
      <4>1. table'[u] = T2 /\ \A d \in Client : At(d, u)' <=> At(d, t)
        BY <1>5, <1>6, <3>6
      <4>2. ASSUME NEW d \in Client, At(d, t)  PROVE ~Current(d, u)'
        BY <1>2, <3>4, <3>5, <4>1, <4>2 DEF Current
      <4>3. Heard(u)'
        BY <4>1, <4>2 DEF Heard
      <4>4. Sound(u)'
        BY <2>3, <3>3, <3>6
      <4>. QED  BY <4>3, <4>4
    <3>7. \A u \in Tables : Sound(u)' /\ Heard(u)'
      BY <1>11, <3>6
    <3>. QED  BY <1>10, <3>7 DEF PlayInv, Players, AllHear, Sound, Heard
  <2>. QED  BY <2>4, <2>5
<1>. QED  BY <1>1, <1>12, <1>13

-----------------------------------------------------------------------------
(* The first state.                                                        *)

\* A page that nothing was said to.
LEMMA NewPages == NewPage \in Page /\ Tidy(NewPage)
<1>1. /\ <<>> \in Seq(Deck0) /\ <<>> \in Seq(Message) /\ <<>> \in Picks
  BY EmptySeq DEF Picks, IsInjective
<1>2. <<>> \in Roster
  BY NewTables DEF NoTable, OpenTable, TableRec
<1>. QED  BY <1>1, <1>2 DEF NewPage, Page, Tidy

\* The invariants hold at first.
LEMMA InitInv ==
  ASSUME Init
  PROVE  TypeInv /\ Orderly /\ PlayInv
<1>1. /\ NoTable \in TableRec /\ DOMAIN NoTable.numbers = {}
      /\ \A t \in Tables : table[t] = NoTable
      /\ \A c \in Client : up[c] = <<>> /\ fut[c] = <<>> /\ down[c] = <<>> /\ page[c] = NewPage
  BY NewTables DEF Init
<1>2. \A c \in Client, t \in Tables : ~At(c, t)
  BY <1>1 DEF At
<1>3. TypeInv
  BY <1>1, NewPages, EmptySeq DEF Init, TypeInv
<1>4. Orderly
  BY <1>1, <1>2, NewPages, EmptySeq DEF Orderly, Counted
<1>5. ASSUME NEW c \in Client  PROVE Blank(page[c], Stream(c))
  <2>1. Stream(c) = <<>>
    BY <1>1 DEF Stream, NewPage
  <2>2. States(<<>>) = {} /\ Founds(<<>>) = {}
    BY DEF States, Founds
  <2>. QED  BY <1>1, <2>1, <2>2 DEF Blank, NewPage
<1>6. Outsiders
  BY <1>1, <1>5 DEF Outsiders
<1>7. ButtonsFit
  BY <1>1 DEF ButtonsFit, NewPage
<1>. QED  BY <1>2, <1>3, <1>4, <1>6, <1>7 DEF PlayInv, Players, AllHear

-----------------------------------------------------------------------------
(* One step of the system.                                                 *)

\* Who acts in a step, and how.
LEMMA StepKinds ==
  ASSUME TypeInv, Orderly, Next
  PROVE  \E c \in Client :
           \/ ServeNewTable(c) \/ ServeJoin(c) \/ Produce(c) \/ PageNext(c)
           \/ \E t \in Tables : \E o : Serves(c, t, o)
<1>1. PICK c \in Client : Serve(c) \/ Produce(c) \/ PageNext(c)
  BY DEF Next, PageNext
<1>2. ServeGame(c) => \E t \in Tables : \E o : Serves(c, t, o)
  BY DEF ServeGame, Serves
<1>. QED  BY <1>1, <1>2 DEF Serve

\* Every step keeps the types.
LEMMA NextTypes ==
  ASSUME TypeInv, Orderly, [Next]_vars
  PROVE  TypeInv' /\ Orderly'
<1>1. CASE UNCHANGED vars
  BY <1>1 DEF vars, TypeInv, Orderly, Open, At
<1>2. CASE Next
  <2>1. PICK c \in Client :
          \/ ServeNewTable(c) \/ ServeJoin(c) \/ Produce(c) \/ PageNext(c)
          \/ \E t \in Tables : \E o : Serves(c, t, o)
    BY <1>2, StepKinds
  <2>2. CASE ServeNewTable(c)
    BY <2>2, NewTableTypes
  <2>3. CASE ServeJoin(c)
    BY <2>3, JoinTypes
  <2>4. CASE Produce(c)
    BY <2>4, ProduceDoes
  <2>5. CASE PageNext(c)
    BY <2>5, PageNextTurns, TurnTypes
  <2>6. CASE \E t \in Tables : \E o : Serves(c, t, o)
    BY <2>6, GameTypes
  <2>. QED  BY <2>1, <2>2, <2>3, <2>4, <2>5, <2>6
<1>. QED  BY <1>1, <1>2

\* Every step in which nobody changes tables keeps the game.
LEMMA NextPlay ==
  ASSUME TypeInv, Orderly, PlayInv, [Next]_vars, [Staying]_vars
  PROVE  PlayInv'
<1>1. CASE UNCHANGED vars
  <2>1. table' = table /\ up' = up /\ fut' = fut /\ down' = down /\ page' = page
    BY <1>1 DEF vars
  <2>2. /\ \A c : Stream(c)' = Stream(c) /\ (Seated(c)' <=> Seated(c))
        /\ \A c, t : At(c, t)' <=> At(c, t)
    BY <2>1 DEF Stream, Seated, At
  <2>3. /\ \A c : LastBoard(c)' = LastBoard(c)
        /\ \A c, t : Current(c, t)' <=> Current(c, t)
    BY <2>1, <2>2 DEF LastBoard, Current
  <2>4. Outsiders'
    BY <2>1, <2>2 DEF PlayInv, Outsiders
  <2>5. Players'
    BY <2>1, <2>2 DEF PlayInv, Players
  <2>6. AllHear'
    BY <2>1, <2>2, <2>3 DEF PlayInv, AllHear
  <2>7. ButtonsFit'
    BY <2>1 DEF PlayInv, ButtonsFit
  <2>. QED  BY <2>4, <2>5, <2>6, <2>7 DEF PlayInv
<1>2. CASE Next /\ Staying
  <2>1. PICK c \in Client :
          \/ ServeNewTable(c) \/ ServeJoin(c) \/ Produce(c) \/ PageNext(c)
          \/ \E t \in Tables : \E o : Serves(c, t, o)
    BY <1>2, StepKinds
  <2>2. AllStay
    BY <1>2 DEF Staying, AllStay
  <2>3. CASE ServeNewTable(c)
    BY <2>2, <2>3, NewTablePlay
  <2>4. CASE ServeJoin(c)
    BY <2>2, <2>4, JoinPlay
  <2>5. CASE Produce(c)
    BY <2>5, ProducePlay
  <2>6. CASE PageNext(c)
    <3>1. PICK q : PageTurns(c, q) /\ UpTurns(c)
      BY <2>6, PageNextTurns
    <3>2. Seated(c) => \A u \in Tables : ~SendNewTable(c, u) /\ ~SendJoin(c, u)
      BY <1>2 DEF Staying, Seated
    <3>. QED  BY <3>1, <3>2, TurnPlay
  <2>7. CASE \E t \in Tables : \E o : Serves(c, t, o)
    BY <2>7, GamePlay
  <2>. QED  BY <2>1, <2>3, <2>4, <2>5, <2>6, <2>7
<1>. QED  BY <1>1, <1>2

\* Decks stay multiples of three.
LEMMA NextThrees ==
  ASSUME TypeInv, Orderly, InThrees, [Next]_vars,
         Cardinality(Deck0) % 3 = 0, BoardSize % 3 = 0
  PROVE  InThrees'
<1>1. CASE table' = table
  BY <1>1 DEF InThrees
<1>2. ASSUME NEW c \in Client, ServeNewTable(c)  PROVE InThrees'
  <2>. DEFINE t == Head(up[c]).to
              L == LeaveOthers(c, t)
              D == OpenedBy(c)
  <2>1. Take(c, {"ntbl"})
    BY <1>2 DEF ServeNewTable
  <2>2. t \in Tables
    BY <2>1, Taken, CommandKinds
  <2>3. L \in [Tables -> TableRec] /\ \A u \in Tables : L[u].deck = table[u].deck
    BY <2>2, LeaveOthersDoes
  <2>4. D.deck = Deck0
    BY NewTables
  <2>5. table' = table \/ table' = [L EXCEPT ![t] = D]
    BY <1>2 DEF ServeNewTable, OpenedBy
  <2>. HIDE DEF t, L, D
  <2>6. CASE table' = [L EXCEPT ![t] = D]
    BY <2>3, <2>4, <2>6 DEF InThrees
  <2>. QED  BY <1>1, <2>5, <2>6
<1>3. ASSUME NEW c \in Client, ServeJoin(c)  PROVE InThrees'
  <2>. DEFINE t == Head(up[c]).to
              L == LeaveOthers(c, t)
              D == Seat(L[t], c)
  <2>1. Take(c, {"join"}) /\ table' = [L EXCEPT ![t] = D]
    BY <1>3 DEF ServeJoin
  <2>2. t \in Tables
    BY <2>1, Taken, CommandKinds
  <2>3. L \in [Tables -> TableRec] /\ \A u \in Tables : L[u].deck = table[u].deck
    BY <2>2, LeaveOthersDoes
  <2>4. D.deck = L[t].deck
    BY <2>2, <2>3, SeatDoes DEF SameBoard
  <2>. HIDE DEF t, L, D
  <2>. QED  BY <2>1, <2>2, <2>3, <2>4 DEF InThrees
<1>4. ASSUME NEW c \in Client, NEW t \in Tables, NEW o, Serves(c, t, o)  PROVE InThrees'
  <2>1. /\ table \in [Tables -> TableRec] /\ table' = [table EXCEPT ![t] = o.table]
    BY <1>4 DEF TypeInv, Serves
  <2>2. Cardinality(o.table.deck) % 3 = 0
    BY <1>4, ServesDoes DEF Grows, InThrees
  <2>. QED  BY <2>1, <2>2 DEF InThrees
<1>5. ASSUME NEW c \in Client, Produce(c) \/ PageNext(c)  PROVE table' = table
  <2>1. CASE Produce(c)
    BY <2>1 DEF Produce
  <2>2. CASE PageNext(c)
    BY <2>2, PageNextTurns DEF PageTurns
  <2>. QED  BY <1>5, <2>1, <2>2
<1>6. CASE UNCHANGED vars
  BY <1>1, <1>6 DEF vars
<1>7. CASE Next
  BY <1>1, <1>2, <1>3, <1>4, <1>5, <1>7, StepKinds
<1>. QED  BY <1>6, <1>7

\* With one table only, nobody has another one to go to.
LEMMA OneTableStays ==
  ASSUME TypeInv, Orderly, Next, \A t, u \in Tables : t = u
  PROVE  Staying
<1>1. PICK c \in Client :
        \/ ServeNewTable(c) \/ ServeJoin(c) \/ Produce(c) \/ PageNext(c)
        \/ \E t \in Tables : \E o : Serves(c, t, o)
  BY StepKinds
<1>2. ASSUME NEW d \in Client, NEW t \in Tables, At(d, t), NEW u \in Tables
      PROVE  ~SendNewTable(d, u) /\ ~SendJoin(d, u)
  <2>1. u = t /\ Open(t)
    BY <1>2, SeatedIsOpen
  <2>. QED  BY <1>2, <2>1 DEF SendNewTable, SendJoin
<1>3. ASSUME NEW t \in Tables  PROVE DOMAIN table[t].numbers \subseteq DOMAIN table'[t].numbers
  <2>1. CASE ServeNewTable(c)
    <3>1. Take(c, {"ntbl"})
      BY <2>1 DEF ServeNewTable
    <3>2. Head(up[c]).to = t
      BY <3>1, Taken, CommandKinds
    <3>3. CASE Open(t)
      BY <2>1, <3>2, <3>3 DEF ServeNewTable
    <3>4. CASE ~Open(t)
      <4>1. \A d \in Client : ~At(d, t)
        BY <3>4, SeatedIsOpen
      <4>2. DOMAIN table[t].numbers \subseteq Client
        BY DEF TypeInv, TableRec, Roster
      <4>. QED  BY <4>1, <4>2 DEF At
    <3>. QED  BY <3>3, <3>4
  <2>2. CASE ServeJoin(c)
    <3>1. table'[t] = Seat(table[t], c)
      BY <2>2, JoinTypes
    <3>2. table[t] \in TableRec
      BY DEF TypeInv
    <3>. QED  BY <3>1, <3>2, SeatDoes
  <2>3. CASE \E v \in Tables : \E o : Serves(c, v, o)
    <3>0. PICK v \in Tables : \E o : Serves(c, v, o)
      BY <2>3
    <3>1. PICK o : Serves(c, v, o)
      BY <3>0
    <3>2. /\ table[v] \in TableRec /\ o.table \in TableRec
          /\ o.table = table[v] \/ Grows(table[v], o.table)
      BY <3>1, ServesDoes
    <3>3. DOMAIN o.table.numbers = DOMAIN table[v].numbers
      BY <3>2, GrowsAdvances
    <3>4. table' = [table EXCEPT ![v] = o.table] /\ table \in [Tables -> TableRec] /\ v = t
      BY <3>1 DEF Serves, TypeInv
    <3>. QED  BY <3>3, <3>4
  <2>4. CASE Produce(c)
    BY <2>4 DEF Produce
  <2>5. CASE PageNext(c)
    BY <2>5, PageNextTurns DEF PageTurns
  <2>. QED  BY <1>1, <2>1, <2>2, <2>3, <2>4, <2>5
<1>. QED  BY <1>2, <1>3 DEF Staying, At

-----------------------------------------------------------------------------
(* The theorems.                                                           *)

\* The types that the runs check follow from those proved.
LEMMA TypesImply ==
  ASSUME TypeInv, Orderly
  PROVE  TypeOK
<1>1. ASSUME NEW t \in Tables
      PROVE  /\ Open(t) => table[t].gstate \in 0..table[t].tstate
             /\ DOMAIN table[t].numbers \subseteq Client
             /\ table[t].deck \cup OnBoard(table[t].active) \subseteq Deck0
  <2>. DEFINE T == table[t]
  <2>1. T \in TableRec /\ Counted(T)
    BY DEF TypeInv, Orderly
  <2>2. /\ T.gstate \in Nat /\ T.tstate \in Int /\ T.deck \subseteq Deck0
        /\ T.active \in Seq(Deck0) /\ T.numbers \in Roster
    BY <2>1 DEF TableRec
  <2>3. T.tstate >= 0 => T.gstate <= T.tstate
    BY <2>1, NewTables DEF Counted
  <2>4. OnBoard(T.active) \subseteq Deck0
    BY <2>2, Places DEF OnBoard
  <2>5. DOMAIN T.numbers \subseteq Client
    BY <2>2 DEF Roster
  <2>. QED  BY <2>2, <2>3, <2>4, <2>5 DEF Open
<1>2. ASSUME NEW c \in Client
      PROVE  /\ page[c].buttons \subseteq {"add3", "nmor"}
             /\ OnBoard(page[c].board) \subseteq Deck0
             /\ \A n \in DOMAIN up[c] : up[c][n].op \in Ops
  <2>1. page[c].buttons \in SUBSET {"add3", "nmor"} /\ page[c].board \in Seq(Deck0)
    BY PageTypes DEF TypeInv
  <2>2. OnBoard(page[c].board) \subseteq Deck0
    BY <2>1, Places DEF OnBoard
  <2>. DEFINE u == up[c]
  <2>3. u \in Seq(Command)
    BY DEF TypeInv
  <2>. HIDE DEF u
  <2>4. \A n \in DOMAIN u : u[n] \in Command
    BY <2>3, LenProperties, ElementOfSeq
  <2>5. \A n \in DOMAIN u : u[n].op \in Ops
    BY <2>4, CommandKinds
  <2>. QED  BY <2>1, <2>2, <2>5 DEF u
<1>3. dead \subseteq Client
  BY DEF TypeInv
<1>. QED  BY <1>1, <1>2, <1>3 DEF TypeOK

\* What the pages show and the server judges follows from the invariant.
LEMMA PlayImplies ==
  ASSUME TypeInv, Orderly, PlayInv
  PROVE  SameStateSameTable /\ JudgedOnBoardShown /\ FoundShownOnItsBoard
<1>1. ASSUME NEW c \in Client, NEW t \in Tables, At(c, t)
      PROVE  /\ page[c].gstate <= table[t].gstate /\ page[c].tstate <= table[t].tstate
             /\ page[c].gstate = table[t].gstate => Shows(c, t)
             /\ page[c].tstate = table[t].tstate => page[c].players = table[t].numbers
  <2>1. Faithful(Shown(page[c]), table[t])
    BY <1>1 DEF PlayInv, Players, Follows
  <2>. QED  BY <2>1 DEF Faithful, Shown, Shows
<1>2. JudgedOnBoardShown
  BY DEF PlayInv, Players, Fits, JudgedOnBoardShown
<1>3. ASSUME NEW c \in Client, page[c].delayed # Nothing
      PROVE  LiesOn(page[c].board, page[c].delayed)
  <2>1. CASE Seated(c)
    <3>1. PICK t \in Tables : At(c, t)
      BY <2>1 DEF Seated
    <3>2. InOrder(page[c], Stream(c))
      BY <3>1 DEF PlayInv, Players, Follows
    <3>. QED  BY <1>3, <3>2 DEF InOrder
  <2>2. CASE ~Seated(c)
    BY <1>3, <2>2 DEF PlayInv, Outsiders, Blank
  <2>. QED  BY <2>1, <2>2
<1>. QED  BY <1>1, <1>2, <1>3 DEF SameStateSameTable, FoundShownOnItsBoard, LiesOn

\* A deck that is not empty and in threes has three cards.
LEMMA DecksImply ==
  ASSUME TypeInv, PlayInv, InThrees
  PROVE  DeckHasWhatIsAsked
<1>1. ASSUME NEW c \in Client \ Newer, NEW t \in Tables, At(c, t), NEW n \in DOMAIN up[c],
             up[c][n].op = "add3", up[c][n].gstate = table[t].gstate
      PROVE  Cardinality(table[t].deck) >= 3
  <2>. DEFINE k == Cardinality(table[t].deck)
  <2>1. k # 0
    BY <1>1 DEF PlayInv, Players, HasDeck
  <2>2. k % 3 = 0
    BY DEF InThrees
  <2>3. k \in Nat
    <3>1. IsFiniteSet(table[t].deck)
      BY DeckFinite DEF TypeInv, TableRec
    <3>. QED  BY <3>1, FS_CardinalityType
  <2>. HIDE DEF k
  <2>4. k >= 3
    BY <2>1, <2>2, <2>3
  <2>. QED  BY <2>4 DEF k
<1>. QED  BY <1>1 DEF DeckHasWhatIsAsked

\* Whatever clients create, join, leave and play, the server's tables keep a
\* game counter that never runs ahead of the table's, seat clients only and
\* hold cards of their deck, and pages show cards and ask commands that exist.
THEOREM WebTypeCorrect == Spec => []TypeOK
<1>1. Init => TypeInv /\ Orderly
  BY InitInv
<1>2. TypeInv /\ Orderly /\ [Next]_vars => (TypeInv /\ Orderly)'
  BY NextTypes
<1>3. TypeInv /\ Orderly => TypeOK
  BY TypesImply
<1>. QED  BY <1>1, <1>2, <1>3, PTL DEF Spec

\* The inductive invariant behind the three theorems below.
LEMMA PlayInvariant ==
  Spec /\ [][Staying]_vars => [](TypeInv /\ Orderly /\ PlayInv)
<1>1. Init => TypeInv /\ Orderly /\ PlayInv
  BY InitInv
<1>2. /\ TypeInv /\ Orderly /\ PlayInv /\ [Next]_vars /\ [Staying]_vars
      => (TypeInv /\ Orderly /\ PlayInv)'
  BY NextTypes, NextPlay
<1>. QED  BY <1>1, <1>2, PTL DEF Spec

\* While nobody changes tables, a page that has the number of its table's game
\* shows that game, and one that has the table's number shows its players.
THEOREM WebSameStateSameTable == Spec /\ [][Staying]_vars => []SameStateSameTable
<1>1. TypeInv /\ Orderly /\ PlayInv => SameStateSameTable
  BY PlayImplies
<1>. QED  BY <1>1, PlayInvariant, PTL

\* While nobody changes tables, a claim that try3 does not turn down is judged
\* on the cards that its sender pointed at.
THEOREM WebJudgedOnBoardShown == Spec /\ [][Staying]_vars => []JudgedOnBoardShown
<1>1. TypeInv /\ Orderly /\ PlayInv => JudgedOnBoardShown
  BY PlayImplies
<1>. QED  BY <1>1, PlayInvariant, PTL

\* While nobody changes tables, the cards of a found set lie under the frames
\* that a page draws for it until it handles what it holds back.
THEOREM WebFoundShownOnItsBoard == Spec /\ [][Staying]_vars => []FoundShownOnItsBoard
<1>1. TypeInv /\ Orderly /\ PlayInv => FoundShownOnItsBoard
  BY PlayImplies
<1>. QED  BY <1>1, PlayInvariant, PTL

\* With a deck and a first deal in threes (81 and 12 in the code), and while
\* nobody changes tables, 3333.js asks for three cards only when there are.
THEOREM WebDeckHasWhatIsAsked ==
  ASSUME Cardinality(Deck0) % 3 = 0, BoardSize % 3 = 0
  PROVE  Spec /\ [][Staying]_vars => []DeckHasWhatIsAsked
<1>1. Init => InThrees
  <2>1. Init => \A t \in Tables : table[t].deck = Deck0
    BY NewTables DEF Init
  <2>. QED  BY <2>1 DEF InThrees
<1>2. TypeInv /\ Orderly /\ InThrees /\ [Next]_vars => InThrees'
  BY NextThrees
<1>3. TypeInv /\ Orderly /\ PlayInv /\ InThrees => DeckHasWhatIsAsked
  BY DecksImply
<1>. QED  BY <1>1, <1>2, <1>3, PlayInvariant, PTL DEF Spec

\* At a server with one table nobody ever leaves it, so that all of this holds
\* of every behaviour.
THEOREM WebOneTable ==
  ASSUME \A t, u \in Tables : t = u
  PROVE  Spec => [](SameStateSameTable /\ JudgedOnBoardShown /\ FoundShownOnItsBoard)
<1>1. Init => TypeInv /\ Orderly
  BY InitInv
<1>2. TypeInv /\ Orderly /\ [Next]_vars => (TypeInv /\ Orderly)'
  BY NextTypes
<1>3. TypeInv /\ Orderly /\ [Next]_vars => [Staying]_vars
  BY OneTableStays
<1>4. TypeInv /\ Orderly /\ PlayInv =>
        SameStateSameTable /\ JudgedOnBoardShown /\ FoundShownOnItsBoard
  BY PlayImplies
<1>. QED  BY <1>1, <1>2, <1>3, <1>4, PlayInvariant, PTL DEF Spec
=============================================================================
