-------------------------- MODULE TableSync_proofs --------------------------
(***************************************************************************)
(* Proofs about the table and about a table with its clients, for every    *)
(* deck, board size, set of players, limit of players and length of the    *)
(* queues between them.  Of the table alone: the types, the conservation   *)
(* of the cards, the refill of the board, and what the game's version      *)
(* counter stands for.  With its clients: a command judged is judged on    *)
(* the board its sender saw, and the table plays the game that SetGame     *)
(* describes.                                                              *)
(***************************************************************************)
EXTENDS TableSync, Basics_proofs, FiniteSetTheorems

-----------------------------------------------------------------------------
(* Removal by position.                                                    *)

\* The cards on a board are the range of the sequence they lie in.
LEMMA BoardIsRange == \A board : OnBoard(board) = Range(board)
BY DEF OnBoard, Range

\* Try3 removes by position, from the highest down, on the board the earlier
\* removals left: exactly the three cards that were named go, and no other.
THEOREM Without3Exact ==
  ASSUME NEW S, NEW s \in Seq(S), IsInjective(s),
         NEW lo \in DOMAIN s, NEW mid \in DOMAIN s, NEW hi \in DOMAIN s,
         lo < mid, mid < hi
  PROVE  /\ Without3(s, lo, mid, hi) \in Seq(S)
         /\ Len(Without3(s, lo, mid, hi)) = Len(s) - 3
         /\ IsInjective(Without3(s, lo, mid, hi))
         /\ OnBoard(Without3(s, lo, mid, hi))
              = OnBoard(s) \ {s[lo], s[mid], s[hi]}
<1>. DEFINE s1 == SwapOut(s, hi)
            s2 == SwapOut(s1, mid)
            s3 == SwapOut(s2, lo)
<1>. HIDE DEF s1, s2, s3
<1>1. Len(s) \in Nat /\ lo \in 1..Len(s) /\ mid \in 1..Len(s) /\ hi \in 1..Len(s)
  BY LenProperties
<1>2. /\ s1 \in Seq(S) /\ Len(s1) = Len(s) - 1 /\ IsInjective(s1)
      /\ OnBoard(s1) = OnBoard(s) \ {s[hi]}
      /\ \A k \in 1..(Len(s) - 1) : s1[k] = IF k = hi THEN s[Len(s)] ELSE s[k]
  BY <1>1, SwapOutSeq, SwapOutElements, BoardIsRange DEF s1
<1>3. mid \in 1..Len(s1) /\ lo \in 1..Len(s1) /\ s1[mid] = s[mid] /\ s1[lo] = s[lo]
  BY <1>1, <1>2, SMTT(60)
<1>4. /\ s2 \in Seq(S) /\ Len(s2) = Len(s1) - 1 /\ IsInjective(s2)
      /\ OnBoard(s2) = OnBoard(s1) \ {s1[mid]}
      /\ \A k \in 1..(Len(s1) - 1) : s2[k] = IF k = mid THEN s1[Len(s1)] ELSE s1[k]
  BY <1>2, <1>3, SwapOutSeq, SwapOutElements, BoardIsRange DEF s2
<1>5. lo \in 1..Len(s2) /\ s2[lo] = s[lo]
  BY <1>1, <1>2, <1>3, <1>4, SMTT(60)
<1>6. /\ s3 \in Seq(S) /\ Len(s3) = Len(s2) - 1 /\ IsInjective(s3)
      /\ OnBoard(s3) = OnBoard(s2) \ {s2[lo]}
  BY <1>4, <1>5, SwapOutSeq, SwapOutElements, BoardIsRange DEF s3
<1>7. s3 = Without3(s, lo, mid, hi)
  BY DEF s1, s2, s3, Without3
<1>8. OnBoard(s3) = OnBoard(s) \ {s[lo], s[mid], s[hi]}
  BY <1>2, <1>3, <1>4, <1>5, <1>6
<1>9. Len(s3) = Len(s) - 3
  BY <1>1, <1>2, <1>4, <1>6
<1>. QED  BY <1>6, <1>7, <1>8, <1>9

-----------------------------------------------------------------------------
(* Dealing.                                                                *)

\* The decks a server plays with are finite, and so is what is left of one.
LEMMA DeckFinite ==
  ASSUME NEW d \in SUBSET Deck0
  PROVE  IsFiniteSet(d) /\ Cardinality(d) \in Nat
<1>1. IsFiniteSet(Card)
  <2>1. 0 \in Int /\ 80 \in Int
    OBVIOUS
  <2>2. IsFiniteSet(0..80)
    BY <2>1, FS_Interval, Zenon
  <2>. QED  BY <2>2 DEF Card
<1>2. d \in SUBSET Card
  BY DeckAssumption
<1>3. IsFiniteSet(d)
  BY <1>1, <1>2, FS_Subset
<1>. QED  BY <1>3, FS_CardinalityType

\* n cards drawn from d are n different cards, and d keeps all the others.
LEMMA DrawnCards ==
  ASSUME NEW d \in SUBSET Deck0, NEW n \in Nat, NEW s \in Draws(n, d)
  PROVE  /\ s \in Seq(d) /\ Len(s) = n /\ IsInjective(s)
         /\ OnBoard(s) \subseteq d
         /\ Cardinality(d \ OnBoard(s)) = Cardinality(d) - n
<1>1. s \in [1..n -> d] /\ IsInjective(s)
  BY DEF Draws
<1>2. s \in Seq(d)
  BY <1>1, SeqDef
<1>3. Len(s) = n
  <2>1. DOMAIN s = 1..n /\ DOMAIN s = 1..Len(s) /\ Len(s) \in Nat
    BY <1>1, <1>2, LenProperties
  <2>. QED  BY <2>1
<1>4. OnBoard(s) \subseteq d
  BY <1>1 DEF OnBoard
<1>5. Cardinality(OnBoard(s)) = n
  <2>1. s \in Surjection(1..n, OnBoard(s))
    BY <1>1 DEF OnBoard, Surjection
  <2>2. s \in Injection(1..n, OnBoard(s))
    BY <1>1 DEF OnBoard, Injection
  <2>3. ExistsBijection(1..n, OnBoard(s))
    BY <2>1, <2>2 DEF ExistsBijection, Bijection
  <2>. QED  BY <2>3, FS_CountingElements
<1>6. Cardinality(d \ OnBoard(s)) = Cardinality(d) - Cardinality(d \cap OnBoard(s))
  BY DeckFinite, FS_Difference
<1>7. d \cap OnBoard(s) = OnBoard(s)
  BY <1>4
<1>. QED  BY <1>1, <1>2, <1>3, <1>4, <1>5, <1>6, <1>7

\* Dealing moves cards from the deck to the end of the board.
LEMMA DealTypes ==
  ASSUME NEW d \in SUBSET Deck0, NEW b \in Seq(Deck0), NEW n \in Nat,
         NEW s \in Draws(n, d)
  PROVE  /\ d \ OnBoard(s) \in SUBSET Deck0
         /\ b \o s \in Seq(Deck0)
         /\ Len(b \o s) = Len(b) + n
         /\ Cardinality(d \ OnBoard(s)) = Cardinality(d) - n
<1>1. s \in Seq(d) /\ Len(s) = n
  BY DrawnCards
<1>2. s \in Seq(Deck0)
  BY <1>1, SeqMonotonic
<1>3. b \o s \in Seq(Deck0) /\ Len(b \o s) = Len(b) + n
  BY <1>1, <1>2, ConcatProperties
<1>4. Cardinality(d \ OnBoard(s)) = Cardinality(d) - n
  BY DrawnCards
<1>. QED  BY <1>3, <1>4

\* Dealing from a deck that shares no card with the board keeps it so, and
\* puts no card on the board twice.
LEMMA DealConserves ==
  ASSUME NEW d \in SUBSET Deck0, NEW b \in Seq(Deck0), NEW n \in Nat,
         NEW s \in Draws(n, d),
         IsInjective(b), d \cap OnBoard(b) = {}
  PROVE  /\ IsInjective(b \o s)
         /\ (d \ OnBoard(s)) \cap OnBoard(b \o s) = {}
<1>. DEFINE t == b \o s
            m == Len(b)
<1>. HIDE DEF t, m
<1>1. /\ s \in Seq(d) /\ Len(s) = n /\ IsInjective(s)
      /\ OnBoard(s) \subseteq d
  BY DrawnCards
<1>2. s \in Seq(Deck0)
  BY <1>1, SeqMonotonic
<1>3. /\ m \in Nat /\ DOMAIN b = 1..m /\ DOMAIN s = 1..n
      /\ DOMAIN t = 1..(m + n)
      /\ \A i \in 1..(m + n) : t[i] = IF i <= m THEN b[i] ELSE s[i - m]
  <2>1. t \in Seq(Deck0) /\ Len(t) = m + n
    BY <1>1, <1>2, ConcatProperties DEF t, m
  <2>. QED  BY <1>1, <1>2, <2>1, ConcatProperties, LenProperties DEF t, m
<1>4. ASSUME NEW i \in 1..(m + n)
      PROVE  \/ i \in 1..m /\ t[i] = b[i] /\ t[i] \in OnBoard(b)
             \/ i - m \in 1..n /\ t[i] = s[i - m] /\ t[i] \in OnBoard(s)
  <2>1. CASE i <= m
    <3>1. i \in 1..m /\ t[i] = b[i]
      BY <1>3, <2>1
    <3>. QED  BY <1>3, <3>1 DEF OnBoard
  <2>2. CASE ~(i <= m)
    <3>1. i - m \in 1..n /\ t[i] = s[i - m]
      BY <1>3, <2>2
    <3>. QED  BY <1>3, <3>1 DEF OnBoard
  <2>. QED  BY <2>1, <2>2
<1>5. OnBoard(s) \cap OnBoard(b) = {}
  BY <1>1
<1>6. IsInjective(t)
  <2>1. ASSUME NEW i \in 1..(m + n), NEW j \in 1..(m + n), t[i] = t[j]
        PROVE  i = j
    <3>1. CASE i \in 1..m /\ j \in 1..m /\ b[i] = b[j]
      BY <1>3, <3>1 DEF IsInjective
    <3>2. CASE i - m \in 1..n /\ j - m \in 1..n /\ s[i - m] = s[j - m]
      <4>1. i - m = j - m
        BY <1>1, <1>3, <3>2 DEF IsInjective
      <4>. QED  BY <1>3, <4>1
    <3>. QED  BY <1>4, <1>5, <2>1, <3>1, <3>2
  <2>. QED  BY <1>3, <2>1 DEF IsInjective
<1>7. OnBoard(t) \subseteq OnBoard(b) \cup OnBoard(s)
  <2>1. OnBoard(t) = {t[i] : i \in 1..(m + n)}
    BY <1>3 DEF OnBoard
  <2>. QED  BY <1>4, <2>1
<1>. QED  BY <1>6, <1>7 DEF t

\* A new game deals at most the whole deck.
LEMMA FirstDealNat ==
  /\ FirstDeal \in Nat
  /\ FirstDeal = BoardSize \/ FirstDeal = Cardinality(Deck0)
BY DeckFinite, SizeAssumption DEF FirstDeal

\* What a new game deals: different cards, on a board empty before.
LEMMA FirstBoard ==
  ASSUME NEW s \in Draws(FirstDeal, Deck0)
  PROVE  /\ Len(<<>> \o s) = FirstDeal
         /\ Cardinality(Deck0 \ OnBoard(s)) = Cardinality(Deck0) - FirstDeal
         /\ IsInjective(<<>> \o s)
         /\ (Deck0 \ OnBoard(s)) \cap OnBoard(<<>> \o s) = {}
<1>. DEFINE b == <<>>
<1>1. b \in Seq(Deck0) /\ Len(b) = 0 /\ Deck0 \in SUBSET Deck0
  BY EmptySeq
<1>2. IsInjective(b) /\ Deck0 \cap OnBoard(b) = {}
  BY DEF IsInjective, OnBoard
<1>. HIDE DEF b
<1>3. Len(b \o s) = Len(b) + FirstDeal
  BY <1>1, DealTypes, FirstDealNat, ZenonT(60)
<1>4. Cardinality(Deck0 \ OnBoard(s)) = Cardinality(Deck0) - FirstDeal
  BY <1>1, DrawnCards, FirstDealNat
<1>5. IsInjective(b \o s) /\ (Deck0 \ OnBoard(s)) \cap OnBoard(b \o s) = {}
  BY <1>1, <1>2, DealConserves, FirstDealNat
<1>6. Len(b \o s) = FirstDeal
  BY <1>1, <1>3, FirstDealNat
<1>. QED  BY <1>4, <1>5, <1>6 DEF b

-----------------------------------------------------------------------------
(* The invariants.                                                         *)

\* What a step keeps of the table's types: the facts every action's proof
\* starts from.
LEMMA Typed ==
  ASSUME TypeOK
  PROVE  /\ deck \in SUBSET Deck0 /\ IsFiniteSet(deck) /\ Cardinality(deck) \in Nat
         /\ Cardinality(Deck0) \in Nat
         /\ active \in Seq(Deck0) /\ Len(active) \in Nat
         /\ DOMAIN active = 1..Len(active)
<1>1. deck \in SUBSET Deck0 /\ active \in Seq(Deck0)
  BY DEF TypeOK
<1>. QED  BY <1>1, DeckFinite, LenProperties

\* SwapOut three times keeps the type of the board, whatever lies on it.
LEMMA Without3Types ==
  ASSUME NEW S, NEW s \in Seq(S),
         NEW lo \in DOMAIN s, NEW mid \in DOMAIN s, NEW hi \in DOMAIN s,
         lo < mid, mid < hi
  PROVE  /\ Without3(s, lo, mid, hi) \in Seq(S)
         /\ Len(Without3(s, lo, mid, hi)) = Len(s) - 3
<1>. DEFINE s1 == SwapOut(s, hi)
            s2 == SwapOut(s1, mid)
            s3 == SwapOut(s2, lo)
<1>. HIDE DEF s1, s2, s3
<1>1. Len(s) \in Nat /\ lo \in 1..Len(s) /\ mid \in 1..Len(s) /\ hi \in 1..Len(s)
  BY LenProperties
<1>2. s1 \in Seq(S) /\ Len(s1) = Len(s) - 1
  BY <1>1, SwapOutSeq DEF s1
<1>3. mid \in 1..Len(s1)
  BY <1>1, <1>2
<1>4. s2 \in Seq(S) /\ Len(s2) = Len(s1) - 1
  BY <1>2, <1>3, SwapOutSeq DEF s2
<1>5. lo \in 1..Len(s2)
  BY <1>1, <1>2, <1>4
<1>6. s3 \in Seq(S) /\ Len(s3) = Len(s2) - 1
  BY <1>4, <1>5, SwapOutSeq DEF s3
<1>7. s3 = Without3(s, lo, mid, hi)
  BY DEF s1, s2, s3, Without3
<1>. QED  BY <1>1, <1>2, <1>4, <1>6, <1>7

\* One counter bumped, or one player's numbers reset, are numbers still.
LEMMA NumbersTypes ==
  ASSUME TypeOK, NEW p \in Player
  PROVE  /\ \A c \in Counter : Bump(p, c) => numbers' \in [Player -> [Counter -> Nat]]
         /\ [numbers EXCEPT ![p] = Zero] \in [Player -> [Counter -> Nat]]
         /\ [q \in Player |-> Zero] \in [Player -> [Counter -> Nat]]
<1>1. Zero \in [Counter -> Nat]
  BY DEF Zero
<1>2. numbers \in [Player -> [Counter -> Nat]]
  BY DEF TypeOK
<1>3. ASSUME NEW c \in Counter, Bump(p, c)
      PROVE  numbers' \in [Player -> [Counter -> Nat]]
  BY <1>2, <1>3 DEF Bump
<1>. QED  BY <1>1, <1>2, <1>3

\* Whatever happens at the table, its state keeps its type: a step of any
\* command, of a seat taken or of a seat lost.
LEMMA TypeStep == TypeOK /\ [Next]_vars => TypeOK'
<1>. SUFFICES ASSUME TypeOK, [Next]_vars  PROVE TypeOK'
  OBVIOUS
<1>1. ASSUME NEW p \in Player, NewGame(p)  PROVE TypeOK'
  <2>1. PICK s \in Draws(FirstDeal, Deck0) :
          deck' = Deck0 \ OnBoard(s) /\ active' = <<>> \o s
    BY <1>1 DEF NewGame, DealCards
  <2>2. <<>> \in Seq(Deck0) /\ Deck0 \in SUBSET Deck0
    BY EmptySeq
  <2>3. deck' \subseteq Deck0 /\ active' \in Seq(Deck0)
    BY <2>1, <2>2, DealTypes, FirstDealNat
  <2>4. numbers' \in [Player -> [Counter -> Nat]]
    BY <1>1, NumbersTypes DEF NewGame
  <2>. QED  BY <1>1, <2>3, <2>4 DEF NewGame, GameStateBump, TypeOK
<1>2. ASSUME NEW p \in Player,
             NEW lo \in DOMAIN active, NEW mid \in DOMAIN active,
             NEW hi \in DOMAIN active, Try3(p, lo, mid, hi)
      PROVE  TypeOK'
  <2>1. CASE Try3Good(p, lo, mid, hi)
    <3>. DEFINE rest == Without3(active, lo, mid, hi)
    <3>1. rest \in Seq(Deck0)
      BY <1>2, Typed, Without3Types DEF Try3
    <3>. HIDE DEF rest
    <3>2. deck' \subseteq Deck0 /\ active' \in Seq(Deck0)
      <4>1. CASE deck' = deck /\ active' = rest
        BY <3>1, <4>1, Typed
      <4>2. CASE DealCards(3, deck, rest)
        <5>1. PICK s \in Draws(3, deck) :
                deck' = deck \ OnBoard(s) /\ active' = rest \o s
          BY <4>2 DEF DealCards
        <5>. QED  BY <3>1, <5>1, Typed, DealTypes
      <4>. QED  BY <2>1, <4>1, <4>2 DEF Try3Good, rest
    <3>3. numbers' \in [Player -> [Counter -> Nat]]
      BY <2>1, NumbersTypes DEF Try3Good, Counter
    <3>. QED  BY <2>1, <3>2, <3>3 DEF Try3Good, GameStateBump, TypeOK
  <2>2. CASE Try3Bad(p, lo, mid, hi)
    <3>1. numbers' \in [Player -> [Counter -> Nat]]
      BY <2>2, NumbersTypes DEF Try3Bad, Counter
    <3>. QED  BY <2>2, <3>1 DEF Try3Bad, StateBump, TypeOK
  <2>. QED  BY <1>2, <2>1, <2>2 DEF Try3
<1>3. ASSUME NEW p \in Player, Add3(p)  PROVE TypeOK'
  <2>1. CASE Add3Good(p)
    <3>1. PICK s \in Draws(3, deck) :
            deck' = deck \ OnBoard(s) /\ active' = active \o s
      BY <2>1 DEF Add3Good, DealCards
    <3>2. deck' \subseteq Deck0 /\ active' \in Seq(Deck0)
      BY <3>1, Typed, DealTypes
    <3>3. numbers' \in [Player -> [Counter -> Nat]]
      BY <2>1, NumbersTypes DEF Add3Good, Counter
    <3>. QED  BY <2>1, <3>2, <3>3 DEF Add3Good, GameStateBump, TypeOK
  <2>2. CASE Add3Bad(p)
    <3>1. numbers' \in [Player -> [Counter -> Nat]]
      BY <2>2, NumbersTypes DEF Add3Bad, Counter
    <3>. QED  BY <2>2, <3>1 DEF Add3Bad, TypeOK
  <2>. QED  BY <1>3, <2>1, <2>2 DEF Add3
<1>4. ASSUME NEW p \in Player, NoMore(p)  PROVE TypeOK'
  <2>1. CASE NoMoreGood(p)
    <3>1. numbers' \in [Player -> [Counter -> Nat]]
      BY <2>1, NumbersTypes DEF NoMoreGood, Counter
    <3>2. gactive' \in BOOLEAN
      BY <2>1 DEF NoMoreGood
    <3>3. tstate' \in Nat /\ gstate' \in Nat
      BY <2>1 DEF NoMoreGood, GameStateBump, TypeOK
    <3>. QED  BY <2>1, <3>1, <3>2, <3>3 DEF NoMoreGood, TypeOK
  <2>2. CASE NoMoreBad(p)
    <3>1. numbers' \in [Player -> [Counter -> Nat]]
      BY <2>2, NumbersTypes DEF NoMoreBad, Counter
    <3>. QED  BY <2>2, <3>1 DEF NoMoreBad, StateBump, TypeOK
  <2>. QED  BY <1>4, <2>1, <2>2 DEF NoMore
<1>5. ASSUME NEW p \in Player, AddPlayer(p)  PROVE TypeOK'
  <2>1. players' \in Seq(Player)
    BY <1>5, AppendProperties DEF AddPlayer, TypeOK
  <2>. QED  BY <1>5, <2>1 DEF AddPlayer, TypeOK
<1>6. ASSUME NEW p \in Player, DeletePlayer(p)  PROVE TypeOK'
  <2>1. PICK pi \in DOMAIN players : players' = SwapOut(players, pi)
    BY <1>6 DEF DeletePlayer
  <2>2. players \in Seq(Player) /\ pi \in 1..Len(players)
    BY LenProperties DEF TypeOK
  <2>3. players' \in Seq(Player)
    BY <2>1, <2>2, SwapOutSeq
  <2>4. numbers' \in [Player -> [Counter -> Nat]]
    BY <1>6, NumbersTypes DEF DeletePlayer
  <2>. QED  BY <1>6, <2>3, <2>4 DEF DeletePlayer, StateBump, TypeOK
<1>7. CASE UNCHANGED vars
  BY <1>7 DEF vars, TypeOK
<1>. QED  BY <1>1, <1>2, <1>3, <1>4, <1>5, <1>6, <1>7 DEF Next

\* A table starts with state of the right types.
LEMMA TypeInit == Init => TypeOK
<1>. SUFFICES ASSUME Init  PROVE TypeOK
  OBVIOUS
<1>1. \A p \in Player : <<p>> \in Seq(Player)
  OBVIOUS
<1>2. [p \in Player |-> Zero] \in [Player -> [Counter -> Nat]]
  BY DEF Zero
<1>3. players \in Seq(Player) /\ active \in Seq(Deck0) /\ gactive \in BOOLEAN
  BY <1>1, EmptySeq DEF Init
<1>. QED  BY <1>2, <1>3 DEF Init, TypeOK

\* The state of the table keeps its type: the board and the deck hold cards
\* of the initial deck only, and no counter of table.cc or player.cc runs
\* negative.
THEOREM TypeCorrect == Spec => []TypeOK
<1>. QED  BY TypeInit, TypeStep, PTL DEF Spec

-----------------------------------------------------------------------------
\* CardsConserved needs nothing but the types to be inductive; the cards of
\* the deck and the board are counted before the step and after it.
LEMMA ConservedStep == TypeOK /\ CardsConserved /\ [Next]_vars => CardsConserved'
<1>. SUFFICES ASSUME TypeOK, CardsConserved, [Next]_vars  PROVE CardsConserved'
  OBVIOUS
<1>0. /\ found \in Nat
      /\ IsInjective(active) /\ deck \cap OnBoard(active) = {}
      /\ Dealt => Cardinality(deck) + Len(active) + 3 * found = Cardinality(Deck0)
  BY DEF TypeOK, CardsConserved
<1>1. ASSUME NEW p \in Player, NewGame(p)  PROVE CardsConserved'
  <2>1. PICK s \in Draws(FirstDeal, Deck0) :
          deck' = Deck0 \ OnBoard(s) /\ active' = <<>> \o s
    BY <1>1 DEF NewGame, DealCards
  <2>2. IsInjective(active') /\ deck' \cap OnBoard(active') = {}
    BY <2>1, FirstBoard
  <2>3. Len(active') = FirstDeal /\ Cardinality(deck') = Cardinality(Deck0) - FirstDeal
    BY <2>1, FirstBoard
  <2>4. found' = 0
    BY <1>1 DEF NewGame
  <2>. QED  BY <2>2, <2>3, <2>4, FirstDealNat, Typed DEF CardsConserved
<1>2. ASSUME NEW p \in Player,
             NEW lo \in DOMAIN active, NEW mid \in DOMAIN active,
             NEW hi \in DOMAIN active, Try3(p, lo, mid, hi)
      PROVE  CardsConserved'
  <2>1. CASE Try3Good(p, lo, mid, hi)
    <3>. DEFINE rest == Without3(active, lo, mid, hi)
    <3>1. /\ rest \in Seq(Deck0) /\ Len(rest) = Len(active) - 3
          /\ IsInjective(rest) /\ deck \cap OnBoard(rest) = {}
      <4>1. active \in Seq(Deck0) /\ lo < mid /\ mid < hi
        BY <1>2, Typed DEF Try3
      <4>2. /\ rest \in Seq(Deck0) /\ Len(rest) = Len(active) - 3
            /\ IsInjective(rest) /\ OnBoard(rest) \subseteq OnBoard(active)
        BY <1>0, <4>1, Without3Exact
      <4>. QED  BY <1>0, <4>2
    <3>. HIDE DEF rest
    <3>2. active # <<>> /\ found' = found + 1 /\ Dealt
      BY <1>2, <2>1 DEF Try3Good, Dealt
    <3>3. CASE deck' = deck /\ active' = rest
      <4>1. IsInjective(active') /\ deck' \cap OnBoard(active') = {}
        BY <3>1, <3>3
      <4>2. Len(active') = Len(active) - 3 /\ Cardinality(deck') = Cardinality(deck)
        BY <3>1, <3>3
      <4>. QED  BY <1>0, <3>2, <4>1, <4>2, Typed DEF CardsConserved
    <3>4. CASE DealCards(3, deck, rest)
      <4>1. PICK s \in Draws(3, deck) :
              deck' = deck \ OnBoard(s) /\ active' = rest \o s
        BY <3>4 DEF DealCards
      <4>2. IsInjective(active') /\ deck' \cap OnBoard(active') = {}
        BY <3>1, <4>1, Typed, DealConserves
      <4>3. Len(active') = Len(rest) + 3
        <5>1. rest \in Seq(Deck0) /\ deck \in SUBSET Deck0
          BY <3>1, Typed
        <5>. QED  BY <4>1, <5>1, DealTypes
      <4>4. Cardinality(deck \ OnBoard(s)) = Cardinality(deck) - 3
        BY Typed, DrawnCards
      <4>. QED  BY <1>0, <3>1, <3>2, <4>1, <4>2, <4>3, <4>4, Typed DEF CardsConserved
    <3>. QED  BY <2>1, <3>3, <3>4 DEF Try3Good, rest
  <2>2. CASE Try3Bad(p, lo, mid, hi)
    BY <2>2 DEF Try3Bad, CardsConserved, Dealt
  <2>. QED  BY <1>2, <2>1, <2>2 DEF Try3
<1>3. ASSUME NEW p \in Player, Add3(p)  PROVE CardsConserved'
  <2>1. CASE Add3Good(p)
    <3>1. PICK s \in Draws(3, deck) :
            deck' = deck \ OnBoard(s) /\ active' = active \o s
      BY <2>1 DEF Add3Good, DealCards
    <3>2. IsInjective(active') /\ deck' \cap OnBoard(active') = {}
      BY <1>0, <3>1, Typed, DealConserves
    <3>3. Len(active') = Len(active) + 3 /\ Cardinality(deck') = Cardinality(deck) - 3
      BY <3>1, Typed, DealTypes, ZenonT(60)
    <3>4. Dealt /\ found' = found
      BY <2>1, FS_EmptySet DEF Add3Good, Dealt
    <3>. QED  BY <1>0, <3>2, <3>3, <3>4, Typed DEF CardsConserved
  <2>2. CASE Add3Bad(p)
    BY <2>2 DEF Add3Bad, CardsConserved, Dealt
  <2>. QED  BY <1>3, <2>1, <2>2 DEF Add3
<1>4. ASSUME NEW p \in Player, NoMore(p)  PROVE CardsConserved'
  BY <1>4 DEF NoMore, NoMoreGood, NoMoreBad, CardsConserved, Dealt
<1>5. ASSUME NEW p \in Player, AddPlayer(p)  PROVE CardsConserved'
  BY <1>5 DEF AddPlayer, CardsConserved, Dealt
<1>6. ASSUME NEW p \in Player, DeletePlayer(p)  PROVE CardsConserved'
  BY <1>6 DEF DeletePlayer, CardsConserved, Dealt
<1>7. CASE UNCHANGED vars
  BY <1>7 DEF vars, CardsConserved, Dealt
<1>. QED  BY <1>1, <1>2, <1>3, <1>4, <1>5, <1>6, <1>7 DEF Next

\* However sets, added cards and new games follow each other, no card is lost
\* or dealt twice: DealCards draws without replacement, and Try3, which
\* removes by position from the highest down, removes the three cards named.
THEOREM CardsConservedThm == Spec => []CardsConserved
<1>1. Init => CardsConserved
  BY DEF Init, CardsConserved, Dealt, IsInjective, OnBoard
<1>. QED  BY <1>1, TypeInit, TypeStep, ConservedStep, PTL DEF Spec

\* A board short of cards means a deck that cannot refill it.
LEMMA RefilledStep == TypeOK /\ BoardRefilled /\ [Next]_vars => BoardRefilled'
<1>. SUFFICES ASSUME TypeOK, BoardRefilled, [Next]_vars  PROVE BoardRefilled'
  OBVIOUS
<1>. USE DEF BoardRefilled
<1>0. BoardSize \in Nat
  BY SizeAssumption
<1>1. ASSUME NEW p \in Player, NewGame(p)  PROVE BoardRefilled'
  <2>1. PICK s \in Draws(FirstDeal, Deck0) :
          deck' = Deck0 \ OnBoard(s) /\ active' = <<>> \o s
    BY <1>1 DEF NewGame, DealCards
  <2>2. Len(active') = FirstDeal /\ Cardinality(deck') = Cardinality(Deck0) - FirstDeal
    BY <2>1, FirstBoard
  <2>. QED  BY <1>0, <2>2, FirstDealNat, Typed
<1>2. ASSUME NEW p \in Player,
             NEW lo \in DOMAIN active, NEW mid \in DOMAIN active,
             NEW hi \in DOMAIN active, Try3(p, lo, mid, hi)
      PROVE  BoardRefilled'
  <2>1. CASE Try3Good(p, lo, mid, hi)
    <3>. DEFINE rest == Without3(active, lo, mid, hi)
    <3>1. rest \in Seq(Deck0) /\ Len(rest) = Len(active) - 3
      BY <1>2, Typed, Without3Types DEF Try3
    <3>. HIDE DEF rest
    <3>2. CASE ~(Len(rest) < BoardSize /\ Cardinality(deck) >= 3)
      <4>1. deck' = deck /\ active' = rest
        BY <2>1, <3>2 DEF Try3Good, rest
      <4>. QED  BY <1>0, <3>1, <3>2, <4>1, Typed
    <3>3. CASE Len(rest) < BoardSize /\ Cardinality(deck) >= 3
      <4>1. PICK s \in Draws(3, deck) :
              deck' = deck \ OnBoard(s) /\ active' = rest \o s
        BY <2>1, <3>3 DEF Try3Good, DealCards, rest
      <4>2. Len(active') = Len(rest) + 3
        BY <3>1, <4>1, Typed, DealTypes
      <4>. QED  BY <1>0, <3>1, <3>3, <4>2, Typed
    <3>. QED  BY <3>2, <3>3, SMTT(60)
  <2>2. CASE Try3Bad(p, lo, mid, hi)
    BY <2>2 DEF Try3Bad
  <2>. QED  BY <1>2, <2>1, <2>2 DEF Try3
<1>3. ASSUME NEW p \in Player, Add3(p)  PROVE BoardRefilled'
  <2>1. CASE Add3Good(p)
    <3>1. PICK s \in Draws(3, deck) :
            deck' = deck \ OnBoard(s) /\ active' = active \o s
      BY <2>1 DEF Add3Good, DealCards
    <3>2. Len(active') = Len(active) + 3 /\ Cardinality(deck) >= 3
      BY <2>1, <3>1, Typed, DealTypes DEF Add3Good
    <3>. QED  BY <1>0, <3>2, Typed
  <2>2. CASE Add3Bad(p)
    BY <2>2 DEF Add3Bad
  <2>. QED  BY <1>3, <2>1, <2>2 DEF Add3
<1>4. ASSUME NEW p \in Player, NoMore(p)  PROVE BoardRefilled'
  BY <1>4 DEF NoMore, NoMoreGood, NoMoreBad
<1>5. ASSUME NEW p \in Player, AddPlayer(p)  PROVE BoardRefilled'
  BY <1>5 DEF AddPlayer
<1>6. ASSUME NEW p \in Player, DeletePlayer(p)  PROVE BoardRefilled'
  BY <1>6 DEF DeletePlayer
<1>7. CASE UNCHANGED vars
  BY <1>7 DEF vars
<1>. QED  BY <1>1, <1>2, <1>3, <1>4, <1>5, <1>6, <1>7 DEF Next

\* Try3 deals exactly when it must: whatever Add3 and the sets found before
\* did to the board, it is short of cards only if the deck is.
THEOREM BoardRefilledThm == Spec => []BoardRefilled
<1>1. Init => BoardRefilled
  BY FS_EmptySet DEF Init, BoardRefilled
<1>. QED  BY <1>1, TypeInit, TypeStep, RefilledStep, PTL DEF Spec

-----------------------------------------------------------------------------
\* Cards leave the deck in threes, from a game that was dealt in threes.
DealtInThrees == gactive => Cardinality(deck) % 3 = 0

\* Taking three away does not change the rest by three.
LEMMA ThreeLess ==
  ASSUME NEW m \in Nat, m % 3 = 0
  PROVE  (m - 3) % 3 = 0
OBVIOUS

\* Dealing, drawing and adding move cards in threes only.
LEMMA ThreesStep ==
  ASSUME Cardinality(Deck0) % 3 = 0, BoardSize % 3 = 0,
         TypeOK, DealtInThrees, [Next]_vars
  PROVE  DealtInThrees'
<1>. USE DEF DealtInThrees
<1>1. ASSUME NEW p \in Player, NewGame(p)  PROVE DealtInThrees'
  <2>1. PICK s \in Draws(FirstDeal, Deck0) :
          deck' = Deck0 \ OnBoard(s) /\ active' = <<>> \o s
    BY <1>1 DEF NewGame, DealCards
  <2>2. Cardinality(deck') = Cardinality(Deck0) - FirstDeal
    BY <2>1, FirstBoard
  <2>3. Cardinality(Deck0) - FirstDeal \in Nat /\ FirstDeal \in Nat
    BY Typed, SizeAssumption DEF FirstDeal
  <2>4. FirstDeal % 3 = 0
    BY FirstDealNat
  <2>. QED  BY <2>2, <2>3, <2>4, Typed
<1>2. ASSUME NEW p \in Player,
             NEW lo \in DOMAIN active, NEW mid \in DOMAIN active,
             NEW hi \in DOMAIN active, Try3(p, lo, mid, hi)
      PROVE  DealtInThrees'
  <2>1. CASE Try3Good(p, lo, mid, hi)
    <3>. DEFINE rest == Without3(active, lo, mid, hi)
    <3>1. rest \in Seq(Deck0)
      BY <1>2, Typed, Without3Types DEF Try3
    <3>. HIDE DEF rest
    <3>2. CASE deck' = deck
      BY <2>1, <3>2 DEF Try3Good
    <3>3. CASE DealCards(3, deck, rest)
      <4>1. PICK s \in Draws(3, deck) :
              deck' = deck \ OnBoard(s) /\ active' = rest \o s
        BY <3>3 DEF DealCards
      <4>2. Cardinality(deck') = Cardinality(deck) - 3
        BY <3>1, <4>1, Typed, DealTypes
      <4>. QED  BY <2>1, <4>2, Typed, ThreeLess DEF Try3Good
    <3>. QED  BY <2>1, <3>2, <3>3 DEF Try3Good, rest
  <2>2. CASE Try3Bad(p, lo, mid, hi)
    BY <2>2 DEF Try3Bad
  <2>. QED  BY <1>2, <2>1, <2>2 DEF Try3
<1>3. ASSUME NEW p \in Player, Add3(p)  PROVE DealtInThrees'
  <2>1. CASE Add3Good(p)
    <3>1. PICK s \in Draws(3, deck) :
            deck' = deck \ OnBoard(s) /\ active' = active \o s
      BY <2>1 DEF Add3Good, DealCards
    <3>2. Cardinality(deck') = Cardinality(deck) - 3
      BY <3>1, Typed, DealTypes
    <3>. QED  BY <2>1, <3>2, Typed, ThreeLess DEF Add3Good
  <2>2. CASE Add3Bad(p)
    BY <2>2 DEF Add3Bad
  <2>. QED  BY <1>3, <2>1, <2>2 DEF Add3
<1>4. ASSUME NEW p \in Player, NoMore(p)  PROVE DealtInThrees'
  BY <1>4 DEF NoMore, NoMoreGood, NoMoreBad
<1>5. ASSUME NEW p \in Player, AddPlayer(p)  PROVE DealtInThrees'
  BY <1>5 DEF AddPlayer
<1>6. ASSUME NEW p \in Player, DeletePlayer(p)  PROVE DealtInThrees'
  BY <1>6 DEF DeletePlayer
<1>7. CASE UNCHANGED vars
  BY <1>7 DEF vars
<1>. QED  BY <1>1, <1>2, <1>3, <1>4, <1>5, <1>6, <1>7 DEF Next

\* A game that is on always has a next correct move for its players, if the
\* deck has a multiple of three cards, as the 81 have, and twelve, or another
\* multiple of three, are dealt: the deck never ends with one card or two.
THEOREM NoDeadEndThm ==
  ASSUME Cardinality(Deck0) % 3 = 0, BoardSize % 3 = 0
  PROVE  Spec => []NoDeadEnd
<1>1. Init => DealtInThrees
  BY DEF Init, DealtInThrees
<1>2. TypeOK /\ DealtInThrees /\ [Next]_vars => DealtInThrees'
  BY ThreesStep
<1>3. TypeOK /\ DealtInThrees => NoDeadEnd
  <2>. SUFFICES ASSUME TypeOK, DealtInThrees, gactive, ~(Cardinality(deck) >= 3)
                PROVE  deck = {}
    BY DEF NoDeadEnd
  <2>1. Cardinality(deck) = 0
    BY Typed DEF DealtInThrees
  <2>. QED  BY <2>1, Typed, FS_EmptySet
<1>. QED  BY <1>1, <1>2, <1>3, TypeInit, TypeStep, PTL DEF Spec

-----------------------------------------------------------------------------
(* The sets on the players' accounts.                                      *)

\* What is on an account, credit by credit.
LEMMA CreditOf ==
  /\ \A c : c \in Credits <=>
              \E p \in Player : \E k \in 1..numbers[p]["sets_found"] : c = <<p, k>>
  /\ \A c : c \in Credits' <=>
              \E p \in Player : \E k \in 1..numbers'[p]["sets_found"] : c = <<p, k>>
<1>1. \A c : c \in Credits <=>
               \E p \in Player : c \in {p} \X (1..numbers[p]["sets_found"])
  BY DEF Credits
<1>2. \A c : c \in Credits' <=>
               \E p \in Player : c \in {p} \X (1..numbers'[p]["sets_found"])
  BY DEF Credits
<1>. QED  BY <1>1, <1>2

\* A step after which nobody has a set more on the account adds no credit.
LEMMA NoCreditMore ==
  ASSUME TypeOK, TypeOK',
         \A p \in Player : numbers'[p]["sets_found"] <= numbers[p]["sets_found"]
  PROVE  Credits' \subseteq Credits
<1>1. \A p \in Player : /\ numbers[p]["sets_found"] \in Nat
                        /\ numbers'[p]["sets_found"] \in Nat
  BY DEF TypeOK, Counter
<1>2. ASSUME NEW p \in Player, NEW k \in 1..numbers'[p]["sets_found"]
      PROVE  k \in 1..numbers[p]["sets_found"]
  BY <1>1, <1>2
<1>. QED  BY <1>2, CreditOf

\* A set found is one credit more, of the player who found it.
LEMMA OneCreditMore ==
  ASSUME TypeOK, NEW p \in Player, Bump(p, "sets_found")
  PROVE  \E c : Credits' = Credits \cup {c}
<1>. DEFINE n == numbers[p]["sets_found"]
<1>1. n \in Nat /\ numbers'[p]["sets_found"] = n + 1
  BY DEF TypeOK, Counter, Bump
<1>2. \A q \in Player \ {p} : numbers'[q]["sets_found"] = numbers[q]["sets_found"]
  BY DEF TypeOK, Bump
<1>3. 1..(n + 1) = (1..n) \cup {n + 1}
  BY <1>1
<1>4. ASSUME NEW c
      PROVE  c \in Credits' <=> c \in Credits \/ c = <<p, n + 1>>
  <2>1. c \in Credits' <=>
          \E q \in Player : \E k \in 1..numbers'[q]["sets_found"] : c = <<q, k>>
    BY CreditOf
  <2>2. c \in Credits <=>
          \E q \in Player : \E k \in 1..numbers[q]["sets_found"] : c = <<q, k>>
    BY CreditOf
  <2>. QED  BY <1>1, <1>2, <1>3, <2>1, <2>2
<1>. QED  BY <1>4

\* A counter other than the sets found leaves those alone.
LEMMA OtherCounters ==
  ASSUME TypeOK, NEW p \in Player, NEW o \in Counter \ {"sets_found"}, Bump(p, o)
  PROVE  \A q \in Player : numbers'[q]["sets_found"] <= numbers[q]["sets_found"]
<1>1. \A q \in Player : /\ numbers'[q]["sets_found"] = numbers[q]["sets_found"]
                        /\ numbers[q]["sets_found"] \in Nat
  BY DEF TypeOK, Counter, Bump
<1>. QED  BY <1>1

\* However the games follow each other and the players come and go: a new
\* game clears every account, a set found is one credit and one set more,
\* and the account of a player who leaves goes along.
LEMMA CreditsStep == TypeOK /\ CreditsBacked /\ [Next]_vars => CreditsBacked'
<1>. SUFFICES ASSUME TypeOK, CreditsBacked, [Next]_vars  PROVE CreditsBacked'
  OBVIOUS
<1>1. /\ TypeOK' /\ found \in Nat /\ IsFiniteSet(Credits)
      /\ Cardinality(Credits) \in Nat /\ Cardinality(Credits) <= found
  BY TypeStep, FS_CardinalityType DEF TypeOK, CreditsBacked
<1>2. ASSUME \A p \in Player :
               numbers'[p]["sets_found"] <= numbers[p]["sets_found"],
             found' = found
      PROVE  CreditsBacked'
  <2>1. Credits' \in SUBSET Credits
    BY <1>1, <1>2, NoCreditMore
  <2>2. /\ IsFiniteSet(Credits') /\ Cardinality(Credits') \in Nat
        /\ Cardinality(Credits') <= Cardinality(Credits)
    BY <1>1, <2>1, FS_Subset, FS_CardinalityType
  <2>. QED  BY <1>1, <1>2, <2>2 DEF CreditsBacked
<1>3. ASSUME NEW p \in Player, NewGame(p)  PROVE CreditsBacked'
  <2>1. \A q \in Player : numbers'[q]["sets_found"] = 0
    BY <1>3 DEF NewGame, Zero, Counter
  <2>2. \A c : ~(c \in Credits')
    BY <2>1, CreditOf
  <2>3. Credits' = {}
    BY <2>2
  <2>. QED  BY <1>3, <2>3, FS_EmptySet DEF NewGame, CreditsBacked
<1>4. ASSUME NEW p \in Player,
             NEW lo \in DOMAIN active, NEW mid \in DOMAIN active,
             NEW hi \in DOMAIN active, Try3(p, lo, mid, hi)
      PROVE  CreditsBacked'
  <2>1. CASE Try3Good(p, lo, mid, hi)
    <3>1. PICK c : Credits' = Credits \cup {c}
      BY <2>1, OneCreditMore DEF Try3Good
    <3>2. /\ IsFiniteSet(Credits') /\ Cardinality(Credits')
               \in {Cardinality(Credits), Cardinality(Credits) + 1}
      BY <1>1, <3>1, FS_AddElement
    <3>3. found' = found + 1
      BY <2>1 DEF Try3Good
    <3>. QED  BY <1>1, <3>2, <3>3 DEF CreditsBacked
  <2>2. CASE Try3Bad(p, lo, mid, hi)
    BY <1>2, <2>2, OtherCounters DEF Try3Bad, Counter
  <2>. QED  BY <1>4, <2>1, <2>2 DEF Try3
<1>5. ASSUME NEW p \in Player, Add3(p)  PROVE CreditsBacked'
  BY <1>2, <1>5, OtherCounters DEF Add3, Add3Good, Add3Bad, Counter
<1>6. ASSUME NEW p \in Player, NoMore(p)  PROVE CreditsBacked'
  BY <1>2, <1>6, OtherCounters DEF NoMore, NoMoreGood, NoMoreBad, Counter
<1>7. ASSUME NEW p \in Player, AddPlayer(p)  PROVE CreditsBacked'
  <2>1. \A q \in Player : numbers'[q]["sets_found"] <= numbers[q]["sets_found"]
    BY <1>7 DEF AddPlayer, TypeOK, Counter
  <2>. QED  BY <1>2, <1>7, <2>1 DEF AddPlayer
<1>8. ASSUME NEW p \in Player, DeletePlayer(p)  PROVE CreditsBacked'
  <2>1. /\ numbers' = [numbers EXCEPT ![p] = Zero]
        /\ numbers \in [Player -> [Counter -> Nat]]
        /\ "sets_found" \in Counter /\ Zero["sets_found"] = 0
    BY <1>8 DEF DeletePlayer, TypeOK, Counter, Zero
  <2>2. \A q \in Player : numbers'[q]["sets_found"] <= numbers[q]["sets_found"]
    BY <2>1
  <2>. QED  BY <1>2, <1>8, <2>2 DEF DeletePlayer
<1>9. CASE UNCHANGED vars
  <2>1. \A q \in Player : numbers'[q]["sets_found"] <= numbers[q]["sets_found"]
    BY <1>9 DEF vars, TypeOK, Counter
  <2>. QED  BY <1>2, <1>9, <2>1 DEF vars
<1>. QED  BY <1>3, <1>4, <1>5, <1>6, <1>7, <1>8, <1>9 DEF Next

\* At a table nobody has found a set yet nobody has one on the account.
LEMMA CreditsInit == Init => CreditsBacked
<1>. SUFFICES ASSUME Init  PROVE CreditsBacked
  OBVIOUS
<1>1. \A p \in Player : numbers[p]["sets_found"] = 0
  BY DEF Init, Zero, Counter
<1>2. \A c : ~(c \in Credits)
  BY <1>1, CreditOf
<1>3. Credits = {}
  BY <1>2
<1>. QED  BY <1>3, FS_EmptySet DEF Init, CreditsBacked

\* The numbers in the players' list never claim more sets than were found in
\* the game that is on, however often somebody starts anew, leaves or comes
\* back.
THEOREM CreditsBackedThm == Spec => []CreditsBacked
<1>. QED  BY CreditsInit, CreditsStep, TypeInit, TypeStep, PTL DEF Spec

-----------------------------------------------------------------------------
(* What gstate stands for.                                                 *)

\* The counters of a player's mistakes are not the ones a correct move bumps.
LEMMA GoodCounters ==
  ASSUME TypeOK, NEW p \in Player,
         NEW good \in {"sets_found", "add3s_good", "no_more_good"},
         Bump(p, good)
  PROVE  \A q \in Player : \A c \in {"bad_calls", "add3s_bad", "no_more_bad"} :
           numbers'[q][c] = numbers[q][c]
BY DEF TypeOK, Bump, Counter

\* No number is below zero, so none is a mistake counted when all are reset.
LEMMA ResetCounters ==
  ASSUME TypeOK, NEW p \in Player, NEW q \in Player, NEW c \in Counter
  PROVE  /\ ~([r \in Player |-> Zero][q][c] > numbers[q][c])
         /\ ~([numbers EXCEPT ![p] = Zero][q][c] > numbers[q][c])
<1>1. numbers[q][c] \in Nat /\ Zero[c] = 0
  BY DEF TypeOK, Zero
<1>2. [r \in Player |-> Zero][q][c] = 0
  BY <1>1
<1>3. [numbers EXCEPT ![p] = Zero][q][c] \in {0, numbers[q][c]}
  BY <1>1 DEF TypeOK
<1>. QED  BY <1>1, <1>2, <1>3

\* CheckCommandGStateOK compares one number; this is why the number is enough:
\* every change of the board, the deck or the game's being on bumps it by one,
\* and a player's mistake does not move it.
THEOREM GStateVersionsTheGameThm == Spec => GStateVersionsTheGame
<1>. DEFINE Mistake(p, c) == numbers'[p][c] > numbers[p][c]
            Bad == {"bad_calls", "add3s_bad", "no_more_bad"}
            A == /\ <<deck, active, gactive>>' # <<deck, active, gactive>>
                      => gstate' = gstate + 1
                 /\ (\E p \in Player : \E c \in Bad : Mistake(p, c))
                      => gstate' = gstate
<1>1. ASSUME TypeOK, Next  PROVE A
  <2>0. Bad \subseteq Counter
    BY DEF Counter
  <2>1. ASSUME NEW p \in Player, NewGame(p)  PROVE A
    <3>1. gstate' = gstate + 1 /\ numbers' = [q \in Player |-> Zero]
      BY <2>1 DEF NewGame, GameStateBump
    <3>2. \A q \in Player : \A c \in Bad : ~Mistake(q, c)
      BY <1>1, <2>0, <2>1, <3>1, ResetCounters
    <3>. QED  BY <3>1, <3>2
  <2>2. ASSUME NEW p \in Player,
               NEW lo \in DOMAIN active, NEW mid \in DOMAIN active,
               NEW hi \in DOMAIN active, Try3(p, lo, mid, hi)
        PROVE  A
    <3>1. CASE Try3Good(p, lo, mid, hi)
      <4>1. gstate' = gstate + 1 /\ Bump(p, "sets_found")
        BY <3>1 DEF Try3Good, GameStateBump
      <4>2. \A q \in Player : \A c \in Bad : numbers'[q][c] = numbers[q][c]
        BY <1>1, <4>1, GoodCounters
      <4>3. \A q \in Player : \A c \in Bad : ~Mistake(q, c)
        BY <1>1, <2>0, <4>2 DEF TypeOK
      <4>. QED  BY <4>1, <4>3
    <3>2. CASE Try3Bad(p, lo, mid, hi)
      BY <3>2 DEF Try3Bad, StateBump
    <3>. QED  BY <2>2, <3>1, <3>2 DEF Try3
  <2>3. ASSUME NEW p \in Player, Add3(p)  PROVE A
    <3>1. CASE Add3Good(p)
      <4>1. gstate' = gstate + 1 /\ Bump(p, "add3s_good")
        BY <3>1 DEF Add3Good, GameStateBump
      <4>2. \A q \in Player : \A c \in Bad : numbers'[q][c] = numbers[q][c]
        BY <1>1, <4>1, GoodCounters
      <4>3. \A q \in Player : \A c \in Bad : ~Mistake(q, c)
        BY <1>1, <2>0, <4>2 DEF TypeOK
      <4>. QED  BY <4>1, <4>3
    <3>2. CASE Add3Bad(p)
      BY <3>2 DEF Add3Bad
    <3>. QED  BY <2>3, <3>1, <3>2 DEF Add3
  <2>4. ASSUME NEW p \in Player, NoMore(p)  PROVE A
    <3>1. CASE NoMoreGood(p)
      <4>1. gstate' = gstate + 1 /\ Bump(p, "no_more_good")
        BY <3>1 DEF NoMoreGood, GameStateBump
      <4>2. \A q \in Player : \A c \in Bad : numbers'[q][c] = numbers[q][c]
        BY <1>1, <4>1, GoodCounters
      <4>3. \A q \in Player : \A c \in Bad : ~Mistake(q, c)
        BY <1>1, <2>0, <4>2 DEF TypeOK
      <4>. QED  BY <4>1, <4>3
    <3>2. CASE NoMoreBad(p)
      BY <3>2 DEF NoMoreBad, StateBump
    <3>. QED  BY <2>4, <3>1, <3>2 DEF NoMore
  <2>5. ASSUME NEW p \in Player, AddPlayer(p)  PROVE A
    BY <2>5 DEF AddPlayer
  <2>6. ASSUME NEW p \in Player, DeletePlayer(p)  PROVE A
    BY <2>6 DEF DeletePlayer, StateBump
  <2>. QED  BY <1>1, <2>1, <2>2, <2>3, <2>4, <2>5, <2>6 DEF Next
<1>2. ASSUME TypeOK, [Next]_vars  PROVE [A]_vars
  BY <1>1, <1>2
<1>3. Spec => []TypeOK
  BY TypeCorrect
<1>. QED  BY <1>2, <1>3, PTL DEF Spec, GStateVersionsTheGame

-----------------------------------------------------------------------------
(* The inductive invariant.                                                *)

CommandType == [op : Ops, gstate : Int, pos : Seq(Nat), cards : Seq(Deck0)]
MessageType == [cmd : {"GSTATE", "NTBL", "JOIN"}, game : GameView]

\* What a client shows, or a message tells, is not ahead of the table, and is
\* the game at the table if it has its gstate.
Faithful(g) == g.gstate <= gstate /\ (g.gstate = gstate => g = Snapshot)

\* A command that would be let through was given by a client that saw this
\* very board, this deck and this game on.
Fits(c) ==
  /\ c.gstate <= gstate
  /\ c.gstate = gstate =>
       /\ c.op = "try3" =>
            \E lo, mid, hi \in DOMAIN active :
              /\ lo < mid /\ mid < hi
              /\ c.pos = <<lo, mid, hi>>
              /\ c.cards = <<active[lo], active[mid], active[hi]>>
       /\ c.op \in {"add3", "nmor"} => gactive
       /\ c.op = "nmor" => Cardinality(deck) = 0

CommandsFit == \A p \in Player : \A n \in DOMAIN up[p] : Fits(up[p][n])
ViewsFaithful == \A p \in Player : Faithful(view[p].game)
MessagesFaithful ==
  \A p \in Player : \A n \in DOMAIN down[p] :
    down[p][n].cmd = "GSTATE" => Faithful(down[p][n].game)
NothingDealtYet == gstate = 0 => deck = {} /\ active = <<>> /\ ~gactive

SyncInv ==
  /\ SyncTypeOK
  /\ CommandsFit
  /\ ViewsFaithful
  /\ MessagesFaithful
  /\ NothingDealtYet

\* SameGStateSameGame, taken apart.
LEMMA FaithfulIsSame == ViewsFaithful /\ MessagesFaithful <=> SameGStateSameGame
BY DEF ViewsFaithful, MessagesFaithful, SameGStateSameGame, Faithful

-----------------------------------------------------------------------------
(* Queues.                                                                 *)

\* What is taken off a queue was in it, and so was all that stays.
LEMMA TakeOff ==
  ASSUME NEW S, NEW q \in Seq(S), q # <<>>
  PROVE  /\ 1 \in DOMAIN q /\ Head(q) = q[1] /\ Head(q) \in S
         /\ Tail(q) \in Seq(S)
         /\ \A n \in DOMAIN Tail(q) : n + 1 \in DOMAIN q /\ Tail(q)[n] = q[n + 1]
<1>1. Len(q) \in Nat /\ Len(q) # 0 /\ DOMAIN q = 1..Len(q)
  BY LenProperties, EmptySeq
<1>2. Head(q) \in S /\ Tail(q) \in Seq(S) /\ Len(Tail(q)) = Len(q) - 1
  BY HeadTailProperties
<1>3. DOMAIN Tail(q) = 1..(Len(q) - 1)
  BY <1>2, LenProperties
<1>4. \A n \in DOMAIN Tail(q) : n + 1 \in DOMAIN q /\ Tail(q)[n] = q[n + 1]
  BY <1>1, <1>2, <1>3, HeadTailProperties
<1>. QED  BY <1>1, <1>2, <1>4

\* A queue that got longer holds what it held, and the new element.
LEMMA PutOn ==
  ASSUME NEW S, NEW q \in Seq(S), NEW e \in S
  PROVE  /\ Append(q, e) \in Seq(S)
         /\ \A n \in DOMAIN Append(q, e) :
              \/ Append(q, e)[n] = e
              \/ n \in DOMAIN q /\ Append(q, e)[n] = q[n]
<1>1. Len(q) \in Nat /\ DOMAIN q = 1..Len(q)
  BY LenProperties
<1>2. Append(q, e) \in Seq(S) /\ Len(Append(q, e)) = Len(q) + 1
  BY AppendProperties
<1>3. DOMAIN Append(q, e) = 1..(Len(q) + 1)
  BY <1>2, LenProperties
<1>. QED  BY <1>1, <1>2, <1>3, AppendProperties

-----------------------------------------------------------------------------
(* What the table's own steps mean to the clients.                         *)

\* A step of the table bumps gstate, or leaves the game as it is.
LEMMA GStateMoves ==
  ASSUME [Next]_vars
  PROVE  gstate' = gstate + 1 \/ UNCHANGED <<deck, active, gactive, gstate>>
<1>. DEFINE A == gstate' = gstate + 1 \/ UNCHANGED <<deck, active, gactive, gstate>>
<1>1. ASSUME NEW p \in Player, NewGame(p)  PROVE A
  BY <1>1 DEF NewGame, GameStateBump
<1>2. ASSUME NEW p \in Player, NEW lo \in DOMAIN active,
             NEW mid \in DOMAIN active, NEW hi \in DOMAIN active,
             Try3(p, lo, mid, hi)
      PROVE  A
  BY <1>2 DEF Try3, Try3Good, Try3Bad, GameStateBump, StateBump
<1>3. ASSUME NEW p \in Player, Add3(p)  PROVE A
  BY <1>3 DEF Add3, Add3Good, Add3Bad, GameStateBump
<1>4. ASSUME NEW p \in Player, NoMore(p)  PROVE A
  BY <1>4 DEF NoMore, NoMoreGood, NoMoreBad, GameStateBump, StateBump
<1>5. ASSUME NEW p \in Player, AddPlayer(p)  PROVE A
  BY <1>5 DEF AddPlayer
<1>6. ASSUME NEW p \in Player, DeletePlayer(p)  PROVE A
  BY <1>6 DEF DeletePlayer, StateBump
<1>7. CASE UNCHANGED vars
  BY <1>7 DEF vars
<1>. QED  BY <1>1, <1>2, <1>3, <1>4, <1>5, <1>6, <1>7 DEF Next

\* So whatever was faithful stays so, a command that fitted still fits, and
\* what is told after the step is faithful.
LEMMA StaysFaithful ==
  ASSUME TypeOK, NothingDealtYet, [Next]_vars
  PROVE  /\ \A g \in GameView : Faithful(g) => Faithful(g)'
         /\ \A c \in CommandType : Fits(c) => Fits(c)'
         /\ NothingDealtYet'
<1>1. gstate \in Nat /\ gstate' \in Nat
  BY TypeStep DEF TypeOK
<1>2. CASE gstate' = gstate + 1
  <2>1. \A g \in GameView : Faithful(g) => Faithful(g)'
    BY <1>1, <1>2 DEF Faithful, GameView
  <2>2. \A c \in CommandType : Fits(c) => Fits(c)'
    BY <1>1, <1>2 DEF Fits, CommandType
  <2>3. NothingDealtYet'
    BY <1>1, <1>2 DEF NothingDealtYet
  <2>. QED  BY <2>1, <2>2, <2>3
<1>3. CASE UNCHANGED <<deck, active, gactive, gstate>>
  <2>1. Snapshot' = Snapshot
    BY <1>3 DEF Snapshot
  <2>. QED  BY <1>3, <2>1 DEF Faithful, Fits, NothingDealtYet
<1>. QED  BY <1>2, <1>3, GStateMoves

\* The game told is the table's game.
LEMMA SnapshotType == TypeOK => Snapshot \in GameView /\ Faithful(Snapshot)
<1>. SUFFICES ASSUME TypeOK  PROVE Snapshot \in GameView /\ Faithful(Snapshot)
  OBVIOUS
<1>1. gstate \in Int /\ Cardinality(deck) \in Int /\ active \in Seq(Deck0)
      /\ gactive \in BOOLEAN
  BY Typed DEF TypeOK
<1>. QED  BY <1>1 DEF Snapshot, GameView, Faithful

\* Likewise after a step.
LEMMA SnapshotNext ==
  TypeOK' => (Snapshot \in GameView /\ gstate \in Nat /\ Snapshot.gstate = gstate)'
<1>1. TypeOK => Snapshot \in GameView /\ gstate \in Nat /\ Snapshot.gstate = gstate
  BY SnapshotType DEF TypeOK, Snapshot
<1>. QED  BY <1>1, PTL

\* Nobody is ahead of a table by knowing of no game.
LEMMA NoGameType ==
  ASSUME TypeOK
  PROVE  NoGame \in GameView /\ Faithful(NoGame)
<1>1. <<>> \in Seq(Deck0)
  BY EmptySeq
<1>. QED  BY <1>1 DEF NoGame, GameView, Faithful, TypeOK
-----------------------------------------------------------------------------
(* What each part of a step of SyncNext does to the invariant.             *)

\* The types, one field at a time.
LEMMA Queues ==
  ASSUME SyncTypeOK
  PROVE  /\ TypeOK
         /\ view \in [Player -> [game : GameView, mayStart : BOOLEAN]]
         /\ up \in [Player -> Seq(CommandType)]
         /\ down \in [Player -> Seq(MessageType)]
BY DEF SyncTypeOK, CommandType, MessageType

\* What the server takes is what the oldest command asks for, and that fits.
LEMMA TakeFits ==
  ASSUME SyncInv, NEW p \in Player, NEW ops, Take(p, ops)
  PROVE  /\ Head(up[p]) \in CommandType /\ Fits(Head(up[p]))
         /\ up' \in [Player -> Seq(CommandType)]
         /\ \A q \in Player : \A n \in DOMAIN up'[q] :
              \E m \in DOMAIN up[q] : up'[q][n] = up[q][m]
<1>1. up \in [Player -> Seq(CommandType)] /\ up[p] # <<>>
      /\ up' = [up EXCEPT ![p] = Tail(@)]
  BY Queues DEF SyncInv, Take
<1>2. /\ 1 \in DOMAIN up[p] /\ Head(up[p]) = up[p][1] /\ Head(up[p]) \in CommandType
      /\ Tail(up[p]) \in Seq(CommandType)
      /\ \A n \in DOMAIN Tail(up[p]) :
           n + 1 \in DOMAIN up[p] /\ Tail(up[p])[n] = up[p][n + 1]
  BY <1>1, TakeOff
<1>3. up' \in [Player -> Seq(CommandType)]
  BY <1>1, <1>2
<1>4. Fits(Head(up[p]))
  BY <1>2 DEF SyncInv, CommandsFit
<1>5. ASSUME NEW q \in Player, NEW n \in DOMAIN up'[q]
      PROVE  \E m \in DOMAIN up[q] : up'[q][n] = up[q][m]
  <2>1. CASE q = p
    <3>1. up'[q] = Tail(up[p])
      BY <1>1, <2>1
    <3>. QED  BY <1>2, <2>1, <3>1
  <2>2. CASE q # p
    <3>1. up'[q] = up[q]
      BY <1>1, <2>2
    <3>. QED  BY <3>1
  <2>. QED  BY <2>1, <2>2
<1>. QED  BY <1>2, <1>3, <1>4, <1>5

\* Every command the server accepts, and every seat taken or lost, is a step
\* of the table: the positions of a claim that is let through lie on the board.
LEMMA TableMoves ==
  ASSUME SyncInv, NEW p \in Player, ServerStep(p) \/ Join(p) \/ Leave(p)
  PROVE  [Next]_vars
<1>1. CASE DropStale(p)
  BY <1>1 DEF DropStale
<1>2. CASE ServeNewGame(p)
  BY <1>2 DEF ServeNewGame, Next
<1>3. CASE ServeTry3(p)
  <2>1. Fits(Head(up[p])) /\ Head(up[p]).op = "try3" /\ Head(up[p]).gstate = gstate
    BY <1>3, TakeFits DEF ServeTry3, Take, Current
  <2>2. PICK lo \in DOMAIN active, mid \in DOMAIN active, hi \in DOMAIN active :
          Head(up[p]).pos = <<lo, mid, hi>>
    BY <2>1 DEF Fits
  <2>3. Try3(p, lo, mid, hi)
    BY <1>3, <2>2 DEF ServeTry3
  <2>. QED  BY <2>3 DEF Next
<1>4. CASE ServeAdd3(p)
  BY <1>4 DEF ServeAdd3, Next
<1>5. CASE ServeNoMore(p)
  BY <1>5 DEF ServeNoMore, Next
<1>6. CASE Join(p)
  BY <1>6 DEF Join, Next
<1>7. CASE Leave(p)
  BY <1>7 DEF Leave, Next
<1>. QED  BY <1>1, <1>2, <1>3, <1>4, <1>5, <1>6, <1>7 DEF ServerStep

\* All who sit at the table are told the game as it is after the step, behind
\* what they were told before; nobody else has a message any more.
LEMMA BroadcastTells ==
  ASSUME TypeOK', NEW m \in [Player -> Seq(MessageType)], Broadcast(m),
         \A q \in Player : \A n \in DOMAIN m[q] :
           m[q][n].cmd = "GSTATE" => Faithful(m[q][n].game)'
  PROVE  down' \in [Player -> Seq(MessageType)] /\ MessagesFaithful'
<1>1. Snapshot' \in GameView /\ gstate' \in Nat /\ Snapshot'.gstate = gstate'
  BY SnapshotNext
<1>2. PICK s \in GameView : s = Snapshot'
  BY <1>1
<1>3. GState(s) \in MessageType /\ GState(s).game = s
  BY DEF GState, MessageType
<1>4. down' = [q \in Player |-> IF q \in Seated' THEN Append(m[q], GState(s)) ELSE <<>>]
  BY <1>2 DEF Broadcast
<1>5. Faithful(s)'
  BY <1>1, <1>2 DEF Faithful
<1>6. ASSUME NEW q \in Player
      PROVE  /\ down'[q] \in Seq(MessageType)
             /\ \A n \in DOMAIN down'[q] :
                  \/ down'[q][n] = GState(s)
                  \/ n \in DOMAIN m[q] /\ down'[q][n] = m[q][n]
  <2>1. CASE q \in Seated'
    <3>1. down'[q] = Append(m[q], GState(s)) /\ m[q] \in Seq(MessageType)
      BY <1>4, <2>1
    <3>2. /\ Append(m[q], GState(s)) \in Seq(MessageType)
          /\ \A n \in DOMAIN Append(m[q], GState(s)) :
               \/ Append(m[q], GState(s))[n] = GState(s)
               \/ n \in DOMAIN m[q] /\ Append(m[q], GState(s))[n] = m[q][n]
      BY <1>3, <3>1, PutOn
    <3>. QED  BY <3>1, <3>2
  <2>2. CASE q \notin Seated'
    <3>1. down'[q] = <<>> /\ <<>> \in Seq(MessageType) /\ DOMAIN down'[q] = {}
      BY <1>4, <2>2, EmptySeq
    <3>. QED  BY <3>1
  <2>. QED  BY <2>1, <2>2
<1>7. ASSUME NEW q \in Player, NEW n \in DOMAIN down'[q], down'[q][n].cmd = "GSTATE"
      PROVE  Faithful(down[q][n].game)'
  <2>1. CASE down'[q][n] = GState(s)
    BY <1>3, <1>5, <2>1 DEF Faithful
  <2>2. CASE n \in DOMAIN m[q] /\ down'[q][n] = m[q][n]
    <3>1. Faithful(m[q][n].game)'
      BY <1>7, <2>2
    <3>. QED  BY <2>2, <3>1 DEF Faithful
  <2>. QED  BY <1>6, <2>1, <2>2
<1>8. down' \in [Player -> Seq(MessageType)]
  BY <1>4, <1>6
<1>. QED  BY <1>7, <1>8 DEF MessagesFaithful
\* When the table makes a step, no command is new and no client shows a new
\* game, the invariant is kept if what is told is right.
LEMMA TableStepKeeps ==
  ASSUME SyncInv, [Next]_vars,
         up' \in [Player -> Seq(CommandType)],
         \A q \in Player : \A n \in DOMAIN up'[q] :
           \E m \in DOMAIN up[q] : up'[q][n] = up[q][m],
         view' \in [Player -> [game : GameView, mayStart : BOOLEAN]],
         \A q \in Player : view'[q].game \in {view[q].game, NoGame},
         down' \in [Player -> Seq(MessageType)],
         MessagesFaithful'
  PROVE  SyncInv'
<1>1. /\ TypeOK /\ TypeOK' /\ NothingDealtYet
      /\ up \in [Player -> Seq(CommandType)]
      /\ view \in [Player -> [game : GameView, mayStart : BOOLEAN]]
  BY Queues, TypeStep DEF SyncInv
<1>2. /\ \A g \in GameView : Faithful(g) => Faithful(g)'
      /\ \A c \in CommandType : Fits(c) => Fits(c)'
      /\ NothingDealtYet'
  BY <1>1, StaysFaithful
<1>3. CommandsFit'
  <2>1. ASSUME NEW q \in Player, NEW n \in DOMAIN up'[q]  PROVE Fits(up[q][n])'
    <3>1. PICK m \in DOMAIN up[q] : up'[q][n] = up[q][m]
      OBVIOUS
    <3>2. up[q][m] \in CommandType
      <4>1. up[q] \in Seq(CommandType)
        BY <1>1
      <4>. QED  BY <4>1, LenProperties, ElementOfSeq
    <3>3. PICK c \in CommandType : c = up[q][m]
      BY <3>2
    <3>4. Fits(c)
      BY <3>3 DEF SyncInv, CommandsFit
    <3>5. Fits(c)' /\ c = up'[q][n]
      BY <1>2, <3>1, <3>3, <3>4
    <3>. QED  BY <3>5 DEF Fits
  <2>. QED  BY <2>1 DEF CommandsFit
<1>4. ViewsFaithful'
  <2>1. ASSUME NEW q \in Player  PROVE Faithful(view[q].game)'
    <3>1. /\ view[q].game \in GameView /\ Faithful(view[q].game)
          /\ NoGame \in GameView /\ Faithful(NoGame)
      BY <1>1, NoGameType DEF SyncInv, ViewsFaithful
    <3>2. PICK g \in GameView : g = view'[q].game /\ Faithful(g)
      BY <3>1
    <3>3. Faithful(g)'
      BY <1>2, <3>2
    <3>. QED  BY <3>2, <3>3 DEF Faithful
  <2>. QED  BY <2>1 DEF ViewsFaithful
<1>5. SyncTypeOK'
  BY <1>1 DEF SyncTypeOK, CommandType, MessageType
<1>. QED  BY <1>2, <1>3, <1>4, <1>5 DEF SyncInv

\* The messages that were on their way stay right whatever the table does, and
\* with the new game behind them all that the clients are told is.
LEMMA StepIsTold ==
  ASSUME SyncInv, [Next]_vars,
         NEW m \in [Player -> Seq(MessageType)], Broadcast(m),
         \A q \in Player : \A n \in DOMAIN m[q] :
           m[q][n].cmd = "GSTATE" => n \in DOMAIN down[q] /\ m[q][n] = down[q][n]
  PROVE  down' \in [Player -> Seq(MessageType)] /\ MessagesFaithful'
<1>1. TypeOK /\ TypeOK' /\ NothingDealtYet
  BY Queues, TypeStep DEF SyncInv
<1>2. ASSUME NEW q \in Player, NEW n \in DOMAIN m[q], m[q][n].cmd = "GSTATE"
      PROVE  Faithful(m[q][n].game)'
  <2>1. m[q][n] \in MessageType
    <3>1. m[q] \in Seq(MessageType)
      OBVIOUS
    <3>. QED  BY <3>1, LenProperties, ElementOfSeq
  <2>2. m[q][n].game \in GameView
    BY <2>1 DEF MessageType
  <2>3. Faithful(m[q][n].game)
    BY <1>2 DEF SyncInv, MessagesFaithful
  <2>. QED  BY <1>1, <2>2, <2>3, StaysFaithful
<1>. QED  BY <1>1, <1>2, BroadcastTells

\* A client sends a command that fits.
LEMMA SendKeeps ==
  ASSUME SyncInv, NEW p \in Player, NEW c \in CommandType, Fits(c), Send(p, c)
  PROVE  SyncInv'
<1>1. /\ up \in [Player -> Seq(CommandType)]
      /\ up' = [up EXCEPT ![p] = Append(@, c)]
      /\ UNCHANGED <<view, down>> /\ UNCHANGED vars
  BY Queues DEF SyncInv, Send
<1>2. /\ Append(up[p], c) \in Seq(CommandType)
      /\ \A n \in DOMAIN Append(up[p], c) :
           \/ Append(up[p], c)[n] = c
           \/ n \in DOMAIN up[p] /\ Append(up[p], c)[n] = up[p][n]
  <2>1. up[p] \in Seq(CommandType)
    BY <1>1
  <2>. QED  BY <2>1, PutOn
<1>3. up' \in [Player -> Seq(CommandType)]
  BY <1>1, <1>2
<1>4. ASSUME NEW q \in Player, NEW n \in DOMAIN up'[q]
      PROVE  Fits(up'[q][n])
  <2>1. CASE q = p
    <3>1. up'[q] = Append(up[p], c)
      BY <1>1, <2>1
    <3>. QED  BY <1>2, <2>1, <3>1 DEF SyncInv, CommandsFit
  <2>2. CASE q # p
    <3>1. up'[q] = up[q]
      BY <1>1, <2>2
    <3>. QED  BY <3>1 DEF SyncInv, CommandsFit
  <2>. QED  BY <2>1, <2>2
<1>5. UNCHANGED <<deck, active, gactive, gstate, view, down>>
  BY <1>1 DEF vars
<1>6. CommandsFit'
  BY <1>4, <1>5 DEF CommandsFit, Fits
<1>7. ViewsFaithful' /\ MessagesFaithful' /\ NothingDealtYet'
  BY <1>5 DEF SyncInv, ViewsFaithful, MessagesFaithful, NothingDealtYet, Faithful, Snapshot
<1>8. SyncTypeOK'
  <2>1. TypeOK'
    BY <1>1, TypeStep, Queues DEF SyncInv
  <2>. QED  BY <1>3, <1>5, <2>1 DEF SyncInv, SyncTypeOK, CommandType
<1>. QED  BY <1>6, <1>7, <1>8 DEF SyncInv
\* What a client sends fits: it was made from what it shows, which is the
\* game at the table if the gstate is.
LEMMA ClientKeeps ==
  ASSUME SyncInv, NEW p \in Player, ClientStep(p)
  PROVE  SyncInv'
<1>. DEFINE g == view[p].game
<1>1. /\ TypeOK /\ g \in GameView /\ Faithful(g)
      /\ g.active \in Seq(Deck0) /\ g.gstate \in Int
  <2>1. TypeOK /\ g \in GameView /\ Faithful(g)
    BY Queues DEF SyncInv, ViewsFaithful
  <2>. QED  BY <2>1 DEF GameView
<1>2. <<>> \in Seq(Nat) /\ <<>> \in Seq(Deck0)
  BY EmptySeq
<1>3. Snapshot.active = active /\ Snapshot.gactive = gactive
      /\ Snapshot.deck = Cardinality(deck) /\ gstate \in Nat
  BY <1>1 DEF Snapshot, TypeOK
<1>4. ASSUME SendNewGame(p)  PROVE SyncInv'
  <2>. DEFINE c == Command("gnew", -1, <<>>, <<>>)
  <2>1. c \in CommandType /\ Send(p, c)
    BY <1>2, <1>4 DEF SendNewGame, Command, CommandType, Ops
  <2>2. Fits(c)
    BY <1>3 DEF Fits, Command
  <2>. HIDE DEF c
  <2>. QED  BY <2>1, <2>2, SendKeeps
<1>5. ASSUME SendTry3(p)  PROVE SyncInv'
  <2>1. PICK lo \in DOMAIN g.active, mid \in DOMAIN g.active, hi \in DOMAIN g.active :
          /\ lo < mid /\ mid < hi
          /\ Send(p, Command("try3", g.gstate, <<lo, mid, hi>>,
                             <<g.active[lo], g.active[mid], g.active[hi]>>))
    BY <1>5 DEF SendTry3
  <2>. DEFINE c == Command("try3", g.gstate, <<lo, mid, hi>>,
                           <<g.active[lo], g.active[mid], g.active[hi]>>)
  <2>2. c \in CommandType
    <3>1. lo \in 1..Len(g.active) /\ mid \in 1..Len(g.active) /\ hi \in 1..Len(g.active)
          /\ Len(g.active) \in Nat
      BY <1>1, LenProperties
    <3>2. <<lo, mid, hi>> \in Seq(Nat)
      BY <3>1
    <3>3. <<g.active[lo], g.active[mid], g.active[hi]>> \in Seq(Deck0)
      BY <1>1, <3>1, ElementOfSeq
    <3>. QED  BY <1>1, <3>2, <3>3 DEF Command, CommandType, Ops
  <2>3. Fits(c)
    <3>1. g.gstate <= gstate /\ (g.gstate = gstate => g.active = active)
      BY <1>1, <1>3 DEF Faithful
    <3>. QED  BY <2>1, <3>1 DEF Fits, Command
  <2>. HIDE DEF c
  <2>4. Send(p, c)
    BY <2>1 DEF c
  <2>. QED  BY <2>2, <2>3, <2>4, SendKeeps
<1>6. ASSUME SendAdd3NoMore(p)  PROVE SyncInv'
  <2>. DEFINE op == IF g.deck # 0 THEN "add3" ELSE "nmor"
              c == Command(op, g.gstate, <<>>, <<>>)
  <2>1. c \in CommandType /\ Send(p, c) /\ g.gactive
    BY <1>1, <1>2, <1>6 DEF SendAdd3NoMore, Command, CommandType, Ops
  <2>2. Fits(c)
    <3>1. /\ g.gstate <= gstate
          /\ g.gstate = gstate => gactive /\ g.deck = Cardinality(deck)
      BY <1>1, <1>3, <2>1 DEF Faithful
    <3>. QED  BY <3>1 DEF Fits, Command
  <2>. HIDE DEF c
  <2>. QED  BY <2>1, <2>2, SendKeeps
<1>. QED  BY <1>4, <1>5, <1>6 DEF ClientStep

\* A client shows the game it is told.
LEMMA ReceiveKeeps ==
  ASSUME SyncInv, NEW p \in Player, OnReceived(p)
  PROVE  SyncInv'
<1>. DEFINE m == Head(down[p])
<1>1. /\ TypeOK /\ up \in [Player -> Seq(CommandType)]
      /\ view \in [Player -> [game : GameView, mayStart : BOOLEAN]]
      /\ down \in [Player -> Seq(MessageType)] /\ down[p] # <<>>
      /\ down' = [down EXCEPT ![p] = Tail(@)]
      /\ UNCHANGED up /\ UNCHANGED vars
  BY Queues DEF SyncInv, OnReceived
<1>2. /\ 1 \in DOMAIN down[p] /\ m = down[p][1] /\ m \in MessageType
      /\ Tail(down[p]) \in Seq(MessageType)
      /\ \A n \in DOMAIN Tail(down[p]) :
           n + 1 \in DOMAIN down[p] /\ Tail(down[p])[n] = down[p][n + 1]
  <2>1. down[p] \in Seq(MessageType)
    BY <1>1
  <2>. QED  BY <1>1, <2>1, TakeOff
<1>3. /\ down' \in [Player -> Seq(MessageType)]
      /\ \A q \in Player : \A n \in DOMAIN down'[q] :
           down'[q][n].cmd = "GSTATE" => Faithful(down'[q][n].game)
  <2>1. down' \in [Player -> Seq(MessageType)]
    BY <1>1, <1>2
  <2>2. ASSUME NEW q \in Player, NEW n \in DOMAIN down'[q],
               down'[q][n].cmd = "GSTATE"
        PROVE  Faithful(down'[q][n].game)
    <3>1. CASE q = p
      <4>1. down'[q] = Tail(down[p])
        BY <1>1, <3>1
      <4>2. n + 1 \in DOMAIN down[p] /\ down'[q][n] = down[p][n + 1]
        BY <1>2, <4>1
      <4>. QED  BY <2>2, <4>2 DEF SyncInv, MessagesFaithful
    <3>2. CASE q # p
      <4>1. down'[q] = down[q]
        BY <1>1, <3>2
      <4>. QED  BY <2>2, <4>1 DEF SyncInv, MessagesFaithful
    <3>. QED  BY <3>1, <3>2
  <2>. QED  BY <2>1, <2>2
<1>4. \/ /\ m.cmd = "GSTATE" /\ Faithful(m.game)
         /\ view' = [view EXCEPT ![p].game = m.game]
      \/ view' = [view EXCEPT ![p].mayStart = TRUE]
      \/ view' = [view EXCEPT ![p].mayStart = FALSE]
  <2>. DEFINE V == CASE m.cmd = "GSTATE" -> [view[p] EXCEPT !.game = m.game]
                     [] m.cmd = "NTBL"   -> [view[p] EXCEPT !.mayStart = TRUE]
                     [] m.cmd = "JOIN"   -> [view[p] EXCEPT !.mayStart = FALSE]
  <2>1. view' = [view EXCEPT ![p] = V]
    BY DEF OnReceived
  <2>2. CASE m.cmd = "GSTATE"
    <3>1. Faithful(m.game)
      BY <1>2, <2>2 DEF SyncInv, MessagesFaithful
    <3>. QED  BY <1>1, <2>1, <2>2, <3>1
  <2>3. CASE m.cmd = "NTBL"
    BY <1>1, <2>1, <2>3
  <2>4. CASE m.cmd = "JOIN"
    BY <1>1, <2>1, <2>4
  <2>5. m.cmd \in {"GSTATE", "NTBL", "JOIN"}
    BY <1>2 DEF MessageType
  <2>. QED  BY <2>2, <2>3, <2>4, <2>5
<1>5. /\ view' \in [Player -> [game : GameView, mayStart : BOOLEAN]]
      /\ \A q \in Player : Faithful(view'[q].game)
  <2>1. m.game \in GameView
    BY <1>2 DEF MessageType
  <2>2. \A q \in Player : Faithful(view[q].game)
    BY DEF SyncInv, ViewsFaithful
  <2>. HIDE DEF m
  <2>3. CASE Faithful(m.game) /\ view' = [view EXCEPT ![p].game = m.game]
    <3>1. view' \in [Player -> [game : GameView, mayStart : BOOLEAN]]
      BY <1>1, <2>1, <2>3
    <3>2. \A q \in Player : view'[q].game = IF q = p THEN m.game ELSE view[q].game
      BY <1>1, <2>3
    <3>. QED  BY <2>2, <2>3, <3>1, <3>2
  <2>4. ASSUME NEW b \in BOOLEAN, view' = [view EXCEPT ![p].mayStart = b]
        PROVE  <1>5!1 /\ <1>5!2
    <3>1. view' \in [Player -> [game : GameView, mayStart : BOOLEAN]]
      BY <1>1, <2>4
    <3>2. \A q \in Player : view'[q].game = view[q].game
      BY <1>1, <2>4
    <3>. QED  BY <2>2, <3>1, <3>2
  <2>. QED  BY <1>4, <2>3, <2>4
<1>6. UNCHANGED <<deck, active, gactive, gstate, up>>
  BY <1>1 DEF vars
<1>7. ViewsFaithful' /\ MessagesFaithful'
  BY <1>3, <1>5, <1>6 DEF ViewsFaithful, MessagesFaithful, Faithful, Snapshot
<1>8. CommandsFit' /\ NothingDealtYet'
  BY <1>6 DEF SyncInv, CommandsFit, Fits, NothingDealtYet
<1>9. SyncTypeOK'
  <2>1. TypeOK'
    BY <1>1, TypeStep
  <2>. QED  BY <1>1, <1>3, <1>5, <2>1 DEF SyncTypeOK, CommandType, MessageType
<1>. QED  BY <1>7, <1>8, <1>9 DEF SyncInv
\* The server takes a command and serves it, or drops it.
LEMMA ServeKeeps ==
  ASSUME SyncInv, NEW p \in Player, ServerStep(p)
  PROVE  SyncInv'
<1>1. /\ view \in [Player -> [game : GameView, mayStart : BOOLEAN]]
      /\ down \in [Player -> Seq(MessageType)]
  BY Queues DEF SyncInv
<1>2. [Next]_vars
  BY TableMoves
<1>3. PICK ops : Take(p, ops)
  BY DEF ServerStep, DropStale, ServeNewGame, ServeTry3, ServeAdd3, ServeNoMore
<1>4. /\ up' \in [Player -> Seq(CommandType)]
      /\ \A q \in Player : \A n \in DOMAIN up'[q] :
           \E m \in DOMAIN up[q] : up'[q][n] = up[q][m]
      /\ view' = view
  BY <1>3, TakeFits DEF Take
<1>5. \/ UNCHANGED down /\ UNCHANGED vars
      \/ Broadcast(down)
  BY DEF ServerStep, DropStale, ServeNewGame, ServeTry3, ServeAdd3, ServeNoMore
<1>6. down' \in [Player -> Seq(MessageType)] /\ MessagesFaithful'
  <2>1. CASE UNCHANGED down /\ UNCHANGED vars
    BY <1>1, <2>1 DEF SyncInv, MessagesFaithful, Faithful, Snapshot, vars
  <2>2. CASE Broadcast(down)
    BY <1>1, <1>2, <2>2, StepIsTold
  <2>. QED  BY <1>5, <2>1, <2>2
<1>. QED  BY <1>1, <1>2, <1>4, <1>6, TableStepKeeps

\* A new connection is told of its seat first, and then of the game.
LEMMA JoinKeeps ==
  ASSUME SyncInv, NEW p \in Player, Join(p)
  PROVE  SyncInv'
<1>. DEFINE m == [down EXCEPT ![p] = <<JoinReply>>]
<1>1. /\ TypeOK
      /\ view \in [Player -> [game : GameView, mayStart : BOOLEAN]]
      /\ up \in [Player -> Seq(CommandType)]
      /\ down \in [Player -> Seq(MessageType)]
      /\ UNCHANGED <<view, up>>
  BY Queues DEF SyncInv, Join
<1>2. [Next]_vars
  BY TableMoves
<1>3. JoinReply \in MessageType /\ JoinReply.cmd # "GSTATE"
  BY <1>1, NoGameType DEF JoinReply, MessageType
<1>4. m \in [Player -> Seq(MessageType)]
  <2>1. <<JoinReply>> \in Seq(MessageType)
    BY <1>3
  <2>. QED  BY <1>1, <2>1
<1>5. ASSUME NEW q \in Player, NEW n \in DOMAIN m[q], m[q][n].cmd = "GSTATE"
      PROVE  n \in DOMAIN down[q] /\ m[q][n] = down[q][n]
  <2>1. CASE q = p
    <3>1. m[q] = <<JoinReply>>
      BY <1>1, <2>1
    <3>2. n = 1 /\ m[q][n] = JoinReply
      BY <3>1
    <3>. QED  BY <1>3, <1>5, <3>2
  <2>2. CASE q # p
    BY <1>1, <2>2
  <2>. QED  BY <2>1, <2>2
<1>6. Broadcast(m)
  BY DEF Join
<1>. HIDE DEF m
<1>7. down' \in [Player -> Seq(MessageType)] /\ MessagesFaithful'
  BY <1>2, <1>4, <1>5, <1>6, StepIsTold
<1>. QED  BY <1>1, <1>2, <1>7, TableStepKeeps

\* A lost connection takes its queue with it.
LEMMA LeaveKeeps ==
  ASSUME SyncInv, NEW p \in Player, Leave(p)
  PROVE  SyncInv'
<1>1. /\ TypeOK /\ NoGame \in GameView
      /\ view \in [Player -> [game : GameView, mayStart : BOOLEAN]]
      /\ up \in [Player -> Seq(CommandType)]
      /\ down \in [Player -> Seq(MessageType)]
      /\ Broadcast(down)
      /\ view' = [view EXCEPT ![p] = [game |-> NoGame, mayStart |-> FALSE]]
      /\ up' = [up EXCEPT ![p] = <<>>]
  BY Queues, NoGameType DEF SyncInv, Leave
<1>2. [Next]_vars
  BY TableMoves
<1>3. /\ view' \in [Player -> [game : GameView, mayStart : BOOLEAN]]
      /\ \A q \in Player : view'[q].game \in {view[q].game, NoGame}
  BY <1>1
<1>4. /\ up' \in [Player -> Seq(CommandType)]
      /\ \A q \in Player : \A n \in DOMAIN up'[q] :
           \E m \in DOMAIN up[q] : up'[q][n] = up[q][m]
  <2>1. <<>> \in Seq(CommandType) /\ DOMAIN <<>> = {}
    BY EmptySeq
  <2>2. up' \in [Player -> Seq(CommandType)]
    BY <1>1, <2>1
  <2>3. ASSUME NEW q \in Player, NEW n \in DOMAIN up'[q]
        PROVE  \E m \in DOMAIN up[q] : up'[q][n] = up[q][m]
    <3>1. q # p
      BY <1>1, <2>1
    <3>2. up'[q] = up[q]
      BY <1>1, <3>1
    <3>. QED  BY <3>2
  <2>. QED  BY <2>2, <2>3
<1>5. down' \in [Player -> Seq(MessageType)] /\ MessagesFaithful'
  BY <1>1, <1>2, StepIsTold
<1>. QED  BY <1>2, <1>3, <1>4, <1>5, TableStepKeeps

\* Every step of the server, of a client and of a connection keeps the invariant.
LEMMA SyncInvStep == SyncInv /\ [SyncNext]_syncVars => SyncInv'
<1>. SUFFICES ASSUME SyncInv, [SyncNext]_syncVars  PROVE SyncInv'
  OBVIOUS
<1>1. CASE UNCHANGED syncVars
  <2>1. UNCHANGED <<deck, active, gactive, found, tstate, gstate, players, numbers>>
        /\ UNCHANGED <<view, up, down>>
    BY <1>1 DEF syncVars
  <2>2. SyncTypeOK'
    BY <2>1 DEF SyncInv, SyncTypeOK, TypeOK
  <2>3. CommandsFit'
    BY <2>1 DEF SyncInv, CommandsFit, Fits
  <2>4. ViewsFaithful' /\ MessagesFaithful'
    BY <2>1 DEF SyncInv, ViewsFaithful, MessagesFaithful, Faithful, Snapshot
  <2>5. NothingDealtYet'
    BY <2>1 DEF SyncInv, NothingDealtYet
  <2>. QED  BY <2>2, <2>3, <2>4, <2>5 DEF SyncInv
<1>2. ASSUME NEW p \in Player,
             ClientStep(p) \/ OnReceived(p) \/ ServerStep(p) \/ Join(p) \/ Leave(p)
      PROVE  SyncInv'
  BY <1>2, ClientKeeps, ReceiveKeeps, ServeKeeps, JoinKeeps, LeaveKeeps
<1>. QED  BY <1>1, <1>2 DEF SyncNext

\* When the clients have just connected the invariant holds.
LEMMA SyncInvInit == SyncInit => SyncInv
<1>. SUFFICES ASSUME SyncInit  PROVE SyncInv
  OBVIOUS
<1>1. TypeOK /\ NothingDealtYet /\ NoGame \in GameView /\ Faithful(NoGame)
  BY TypeInit, NoGameType DEF SyncInit, Init, NothingDealtYet
<1>2. NewTableReply \in MessageType /\ NewTableReply.cmd # "GSTATE"
  BY <1>1 DEF NewTableReply, MessageType
<1>3. /\ <<>> \in Seq(CommandType) /\ <<>> \in Seq(MessageType)
      /\ <<NewTableReply>> \in Seq(MessageType)
  BY <1>2, EmptySeq
<1>4. \A p \in Player : up[p] = <<>> /\ down[p] \in {<<>>, <<NewTableReply>>}
                        /\ view[p].game = NoGame
  BY DEF SyncInit
<1>5. SyncTypeOK
  BY <1>1, <1>3 DEF SyncInit, SyncTypeOK, CommandType, MessageType
<1>6. MessagesFaithful
  <2>1. ASSUME NEW p \in Player, NEW n \in DOMAIN down[p]
        PROVE  down[p][n].cmd # "GSTATE"
    BY <1>2, <1>4
  <2>. QED  BY <2>1 DEF MessagesFaithful
<1>7. CommandsFit /\ ViewsFaithful
  BY <1>1, <1>4 DEF CommandsFit, ViewsFaithful
<1>. QED  BY <1>1, <1>5, <1>6, <1>7 DEF SyncInv

\* The invariant holds in every reachable state.
LEMMA AlwaysSyncInv == SyncSpec => []SyncInv
<1>. QED  BY SyncInvInit, SyncInvStep, PTL DEF SyncSpec

-----------------------------------------------------------------------------
(* The theorems.                                                           *)

\* The state of a table with its clients keeps its type: every command and
\* message in flight is well formed, and nobody shows a card that is not of
\* the table's deck.
THEOREM SyncTypeCorrect == SyncSpec => []SyncTypeOK
<1>. QED  BY AlwaysSyncInv, PTL DEF SyncInv

\* Equal gstates mean the same game, at the table, at every client and in
\* every message on its way, however many commands, broadcasts and lost
\* connections are in between: the number that CheckCommandGStateOK compares
\* is enough.
THEOREM SameGStateSameGameThm == SyncSpec => []SameGStateSameGame
<1>1. SyncInv => SameGStateSameGame
  BY FaithfulIsSame DEF SyncInv
<1>. QED  BY <1>1, AlwaysSyncInv, PTL

\* The three cards the server is about to judge are the three that were
\* selected, on whatever board they lay then: CheckCommandGStateOK drops every
\* claim whose positions could have changed their meaning.
THEOREM JudgedOnBoardSeenThm == SyncSpec => []JudgedOnBoardSeen
<1>1. SyncInv => JudgedOnBoardSeen
  <2>. SUFFICES ASSUME SyncInv, NEW p \in Player, NEW n \in DOMAIN up[p],
                       up[p][n].op = "try3", up[p][n].gstate = gstate,
                       NEW k \in 1..3
                PROVE  /\ up[p][n].pos[k] \in DOMAIN active
                       /\ active[up[p][n].pos[k]] = up[p][n].cards[k]
    BY DEF JudgedOnBoardSeen
  <2>1. Fits(up[p][n])
    BY DEF SyncInv, CommandsFit
  <2>2. PICK lo \in DOMAIN active, mid \in DOMAIN active, hi \in DOMAIN active :
          /\ up[p][n].pos = <<lo, mid, hi>>
          /\ up[p][n].cards = <<active[lo], active[mid], active[hi]>>
    BY <2>1 DEF Fits
  <2>3. k = 1 \/ k = 2 \/ k = 3
    OBVIOUS
  <2>. QED  BY <2>2, <2>3
<1>. QED  BY <1>1, AlwaysSyncInv, PTL
-----------------------------------------------------------------------------
(* The table implements the game.                                          *)

\* A step of the server with its clients is a step of the table, or none.
LEMMA SyncStepIsTable == SyncInv /\ [SyncNext]_syncVars => [Next]_vars
<1>. SUFFICES ASSUME SyncInv, [SyncNext]_syncVars  PROVE [Next]_vars
  OBVIOUS
<1>1. CASE UNCHANGED syncVars
  BY <1>1 DEF syncVars, vars
<1>2. ASSUME NEW p \in Player, ClientStep(p) \/ OnReceived(p)  PROVE UNCHANGED vars
  BY <1>2 DEF ClientStep, SendNewGame, SendTry3, SendAdd3NoMore, Send, OnReceived
<1>3. ASSUME NEW p \in Player, ServerStep(p) \/ Join(p) \/ Leave(p)
      PROVE  [Next]_vars
  BY <1>3, TableMoves
<1>. QED  BY <1>1, <1>2, <1>3 DEF SyncNext

\* Whatever its clients send, a table takes the steps of Table and no others:
\* all that is proved of a table alone holds of it.  A claim, in particular,
\* names three different cards of the board, which Try3 does not look after.
THEOREM SyncIsTable == SyncSpec => Spec
<1>1. SyncInit => Init
  BY DEF SyncInit
<1>. QED  BY <1>1, SyncStepIsTable, AlwaysSyncInv, PTL DEF SyncSpec, Spec

\* The rule that SetGame reads is the rule of Cards.
LEMMA SameRule ==
  /\ \A a, b, c : Game!IsSet(a, b, c) <=> IsSet(a, b, c)
  /\ \A S : Game!Cardinality(S) = Cardinality(S)
<1>1. \A a, b, c : Game!IsSet(a, b, c) <=> IsSet(a, b, c)
  BY DEF Game!IsSet, IsSet, Game!AllCards, AllCards, Game!Cat, Cat,
         Game!Card, Card, Game!Trip, Trip
<1>2. \A S : Game!Cardinality(S) = Cardinality(S)
  BY DEF Game!Cardinality, Cardinality
<1>. QED  BY <1>1, <1>2

\* The order in which the cards of a set are named does not matter.
LEMMA SetInAnyOrder ==
  ASSUME NEW a \in Card, NEW b \in Card, NEW c \in Card, IsSet(a, b, c)
  PROVE  IsSet(b, a, c) /\ IsSet(a, c, b) /\ IsSet(b, c, a)
         /\ IsSet(c, a, b) /\ IsSet(c, b, a)
<1>1. \A x \in Card, cat \in Cat : AllCards[x][cat] \in Int
  BY Features
<1>. QED  BY <1>1 DEF IsSet

\* Three different cards that are a set can be named in ascending order.
LEMMA SetInOrder ==
  ASSUME NEW a \in Card, NEW b \in Card, NEW c \in Card, IsSet(a, b, c),
         a # b, b # c, a # c
  PROVE  \/ a < b /\ b < c /\ IsSet(a, b, c)
         \/ a < c /\ c < b /\ IsSet(a, c, b)
         \/ b < a /\ a < c /\ IsSet(b, a, c)
         \/ b < c /\ c < a /\ IsSet(b, c, a)
         \/ c < a /\ a < b /\ IsSet(c, a, b)
         \/ c < b /\ b < a /\ IsSet(c, b, a)
<1>1. a \in Int /\ b \in Int /\ c \in Int
  BY DEF Card
<1>. QED  BY <1>1, SetInAnyOrder

\* ActiveHasSet misses no set, though it looks at pairs of cards only.
LEMMA NoSetMissed ==
  ASSUME NEW board \in Seq(Card), Game!HasSet(OnBoard(board))
  PROVE  ActiveHasSet(board)
<1>1. PICK a \in OnBoard(board), b \in OnBoard(board), c \in OnBoard(board) :
        a < b /\ b < c /\ IsSet(a, b, c)
  BY SameRule DEF Game!HasSet
<1>2. Len(board) \in Nat /\ DOMAIN board = 1..Len(board)
      /\ \A i \in DOMAIN board : board[i] \in Card
  BY LenProperties, ElementOfSeq
<1>3. PICK i \in DOMAIN board, j \in DOMAIN board : board[i] = a /\ board[j] = b
  BY <1>1 DEF OnBoard
<1>4. a \in Card /\ b \in Card /\ c \in Card
  BY <1>1, <1>2 DEF OnBoard
<1>5. i # j /\ i \in Int /\ j \in Int
  <2>1. a # b
    BY <1>1, <1>4 DEF Card
  <2>. QED  BY <1>2, <1>3, <2>1
<1>6. CASE i < j
  <2>1. c = GetIndexToCompleteSet(a, b)
    BY <1>1, <1>4, SetIffCompletesThm
  <2>. QED  BY <1>1, <1>3, <1>6, <2>1 DEF ActiveHasSet
<1>7. CASE j < i
  <2>1. c = GetIndexToCompleteSet(b, a)
    BY <1>1, <1>4, SetIffCompletesThm, SetInAnyOrder
  <2>. QED  BY <1>1, <1>3, <1>7, <2>1 DEF ActiveHasSet
<1>. QED  BY <1>5, <1>6, <1>7

\* On a board without a repeated card there are as many cards as positions.
LEMMA BoardCount ==
  ASSUME NEW S, NEW board \in Seq(S), IsInjective(board)
  PROVE  IsFiniteSet(OnBoard(board)) /\ Cardinality(OnBoard(board)) = Len(board)
<1>1. Len(board) \in Nat /\ DOMAIN board = 1..Len(board)
  BY LenProperties
<1>2. board \in Surjection(1..Len(board), OnBoard(board))
  BY <1>1 DEF OnBoard, Surjection
<1>3. board \in Injection(1..Len(board), OnBoard(board))
  BY <1>1 DEF OnBoard, Injection, IsInjective
<1>4. ExistsBijection(1..Len(board), OnBoard(board))
  BY <1>2, <1>3 DEF ExistsBijection, Bijection
<1>. QED  BY <1>1, <1>4, FS_CountingElements, FS_NatBijection
\* Cards dealt to a board: those on it are the old ones and the new.
LEMMA DealtBoard ==
  ASSUME NEW d \in SUBSET Deck0, NEW b \in Seq(Deck0), NEW n \in Nat,
         NEW s \in Draws(n, d)
  PROVE  /\ OnBoard(b \o s) = OnBoard(b) \cup OnBoard(s)
         /\ OnBoard(s) \subseteq d
         /\ Cardinality(OnBoard(s)) = n
<1>. DEFINE t == b \o s
<1>1. /\ s \in Seq(d) /\ Len(s) = n /\ IsInjective(s) /\ OnBoard(s) \subseteq d
  BY DrawnCards
<1>2. s \in Seq(Deck0)
  BY <1>1, SeqMonotonic
<1>3. /\ Len(b) \in Nat /\ DOMAIN b = 1..Len(b) /\ DOMAIN s = 1..n
      /\ DOMAIN t = 1..(Len(b) + n)
      /\ \A i \in 1..(Len(b) + n) : t[i] = IF i <= Len(b) THEN b[i] ELSE s[i - Len(b)]
  <2>1. t \in Seq(Deck0) /\ Len(t) = Len(b) + n
    BY <1>1, <1>2, ConcatProperties
  <2>. QED  BY <1>1, <1>2, <2>1, ConcatProperties, LenProperties
<1>. HIDE DEF t
<1>4. ASSUME NEW x \in OnBoard(t)  PROVE x \in OnBoard(b) \cup OnBoard(s)
  <2>1. PICK i \in 1..(Len(b) + n) : x = t[i]
    BY <1>3 DEF OnBoard
  <2>2. CASE i <= Len(b)
    <3>1. i \in DOMAIN b /\ x = b[i]
      BY <1>3, <2>1, <2>2
    <3>. QED  BY <3>1 DEF OnBoard
  <2>3. CASE ~(i <= Len(b))
    <3>1. i - Len(b) \in DOMAIN s /\ x = s[i - Len(b)]
      BY <1>3, <2>1, <2>3
    <3>. QED  BY <3>1 DEF OnBoard
  <2>. QED  BY <2>2, <2>3
<1>5. ASSUME NEW x \in OnBoard(b)  PROVE x \in OnBoard(t)
  <2>1. PICK i \in DOMAIN b : x = b[i]
    BY DEF OnBoard
  <2>2. i \in DOMAIN t /\ t[i] = x
    BY <1>3, <2>1
  <2>. QED  BY <2>2 DEF OnBoard
<1>6. ASSUME NEW x \in OnBoard(s)  PROVE x \in OnBoard(t)
  <2>1. PICK i \in DOMAIN s : x = s[i]
    BY DEF OnBoard
  <2>2. Len(b) + i \in DOMAIN t /\ t[Len(b) + i] = x
    BY <1>3, <2>1
  <2>. QED  BY <2>2 DEF OnBoard
<1>7. Cardinality(OnBoard(s)) = n
  BY <1>1, BoardCount
<1>. QED  BY <1>1, <1>4, <1>5, <1>6, <1>7 DEF t

\* Dealing three cards of the deck to a board is a deal of the game.
LEMMA DealPlays ==
  ASSUME TypeOK, NEW b \in Seq(Deck0), DealCards(3, deck, b)
  PROVE  Game!Deal(OnBoard(b))
<1>1. PICK s \in Draws(3, deck) : deck' = deck \ OnBoard(s) /\ active' = b \o s
  BY DEF DealCards
<1>2. /\ OnBoard(active') = OnBoard(b) \cup OnBoard(s)
      /\ OnBoard(s) \subseteq deck
      /\ Cardinality(OnBoard(s)) = 3
  <2>1. PICK n \in Nat : n = 3
    OBVIOUS
  <2>2. deck \in SUBSET Deck0 /\ s \in Draws(n, deck)
    BY <2>1, Typed
  <2>3. /\ OnBoard(b \o s) = OnBoard(b) \cup OnBoard(s)
        /\ OnBoard(s) \subseteq deck /\ Cardinality(OnBoard(s)) = n
    BY <2>2, DealtBoard
  <2>. QED  BY <1>1, <2>1, <2>3
<1>3. deck \ deck' = OnBoard(s)
  BY <1>1, <1>2
<1>. QED  BY <1>1, <1>2, <1>3, SameRule DEF Game!Deal

\* A client that presses New sends a command that may start a game.
LEMMA NewGamePlays ==
  ASSUME TypeOK, NEW p \in Player, NewGame(p)
  PROVE  Game!Start
<1>1. PICK s \in Draws(FirstDeal, Deck0) :
        deck' = Deck0 \ OnBoard(s) /\ active' = <<>> \o s
  BY DEF NewGame, DealCards
<1>2. <<>> \in Seq(Deck0) /\ Deck0 \in SUBSET Deck0 /\ OnBoard(<<>>) = {}
  BY EmptySeq DEF OnBoard
<1>3. /\ OnBoard(active') = OnBoard(s) /\ OnBoard(s) \subseteq Deck0
      /\ Cardinality(OnBoard(s)) = FirstDeal
  <2>1. OnBoard(<<>> \o s) = OnBoard(<<>>) \cup OnBoard(s)
    BY <1>2, FirstDealNat, DealtBoard
  <2>2. PICK n \in Nat : n = FirstDeal
    BY FirstDealNat
  <2>3. s \in Draws(n, Deck0)
    BY <1>1, <2>2
  <2>4. OnBoard(s) \subseteq Deck0 /\ Cardinality(OnBoard(s)) = n
    BY <1>2, <2>3, DealtBoard
  <2>5. OnBoard(active') = OnBoard(s)
    BY <1>1, <1>2, <2>1
  <2>. QED  BY <2>2, <2>4, <2>5
<1>4. \/ Cardinality(OnBoard(s)) = BoardSize
      \/ OnBoard(s) = Deck0 /\ Cardinality(Deck0) < BoardSize
  <2>1. CASE Cardinality(Deck0) < BoardSize
    <3>1. Cardinality(OnBoard(s)) = Cardinality(Deck0)
      BY <1>3, <2>1 DEF FirstDeal
    <3>2. IsFiniteSet(Deck0)
      BY DeckFinite
    <3>3. OnBoard(s) = Deck0
      BY <1>3, <3>1, <3>2, FS_Subset
    <3>. QED  BY <2>1, <3>3
  <2>2. CASE ~(Cardinality(Deck0) < BoardSize)
    BY <1>3, <2>2 DEF FirstDeal
  <2>. QED  BY <2>1, <2>2
<1>5. gactive' = TRUE /\ gstate' = gstate + 1 /\ gstate \in Nat
  BY DEF NewGame, GameStateBump, TypeOK
<1>6. (IF gstate' = 0 THEN {} ELSE Deck0 \ (deck' \cup OnBoard(active'))) = {}
  BY <1>1, <1>3
<1>. QED  BY <1>1, <1>3, <1>4, <1>5, <1>6, SameRule DEF Game!Start

\* A set claimed is a set won.
LEMMA Try3Plays ==
  ASSUME TypeOK, CardsConserved, NothingDealtYet,
         NEW p \in Player, NEW lo \in DOMAIN active, NEW mid \in DOMAIN active,
         NEW hi \in DOMAIN active, lo < mid, mid < hi, Try3Good(p, lo, mid, hi)
  PROVE  Game!Win
<1>. DEFINE rest == Without3(active, lo, mid, hi)
            three == {active[lo], active[mid], active[hi]}
            Won == IF gstate = 0 THEN {} ELSE Deck0 \ (deck \cup OnBoard(active))
<1>1. IsInjective(active) /\ deck \cap OnBoard(active) = {}
  BY DEF CardsConserved
<1>2. /\ active \in Seq(Deck0) /\ deck \subseteq Deck0 /\ Len(active) \in Nat
      /\ lo \in Int /\ mid \in Int /\ hi \in Int /\ gstate \in Nat
  BY Typed DEF TypeOK
<1>3. /\ rest \in Seq(Deck0) /\ Len(rest) = Len(active) - 3
      /\ OnBoard(rest) = OnBoard(active) \ three
  BY <1>1, <1>2, Without3Exact
<1>4. Cardinality(OnBoard(active)) = Len(active)
  BY <1>1, <1>2, BoardCount
<1>5. /\ active[lo] \in Card /\ active[mid] \in Card /\ active[hi] \in Card
      /\ three \subseteq Deck0 /\ three \subseteq OnBoard(active)
  <2>1. three \subseteq Deck0
    BY <1>2, Typed, ElementOfSeq
  <2>. QED  BY <2>1, DeckAssumption DEF OnBoard
<1>6. active[lo] # active[mid] /\ active[mid] # active[hi] /\ active[lo] # active[hi]
  BY <1>1, <1>2 DEF IsInjective
<1>7. PICK a \in three, b \in three, c \in three :
        a < b /\ b < c /\ Game!IsSet(a, b, c) /\ {a, b, c} = three
  <2>1. IsSet(active[lo], active[mid], active[hi])
    BY DEF Try3Good
  <2>2. \E a, b, c \in three : a < b /\ b < c /\ IsSet(a, b, c) /\ {a, b, c} = three
    <3>1. PICK u \in Card, v \in Card, w \in Card :
            u = active[lo] /\ v = active[mid] /\ w = active[hi]
      BY <1>5
    <3>2. IsSet(u, v, w) /\ u # v /\ v # w /\ u # w
      BY <1>6, <2>1, <3>1
    <3>3. \/ u < v /\ v < w /\ IsSet(u, v, w)
          \/ u < w /\ w < v /\ IsSet(u, w, v)
          \/ v < u /\ u < w /\ IsSet(v, u, w)
          \/ v < w /\ w < u /\ IsSet(v, w, u)
          \/ w < u /\ u < v /\ IsSet(w, u, v)
          \/ w < v /\ v < u /\ IsSet(w, v, u)
      BY <3>2, SetInOrder
    <3>. QED  BY <3>1, <3>3
  <2>. QED  BY <2>2, SameRule
<1>8. gstate' = gstate + 1 /\ gstate # 0 /\ gactive' = gactive
  <2>1. active # <<>>
    BY DEF IsInjective
  <2>. QED  BY <2>1 DEF Try3Good, GameStateBump, NothingDealtYet
<1>. HIDE DEF rest, three
<1>9. Game!Cardinality(OnBoard(active)) - 3 = Len(rest)
      /\ Game!Cardinality(deck) = Cardinality(deck)
  BY <1>3, <1>4, SameRule
<1>10. CASE Len(rest) < BoardSize /\ Cardinality(deck) >= 3
  <2>1. DealCards(3, deck, rest)
    BY <1>10 DEF Try3Good, rest
  <2>2. Game!Deal(OnBoard(active) \ three)
    BY <1>3, <2>1, DealPlays
  <2>3. PICK s \in Draws(3, deck) : deck' = deck \ OnBoard(s) /\ active' = rest \o s
    BY <2>1 DEF DealCards
  <2>4. OnBoard(active') = OnBoard(rest) \cup OnBoard(s) /\ OnBoard(s) \subseteq deck
    BY <1>2, <1>3, <2>3, DealtBoard
  <2>5. deck' \cup OnBoard(active') = (deck \cup OnBoard(active)) \ three
    BY <1>1, <1>3, <1>5, <2>3, <2>4
  <2>6. Won' = Won \cup three
    BY <1>2, <1>5, <1>8, <2>5
  <2>7. Won' = Won \cup {a, b, c} /\ Game!Deal(OnBoard(active) \ {a, b, c})
    BY <1>7, <2>2, <2>6
  <2>8. a \in OnBoard(active) /\ b \in OnBoard(active) /\ c \in OnBoard(active)
    BY <1>5
  <2>9. /\ Game!Cardinality(OnBoard(active)) - 3 < BoardSize
        /\ Game!Cardinality(deck) >= 3
    BY <1>9, <1>10
  <2>10. (~gactive)' = (~gactive)
    BY <1>8
  <2>. QED  BY <1>7, <2>7, <2>8, <2>9, <2>10 DEF Game!Win
<1>11. CASE ~(Len(rest) < BoardSize /\ Cardinality(deck) >= 3)
  <2>1. deck' = deck /\ active' = rest
    BY <1>11 DEF Try3Good, rest
  <2>2. deck' \cup OnBoard(active') = (deck \cup OnBoard(active)) \ three
    BY <1>1, <1>3, <1>5, <2>1
  <2>3. Won' = Won \cup three
    BY <1>2, <1>5, <1>8, <2>2
  <2>4. Won' = Won \cup {a, b, c} /\ OnBoard(active') = OnBoard(active) \ {a, b, c}
    BY <1>3, <1>7, <2>1, <2>3
  <2>. QED  BY <1>5, <1>7, <1>8, <1>9, <1>11, <2>1, <2>4 DEF Game!Win
<1>. QED  BY <1>10, <1>11
\* Three cards added are a table that grows.
LEMMA Add3Plays ==
  ASSUME TypeOK, NothingDealtYet, gactive, NEW p \in Player, Add3Good(p),
         deck \cap OnBoard(active) = {}
  PROVE  Game!Grow
<1>. DEFINE Won == IF gstate = 0 THEN {} ELSE Deck0 \ (deck \cup OnBoard(active))
<1>1. /\ active \in Seq(Card) /\ active \in Seq(Deck0) /\ deck \in SUBSET Deck0
  BY Typed, DeckAssumption, SeqMonotonic
<1>2. ~Game!HasSet(OnBoard(active))
  BY <1>1, NoSetMissed DEF Add3Good
<1>3. Game!Deal(OnBoard(active))
  BY <1>1, DealPlays DEF Add3Good
<1>4. gactive' = gactive /\ gstate' = gstate + 1 /\ gstate # 0 /\ gstate \in Nat
  BY DEF Add3Good, GameStateBump, NothingDealtYet, TypeOK
<1>5. Won' = Won
  <2>1. PICK n \in Nat : n = 3
    OBVIOUS
  <2>2. PICK s \in Draws(n, deck) : deck' = deck \ OnBoard(s) /\ active' = active \o s
    BY <2>1 DEF Add3Good, DealCards
  <2>3. OnBoard(active \o s) = OnBoard(active) \cup OnBoard(s) /\ OnBoard(s) \subseteq deck
    <3>1. active \in Seq(Deck0) /\ deck \in SUBSET Deck0 /\ s \in Draws(n, deck)
      BY <1>1, <2>2
    <3>. QED  BY <3>1, DealtBoard
  <2>4. deck' \cup OnBoard(active') = deck \cup OnBoard(active)
    BY <2>2, <2>3
  <2>. QED  BY <1>4, <2>4
<1>. QED  BY <1>2, <1>3, <1>4, <1>5 DEF Game!Grow

\* No More, from a client that saw an empty deck, is the end of the game.
LEMMA NoMorePlays ==
  ASSUME TypeOK, NothingDealtYet, gactive, Cardinality(deck) = 0,
         NEW p \in Player, NoMoreGood(p)
  PROVE  Game!Finish
<1>1. active \in Seq(Card)
  BY Typed, DeckAssumption, SeqMonotonic
<1>2. ~Game!HasSet(OnBoard(active))
  BY <1>1, NoSetMissed DEF NoMoreGood
<1>3. deck = {}
  BY Typed, FS_EmptySet
<1>4. /\ gactive' = FALSE /\ gstate' = gstate + 1 /\ gstate # 0 /\ gstate \in Nat
      /\ deck' = deck /\ active' = active
  BY DEF NoMoreGood, GameStateBump, NothingDealtYet, TypeOK
<1>. QED  BY <1>2, <1>3, <1>4 DEF Game!Finish

\* Whatever the clients do, the game moves only as a game of Set may.
LEMMA SyncStepPlays ==
  SyncInv /\ CardsConserved /\ [SyncNext]_syncVars => [Game!Next]_Game!vars
<1>. SUFFICES ASSUME SyncInv, CardsConserved, [SyncNext]_syncVars
              PROVE  [Game!Next]_Game!vars
  OBVIOUS
<1>. DEFINE Still == UNCHANGED <<deck, active, gactive, gstate>>
<1>0. TypeOK /\ NothingDealtYet /\ deck \cap OnBoard(active) = {}
  BY Queues DEF SyncInv, CardsConserved
<1>1. ASSUME Still  PROVE UNCHANGED Game!vars
  BY <1>1 DEF Game!vars
<1>2. CASE UNCHANGED syncVars
  BY <1>1, <1>2 DEF syncVars
<1>3. ASSUME NEW p \in Player,
             ClientStep(p) \/ OnReceived(p) \/ DropStale(p) \/ Join(p) \/ Leave(p)
      PROVE  Still
  BY <1>3 DEF ClientStep, SendNewGame, SendTry3, SendAdd3NoMore, Send, OnReceived,
              DropStale, Join, Leave, AddPlayer, DeletePlayer, StateBump, vars
<1>4. ASSUME NEW p \in Player, ServeNewGame(p)  PROVE Game!Start
  BY <1>0, <1>4, NewGamePlays DEF ServeNewGame
<1>5. ASSUME NEW p \in Player, ServeTry3(p)  PROVE Game!Win \/ Still
  <2>1. Fits(Head(up[p])) /\ Head(up[p]).op = "try3" /\ Head(up[p]).gstate = gstate
    BY <1>5, TakeFits DEF ServeTry3, Take, Current
  <2>2. PICK lo \in DOMAIN active, mid \in DOMAIN active, hi \in DOMAIN active :
          lo < mid /\ mid < hi /\ Head(up[p]).pos = <<lo, mid, hi>>
    BY <2>1 DEF Fits
  <2>3. Try3(p, lo, mid, hi)
    BY <1>5, <2>2 DEF ServeTry3
  <2>4. CASE Try3Good(p, lo, mid, hi)
    BY <1>0, <2>2, <2>4, Try3Plays
  <2>5. CASE Try3Bad(p, lo, mid, hi)
    BY <2>5 DEF Try3Bad, StateBump
  <2>. QED  BY <2>3, <2>4, <2>5 DEF Try3
<1>6. ASSUME NEW p \in Player, ServeAdd3(p)  PROVE Game!Grow \/ Still
  <2>1. gactive
    BY <1>6, TakeFits DEF ServeAdd3, Take, Current, Fits
  <2>2. CASE Add3Good(p)
    BY <1>0, <2>1, <2>2, Add3Plays
  <2>3. CASE Add3Bad(p)
    BY <2>3 DEF Add3Bad
  <2>. QED  BY <1>6, <2>2, <2>3 DEF ServeAdd3, Add3
<1>7. ASSUME NEW p \in Player, ServeNoMore(p)  PROVE Game!Finish \/ Still
  <2>1. gactive /\ Cardinality(deck) = 0
    BY <1>7, TakeFits DEF ServeNoMore, Take, Current, Fits
  <2>2. CASE NoMoreGood(p)
    BY <1>0, <2>1, <2>2, NoMorePlays
  <2>3. CASE NoMoreBad(p)
    BY <2>3 DEF NoMoreBad, StateBump
  <2>. QED  BY <1>7, <2>2, <2>3 DEF ServeNoMore, NoMore
<1>. QED  BY <1>1, <1>2, <1>3, <1>4, <1>5, <1>6, <1>7 DEF SyncNext, ServerStep, Game!Next

\* The table, with its gstates, positions, queues and refusals, plays the game
\* of SetGame: nobody wins cards that are not a set on the board, cards are
\* added only when it holds none, and the game ends only with no set left and
\* the deck used up, which table.cc does not look at: it rests on what the
\* clients show, and on the commands of any other state being dropped.
THEOREM PlaysTheGameThm == SyncSpec => PlaysTheGame
<1>1. SyncInit => Game!Init
  <2>. SUFFICES ASSUME SyncInit  PROVE Game!Init
    OBVIOUS
  <2>1. deck = {} /\ active = <<>> /\ gactive = FALSE /\ gstate = 0
    BY DEF SyncInit, Init
  <2>. QED  BY <2>1 DEF Game!Init, OnBoard
<1>2. SyncSpec => []CardsConserved
  BY SyncIsTable, CardsConservedThm, PTL
<1>. QED  BY <1>1, <1>2, AlwaysSyncInv, SyncStepPlays, PTL
          DEF SyncSpec, PlaysTheGame, Game!Spec
=============================================================================
