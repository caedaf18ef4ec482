------------------------------ MODULE PyTable ------------------------------
(***************************************************************************)
(* A table of the Python server (class Table of 3333-server.py) as a       *)
(* record and its methods as operators.  Cards are drawn at random, so a   *)
(* method gives the set of its outcomes: the table and the code it         *)
(* returns, where "raised" stands for an exception.  numbers maps the      *)
(* players at the table to the four numbers shown of each.                 *)
(***************************************************************************)
EXTENDS Cards, VectorOps, FiniteSetsExt

CONSTANTS
  Deck0,        \* the cards of the game: all 81 in the code
  BoardSize     \* the cards a game starts with: 12 in the code

ASSUME DeckAssumption == Deck0 \subseteq Card
ASSUME BoardSizeAssumption == BoardSize \in 0..Cardinality(Deck0)

NoNumbers == [found |-> 0, bad |-> 0, good |-> 0, wrong |-> 0]

OpenTable == [tstate |-> 0, gstate |-> 0, gactive |-> FALSE, deck |-> Deck0,
              active |-> <<>>, numbers |-> <<>>]

Outcome(t, rc) == [table |-> t, rc |-> rc]

StateBump(t) == [t EXCEPT !.tstate = @ + 1]

\* Mutant: the players' counter is not bumped along.
GameStateBumpOnly(t) == [t EXCEPT !.gstate = @ + 1]

GameStateBump(t) == [StateBump(t) EXCEPT !.gstate = @ + 1]

\* Table.join of a new player, and Table.leave.
Seat(t, p) ==
  [StateBump(t) EXCEPT !.numbers =
     [q \in DOMAIN @ \cup {p} |-> IF q \in DOMAIN @ THEN @[q] ELSE NoNumbers]]
Leave(t, p) ==
  [StateBump(t) EXCEPT !.numbers = [q \in DOMAIN @ \ {p} |-> @[q]]]

\* The three numbers of a list after sort().
Sorted(a3i) ==
  LET lo == Min(OnBoard(a3i))
      hi == Max(OnBoard(a3i))
  IN  <<lo, a3i[1] + a3i[2] + a3i[3] - lo - hi, hi>>

\* The ways to put different cards of the deck at the positions in S.
Draws(S, deck) == {f \in [S -> deck] : \A i, j \in S : f[i] = f[j] => i = j}

\* As many as there are; one more raises.
DealCardsAppend(t, n) ==
  LET b == GameStateBump(t)
      k == Min({n, Cardinality(t.deck)})
  IN  {Outcome([b EXCEPT !.active = @ \o f, !.deck = @ \ OnBoard(f)],
               IF k < n THEN "raised" ELSE "OK") : f \in Draws(1..k, t.deck)}

DealCardsTo(t, to3) ==
  {[GameStateBump(t) EXCEPT
      !.active = [i \in DOMAIN @ |-> IF i \in DOMAIN f THEN f[i] ELSE @[i]],
      !.deck = @ \ OnBoard(f)] : f \in Draws(OnBoard(to3), t.deck)}

\* The highest position first.
ActivePop3(t, a3i) ==
  LET s == Sorted(a3i)
  IN  [t EXCEPT !.active = SwapOut(SwapOut(SwapOut(@, s[3]), s[2]), s[1])]

NewGame(t) ==
  LET b == [GameStateBump(t) EXCEPT !.deck = Deck0, !.active = <<>>,
              !.numbers = [p \in DOMAIN @ |-> NoNumbers]]
  IN  {[o EXCEPT !.table.gactive = TRUE] : o \in DealCardsAppend(b, BoardSize)}

\* Cards are added also to a board that has a set.
Add3(t, gstate, p) ==
  IF gstate # t.gstate THEN {Outcome(t, "COLLISION")}
  ELSE IF ActiveHasSet(t.active)
  THEN {IF o.rc = "OK" THEN [o EXCEPT !.rc = "FALSE_NONE"] ELSE o :
          o \in DealCardsAppend([t EXCEPT !.numbers[p].wrong = @ + 1], 3)}
  ELSE DealCardsAppend([t EXCEPT !.numbers[p].good = @ + 1], 3)

\* Mutant: no bump of its own; deal_cards_to has one, active_pop3 has none.
Try3GoodOneBump(t, p, a3i) ==
  LET b == [t EXCEPT !.numbers[p].found = @ + 1]
  IN  IF Len(t.active) <= BoardSize /\ Cardinality(t.deck) >= 3
      THEN DealCardsTo(b, a3i) ELSE {ActivePop3(b, a3i)}

Try3Good(t, p, a3i) ==
  LET b == [t EXCEPT !.numbers[p].found = @ + 1]
  IN  {GameStateBump(d) :
         d \in IF Len(t.active) <= BoardSize /\ Cardinality(t.deck) >= 3
               THEN DealCardsTo(b, a3i) ELSE {ActivePop3(b, a3i)}}

\* A position beyond the board raises before anything has changed.
Try3(t, gstate, p, a3i) ==
  IF gstate # t.gstate THEN {Outcome(t, "COLLISION")}
  ELSE IF ~(OnBoard(a3i) \subseteq DOMAIN t.active) THEN {Outcome(t, "raised")}
  ELSE IF PyIsSet(t.active[a3i[1]], t.active[a3i[2]], t.active[a3i[3]])
  THEN {Outcome(d, "OK") : d \in Try3Good(t, p, a3i)}
  ELSE {Outcome(StateBump([t EXCEPT !.numbers[p].bad = @ + 1]), "NOT_A_SET")}

\* Mutant: the end of the game gets no new gstate.
NoMoreStateBump(t, gstate, p) ==
  IF gstate # t.gstate THEN {Outcome(t, "COLLISION")}
  ELSE IF t.deck = {} /\ ~ActiveHasSet(t.active)
  THEN {Outcome(StateBump([t EXCEPT !.gactive = FALSE, !.numbers[p].good = @ + 1]), "OK")}
  ELSE {Outcome(StateBump([t EXCEPT !.numbers[p].wrong = @ + 1]), "YES_MORE")}

NoMore(t, gstate, p) ==
  IF gstate # t.gstate THEN {Outcome(t, "COLLISION")}
  ELSE IF t.deck = {} /\ ~ActiveHasSet(t.active)
  THEN {Outcome(GameStateBump([t EXCEPT !.gactive = FALSE, !.numbers[p].good = @ + 1]), "OK")}
  ELSE {Outcome(StateBump([t EXCEPT !.numbers[p].wrong = @ + 1]), "YES_MORE")}
=============================================================================
