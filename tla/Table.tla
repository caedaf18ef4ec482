------------------------------- MODULE Table -------------------------------
(***************************************************************************)
(* One table of the club (server/table.cc, server/player.cc) with what the *)
(* server does around each call of it (server/server.cc): the deck, the    *)
(* board, the two state counters, the seated players and their numbers.    *)
(* The server is single threaded, so each handler is one step.  A command  *)
(* that carries a game state gets here only if CheckCommandGStateOK lets   *)
(* it through; TableSync adds the clients that send it.                    *)
(***************************************************************************)
EXTENDS Cards, VectorOps, Functions

CONSTANTS
  Player,       \* the connections that may sit at the table
  Deck0,        \* initial_cards_deck_: all 81 cards, or those of --initdeck
  BoardSize,    \* cards dealt for a new game, 12 in the code
  MaxPlayers    \* --maxplayers

ASSUME DeckAssumption == Deck0 \subseteq Card
ASSUME SizeAssumption == BoardSize \in Nat /\ MaxPlayers \in Nat \ {0}

VARIABLES
  deck,         \* cards_deck_, a set: cards are drawn from it at random
  active,       \* cards_active_, a sequence: commands name cards by position
  gactive,      \* game_active_
  found,        \* sets_found_
  tstate,       \* tstate_
  gstate,       \* gstate_
  players,      \* players_, the owner first
  numbers       \* the six counters of each player; zero if not seated

vars == <<deck, active, gactive, found, tstate, gstate, players, numbers>>

Counter == {"sets_found", "bad_calls", "add3s_good", "add3s_bad",
            "no_more_good", "no_more_bad"}
Zero == [c \in Counter |-> 0]
Seated == OnBoard(players)

TypeOK ==
  /\ deck \subseteq Deck0
  /\ active \in Seq(Deck0)
  /\ gactive \in BOOLEAN
  /\ found \in Nat
  /\ tstate \in Nat
  /\ gstate \in Nat
  /\ players \in Seq(Player)
  /\ numbers \in [Player -> [Counter -> Nat]]

-----------------------------------------------------------------------------
(* The helpers of table.cc.                                                *)

StateBump == tstate' = tstate + 1 /\ gstate' = gstate
GameStateBump == tstate' = tstate + 1 /\ gstate' = gstate + 1

\* Bump one counter of player p.
Bump(p, c) == numbers' = [numbers EXCEPT ![p][c] = @ + 1]

\* The ways to draw n cards from d, one after the other.
Draws(n, d) == {s \in [1..n -> d] : IsInjective(s)}

\* Mutant: the cards drawn stay in the deck.
DealCopies(n, d, b) ==
  \E s \in Draws(n, d) : deck' = d /\ active' = b \o s

\* Draw n cards from d at random and append them to the board b.
DealCards(n, d, b) ==
  \E s \in Draws(n, d) :
    /\ deck' = d \ OnBoard(s)
    /\ active' = b \o s

\* Mutant: from the lowest position up, so the later ones have moved.
Without3Up(s, lo, mid, hi) == SwapOut(SwapOut(SwapOut(s, lo), mid), hi)

\* The board without three cards, removed from the highest position down.
Without3(s, lo, mid, hi) == SwapOut(SwapOut(SwapOut(s, hi), mid), lo)

-----------------------------------------------------------------------------
(* The commands, each with what WsReceivedMessage adds.                    *)

\* Mutant: off by one.
FirstDealPlusOne == BoardSize + 1

\* How many cards a new game starts with.
FirstDeal == IF Cardinality(Deck0) < BoardSize THEN Cardinality(Deck0)
                                               ELSE BoardSize

\* Mutant: the players' numbers are not reset.
NewGameKeepNumbers(p) ==
  /\ p \in Seated
  /\ DealCards(FirstDeal, Deck0, <<>>)
  /\ gactive' = TRUE
  /\ found' = 0
  /\ GameStateBump
  /\ UNCHANGED <<players, numbers>>

\* Mutant: only tstate is bumped.
NewGameStateBump(p) ==
  /\ p \in Seated
  /\ DealCards(FirstDeal, Deck0, <<>>)
  /\ gactive' = TRUE
  /\ found' = 0
  /\ StateBump
  /\ numbers' = [q \in Player |-> Zero]
  /\ UNCHANGED players

NewGame(p) ==
  /\ p \in Seated
  /\ DealCards(FirstDeal, Deck0, <<>>)
  /\ gactive' = TRUE
  /\ found' = 0
  /\ GameStateBump
  /\ numbers' = [q \in Player |-> Zero]
  /\ UNCHANGED players

\* Mutant: the last three cards of the deck are never dealt.
Try3GoodStrict(p, lo, mid, hi) ==
  /\ IsSet(active[lo], active[mid], active[hi])
  /\ LET rest == Without3(active, lo, mid, hi)
     IN  IF Len(rest) < BoardSize /\ Cardinality(deck) > 3
           THEN DealCards(3, deck, rest)
           ELSE deck' = deck /\ active' = rest
  /\ GameStateBump
  /\ found' = found + 1
  /\ Bump(p, "sets_found")
  /\ UNCHANGED <<gactive, players>>

\* Mutant: only tstate is bumped.
Try3GoodStateBump(p, lo, mid, hi) ==
  /\ IsSet(active[lo], active[mid], active[hi])
  /\ LET rest == Without3(active, lo, mid, hi)
     IN  IF Len(rest) < BoardSize /\ Cardinality(deck) >= 3
           THEN DealCards(3, deck, rest)
           ELSE deck' = deck /\ active' = rest
  /\ StateBump
  /\ found' = found + 1
  /\ Bump(p, "sets_found")
  /\ UNCHANGED <<gactive, players>>

\* Three cards that are a set: off the board, and replaced if it got short.
Try3Good(p, lo, mid, hi) ==
  /\ IsSet(active[lo], active[mid], active[hi])
  /\ LET rest == Without3(active, lo, mid, hi)
     IN  IF Len(rest) < BoardSize /\ Cardinality(deck) >= 3
           THEN DealCards(3, deck, rest)
           ELSE deck' = deck /\ active' = rest
  /\ GameStateBump
  /\ found' = found + 1
  /\ Bump(p, "sets_found")
  /\ UNCHANGED <<gactive, players>>

Try3Bad(p, lo, mid, hi) ==
  /\ ~IsSet(active[lo], active[mid], active[hi])
  /\ StateBump
  /\ Bump(p, "bad_calls")
  /\ UNCHANGED <<deck, active, gactive, found, players>>

\* The positions come from a client's selection: three different ones.
Try3(p, lo, mid, hi) ==
  /\ p \in Seated
  /\ lo < mid /\ mid < hi
  /\ Try3Good(p, lo, mid, hi) \/ Try3Bad(p, lo, mid, hi)

Add3Good(p) ==
  /\ ~ActiveHasSet(active)
  /\ Cardinality(deck) >= 3
  /\ DealCards(3, deck, active)
  /\ GameStateBump
  /\ Bump(p, "add3s_good")
  /\ UNCHANGED <<gactive, found, players>>

\* Refused, without a bump of either state counter.
Add3Bad(p) ==
  /\ ActiveHasSet(active) \/ Cardinality(deck) < 3
  /\ Bump(p, "add3s_bad")
  /\ UNCHANGED <<deck, active, gactive, found, tstate, gstate, players>>

Add3(p) == p \in Seated /\ (Add3Good(p) \/ Add3Bad(p))

\* Mutant: only tstate is bumped.
NoMoreGoodStateBump(p) ==
  /\ ~ActiveHasSet(active)
  /\ gactive' = FALSE
  /\ StateBump
  /\ Bump(p, "no_more_good")
  /\ UNCHANGED <<deck, active, found, players>>

\* Right if the board holds no set; the deck is not looked at.
NoMoreGood(p) ==
  /\ ~ActiveHasSet(active)
  /\ gactive' = FALSE
  /\ GameStateBump
  /\ Bump(p, "no_more_good")
  /\ UNCHANGED <<deck, active, found, players>>

NoMoreBad(p) ==
  /\ ActiveHasSet(active)
  /\ StateBump
  /\ Bump(p, "no_more_bad")
  /\ UNCHANGED <<deck, active, gactive, found, players>>

NoMore(p) == p \in Seated /\ (NoMoreGood(p) \/ NoMoreBad(p))

\* A player takes a seat; no state counter moves.
AddPlayer(p) ==
  /\ players # <<>>
  /\ p \notin Seated
  /\ Len(players) < MaxPlayers
  /\ players' = Append(players, p)
  /\ UNCHANGED <<deck, active, gactive, found, tstate, gstate, numbers>>

\* A player's connection is gone: the last player takes the seat.  The table
\* of no players is erased: nothing happens at it any more.
DeletePlayer(p) ==
  \E pi \in DOMAIN players :
    /\ players[pi] = p
    /\ players' = SwapOut(players, pi)
    /\ numbers' = [numbers EXCEPT ![p] = Zero]
    /\ StateBump
    /\ UNCHANGED <<deck, active, gactive, found>>

-----------------------------------------------------------------------------
\* Mutant: the counters start as the clients' do.
InitMinusOne ==
  /\ deck = {} /\ active = <<>>
  /\ gactive = FALSE
  /\ found = 0 /\ tstate = -1 /\ gstate = -1
  /\ \E p \in Player : players = <<p>>
  /\ numbers = [p \in Player |-> Zero]

Init ==
  /\ deck = {} /\ active = <<>>
  /\ gactive = FALSE
  /\ found = 0 /\ tstate = 0 /\ gstate = 0
  /\ \E p \in Player : players = <<p>>
  /\ numbers = [p \in Player |-> Zero]

Next ==
  \E p \in Player :
    \/ NewGame(p)
    \/ \E lo, mid, hi \in DOMAIN active : Try3(p, lo, mid, hi)
    \/ Add3(p)
    \/ NoMore(p)
    \/ AddPlayer(p)
    \/ DeletePlayer(p)

Spec == Init /\ [][Next]_vars

-----------------------------------------------------------------------------
(* Safety.                                                                 *)

\* Whether the cards have ever been dealt.
Dealt == deck # {} \/ active # <<>> \/ found > 0

\* No card is dealt twice or lost: the deck and the board are disjoint, the
\* board has no card twice, and with the three cards of each set found they
\* are the whole deck (DealCards, and the removals by position of Try3).
CardsConserved ==
  /\ IsInjective(active)
  /\ deck \cap OnBoard(active) = {}
  /\ Dealt =>
       Cardinality(deck) + Len(active) + 3 * found = Cardinality(Deck0)

\* The board is short of cards only if the deck is:
\* however the cards of Add3 and the sets found follow each other, Try3 deals
\* exactly when it must.
BoardRefilled ==
  Len(active) >= BoardSize \/ Cardinality(deck) < 3

\* A game that is on always has a next correct move that a client offers: a
\* set to find, three cards to add, or No More with an empty deck.  The deck
\* must hold a multiple of three cards and the board be dealt in threes.
NoDeadEnd ==
  gactive => \/ ActiveHasSet(active)
             \/ Cardinality(deck) >= 3
             \/ deck = {}

\* The sets the players have on their account in this game, one by one.
Credits == UNION {{p} \X (1..numbers[p]["sets_found"]) : p \in Player}

\* The sets credited to the seated players are sets found in this game,
\* however often players start anew, leave and come back.
CreditsBacked == IsFiniteSet(Credits) /\ Cardinality(Credits) <= found

\* The cards of the board, the deck and the game's being on change only
\* together with gstate, so equal gstates mean the same game (CheckCommand-
\* GStateOK relies on it), and a player's mistake never moves gstate.
GStateVersionsTheGame ==
  [][/\ <<deck, active, gactive>>' # <<deck, active, gactive>>
          => gstate' = gstate + 1
     /\ (\E p \in Player : \E c \in {"bad_calls", "add3s_bad", "no_more_bad"} :
           numbers'[p][c] > numbers[p][c])
          => gstate' = gstate]_vars
=============================================================================
