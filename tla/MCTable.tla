------------------------------ MODULE MCTable ------------------------------
(***************************************************************************)
(* Bounded checks of Table.                                                *)
(***************************************************************************)
EXTENDS Table

CONSTANTS
  MaxTState,    \* bound on tstate_
  MaxBad,       \* bound on the mistakes of a player in a game
  MaxGames      \* bound on gstate_ when a new game is started

\* Six cards in which there are exactly two sets.
TwoSets == {0, 1, 2, 3, 4, 5}

Mistakes(p) ==
  numbers[p]["bad_calls"] + numbers[p]["add3s_bad"] + numbers[p]["no_more_bad"]

\* Next, bounded: nothing happens after MaxTState bumps of tstate but what
\* bumps nothing, the other player joins late, to a game that is well under
\* way, and a player stops after MaxBad mistakes.
MCNext ==
  \E p \in Player :
    \/ gstate < MaxGames /\ NewGame(p)
    \/ tstate >= MaxTState - 1 /\ AddPlayer(p)
    \/ /\ tstate < MaxTState
       /\ \/ Mistakes(p) < MaxBad /\ Add3(p)
          \/ Mistakes(p) < MaxBad /\ NoMore(p)
          \/ Mistakes(p) < MaxBad /\
               \E lo, mid, hi \in DOMAIN active : Try3(p, lo, mid, hi)
          \/ DeletePlayer(p)

MCSpec == Init /\ [][MCNext]_vars
=============================================================================
