----------------------------- MODULE SelfTests -----------------------------
(***************************************************************************)
(* The self-tests of the repository, with what they assert and what they   *)
(* leave out: a walk over all ordered pairs of cards (server/card.cc,      *)
(* TEST_CARD), then one Golden object that is set to any sequence of       *)
(* windows and boards (qlient/golden.cpp, GOLDEN_TEST), as paintEvent      *)
(* does, with the boards of the browser clients in the same window, and    *)
(* what no test covers, the forms of the clients (Protocol).               *)
(***************************************************************************)
EXTENDS Cards, WebLayouts, Protocol

CONSTANTS
  Windows,  \* windows as <<width, height in lowest terms, scale>>
  Boards,   \* numbers of cards on a board
  Words,    \* the pieces of what may be typed into a line, "" among them
  MaxPieces \* bound: the number of pieces in a text

\* No point of a window, of the first layout, or of the 31 cards that an
\* earlier window's layout may still give room for, is beyond the unsigned numbers.
ASSUME WindowsAssumption ==
  /\ 32 * 7 < Word
  /\ \A win \in Windows : \A d \in {1, 2} :
       win[d] * win[3] \in Nat /\ 32 * (win[d] * win[3]) < Word
ASSUME BoardsAssumption == Boards \subseteq Nat
ASSUME MaxPiecesAssumption == MaxPieces \in Nat

\* What may be typed into a line.
Texts == UNION {[1..n -> Words] : n \in 1..MaxPieces}

VARIABLES i, j, layout, form
vars == <<i, j, layout, form>>

Init ==
  /\ i = 0 /\ j = 0
  /\ form = Refused
  /\ \E size \in {<<0, 0>>, <<7, 5>>} : layout = Constructed(size, <<0, 0>>)

\* The inner loop goes on to the next second card.
NextSecond == j < 80 /\ j' = j + 1 /\ UNCHANGED <<i, layout, form>>

\* The outer loop goes on to the next first card.
NextFirst == j = 80 /\ i < 80 /\ i' = i + 1 /\ j' = 0 /\ UNCHANGED <<layout, form>>

\* The window is painted, at any size, with any board.
Paint ==
  /\ j = 80 /\ i = 80 /\ form = Refused
  /\ \E win \in Windows, n \in Boards :
       /\ LargeEnough(win[1] * win[3], win[2] * win[3], n)
       /\ layout' = Set(layout, win[1] * win[3], win[2] * win[3], n)
  /\ UNCHANGED <<i, j, form>>

\* A form is filled in: once, which no window has a part in.  The table to be
\* joined is taken from the list, where it is a word.
Type ==
  /\ j = 80 /\ i = 80 /\ form = Refused /\ layout.win = <<0, 0>>
  /\ \E name, tpass, pass \in Texts :
       \/ form' = Form("ntbl", name, name, tpass, pass)
       \/ \E table \in Words \ {Empty} : form' = Form("join", <<table>>, name, tpass, pass)
  /\ UNCHANGED <<i, j, layout>>

Next == NextSecond \/ NextFirst \/ Paint \/ Type
Spec == Init /\ [][Next]_vars

-----------------------------------------------------------------------------
(* Cards.                                                                  *)

\* Two cards are completed to a set by exactly one third card, and IsSet and
\* GetIndexToCompleteSet agree on which (TEST_CARD, second loop); the hint a client
\* draws and the verdict of either server never differ from it, although the
\* three programs write the rule, and even the digits, differently.
RulesAgree ==
  \A k \in Card : /\ i # j => (IsSet(i, j, k) <=> k = GetIndexToCompleteSet(i, j))
                  /\ IsSet(i, j, k) <=> ClientIsSet(i, j, k)
                  /\ IsSet(i, j, k) <=> PyIsSet(i, j, k)

-----------------------------------------------------------------------------
(* Layouts.                                                                *)

\* The pixel (x, y) lies on the card at this place.
Covers(at, size, x, y) ==
  at[1] <= x /\ x < at[1] + size[1] /\ at[2] <= y /\ y < at[2] + size[2]

\* The pixels at the window's and the cards' edges and beside them: between
\* two neighbours of them nothing changes.
Probes(g, d) ==
  {k \in {0, g.win[d] - 1} \cup
         UNION {LET at == GetCardPosition(g, c)[d]
                IN  {at - 1, at, at + g.size[d] - 1, at + g.size[d]} : c \in 0..(g.n - 1)} :
     0 <= k /\ k < g.win[d]}

\* A layout without an error puts the cards into the window, each at least
\* a pixel from the next (check_disjoint of GOLDEN_TEST, which neither looks
\* at the window nor at cards that are not neighbours).
CardsApart ==
  LET g == layout
      at == [c \in 0..(g.n - 1) |-> GetCardPosition(g, c)]
  IN  ~g.error =>
        \A c \in 0..(g.n - 1) :
          /\ \A d \in {1, 2} : 0 < at[c][d] /\ at[c][d] + g.size[d] < g.win[d]
          /\ \A o \in 0..(g.n - 1) \ {c} :
               \E d \in {1, 2} : \/ at[c][d] + g.size[d] < at[o][d]
                                 \/ at[o][d] + g.size[d] < at[c][d]

\* Also in the layouts that an error leaves half changed, the card picked at
\* a pixel is the card that is drawn there, and none is picked in the gaps,
\* although the differences there wrap around (check_pick of GOLDEN_TEST).
PickIsDrawn ==
  layout.size # <<0, 0>> =>
    \A x \in Probes(layout, 1), y \in Probes(layout, 2) :
      LET drawn == {c \in 0..(layout.n - 1) :
                      Covers(GetCardPosition(layout, c), layout.size, x, y)}
      IN  IF Pick(layout, x, y) = None THEN drawn = {}
          ELSE drawn = {Pick(layout, x, y)}

\* In 3333.js, with any number of columns that leaves a card 17 pixels (below
\* it rounding may use up the gaps), a click on a card picks it, and the cards
\* end before the window does, where a click would count for the next row.
JsPicksDrawn ==
  \A cols \in 1..layout.n :
    LET p == JsPlan(layout.win[1], layout.win[2], layout.n, cols)
    IN  (\A d \in {1, 2} : p.win[d] >= 17 * Count(p, d)) =>
        \A c \in 0..(p.n - 1) :
          LET at == JsPosition(p, c)
              x1 == at[1] + p.size[1] * Unit(p, 1) - 1
              y1 == at[2] + p.size[2] * Unit(p, 2) - 1
          IN  /\ Xy2CardIndex(p, at[1], at[2]) = c
              /\ Xy2CardIndex(p, x1, y1) = c
              /\ x1 < p.win[1] * Unit(p, 1)

\* In canvas.ts a click selects one card or none, although both edges of a
\* card count as the card.
TsTogglesOne ==
  layout.n > 0 /\ layout.win # <<0, 0>> =>
    LET g == Gcd(layout.win[1], layout.win[2])
        p == ComputeDrawPlan(layout.win[1] \div g, layout.win[2] \div g, g, layout.n)
        X == {TsPosition(p, c)[1] + e : c \in 0..(p.n - 1), e \in {-1, 0, p.size[1], p.size[1] + 1}}
        Y == {TsPosition(p, c)[2] + e : c \in 0..(p.n - 1), e \in {-1, 0, p.size[2], p.size[2] + 1}}
    IN  \A x \in X, y \in Y : Cardinality(Toggled(p, x, y)) <= 1

-----------------------------------------------------------------------------
(* Forms.                                                                  *)

\* The first word of a text, or none.
FirstWord(t) == IF SSplit(t) = <<>> THEN Empty ELSE SSplit(t)[1]

\* The form with a word for each text.
InWords(f) ==
  Form(f.op, FirstWord(f.table), FirstWord(f.name), FirstWord(f.tpass), FirstWord(f.pass))

Inputs(f) == {f.table, f.name, f.tpass, f.pass}

\* A form with a name and without a blank: all that the lines of the Qt and
\* of the web client let in.
Plain(f) == InWords(f).name # Empty /\ \A t \in Inputs(f) : Len(t) = 1

\* A server reads what was typed without blanks into a form of its own client,
\* with any of the passwords left out (help.html: "Each of these passcodes may
\* be empty"): the Qt client, 3333.js and m3333.js.  The web client (wscon.ts)
\* always announces two passwords: with fewer it is refused, and never misread.
ReadAsTyped ==
  form # Refused /\ Plain(form) =>
    LET f == InWords(form)
    IN  /\ Read(SSplit(QtWords(f))) = f
        /\ PyRead(SSplit(JsWords(form))) = f
        /\ PyRead(SSplit(M3Words(form))) = f
        /\ Read(SSplit(WebWords(f))) =
             IF f.tpass # Empty /\ f.pass # Empty THEN f ELSE Refused

\* Blanks in the forms of 3333.js and m3333.js, whose words 3333-server.py
\* counts: around a word they do no harm in 3333.js, which trims, and a password
\* of several words is always refused.  Only a name of several words is misread,
\* as its first word, and only if the second is a number that passes for the
\* flags.  So it is with m3333.js, unless it is given a password of blanks only,
\* which it announces.
BlanksMisreadNamesOnly ==
  form # Refused /\ InWords(form).name # Empty =>
    LET oneWord == \A t \in Inputs(form) : Len(SSplit(t)) <= 1
        blanksOnly == \E t \in Inputs(form) : t # Nothing /\ SSplit(t) = <<>>
        name == SSplit(form.name)
    IN  /\ oneWord => PyRead(SSplit(JsWords(form))) = InWords(form)
        /\ \A words \in {JsWords(form), M3Words(form)} :
             LET read == PyRead(SSplit(words))
             IN  read # Refused /\ (words = M3Words(form) => ~blanksOnly) =>
                   IF Len(name) = 1 THEN oneWord /\ read = InWords(form)
                   ELSE Contains(Tail(Digits), name[2]) /\ read.name = name[1]
=============================================================================
