------------------------------- MODULE Golden -------------------------------
(***************************************************************************)
(* qlient/golden.{h,cpp}: where the Qt client draws the cards, and which   *)
(* card a point belongs to.  A layout is the state of a Golden object:     *)
(* win (window_size_), n (num_cards_), cols (num_columns_), size           *)
(* (card_size_), gap (gap_) and whether error_ is set.  All of it is       *)
(* computed in unsigned numbers modulo Word.                               *)
(***************************************************************************)
EXTENDS Integers, FiniteSetsExt

CONSTANT Word  \* the unsigned numbers are 0..(Word - 1); 2^32 in the code
ASSUME WordAssumption == Word \in Nat \ {0}

None == Word - 1
Minus(a, b) == (a - b) % Word

\* Layouts are of sizes for which ComputeBestColumns and recalculate compute
\* no negative difference (below it they compute with overflown numbers).
LargeEnough(w, h, n) == n < 32 /\ w >= 4 * (n + 1) /\ h >= 4 * (n + 1)

\* n / d < (1 + sqrt(5)) / 2, without floating point.
RatioLessThanGolden(n, d) == (2 * n - d) * (2 * n - d) < 5 * d * d

MinGap(space) == Max({4, space \div 32})
NumRows(n, cols) == (n + cols - 1) \div cols

\* The cell of a layout with this many columns, turned over if its ratio is
\* below the golden one.
Cell(w, h, n, cols) ==
  LET rows == NumRows(n, cols)
      x == (w - cols * MinGap(w)) \div cols
      y == (h - rows * MinGap(h)) \div rows
  IN  IF RatioLessThanGolden(x, y) THEN <<y, x>> ELSE <<x, y>>

\* The first number of columns with the least ratio.
ComputeBestColumns(w, h, n) ==
  LET cell == [c \in 1..n |-> Cell(w, h, n, c)]
      fit == {c \in 1..n : cell[c][1] > 0 /\ cell[c][2] > 0}
      less(a, b) == cell[a][1] * cell[b][2] < cell[b][1] * cell[a][2]
      best == {c \in fit : \A o \in fit : ~less(o, c)}
  IN  IF fit = {} THEN None ELSE Min(best)

\* The longer side of a cell is cut down until the ratio crosses the golden
\* one, or to 6.
Shrunk(x, y) ==
  IF ~(x > 6 /\ y > 6) THEN <<x, y>>
  ELSE IF RatioLessThanGolden(x, y)
       THEN <<x, Max({k \in 6..(y - 1) : k = 6 \/ ~RatioLessThanGolden(x, k)})>>
       ELSE <<Max({k \in 6..(x - 1) : k = 6 \/ RatioLessThanGolden(k, y)}), y>>

\* Mutant: the gaps divided among the columns and rows, not the spaces
\* between them.
RecalculateGapPerCard(g) ==
  LET w == g.win[1]
      h == g.win[2]
      cols == ComputeBestColumns(w, h, g.n)
      rows == NumRows(g.n, cols)
      size == Shrunk(Minus(w, (cols + 1) * MinGap(w)) \div cols,
                     Minus(h, (rows + 1) * MinGap(h)) \div rows)
  IN  IF cols = None \/ size[1] < 6 \/ size[2] < 6 THEN [g EXCEPT !.error = TRUE]
      ELSE [g EXCEPT !.cols = cols, !.size = size,
              !.gap = <<(w - cols * size[1]) \div cols, (h - rows * size[2]) \div rows>>]

\* An error keeps the sizes of the last layout that was none, but not its
\* columns.
Recalculate(g) ==
  LET w == g.win[1]
      h == g.win[2]
      cols == ComputeBestColumns(w, h, g.n)
      rows == NumRows(g.n, cols)
      size == Shrunk(Minus(w, (cols + 1) * MinGap(w)) \div cols,
                     Minus(h, (rows + 1) * MinGap(h)) \div rows)
  IN  IF cols = None THEN [g EXCEPT !.error = TRUE]
      ELSE IF size[1] < 6 \/ size[2] < 6
      THEN [g EXCEPT !.error = TRUE, !.cols = cols]
      ELSE [g EXCEPT !.cols = cols, !.size = size,
              !.gap = <<Minus(w, cols * size[1]) \div (cols + 1),
                        Minus(h, rows * size[2]) \div (rows + 1)>>]

\* Constructed for no window and no cards; what size and gap are then is
\* left to the memory they lie in.
Constructed(size, gap) ==
  Recalculate([win |-> <<0, 0>>, n |-> 0, cols |-> 1, size |-> size, gap |-> gap,
               error |-> FALSE])

Set(g, w, h, n) ==
  IF g.win = <<w, h>> /\ g.n = n THEN g
  ELSE Recalculate([g EXCEPT !.win = <<w, h>>, !.n = n, !.error = FALSE])

Pitch(g, d) == (g.size[d] + g.gap[d]) % Word

GetCardPosition(g, i) ==
  IF i < g.n
  THEN <<((i % g.cols) * Pitch(g, 1) + g.gap[1]) % Word,
         ((i \div g.cols) * Pitch(g, 2) + g.gap[2]) % Word>>
  ELSE <<0, 0>>

\* Mutant: no test that the point is not in the gap after the card.
PickCell(g, x, y) ==
  LET candid == (Minus(y, g.gap[2]) \div Pitch(g, 2)) * g.cols
                  + Minus(x, g.gap[1]) \div Pitch(g, 1)
  IN  IF candid % Word < g.n THEN candid % Word ELSE None

\* Divides by the pitch: undefined if that is zero.
Pick(g, x, y) ==
  LET col == Minus(x, g.gap[1]) \div Pitch(g, 1)
      row == Minus(y, g.gap[2]) \div Pitch(g, 2)
      candid == (row * g.cols + col) % Word
      pos == GetCardPosition(g, candid)
  IN  IF /\ candid < g.n
         /\ Minus(x, pos[1]) < g.size[1]
         /\ Minus(y, pos[2]) < g.size[2]
      THEN candid ELSE None
=============================================================================
