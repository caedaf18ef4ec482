----------------------------- MODULE WebLayouts -----------------------------
(***************************************************************************)
(* The boards of the two browser clients: 3333.js (board_show,             *)
(* xy2card_index) and client/src/canvas.ts (drawTable).  A plan is the     *)
(* window win, the number n of cards and of columns cols, the size of a    *)
(* card.  3333.js leaves fractions of pixels in its gaps: its points are   *)
(* given in units that make them whole, Unit(plan, d) to a pixel.          *)
(***************************************************************************)
EXTENDS Golden

\* The whole number nearest to x / y, halves up (Math.round).
Round(x, y) == (2 * x + y) \div (2 * y)

\* The whole numbers nearest to x divided by, and times, the golden ratio.
RoundByGolden(x) ==
  CHOOSE k \in 0..x : /\ RatioLessThanGolden(2 * x, 2 * k + 1)
                      /\ k > 0 => ~RatioLessThanGolden(2 * x, 2 * k - 1)
RoundTimesGolden(x) ==
  CHOOSE k \in x..(2 * x) : /\ ~RatioLessThanGolden(2 * k + 1, 2 * x)
                            /\ k > 0 => RatioLessThanGolden(2 * k - 1, 2 * x)

RowsOf(n, cols) == Max({1, NumRows(n, cols)})
Rows(p) == RowsOf(p.n, p.cols)
Count(p, d) == IF d = 1 THEN p.cols ELSE Rows(p)
Leftover(p, d) == p.win[d] - Count(p, d) * p.size[d]
Col(p, i) == i % p.cols
Row(p, i) == i \div p.cols
Place(p, i) == <<Col(p, i), Row(p, i)>>

-----------------------------------------------------------------------------
(* 3333.js, for any number of columns (board_n_columns compares floating   *)
(* point qualities; nothing below depends on which it takes).              *)

JsPlan(w, h, n, cols) ==
  LET rows == RowsOf(n, cols)
      wide == Round(95 * w, 100 * cols)
      high == Round(95 * h, 100 * rows)
  IN  [win |-> <<w, h>>, n |-> n, cols |-> cols,
       size |-> IF RatioLessThanGolden(w * rows, h * cols)
                THEN <<wide, RoundByGolden(wide)>>
                ELSE <<RoundTimesGolden(high), high>>]

Unit(p, d) == Count(p, d) + 1
JsPitch(p, d) == p.size[d] * Unit(p, d) + Leftover(p, d)
JsPosition(p, i) == [d \in {1, 2} |-> Leftover(p, d) + Place(p, i)[d] * JsPitch(p, d)]

\* Mutant: cards counted by rows.
Xy2CardIndexByRows(p, x, y) ==
  LET column == Max({(x - Leftover(p, 1)) \div JsPitch(p, 1), 0})
      row == Max({(y - Leftover(p, 2)) \div JsPitch(p, 2), 0})
      i == Rows(p) * row + column
  IN  IF i >= p.n THEN -1 ELSE i

\* A point in a gap belongs to the card before it.
Xy2CardIndex(p, x, y) ==
  LET column == Max({(x - Leftover(p, 1)) \div JsPitch(p, 1), 0})
      row == Max({(y - Leftover(p, 2)) \div JsPitch(p, 2), 0})
      i == p.cols * row + column
  IN  IF i >= p.n THEN -1 ELSE i

-----------------------------------------------------------------------------
(* canvas.ts.                                                              *)

\* Is the ratio a[1]/a[2] of a cell nearer to the golden one than b[1]/b[2]?
Nearer(a, b) ==
  LET low(r) == RatioLessThanGolden(r[1], r[2])
      more == a[1] * b[2] - b[1] * a[2]
      n == a[1] * b[1]
      d == a[2] * b[2]  \* n / d against the square of the golden ratio
      under == n <= d \/ RatioLessThanGolden(n - d, d)
  IN  CASE low(a) /\ low(b) -> more > 0
        [] ~low(a) /\ ~low(b) -> more < 0
        [] low(a) /\ ~low(b) -> ~under
        [] OTHER -> under

Divides(g, x) == x % g = 0
Gcd(x, y) == Max({g \in 1..x : Divides(g, x) /\ Divides(g, y)})

\* Windows are given by their sides in lowest terms and a scale.
DetermineNumberOfColumns(aw, ah, n) ==
  LET ratio == [c \in 1..n |-> <<aw * NumRows(n, c), ah * c>>]
  IN  Min({c \in 1..n : \A o \in 1..n : ~Nearer(ratio[o], ratio[c])})

\* Mutant: cards that leave no twelfth of the window free.
ComputeDrawPlanFull(aw, ah, k, n) ==
  LET cols == DetermineNumberOfColumns(aw, ah, n)
      wide == (k * aw) \div cols
      high == (k * ah) \div RowsOf(n, cols)
  IN  [win |-> <<k * aw, k * ah>>, n |-> n, cols |-> cols,
       size |-> IF RatioLessThanGolden(wide, high)
                THEN <<wide, RoundByGolden(wide)>>
                ELSE <<RoundTimesGolden(high), high>>]

ComputeDrawPlan(aw, ah, k, n) ==
  LET cols == DetermineNumberOfColumns(aw, ah, n)
      wide == Round(11 * (k * aw), 12 * cols)
      high == Round(11 * (k * ah), 12 * RowsOf(n, cols))
  IN  [win |-> <<k * aw, k * ah>>, n |-> n, cols |-> cols,
       size |-> IF RatioLessThanGolden(wide, high)
                THEN <<wide, RoundByGolden(wide)>>
                ELSE <<RoundTimesGolden(high), high>>]

TsGap(p, d) == Round(Leftover(p, d), Count(p, d) + 1)
TsPosition(p, i) ==
  [d \in {1, 2} |-> TsGap(p, d) + Place(p, i)[d] * (p.size[d] + TsGap(p, d))]

\* The cards a click selects or unselects: all whose frame it touches.
Toggled(p, x, y) ==
  {i \in 0..(p.n - 1) :
     LET at == TsPosition(p, i)
     IN  /\ at[1] <= x /\ x <= at[1] + p.size[1]
         /\ at[2] <= y /\ y <= at[2] + p.size[2]}
=============================================================================
