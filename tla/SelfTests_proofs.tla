-------------------------- MODULE SelfTests_proofs --------------------------
(***************************************************************************)
(* Proofs of what the self-tests of the repository assert and of what they *)
(* leave out: the three versions of the rule agree on all cards; for       *)
(* windows and boards of any size that is computed without overflow, the   *)
(* cards of the Qt client lie apart and are picked where they are drawn,   *)
(* and a click on a card of 3333.js picks it; and a server reads what was  *)
(* typed into its client without blanks, whatever the words.               *)
(***************************************************************************)
EXTENDS SelfTests, Basics_proofs, FiniteSetTheorems

-----------------------------------------------------------------------------
(* Cards.                                                                  *)

\* Sets that are written with two or three elements.
LEMMA TwoElements ==
  ASSUME NEW x, NEW y, x # y
  PROVE  IsFiniteSet({x, y}) /\ Cardinality({x, y}) = 2
<1>1. IsFiniteSet({x}) /\ Cardinality({x}) = 1
  BY FS_Singleton
<1>2. IsFiniteSet({x} \cup {y}) /\ Cardinality({x} \cup {y}) = 1 + 1
  BY <1>1, FS_AddElement
<1>3. {x} \cup {y} = {x, y}
  OBVIOUS
<1>. QED  BY <1>2, <1>3

LEMMA ThreeElements ==
  ASSUME NEW x, NEW y, NEW z, x # y, x # z, y # z
  PROVE  Cardinality({x, y, z}) = 3
<1>1. IsFiniteSet({x, y}) /\ Cardinality({x, y}) = 2
  BY TwoElements
<1>2. Cardinality({x, y} \cup {z}) = 2 + 1
  BY <1>1, FS_AddElement
<1>3. {x, y} \cup {z} = {x, y, z}
  OBVIOUS
<1>. QED  BY <1>2, <1>3

\* What the clients look for in each feature.
TwoValues(a, b, c) == Cardinality({a, b, c}) = 2

\* Three values are not two: they are all the same or all different.
LEMMA NotTwo ==
  ASSUME NEW a, NEW b, NEW c
  PROVE  ~TwoValues(a, b, c) <=> (a = b /\ b = c) \/ (a # b /\ a # c /\ b # c)
<1>1. CASE a = b /\ b = c
  <2>1. {a, b, c} = {a}
    BY <1>1
  <2>2. Cardinality({a}) = 1
    BY FS_Singleton
  <2>3. ~TwoValues(a, b, c)
    BY <2>1, <2>2 DEF TwoValues
  <2>. QED  BY <1>1, <2>3
<1>2. CASE a # b /\ a # c /\ b # c
  <2>1. Cardinality({a, b, c}) = 3
    BY <1>2, ThreeElements
  <2>2. ~TwoValues(a, b, c)
    BY <2>1 DEF TwoValues
  <2>. QED  BY <1>2, <2>2
<1>3. CASE ~(a = b /\ b = c) /\ ~(a # b /\ a # c /\ b # c)
  <2>1. \E x, y : x # y /\ {a, b, c} = {x, y}
    <3>1. CASE a = b
      <4>1. {a, b, c} = {a, c} /\ a # c
        BY <1>3, <3>1
      <4>. QED  BY <4>1
    <3>2. CASE (a = c \/ b = c) /\ a # b
      <4>1. {a, b, c} = {a, b}
        BY <3>2
      <4>. QED  BY <3>2, <4>1
    <3>. QED  BY <1>3, <3>1, <3>2
  <2>2. PICK x, y : x # y /\ {a, b, c} = {x, y}
    BY <2>1
  <2>3. Cardinality({x, y}) = 2
    BY <2>2, TwoElements
  <2>4. TwoValues(a, b, c)
    BY <2>2, <2>3 DEF TwoValues
  <2>. QED  BY <1>3, <2>4
<1>. QED  BY <1>1, <1>2, <1>3

\* In one feature the three ways to write the rule come to the same.
LEMMA FeatureRules ==
  ASSUME NEW a \in 0..2, NEW b \in 0..2, NEW c \in 0..2
  PROVE  /\ a + b + c \in {0, 3, 6} <=> ~TwoValues(a, b, c)
         /\ a + b + c \in {0, 3, 6} <=> (a + b + c) % 3 = 0
<1>1. a + b + c \in {0, 3, 6} <=> (a + b + c) % 3 = 0
  OBVIOUS
<1>2. a + b + c \in {0, 3, 6} <=> (a = b /\ b = c) \/ (a # b /\ a # c /\ b # c)
  OBVIOUS
<1>3. ~TwoValues(a, b, c) <=> (a = b /\ b = c) \/ (a # b /\ a # c /\ b # c)
  BY NotTwo
<1>. QED  BY <1>1, <1>2, <1>3, Zenon

\* The server in C++, the clients and the server in Python have one rule.
LEMMA OneRule ==
  ASSUME NEW c0 \in Card, NEW c1 \in Card, NEW c2 \in Card
  PROVE  /\ IsSet(c0, c1, c2) <=> ClientIsSet(c0, c1, c2)
         /\ IsSet(c0, c1, c2) <=> PyIsSet(c0, c1, c2)
<1>1. ASSUME NEW cat \in Cat
      PROVE  /\ AllCards[c0][cat] \in 0..2
             /\ AllCards[c1][cat] \in 0..2
             /\ AllCards[c2][cat] \in 0..2
  BY Features
<1>2. IsSet(c0, c1, c2) <=> ClientIsSet(c0, c1, c2)
  <2>1. ClientIsSet(c0, c1, c2) <=>
          \A cat \in Cat : ~TwoValues(AllCards[c0][cat], AllCards[c1][cat], AllCards[c2][cat])
    BY DEF ClientIsSet, TwoValues
  <2>. QED  BY <1>1, <2>1, FeatureRules DEF IsSet
<1>3. \A cat \in Cat : 5 - cat \in Cat /\ 5 - (5 - cat) = cat
  BY DEF Cat
<1>4. ASSUME NEW c \in Card, NEW cat \in Cat
      PROVE  PyCards[c][5 - cat] = AllCards[c][cat]
  BY <1>3 DEF PyCards, AllCards
<1>5. PyIsSet(c0, c1, c2) <=>
        \A cat \in Cat : (PyCards[c0][5 - cat] + PyCards[c1][5 - cat] + PyCards[c2][5 - cat]) % 3 = 0
  BY <1>3 DEF PyIsSet
<1>6. PyIsSet(c0, c1, c2) <=>
        \A cat \in Cat : (AllCards[c0][cat] + AllCards[c1][cat] + AllCards[c2][cat]) % 3 = 0
  BY <1>4, <1>5
<1>7. IsSet(c0, c1, c2) <=> PyIsSet(c0, c1, c2)
  BY <1>1, <1>6, FeatureRules DEF IsSet
<1>. QED  BY <1>2, <1>7

\* The walk over the pairs of cards stays among the cards.
LEMMA WalkOfCards == Spec => [](i \in Card /\ j \in Card)
<1>1. Init => i \in Card /\ j \in Card
  BY DEF Init, Card
<1>2. (i \in Card /\ j \in Card) /\ [Next]_vars => (i \in Card /\ j \in Card)'
  <2>. SUFFICES ASSUME i \in 0..80, j \in 0..80, [Next]_vars
       PROVE  i' \in 0..80 /\ j' \in 0..80
    BY DEF Card
  <2>1. CASE NextSecond
    BY <2>1 DEF NextSecond
  <2>2. CASE NextFirst
    BY <2>2 DEF NextFirst
  <2>3. CASE Paint
    BY <2>3 DEF Paint
  <2>4. CASE Type
    BY <2>4 DEF Type
  <2>5. CASE UNCHANGED vars
    BY <2>5 DEF vars
  <2>. QED  BY <2>1, <2>2, <2>3, <2>4, <2>5 DEF Next
<1>. QED  BY <1>1, <1>2, PTL DEF Spec

\* Any two cards are completed by exactly one third card, and the hint of a client
\* and the verdict of either server agree on which.
THEOREM RulesAgreeAlways == Spec => []RulesAgree
<1>1. i \in Card /\ j \in Card => RulesAgree
  BY OneRule, SetIffCompletesThm DEF RulesAgree
<1>. QED  BY <1>1, WalkOfCards, PTL

-----------------------------------------------------------------------------
(* Numbers.                                                                *)

\* Division leaves a remainder.
LEMMA DivMod ==
  ASSUME NEW a \in Nat, NEW b \in Nat \ {0}
  PROVE  /\ a \div b \in Nat /\ a % b \in 0..(b - 1)
         /\ a = b * (a \div b) + (a % b)
OBVIOUS

\* A quotient is known from where the dividend lies.
LEMMA DivIs ==
  ASSUME NEW a \in Nat, NEW b \in Nat \ {0}, NEW q \in Nat, NEW r \in 0..(b - 1),
         a = b * q + r
  PROVE  a \div b = q /\ a % b = r
<1>1. PICK p \in Nat : p = a \div b
  BY DivMod
<1>2. PICK k \in 0..(b - 1) : k = a % b
  BY DivMod
<1>3. b * p + k = b * q + r
  BY <1>1, <1>2, DivMod
<1>4. p = q
  <2>1. CASE p < q
    <3>1. p + 1 <= q /\ b * (p + 1) <= b * q /\ b * (p + 1) = b * p + b
      BY <2>1
    <3>. QED  BY <1>3, <3>1
  <2>2. CASE q < p
    <3>1. q + 1 <= p /\ b * (q + 1) <= b * p /\ b * (q + 1) = b * q + b
      BY <2>2
    <3>. QED  BY <1>3, <3>1
  <2>. QED  BY <2>1, <2>2
<1>. QED  BY <1>1, <1>2, <1>3, <1>4

\* Products grow with their factors.
LEMMA TimesMonotone ==
  ASSUME NEW a \in Nat, NEW b \in Nat, NEW c \in Nat, a <= b
  PROVE  a * c <= b * c /\ a * c \in Nat /\ b * c \in Nat
OBVIOUS

\* A number below the modulus is its own remainder.
LEMMA SmallMod ==
  ASSUME NEW a \in Nat, a < Word
  PROVE  a % Word = a
BY WordAssumption

LEMMA MinusIsMinus ==
  ASSUME NEW a \in Nat, NEW b \in Nat, b <= a, a < Word
  PROVE  Minus(a, b) = a - b
<1>1. a - b \in Nat /\ a - b < Word
  BY WordAssumption
<1>. QED  BY <1>1, SmallMod DEF Minus

LEMMA MinusInNat ==
  ASSUME NEW a \in Int, NEW b \in Int
  PROVE  Minus(a, b) \in Nat
BY WordAssumption DEF Minus
-----------------------------------------------------------------------------
(* Least and greatest elements.                                            *)

\* A finite set with a strict order has a minimal element.
LEMMA MinimalElement ==
  ASSUME NEW T, IsFiniteSet(T), T # {}, NEW R,
         \A x \in T : <<x, x>> \notin R,
         \A x, y, z \in T : <<x, y>> \in R /\ <<y, z>> \in R => <<x, z>> \in R
  PROVE  \E x \in T : \A y \in T : <<y, x>> \notin R
<1>. DEFINE Below(x) == {y \in T : <<y, x>> \in R}
            F == {Below(x) : x \in T}
<1>1. IsWellFoundedOn(StrictSubsetOrdering(T), FiniteSubsetsOf(T))
  BY FS_StrictSubsetOrderingWellFounded
<1>2. F \subseteq FiniteSubsetsOf(T) /\ F # {}
  <2>1. ASSUME NEW x \in T  PROVE Below(x) \in FiniteSubsetsOf(T)
    <3>1. Below(x) \in SUBSET T
      OBVIOUS
    <3>2. IsFiniteSet(Below(x))
      BY <3>1, FS_Subset
    <3>. QED  BY <3>1, <3>2 DEF FiniteSubsetsOf
  <2>. HIDE DEF Below
  <2>. QED  BY <2>1
<1>3. PICK B \in F : \A C \in F : <<C, B>> \notin StrictSubsetOrdering(T)
  <2>. HIDE DEF F
  <2>. QED  BY <1>1, <1>2, WFMin
<1>4. PICK x \in T : B = Below(x)
  BY <1>3
<1>5. ASSUME NEW y \in T, <<y, x>> \in R  PROVE FALSE
  <2>1. Below(y) \subseteq Below(x) /\ y \in Below(x) /\ y \notin Below(y)
    BY <1>5
  <2>2. Below(y) \in SUBSET T /\ Below(x) \in SUBSET T /\ Below(y) # Below(x)
    BY <2>1
  <2>3. <<Below(y), Below(x)>> \in StrictSubsetOrdering(T)
    <3>. HIDE DEF Below
    <3>. QED  BY <2>1, <2>2 DEF StrictSubsetOrdering
  <2>. QED  BY <1>3, <1>4, <2>3
<1>. QED  BY <1>5

\* Min and Max of a finite set of numbers are among them.
LEMMA MinMaxIn ==
  ASSUME NEW T \in SUBSET Int, IsFiniteSet(T), T # {}
  PROVE  /\ Min(T) \in T /\ \A y \in T : Min(T) <= y
         /\ Max(T) \in T /\ \A y \in T : Max(T) >= y
<1>1. \E x \in T : \A y \in T : x <= y
  <2>. DEFINE R == {p \in Int \X Int : p[1] < p[2]}
  <2>1. \A x, y \in Int : <<x, y>> \in R <=> x < y
    OBVIOUS
  <2>. HIDE DEF R
  <2>2. \E x \in T : \A y \in T : <<y, x>> \notin R
    <3>1. \A x \in T : <<x, x>> \notin R
      BY <2>1
    <3>2. \A x, y, z \in T : <<x, y>> \in R /\ <<y, z>> \in R => <<x, z>> \in R
      BY <2>1
    <3>. QED  BY <3>1, <3>2, MinimalElement
  <2>3. PICK x \in T : \A y \in T : <<y, x>> \notin R
    BY <2>2
  <2>4. ASSUME NEW y \in T  PROVE x <= y
    <3>1. x \in Int /\ y \in Int /\ <<y, x>> \notin R
      BY <2>3
    <3>. QED  BY <2>1, <3>1
  <2>. QED  BY <2>4
<1>2. \E x \in T : \A y \in T : x >= y
  <2>. DEFINE R == {p \in Int \X Int : p[1] > p[2]}
  <2>1. \A x, y \in Int : <<x, y>> \in R <=> x > y
    OBVIOUS
  <2>. HIDE DEF R
  <2>2. \E x \in T : \A y \in T : <<y, x>> \notin R
    <3>1. \A x \in T : <<x, x>> \notin R
      BY <2>1
    <3>2. \A x, y, z \in T : <<x, y>> \in R /\ <<y, z>> \in R => <<x, z>> \in R
      BY <2>1
    <3>. QED  BY <3>1, <3>2, MinimalElement
  <2>3. PICK x \in T : \A y \in T : <<y, x>> \notin R
    BY <2>2
  <2>4. ASSUME NEW y \in T  PROVE x >= y
    <3>1. x \in Int /\ y \in Int /\ <<y, x>> \notin R
      BY <2>3
    <3>. QED  BY <2>1, <3>1
  <2>. QED  BY <2>4
<1>. QED  BY <1>1, <1>2 DEF Min, Max

\* The larger of two.
LEMMA MaxOfTwo ==
  ASSUME NEW a \in Int, NEW b \in Int
  PROVE  Max({a, b}) = IF a >= b THEN a ELSE b
<1>1. IsFiniteSet({a, b})
  <2>1. IsFiniteSet({a} \cup {b})
    BY FS_Singleton, FS_AddElement
  <2>2. {a} \cup {b} = {a, b}
    OBVIOUS
  <2>. QED  BY <2>1, <2>2
<1>2. Max({a, b}) \in {a, b} /\ \A y \in {a, b} : Max({a, b}) >= y
  BY <1>1, MinMaxIn
<1>. QED  BY <1>2

-----------------------------------------------------------------------------
(* The Qt client's layout, in one dimension.                               *)

\* The space between cards that is always left.
LEMMA MinGapFits ==
  ASSUME NEW space \in Nat, NEW k \in 0..32, 4 * k <= space
  PROVE  /\ MinGap(space) \in Nat /\ MinGap(space) >= 4
         /\ k * MinGap(space) <= space
<1>1. PICK q \in Nat : q = space \div 32 /\ 32 * q <= space
  OBVIOUS
<1>2. MinGap(space) = IF 4 >= q THEN 4 ELSE q
  BY <1>1, MaxOfTwo DEF MinGap
<1>3. k * q <= 32 * q
  BY TimesMonotone
<1>. QED  BY <1>1, <1>2, <1>3

\* A window side divided among cnt cards: what is left for gaps suffices, and
\* cards and gaps stay in the window.
LEMMA SideFits ==
  ASSUME NEW space \in Nat, NEW cnt \in 1..31, 4 * (cnt + 1) <= space, space < Word,
         NEW a \in Nat,
         a <= Minus(space, (cnt + 1) * MinGap(space)) \div cnt,
         NEW gap, gap = Minus(space, cnt * a) \div (cnt + 1)
  PROVE  /\ gap \in Nat /\ gap >= 4
         /\ cnt * a + (cnt + 1) * gap <= space
<1>. DEFINE m == MinGap(space)
            rest == space - (cnt + 1) * m
<1>1. m \in Nat /\ m >= 4 /\ (cnt + 1) * m <= space
  BY MinGapFits
<1>2. (cnt + 1) * m \in Nat
  BY <1>1
<1>3. Minus(space, (cnt + 1) * m) = rest /\ rest \in Nat
  BY <1>1, <1>2, MinusIsMinus
<1>4. cnt * a <= rest
  <2>1. PICK n \in Nat, c \in Nat \ {0} : n = rest /\ c = cnt
    BY <1>3
  <2>2. n \div c \in Nat /\ n % c \in 0..(c - 1) /\ n = c * (n \div c) + (n % c)
    BY DivMod
  <2>3. PICK q \in Nat, k \in 0..(c - 1) : q = n \div c /\ n = c * q + k
    BY <2>2
  <2>4. a <= q
    BY <1>3, <2>1, <2>3
  <2>5. a * c <= q * c
    BY <2>4, TimesMonotone
  <2>6. c * a <= n
    BY <2>3, <2>5
  <2>. QED  BY <2>1, <2>6
<1>5. cnt * a \in Nat /\ cnt * a + (cnt + 1) * m <= space
  BY <1>2, <1>3, <1>4
<1>6. PICK left \in Nat : left = space - cnt * a /\ (cnt + 1) * m <= left
  BY <1>2, <1>5
<1>7. Minus(space, cnt * a) = left
  BY <1>5, <1>6, MinusIsMinus
<1>8. \E b \in Nat \ {0}, g \in Nat : b = cnt + 1 /\ g = m
  <2>1. cnt + 1 \in Nat \ {0} /\ m \in Nat
    BY <1>1
  <2>. HIDE DEF m
  <2>. QED  BY <2>1, Zenon
<1>80. PICK b \in Nat \ {0}, g \in Nat : b = cnt + 1 /\ g = m
  BY <1>8, Zenon
<1>9. left \div b \in Nat /\ left % b \in 0..(b - 1) /\ left = b * (left \div b) + (left % b)
  BY DivMod
<1>10. PICK r \in 0..(b - 1) : gap \in Nat /\ left = b * gap + r
  BY <1>7, <1>80, <1>9
<1>11. b * gap \in Nat /\ b * gap <= left
  BY <1>10
<1>12. gap >= g
  <2>1. SUFFICES ASSUME gap + 1 <= g PROVE FALSE
    BY <1>10
  <2>2. (gap + 1) * b <= g * b
    BY <1>10, <2>1, TimesMonotone
  <2>3. (gap + 1) * b = b * gap + b /\ g * b = b * g
    BY <1>10
  <2>4. b * g <= left
    BY <1>6, <1>80
  <2>. QED  BY <1>10, <2>2, <2>3, <2>4
<1>13. (cnt + 1) * gap <= left
  BY <1>80, <1>11
<1>. QED  BY <1>1, <1>5, <1>6, <1>80, <1>10, <1>12, <1>13
\* As many rows as the cards need: each card is in one of them.
LEMMA RowsOfCards ==
  ASSUME NEW n \in 1..31, NEW cols \in 1..n
  PROVE  /\ NumRows(n, cols) \in 1..n
         /\ \A c \in 0..(n - 1) : c \div cols \in 0..(NumRows(n, cols) - 1)
<1>. DEFINE a == n + cols - 1
            rows == NumRows(n, cols)
<1>1. a \in Nat /\ cols \in Nat \ {0}
  OBVIOUS
<1>2. PICK k \in 0..(cols - 1) : rows \in Nat /\ a = cols * rows + k
  <2>1. a \div cols \in Nat /\ a % cols \in 0..(cols - 1) /\ a = cols * (a \div cols) + (a % cols)
    BY <1>1, DivMod
  <2>. QED  BY <2>1 DEF NumRows
<1>. HIDE DEF rows
<1>3. cols * rows \in Nat /\ cols * rows > n - 1
  BY <1>2
<1>4. rows >= 1
  <2>1. rows = 0 => cols * rows = 0
    OBVIOUS
  <2>. QED  BY <1>2, <1>3, <2>1
<1>5. rows <= n
  <2>1. SUFFICES ASSUME n + 1 <= rows PROVE FALSE
    BY <1>2
  <2>2. PICK p \in Nat : p = n * cols
    OBVIOUS
  <2>3. (n + 1) * cols <= rows * cols
    BY <1>2, <2>1, TimesMonotone
  <2>4. 1 * n <= cols * n
    BY TimesMonotone
  <2>5. p >= n
    BY <2>2, <2>4
  <2>6. cols * rows >= p + cols
    BY <1>2, <2>2, <2>3
  <2>7. cols * rows <= n + cols - 1
    BY <1>2, <1>3
  <2>. QED  BY <1>3, <2>5, <2>6, <2>7
<1>6. ASSUME NEW c \in 0..(n - 1)
      PROVE  c \div cols \in 0..(rows - 1)
  <2>1. PICK m \in Nat, b \in Nat \ {0} : m = c /\ b = cols
    BY <1>1
  <2>2. PICK q \in Nat : q = c \div cols /\ cols * q <= c
    <3>1. m \div b \in Nat /\ m % b \in 0..(b - 1) /\ m = b * (m \div b) + (m % b)
      BY DivMod
    <3>. QED  BY <2>1, <3>1
  <2>3. q < rows
    <3>1. SUFFICES ASSUME rows <= q PROVE FALSE
      BY <1>2
    <3>2. rows * cols <= q * cols
      BY <1>2, <3>1, TimesMonotone
    <3>. QED  BY <1>2, <1>3, <2>2, <3>2
  <2>. QED  BY <1>2, <2>2, <2>3
<1>. QED  BY <1>2, <1>4, <1>5, <1>6 DEF rows

\* A number of columns, or that there is none.
LEMMA ColumnsOrNone ==
  ASSUME NEW w \in Nat, NEW h \in Nat, NEW n \in 0..31
  PROVE  ComputeBestColumns(w, h, n) \in 1..n \cup {None}
<1>. DEFINE cell == [c \in 1..n |-> Cell(w, h, n, c)]
            fit == {c \in 1..n : cell[c][1] > 0 /\ cell[c][2] > 0}
            less(a, b) == cell[a][1] * cell[b][2] < cell[b][1] * cell[a][2]
            best == {c \in fit : \A o \in fit : ~less(o, c)}
<1>1. ComputeBestColumns(w, h, n) = IF fit = {} THEN None ELSE Min(best)
  BY DEF ComputeBestColumns
<1>2. ASSUME NEW c \in 1..n  PROVE cell[c][1] \in Int /\ cell[c][2] \in Int
  <2>1. PICK rows : rows = NumRows(n, c) /\ rows \in 1..n
    <3>1. n \in 1..31
      OBVIOUS
    <3>2. NumRows(n, c) \in 1..n
      BY <3>1, RowsOfCards
    <3>. QED  BY <3>2
  <2>2. MinGap(w) \in Nat /\ MinGap(h) \in Nat
    BY MinGapFits
  <2>3. PICK x \in Int, y \in Int :
          x = (w - c * MinGap(w)) \div c /\ y = (h - rows * MinGap(h)) \div rows
    BY <2>1, <2>2
  <2>4. Cell(w, h, n, c) \in {<<x, y>>, <<y, x>>}
    BY <2>1, <2>3 DEF Cell
  <2>. QED  BY <2>3, <2>4
<1>. HIDE DEF cell
<1>3. ASSUME fit # {} PROVE best # {}
  <2>. DEFINE R == {p \in fit \X fit : less(p[1], p[2])}
  <2>1. \A a, b \in fit : <<a, b>> \in R <=> less(a, b)
    OBVIOUS
  <2>2. IsFiniteSet(fit)
    <3>1. fit \in SUBSET Nat /\ \A c \in fit : c <= n
      OBVIOUS
    <3>. HIDE DEF fit
    <3>. QED  BY <3>1, FS_BoundedSetOfNaturals
  <2>3. \A a, b, c \in fit : less(a, b) /\ less(b, c) => less(a, c)
    <3>1. ASSUME NEW a \in fit, NEW b \in fit, NEW c \in fit, less(a, b), less(b, c)
          PROVE  less(a, c)
      <4>1. PICK x1 \in Nat \ {0}, y1 \in Nat \ {0} : x1 = cell[a][1] /\ y1 = cell[a][2]
        BY <1>2
      <4>2. PICK x2 \in Nat \ {0}, y2 \in Nat \ {0} : x2 = cell[b][1] /\ y2 = cell[b][2]
        BY <1>2
      <4>3. PICK x3 \in Nat \ {0}, y3 \in Nat \ {0} : x3 = cell[c][1] /\ y3 = cell[c][2]
        BY <1>2
      <4>4. x1 * y2 < x2 * y1 /\ x2 * y3 < x3 * y2
        BY <3>1, <4>1, <4>2, <4>3
      <4>5. x1 * y3 < x3 * y1
        BY <4>4
      <4>. QED  BY <4>1, <4>3, <4>5
    <3>. QED  BY <3>1
  <2>4. \A a \in fit : ~less(a, a)
    BY <1>2
  <2>. HIDE DEF R, less
  <2>5. \E c \in fit : \A o \in fit : <<o, c>> \notin R
    <3>. HIDE DEF fit
    <3>. QED  BY <1>3, <2>1, <2>2, <2>3, <2>4, MinimalElement, SMTT(60)
  <2>. QED  BY <2>1, <2>5
<1>4. ASSUME fit # {} PROVE Min(best) \in 1..n
  <2>1. best \subseteq 1..n
    OBVIOUS
  <2>. HIDE DEF best
  <2>2. Min(best) \in best
    <3>1. best \in SUBSET Nat /\ best \in SUBSET Int /\ \A c \in best : c <= n
      BY <2>1
    <3>2. IsFiniteSet(best)
      BY <3>1, FS_BoundedSetOfNaturals
    <3>. QED  BY <1>3, <1>4, <3>1, <3>2, MinMaxIn
  <2>. QED  BY <2>1, <2>2
<1>. HIDE DEF fit, best
<1>. QED  BY <1>1, <1>4

\* Cutting a cell down to the golden ratio leaves at least six pixels.
LEMMA ShrunkFits ==
  ASSUME NEW x \in Nat, NEW y \in Nat
  PROVE  /\ Shrunk(x, y) \in (0..x) \X (0..y)
         /\ x > 6 /\ y > 6 => Shrunk(x, y)[1] >= 6 /\ Shrunk(x, y)[2] >= 6
<1>1. ASSUME NEW z \in Nat, z > 6, NEW T \in SUBSET (6..(z - 1)), 6 \in T
      PROVE  Max(T) \in 6..z
  <2>1. IsFiniteSet(T)
    <3>1. T \in SUBSET Nat /\ \A k \in T : k <= z
      BY <1>1
    <3>. QED  BY <3>1, FS_BoundedSetOfNaturals
  <2>2. T \in SUBSET Int /\ T # {}
    BY <1>1
  <2>3. Max(T) \in T
    BY <2>1, <2>2, MinMaxIn
  <2>4. \A k \in T : k \in 6..z
    BY <1>1
  <2>. QED  BY <2>3, <2>4
<1>2. CASE ~(x > 6 /\ y > 6)
  BY <1>2 DEF Shrunk
<1>3. CASE x > 6 /\ y > 6
  <2>. DEFINE S == {k \in 6..(y - 1) : k = 6 \/ ~RatioLessThanGolden(x, k)}
              T == {k \in 6..(x - 1) : k = 6 \/ RatioLessThanGolden(k, y)}
  <2>1. Max(S) \in 6..y
    <3>1. S \in SUBSET (6..(y - 1)) /\ 6 \in S
      BY <1>3
    <3>. HIDE DEF S
    <3>. QED  BY <1>1, <1>3, <3>1
  <2>2. Max(T) \in 6..x
    <3>1. T \in SUBSET (6..(x - 1)) /\ 6 \in T
      BY <1>3
    <3>. HIDE DEF T
    <3>. QED  BY <1>1, <1>3, <3>1
  <2>3. Shrunk(x, y) = IF RatioLessThanGolden(x, y) THEN <<x, Max(S)>> ELSE <<Max(T), y>>
    BY <1>3 DEF Shrunk
  <2>. HIDE DEF S, T
  <2>. QED  BY <1>3, <2>1, <2>2, <2>3
<1>. QED  BY <1>2, <1>3
-----------------------------------------------------------------------------
(* The invariant of a layout.                                              *)

Pair == Nat \X Nat
Layout == [win : Pair, n : Nat, cols : Nat, size : Pair, gap : Pair, error : BOOLEAN]

\* The cards and the gaps beside and between them are in the window.
Fits(g) ==
  /\ g.n \in 1..31 /\ g.cols \in 1..g.n
  /\ \A d \in {1, 2} : g.size[d] > 0 /\ g.gap[d] > 0
  /\ g.cols * g.size[1] + (g.cols + 1) * g.gap[1] <= g.win[1]
  /\ NumRows(g.n, g.cols) * g.size[2] + (NumRows(g.n, g.cols) + 1) * g.gap[2] <= g.win[2]

\* Also after an error, of which columns and sizes may be left that do not
\* fit each other, no card's position is beyond the unsigned numbers.
Sane(g) ==
  /\ g \in Layout
  /\ g.n \in 0..31 /\ g.cols \in 1..31
  /\ \A d \in {1, 2} : g.win[d] < Word /\ 32 * (g.size[d] + g.gap[d]) < Word
  /\ g.size = <<0, 0>> \/ (g.size[1] > 0 /\ g.size[2] > 0)
  /\ ~g.error => Fits(g)

\* One side of a card and its gap, with cnt cards along a side of the window.
LEMMA SideSane ==
  ASSUME NEW space \in Nat, 32 * space < Word, NEW cnt \in 1..31, 4 * (cnt + 1) <= space,
         NEW a \in Nat, a <= Minus(space, (cnt + 1) * MinGap(space)) \div cnt,
         NEW gap, gap = Minus(space, cnt * a) \div (cnt + 1)
  PROVE  /\ gap \in Nat /\ gap > 0
         /\ cnt * a + (cnt + 1) * gap <= space
         /\ space < Word /\ 32 * (a + gap) < Word
<1>1. space < Word
  BY WordAssumption
<1>2. gap \in Nat /\ gap >= 4 /\ cnt * a + (cnt + 1) * gap <= space
  BY <1>1, SideFits
<1>3. a + gap <= space
  <2>1. 1 * a <= cnt * a /\ 1 * gap <= (cnt + 1) * gap
    BY <1>2, TimesMonotone
  <2>2. cnt * a \in Nat /\ (cnt + 1) * gap \in Nat
    BY <1>2
  <2>. QED  BY <1>2, <2>1, <2>2
<1>4. a + gap \in Nat
  BY <1>2
<1>5. 32 * (a + gap) <= 32 * space
  BY <1>3, <1>4
<1>6. 32 * (a + gap) \in Nat
  BY <1>4
<1>7. 32 * (a + gap) < Word
  BY <1>5, <1>6, WordAssumption
<1>. QED  BY <1>1, <1>2, <1>7

\* A layout put together from sane parts is sane.
LEMMA SaneFrom ==
  ASSUME NEW w \in Nat, NEW h \in Nat, NEW n \in 0..31, NEW cols \in 1..31,
         NEW a \in Nat, NEW b \in Nat, NEW v \in Nat, NEW z \in Nat, NEW e \in BOOLEAN,
         NEW r,
         r = [win |-> <<w, h>>, n |-> n, cols |-> cols, size |-> <<a, b>>,
              gap |-> <<v, z>>, error |-> e],
         w < Word, h < Word, 32 * (a + v) < Word, 32 * (b + z) < Word,
         (a = 0 /\ b = 0) \/ (a > 0 /\ b > 0),
         ~e => Fits(r)
  PROVE  Sane(r)
<1>1. /\ r.win = <<w, h>> /\ r.n = n /\ r.cols = cols /\ r.size = <<a, b>>
      /\ r.gap = <<v, z>> /\ r.error = e
  OBVIOUS
<1>2. r \in Layout
  <2>1. <<w, h>> \in Pair /\ <<a, b>> \in Pair /\ <<v, z>> \in Pair
    BY DEF Pair
  <2>2. n \in Nat /\ cols \in Nat
    OBVIOUS
  <2>. HIDE DEF Pair
  <2>. QED  BY <2>1, <2>2 DEF Layout
<1>3. /\ r.win[1] = w /\ r.win[2] = h /\ r.size[1] = a /\ r.size[2] = b
      /\ r.gap[1] = v /\ r.gap[2] = z
  BY <1>1
<1>4. \A d \in {1, 2} : r.win[d] < Word /\ 32 * (r.size[d] + r.gap[d]) < Word
  <2>1. r.win[1] < Word /\ 32 * (r.size[1] + r.gap[1]) < Word
    BY <1>3
  <2>2. r.win[2] < Word /\ 32 * (r.size[2] + r.gap[2]) < Word
    BY <1>3
  <2>. QED  BY <2>1, <2>2
<1>5. r.size = <<0, 0>> \/ (r.size[1] > 0 /\ r.size[2] > 0)
  BY <1>1, <1>3
<1>6. r.n \in 0..31 /\ r.cols \in 1..31 /\ (~r.error => Fits(r))
  BY <1>1, SMTT(60)
<1>. QED  BY <1>2, <1>4, <1>5, <1>6 DEF Sane

\* A layout that an error left is sane when its sizes are.
LEMMA SaneError ==
  ASSUME NEW w \in Nat, NEW h \in Nat, NEW n \in 0..31, NEW cols \in 1..31,
         NEW a \in Nat, NEW b \in Nat, NEW v \in Nat, NEW z \in Nat, NEW r,
         r = [win |-> <<w, h>>, n |-> n, cols |-> cols, size |-> <<a, b>>,
              gap |-> <<v, z>>, error |-> TRUE],
         w < Word, h < Word, 32 * (a + v) < Word, 32 * (b + z) < Word,
         (a = 0 /\ b = 0) \/ (a > 0 /\ b > 0)
  PROVE  Sane(r)
<1>1. PICK e \in BOOLEAN : e = TRUE
  OBVIOUS
<1>2. r = [win |-> <<w, h>>, n |-> n, cols |-> cols, size |-> <<a, b>>,
           gap |-> <<v, z>>, error |-> e]
  BY <1>1
<1>3. ~e => Fits(r)
  BY <1>1
<1>. QED  BY <1>2, <1>3, SaneFrom, ZenonT(60)

\* So is one without an error if it fits.
LEMMA SaneFine ==
  ASSUME NEW w \in Nat, NEW h \in Nat, NEW n \in 0..31, NEW cols \in 1..31,
         NEW a \in Nat, NEW b \in Nat, NEW v \in Nat, NEW z \in Nat, NEW r,
         r = [win |-> <<w, h>>, n |-> n, cols |-> cols, size |-> <<a, b>>,
              gap |-> <<v, z>>, error |-> FALSE],
         w < Word, h < Word, 32 * (a + v) < Word, 32 * (b + z) < Word,
         a > 0, b > 0, Fits(r)
  PROVE  Sane(r)
<1>1. PICK e \in BOOLEAN : e = FALSE
  OBVIOUS
<1>2. r = [win |-> <<w, h>>, n |-> n, cols |-> cols, size |-> <<a, b>>,
           gap |-> <<v, z>>, error |-> e]
  BY <1>1
<1>3. ~e => Fits(r)
  BY <1>1
<1>. QED  BY <1>2, <1>3, SaneFrom, ZenonT(60)

\* The parts of a sane layout.
LEMMA SaneParts ==
  ASSUME NEW f, Sane(f)
  PROVE  \E w, h, a, b, v, z \in Nat :
           /\ f.win = <<w, h>> /\ f.size = <<a, b>> /\ f.gap = <<v, z>>
           /\ w < Word /\ h < Word /\ 32 * (a + v) < Word /\ 32 * (b + z) < Word
           /\ (a = 0 /\ b = 0) \/ (a > 0 /\ b > 0)
<1>1. f.win \in Pair /\ f.size \in Pair /\ f.gap \in Pair
  BY DEF Sane, Layout
<1>2. PICK w, h \in Nat : f.win = <<w, h>>
  BY <1>1 DEF Pair
<1>3. PICK a, b \in Nat : f.size = <<a, b>>
  BY <1>1 DEF Pair
<1>4. PICK v, z \in Nat : f.gap = <<v, z>>
  BY <1>1 DEF Pair
<1>5. /\ w < Word /\ h < Word /\ 32 * (a + v) < Word /\ 32 * (b + z) < Word
      /\ (a = 0 /\ b = 0) \/ (a > 0 /\ b > 0)
  BY <1>2, <1>3, <1>4 DEF Sane
<1>. QED  BY <1>2, <1>3, <1>4, <1>5

\* The first layout has an error: it has no window.
LEMMA ConstructedSane ==
  ASSUME NEW size \in {<<0, 0>>, <<7, 5>>}
  PROVE  Sane(Constructed(size, <<0, 0>>))
<1>. DEFINE g == [win |-> <<0, 0>>, n |-> 0, cols |-> 1, size |-> size, gap |-> <<0, 0>>,
                  error |-> FALSE]
<1>1. ComputeBestColumns(0, 0, 0) = None
  BY ColumnsOrNone
<1>2. Recalculate(g) = [g EXCEPT !.error = TRUE]
  BY <1>1 DEF Recalculate
<1>3. Constructed(size, <<0, 0>>) =
        [win |-> <<0, 0>>, n |-> 0, cols |-> 1, size |-> size, gap |-> <<0, 0>>, error |-> TRUE]
  BY <1>2 DEF Constructed
<1>4. PICK a, b \in Nat : size = <<a, b>> /\ a <= 7 /\ b <= 7 /\ ((a = 0 /\ b = 0) \/ (a > 0 /\ b > 0))
  <2>1. size = <<0, 0>> \/ size = <<7, 5>>
    OBVIOUS
  <2>. QED  BY <2>1
<1>5. 0 < Word /\ 32 * (a + 0) < Word /\ 32 * (b + 0) < Word
  BY <1>4, WindowsAssumption, WordAssumption
<1>. PICK r : r = Constructed(size, <<0, 0>>)
  OBVIOUS
<1>6. r = [win |-> <<0, 0>>, n |-> 0, cols |-> 1, size |-> <<a, b>>, gap |-> <<0, 0>>,
           error |-> TRUE]
  BY <1>3, <1>4
<1>7. PICK no \in 0..31, one \in 1..31, nil \in Nat : no = 0 /\ one = 1 /\ nil = 0
  <2>1. 0 \in 0..31 /\ 1 \in 1..31 /\ 0 \in Nat
    OBVIOUS
  <2>. QED  BY <2>1, Zenon
<1>8. r = [win |-> <<nil, nil>>, n |-> no, cols |-> one, size |-> <<a, b>>,
           gap |-> <<nil, nil>>, error |-> TRUE]
  BY <1>6, <1>7
<1>9. nil < Word /\ 32 * (a + nil) < Word /\ 32 * (b + nil) < Word
  BY <1>5, <1>7
<1>10. Sane(r)
  <2>1. (a = 0 /\ b = 0) \/ (a > 0 /\ b > 0)
    BY <1>4
  <2>. QED  BY <1>8, <1>9, <2>1, SaneFrom
<1>. QED  BY <1>10

\* A layout that is computed anew is sane, in a window that is large enough.
LEMMA RecalculateSane ==
  ASSUME NEW w \in Nat, NEW h \in Nat, NEW n \in Nat, LargeEnough(w, h, n),
         32 * w < Word, 32 * h < Word,
         NEW f, Sane(f), NEW g, g = [f EXCEPT !.win = <<w, h>>, !.n = n, !.error = FALSE]
  PROVE  Sane(Recalculate(g))
<1>. DEFINE cols == ComputeBestColumns(w, h, n)
            rows == NumRows(n, cols)
            x == Minus(w, (cols + 1) * MinGap(w)) \div cols
            y == Minus(h, (rows + 1) * MinGap(h)) \div rows
            size == Shrunk(x, y)
            gap == <<Minus(w, cols * size[1]) \div (cols + 1),
                     Minus(h, rows * size[2]) \div (rows + 1)>>
<1>1. f \in Layout /\ n \in 0..31 /\ w < Word /\ h < Word
  <2>1. f \in Layout
    BY DEF Sane
  <2>2. n \in 0..31
    BY DEF LargeEnough
  <2>3. w < Word /\ h < Word
    BY WordAssumption
  <2>. QED  BY <2>1, <2>2, <2>3
<1>2. /\ g = [win |-> <<w, h>>, n |-> n, cols |-> f.cols, size |-> f.size, gap |-> f.gap,
              error |-> FALSE]
      /\ f.cols \in Nat /\ f.size \in Pair /\ f.gap \in Pair /\ <<w, h>> \in Pair
  BY <1>1 DEF Layout, Pair
<1>3. /\ f.cols \in 1..31
      /\ \E a0, b0, v0, z0 \in Nat :
           /\ f.size = <<a0, b0>> /\ f.gap = <<v0, z0>>
           /\ 32 * (a0 + v0) < Word /\ 32 * (b0 + z0) < Word
           /\ (a0 = 0 /\ b0 = 0) \/ (a0 > 0 /\ b0 > 0)
  <2>1. f.cols \in 1..31
    BY DEF Sane
  <2>. QED  BY <2>1, SaneParts
<1>30. PICK a0, b0, v0, z0 \in Nat :
         /\ f.size = <<a0, b0>> /\ f.gap = <<v0, z0>>
         /\ 32 * (a0 + v0) < Word /\ 32 * (b0 + z0) < Word
         /\ (a0 = 0 /\ b0 = 0) \/ (a0 > 0 /\ b0 > 0)
  BY <1>3
<1>. PICK r : r = Recalculate(g)
  OBVIOUS
<1>31. g.win[1] = w /\ g.win[2] = h /\ g.n = n
  BY <1>2
<1>4. Recalculate(g) =
        IF cols = None THEN [g EXCEPT !.error = TRUE]
        ELSE IF size[1] < 6 \/ size[2] < 6 THEN [g EXCEPT !.error = TRUE, !.cols = cols]
        ELSE [g EXCEPT !.cols = cols, !.size = size, !.gap = gap]
  BY <1>31, SMTT(60) DEF Recalculate
<1>. HIDE DEF cols, rows, size, gap
<1>5. CASE cols = None
  <2>1. r = [win |-> <<w, h>>, n |-> n, cols |-> f.cols, size |-> <<a0, b0>>,
             gap |-> <<v0, z0>>, error |-> TRUE]
    BY <1>2, <1>30, <1>4, <1>5
  <2>2. PICK k \in 1..31 : k = f.cols
    BY <1>3
  <2>3. r = [win |-> <<w, h>>, n |-> n, cols |-> k, size |-> <<a0, b0>>,
             gap |-> <<v0, z0>>, error |-> TRUE]
    BY <2>1, <2>2
  <2>4. n \in 0..31
    BY <1>1, SMTT(60)
  <2>5. Sane(r)
    BY <1>1, <1>30, <2>3, <2>4, SaneError, ZenonT(60)
  <2>. QED  BY <2>5
<1>6. CASE cols # None
  <2>1. cols \in 1..n /\ n \in 1..31
    <3>1. cols \in 1..n
      BY <1>1, <1>6, ColumnsOrNone DEF cols
    <3>. QED  BY <1>1, <3>1
  <2>2. rows \in 1..n
    BY <2>1, RowsOfCards DEF rows
  <2>3. CASE size[1] < 6 \/ size[2] < 6
    <3>1. r = [win |-> <<w, h>>, n |-> n, cols |-> cols, size |-> <<a0, b0>>,
               gap |-> <<v0, z0>>, error |-> TRUE]
      BY <1>2, <1>30, <1>4, <1>6, <2>3
    <3>2. cols \in 1..31
      BY <2>1
    <3>3. Sane(r)
      BY <1>1, <1>30, <3>1, <3>2, SaneError
    <3>. QED  BY <3>3
  <2>4. CASE ~(size[1] < 6 \/ size[2] < 6)
    <3>1. Recalculate(g) = [win |-> <<w, h>>, n |-> n, cols |-> cols, size |-> size,
                            gap |-> gap, error |-> FALSE]
      BY <1>2, <1>4, <1>6, <2>4, ZenonT(60)
    <3>2. cols \in 1..31 /\ rows \in 1..31 /\ 4 * (cols + 1) <= w /\ 4 * (rows + 1) <= h
      BY <2>1, <2>2 DEF LargeEnough
    <3>3. x \in Nat /\ y \in Nat
      <4>1. Minus(w, (cols + 1) * MinGap(w)) \in Nat /\ Minus(h, (rows + 1) * MinGap(h)) \in Nat
        <5>1. MinGap(w) \in Nat /\ MinGap(h) \in Nat
          BY MinGapFits
        <5>. QED  BY <3>2, <5>1, MinusInNat
      <4>. QED  BY <3>2, <4>1, DivMod
    <3>4. size \in (0..x) \X (0..y)
      <4>. HIDE DEF x, y
      <4>. QED  BY <3>3, ShrunkFits DEF size
    <3>5. PICK a \in Nat, b \in Nat : size = <<a, b>> /\ a <= x /\ b <= y
      <4>. HIDE DEF x, y
      <4>. QED  BY <3>3, <3>4
    <3>6. gap = <<Minus(w, cols * a) \div (cols + 1), Minus(h, rows * b) \div (rows + 1)>>
      BY <3>5 DEF gap
    <3>7. PICK v, z : /\ gap = <<v, z>>
                      /\ v = Minus(w, cols * a) \div (cols + 1)
                      /\ z = Minus(h, rows * b) \div (rows + 1)
      BY <3>6
    <3>8. v \in Nat /\ v > 0 /\ cols * a + (cols + 1) * v <= w /\ 32 * (a + v) < Word
      BY <3>2, <3>5, <3>7, SideSane
    <3>9. z \in Nat /\ z > 0 /\ rows * b + (rows + 1) * z <= h /\ 32 * (b + z) < Word
      BY <3>2, <3>5, <3>7, SideSane
    <3>10. /\ r.win = <<w, h>> /\ r.n = n /\ r.cols = cols /\ r.size = <<a, b>>
           /\ r.gap = <<v, z>> /\ r.error = FALSE
      BY <3>1, <3>5, <3>7
    <3>11. a > 0 /\ b > 0
      BY <2>4, <3>5
    <3>12. Fits(r)
      BY <2>1, <3>8, <3>9, <3>10, <3>11 DEF Fits, rows
    <3>13. r = [win |-> <<w, h>>, n |-> n, cols |-> cols, size |-> <<a, b>>,
                gap |-> <<v, z>>, error |-> FALSE]
      BY <3>1, <3>5, <3>7, SMTT(60)
    <3>14. Sane(r)
      BY <1>1, <3>2, <3>8, <3>9, <3>11, <3>12, <3>13, SaneFine
    <3>. QED  BY <3>14
  <2>. QED  BY <2>3, <2>4
<1>. QED  BY <1>5, <1>6

\* Whatever windows and boards are painted, one after the other.
LEMMA AlwaysSane == Spec => []Sane(layout)
<1>1. Init => Sane(layout)
  BY ConstructedSane DEF Init
<1>2. Sane(layout) /\ [Next]_vars => Sane(layout)'
  <2>. SUFFICES ASSUME Sane(layout), [Next]_vars PROVE Sane(layout)'
    OBVIOUS
  <2>1. CASE Paint
    <3>1. PICK win \in Windows, n \in Boards :
            /\ LargeEnough(win[1] * win[3], win[2] * win[3], n)
            /\ layout' = Set(layout, win[1] * win[3], win[2] * win[3], n)
      BY <2>1 DEF Paint
    <3>2. PICK w \in Nat, h \in Nat : /\ w = win[1] * win[3] /\ h = win[2] * win[3]
                                      /\ 32 * w < Word /\ 32 * h < Word
      BY WindowsAssumption
    <3>3. n \in Nat
      BY BoardsAssumption
    <3>4. LargeEnough(w, h, n) /\ layout' = Set(layout, w, h, n)
      BY <3>1, <3>2
    <3>5. Sane(Recalculate([layout EXCEPT !.win = <<w, h>>, !.n = n, !.error = FALSE]))
      BY <3>2, <3>3, <3>4, RecalculateSane
    <3>6. \/ layout' = layout
          \/ layout' = Recalculate([layout EXCEPT !.win = <<w, h>>, !.n = n, !.error = FALSE])
      BY <3>4 DEF Set
    <3>. QED  BY <3>5, <3>6
  <2>2. CASE UNCHANGED layout
    BY <2>2
  <2>. QED  BY <2>1, <2>2 DEF Next, NextSecond, NextFirst, Type, vars
<1>. QED  BY <1>1, <1>2, PTL DEF Spec

-----------------------------------------------------------------------------
(* Where the cards are.                                                    *)

\* One coordinate of the card with q cards before it: nothing of it, and of
\* the card, wraps around.
LEMMA SideOfCard ==
  ASSUME NEW q \in 0..30, NEW a \in Nat, NEW v \in Nat, 32 * (a + v) < Word
  PROVE  /\ (a + v) % Word = a + v
         /\ (q * ((a + v) % Word) + v) % Word = q * (a + v) + v
         /\ q * (a + v) \in Nat
         /\ q * (a + v) + v + a < Word
<1>. PICK p \in Nat : p = a + v
  OBVIOUS
<1>1. q * p <= 30 * p /\ q * p \in Nat
  BY TimesMonotone
<1>2. PICK m \in Nat : m = q * p /\ m <= 30 * p
  BY <1>1
<1>3. p < Word /\ m + v < Word /\ m + v + a < Word
  BY <1>2, WordAssumption
<1>4. p % Word = p /\ (m + v) % Word = m + v
  <2>1. m + v \in Nat
    OBVIOUS
  <2>. QED  BY <1>3, <2>1, SmallMod
<1>. QED  BY <1>2, <1>3, <1>4

\* The same, with the coordinate named.
LEMMA EndOfCard ==
  ASSUME NEW q \in 0..30, NEW a \in Nat, NEW v \in Nat, 32 * (a + v) < Word
  PROVE  \E s \in Nat : s = q * (a + v) + v /\ s + a < Word
<1>1. PICK m : m = q * (a + v)
  OBVIOUS
<1>2. m \in Nat /\ m + v + a < Word
  BY <1>1, SideOfCard
<1>3. m + v \in Nat /\ (m + v) + a < Word
  BY <1>2
<1>4. WITNESS m + v \in Nat
<1>. QED  BY <1>1, <1>3

\* The difference to a card's coordinate is less than the card's size only on
\* the card: before it the difference wraps around to more than that.
LEMMA OnTheCard ==
  ASSUME NEW at \in Nat, NEW a \in Nat, at + a < Word, NEW x \in Nat, x < Word
  PROVE  Minus(x, at) < a <=> at <= x /\ x < at + a
<1>1. CASE at <= x
  <2>1. Minus(x, at) = x - at
    BY <1>1, MinusIsMinus
  <2>. QED  BY <1>1, <2>1
<1>2. CASE x < at
  <2>1. PICK e \in Nat : e = x - at + Word /\ e < Word /\ e > a
    BY <1>2, WordAssumption
  <2>2. (x - at) % Word = e
    BY <1>2, <2>1, WordAssumption
  <2>. QED  BY <1>2, <2>1, <2>2 DEF Minus
<1>. QED  BY <1>1, <1>2

\* Divided by the pitch, a point on a card gives the number of cards before it.
LEMMA CardsBefore ==
  ASSUME NEW q \in 0..30, NEW a \in Nat, NEW v \in Nat, 32 * (a + v) < Word,
         NEW x \in Nat, x < Word,
         q * (a + v) + v <= x, x < q * (a + v) + v + a
  PROVE  Minus(x, v) \div ((a + v) % Word) = q
<1>. PICK p \in Nat, m \in Nat : p = a + v /\ m = q * (a + v)
  BY SideOfCard
<1>1. p > 0
  OBVIOUS
<1>2. PICK e \in 0..(p - 1) : x - v = m + e
  <2>1. x - v - m \in 0..(p - 1)
    OBVIOUS
  <2>2. x - v = m + (x - v - m)
    OBVIOUS
  <2>. QED  BY <2>1, <2>2
<1>3. Minus(x, v) = x - v
  BY MinusIsMinus
<1>4. PICK n \in Nat, d \in Nat \ {0}, k \in Nat :
        n = x - v /\ d = p /\ k = q /\ e \in 0..(d - 1) /\ n = d * k + e
  BY <1>1, <1>2
<1>5. n \div d = k
  BY <1>4, DivIs
<1>6. (a + v) % Word = p
  BY SideOfCard
<1>. QED  BY <1>3, <1>4, <1>5, <1>6

\* A layout of n cards in k columns, of size <<a, b>> with the gaps <<v, z>>.
Shape(g, n, k, a, b, v, z) ==
  /\ n \in 0..31 /\ k \in 1..31 /\ a \in Nat /\ b \in Nat /\ v \in Nat /\ z \in Nat
  /\ 32 * (a + v) < Word /\ 32 * (b + z) < Word
  /\ g.n = n /\ g.cols = k /\ g.size = <<a, b>> /\ g.gap = <<v, z>>

\* Card c is in this column and row, and stands where they say.
Stands(g, k, a, b, v, z, c, col, row) ==
  /\ col < k /\ c = k * row + col
  /\ GetCardPosition(g, c) = <<col * (a + v) + v, row * (b + z) + z>>

\* Every card has a column and a row, and stands where they say.
LEMMA PlaceOfCard ==
  ASSUME NEW g, NEW n, NEW k, NEW a, NEW b, NEW v, NEW z, Shape(g, n, k, a, b, v, z),
         NEW c \in 0..(n - 1)
  PROVE  \E col, row \in 0..30 : Stands(g, k, a, b, v, z, c, col, row)
<1>. /\ n \in 0..31 /\ k \in 1..31 /\ a \in Nat /\ b \in Nat /\ v \in Nat /\ z \in Nat
     /\ 32 * (a + v) < Word /\ 32 * (b + z) < Word
     /\ g.n = n /\ g.cols = k /\ g.size = <<a, b>> /\ g.gap = <<v, z>>
  BY DEF Shape
<1>1. PICK e \in Nat, d \in Nat \ {0} : e = c /\ d = k
  OBVIOUS
<1>2. e \div d \in Nat /\ e % d \in 0..(d - 1) /\ e = d * (e \div d) + (e % d)
  BY DivMod
<1>3. PICK col \in Nat, row \in Nat :
        col < k /\ col = c % k /\ row = c \div k /\ c = k * row + col
  BY <1>1, <1>2
<1>4. row <= 30
  <2>1. 1 * row <= k * row /\ k * row \in Nat
    BY TimesMonotone
  <2>. QED  BY <1>3, <2>1
<1>5. PICK i1 \in 0..30, i2 \in 0..30 : i1 = col /\ i2 = row
  <2>1. col \in 0..30 /\ row \in 0..30
    BY <1>3, <1>4
  <2>. QED  BY <2>1
<1>6. /\ (i1 * ((a + v) % Word) + v) % Word = i1 * (a + v) + v
      /\ (i2 * ((b + z) % Word) + z) % Word = i2 * (b + z) + z
  BY SideOfCard, ZenonT(60)
<1>7. GetCardPosition(g, c) =
        <<((c % k) * ((a + v) % Word) + v) % Word, ((c \div k) * ((b + z) % Word) + z) % Word>>
  BY DEF GetCardPosition, Pitch
<1>8. GetCardPosition(g, c) = <<i1 * (a + v) + v, i2 * (b + z) + z>>
  BY <1>3, <1>5, <1>6, <1>7
<1>9. Stands(g, k, a, b, v, z, c, i1, i2)
  BY <1>3, <1>5, <1>8 DEF Stands
<1>. QED  BY <1>9

\* Pick finds the card that covers a point.
LEMMA CoveredIsPicked ==
  ASSUME NEW g, NEW n, NEW k, NEW a, NEW b, NEW v, NEW z, Shape(g, n, k, a, b, v, z),
         NEW x \in Nat, x < Word, NEW y \in Nat, y < Word,
         NEW c \in 0..(n - 1), Covers(GetCardPosition(g, c), g.size, x, y)
  PROVE  Pick(g, x, y) = c
<1>1. PICK col \in 0..30, row \in 0..30 :
        /\ c = k * row + col
        /\ GetCardPosition(g, c) = <<col * (a + v) + v, row * (b + z) + z>>
  <2>1. PICK i1, i2 \in 0..30 : Stands(g, k, a, b, v, z, c, i1, i2)
    BY PlaceOfCard
  <2>. QED  BY <2>1 DEF Stands
<1>. /\ n \in 0..31 /\ k \in 1..31 /\ a \in Nat /\ b \in Nat /\ v \in Nat /\ z \in Nat
     /\ 32 * (a + v) < Word /\ 32 * (b + z) < Word
     /\ g.n = n /\ g.cols = k /\ g.size = <<a, b>> /\ g.gap = <<v, z>>
  BY DEF Shape
<1>31. PICK s \in Nat : s = col * (a + v) + v /\ s + a < Word
  BY EndOfCard
<1>32. PICK t \in Nat : t = row * (b + z) + z /\ t + b < Word
  BY EndOfCard
<1>3. /\ s = col * (a + v) + v /\ t = row * (b + z) + z
     /\ s + a < Word /\ t + b < Word
  BY <1>31, <1>32
<1>4. GetCardPosition(g, c) = <<s, t>>
  BY <1>1, <1>3
<1>5. s <= x /\ x < s + a /\ t <= y /\ y < t + b
  BY <1>4 DEF Covers
<1>6. Minus(x, v) \div ((a + v) % Word) = col
  BY <1>3, <1>5, CardsBefore
<1>7. Minus(y, z) \div ((b + z) % Word) = row
  BY <1>3, <1>5, CardsBefore
<1>8. c % Word = c /\ row * k + col = c
  <2>1. a + v > 0
    BY <1>5
  <2>2. 31 < Word
    BY <2>1, WordAssumption
  <2>3. c \in Nat /\ c < Word
    BY <2>2, WordAssumption
  <2>4. c % Word = c
    BY <2>3, SmallMod
  <2>. QED  BY <1>1, <2>4
<1>9. Minus(x, s) < a /\ Minus(y, t) < b
  BY <1>3, <1>5, OnTheCard
<1>10. /\ Minus(x, g.gap[1]) \div Pitch(g, 1) = col
       /\ Minus(y, g.gap[2]) \div Pitch(g, 2) = row
  BY <1>6, <1>7 DEF Pitch
<1>11. c < g.n /\ Minus(x, <<s, t>>[1]) < g.size[1] /\ Minus(y, <<s, t>>[2]) < g.size[2]
  BY <1>9
<1>12. (row * g.cols + col) % Word = c
  BY <1>8
<1>. QED  BY <1>4, <1>10, <1>11, <1>12 DEF Pick

\* A card that Pick finds covers the point.
LEMMA PickedIsCovered ==
  ASSUME NEW g, NEW n, NEW k, NEW a, NEW b, NEW v, NEW z, Shape(g, n, k, a, b, v, z),
         a + v > 0, b + z > 0,
         NEW x \in Nat, x < Word, NEW y \in Nat, y < Word,
         Pick(g, x, y) # None
  PROVE  /\ Pick(g, x, y) \in 0..(n - 1)
         /\ Covers(GetCardPosition(g, Pick(g, x, y)), g.size, x, y)
<1>. /\ n \in 0..31 /\ k \in 1..31 /\ a \in Nat /\ b \in Nat /\ v \in Nat /\ z \in Nat
     /\ 32 * (a + v) < Word /\ 32 * (b + z) < Word
     /\ g.n = n /\ g.cols = k /\ g.size = <<a, b>> /\ g.gap = <<v, z>>
  BY DEF Shape
<1>. DEFINE col == Minus(x, g.gap[1]) \div Pitch(g, 1)
            row == Minus(y, g.gap[2]) \div Pitch(g, 2)
<1>1. PICK c : c = (row * g.cols + col) % Word
  OBVIOUS
<1>2. /\ Pick(g, x, y) = c /\ c < n
      /\ Minus(x, GetCardPosition(g, c)[1]) < a
      /\ Minus(y, GetCardPosition(g, c)[2]) < b
  BY <1>1 DEF Pick
<1>3. col \in Nat /\ row \in Nat
  <2>1. PICK p \in Nat \ {0}, q \in Nat \ {0}, i1 \in Nat, i2 \in Nat :
          /\ p = Pitch(g, 1) /\ q = Pitch(g, 2)
          /\ i1 = Minus(x, g.gap[1]) /\ i2 = Minus(y, g.gap[2])
    <3>1. Pitch(g, 1) = a + v /\ Pitch(g, 2) = b + z
      <4>1. a + v \in Nat /\ b + z \in Nat /\ a + v < Word /\ b + z < Word
        BY WordAssumption
      <4>2. (a + v) % Word = a + v /\ (b + z) % Word = b + z
        BY <4>1, SmallMod
      <4>. QED  BY <4>2 DEF Pitch
    <3>2. Minus(x, g.gap[1]) \in Nat /\ Minus(y, g.gap[2]) \in Nat
      <4>1. g.gap[1] = v /\ g.gap[2] = z
        OBVIOUS
      <4>2. Minus(x, v) \in Nat /\ Minus(y, z) \in Nat
        BY MinusInNat
      <4>. QED  BY <4>1, <4>2
    <3>. QED  BY <3>1, <3>2
  <2>2. i1 \div p \in Nat /\ i2 \div q \in Nat
    BY <2>1, DivMod
  <2>. QED  BY <2>1, <2>2
<1>. HIDE DEF col, row
<1>4. c \in Nat
  BY <1>1, <1>3, WordAssumption
<1>5. c \in 0..(n - 1)
  BY <1>2, <1>4
<1>6. PICK i1 \in 0..30, i2 \in 0..30 :
        GetCardPosition(g, c) = <<i1 * (a + v) + v, i2 * (b + z) + z>>
  <2>1. PICK col1, row1 \in 0..30 : Stands(g, k, a, b, v, z, c, col1, row1)
    BY <1>5, PlaceOfCard
  <2>. QED  BY <2>1 DEF Stands
<1>81. PICK s \in Nat : s = i1 * (a + v) + v /\ s + a < Word
  BY EndOfCard
<1>82. PICK t \in Nat : t = i2 * (b + z) + z /\ t + b < Word
  BY EndOfCard
<1>8. /\ s = i1 * (a + v) + v /\ t = i2 * (b + z) + z
     /\ s + a < Word /\ t + b < Word
  BY <1>81, <1>82
<1>9. GetCardPosition(g, c) = <<s, t>>
  BY <1>6, <1>8
<1>10. Minus(x, s) < a /\ Minus(y, t) < b
  BY <1>2, <1>9
<1>11. s <= x /\ x < s + a /\ t <= y /\ y < t + b
  BY <1>8, <1>10, OnTheCard
<1>12. Covers(<<s, t>>, g.size, x, y)
  BY <1>11 DEF Covers
<1>. QED  BY <1>2, <1>5, <1>9, <1>12
-----------------------------------------------------------------------------
(* What the layouts promise.                                               *)

\* A sane layout in its parts.
LEMMA SaneShape ==
  ASSUME NEW g, Sane(g)
  PROVE  \E w, h, a, b, v, z \in Nat :
           /\ g.win = <<w, h>> /\ w < Word /\ h < Word
           /\ g.size = <<a, b>> /\ g.gap = <<v, z>>
           /\ Shape(g, g.n, g.cols, a, b, v, z)
           /\ (a = 0 /\ b = 0) \/ (a > 0 /\ b > 0)
<1>1. PICK w, h, a, b, v, z \in Nat :
        /\ g.win = <<w, h>> /\ g.size = <<a, b>> /\ g.gap = <<v, z>>
        /\ w < Word /\ h < Word /\ 32 * (a + v) < Word /\ 32 * (b + z) < Word
        /\ (a = 0 /\ b = 0) \/ (a > 0 /\ b > 0)
  BY SaneParts
<1>2. g.n \in 0..31 /\ g.cols \in 1..31
  BY DEF Sane
<1>3. Shape(g, g.n, g.cols, a, b, v, z)
  BY <1>1, <1>2 DEF Shape
<1>. QED  BY <1>1, <1>3

\* A card ends, with the gap after it, before the next one and the window's edge.
LEMMA NextSide ==
  ASSUME NEW q \in 0..30, NEW a \in Nat, NEW v \in Nat, v > 0, NEW k \in 1..31, q < k
  PROVE  /\ q * (a + v) + v + a < k * (a + v) + v
         /\ q * (a + v) \in Nat /\ k * (a + v) \in Nat
         /\ k * (a + v) + v = k * a + (k + 1) * v
<1>. PICK p \in Nat : p = a + v
  OBVIOUS
<1>1. (q + 1) * p <= k * p /\ q * p \in Nat /\ k * p \in Nat
  BY TimesMonotone
<1>2. (q + 1) * p = q * p + p
  OBVIOUS
<1>3. k * (a + v) + v = k * a + (k + 1) * v
  OBVIOUS
<1>. QED  BY <1>1, <1>2, <1>3

LEMMA SaneApart == ASSUME Sane(layout) PROVE CardsApart
<1>. PICK g : g = layout
  OBVIOUS
<1>. SUFFICES ASSUME ~g.error
     PROVE  \A c \in 0..(g.n - 1) :
              /\ \A d \in {1, 2} : /\ 0 < GetCardPosition(g, c)[d]
                                   /\ GetCardPosition(g, c)[d] + g.size[d] < g.win[d]
              /\ \A o \in 0..(g.n - 1) \ {c} :
                   \E d \in {1, 2} :
                     \/ GetCardPosition(g, c)[d] + g.size[d] < GetCardPosition(g, o)[d]
                     \/ GetCardPosition(g, o)[d] + g.size[d] < GetCardPosition(g, c)[d]
  BY Zenon DEF CardsApart
<1>1. Sane(g)
  OBVIOUS
<1>2. PICK w, h, a, b, v, z \in Nat :
        /\ g.win = <<w, h>> /\ g.size = <<a, b>> /\ g.gap = <<v, z>>
        /\ Shape(g, g.n, g.cols, a, b, v, z)
  BY <1>1, SaneShape, ZenonT(60)
<1>3. Fits(g)
  BY <1>1 DEF Sane
<1>40. PICK n \in 1..31, k \in 1..31 : n = g.n /\ k = g.cols /\ k \in 1..n
  <2>1. g.n \in 1..31 /\ g.cols \in 1..g.n
    BY <1>3 DEF Fits
  <2>2. g.cols \in 1..31
    BY <2>1, SMTT(60)
  <2>. QED  BY <2>1, <2>2
<1>41. NumRows(n, k) \in 1..n /\ \A c \in 0..(n - 1) : c \div k \in 0..(NumRows(n, k) - 1)
  BY <1>40, RowsOfCards
<1>42. PICK rows \in 1..31 : rows = NumRows(n, k)
  <2>1. PICK r : r = NumRows(n, k) /\ r \in 1..n
    BY <1>41
  <2>2. r \in 1..31
    BY <2>1
  <2>. QED  BY <2>1, <2>2
<1>4. n = g.n /\ k = g.cols /\ rows = NumRows(g.n, g.cols)
  BY <1>40, <1>42
<1>5. /\ a > 0 /\ b > 0 /\ v > 0 /\ z > 0
      /\ k * a + (k + 1) * v <= w
      /\ rows * b + (rows + 1) * z <= h
  BY <1>2, <1>3, <1>4 DEF Fits
<1>6. ASSUME NEW c \in 0..(n - 1)
      PROVE  \E col, row \in 0..30 :
               /\ col < k /\ row < rows /\ c = k * row + col
               /\ GetCardPosition(g, c) = <<col * (a + v) + v, row * (b + z) + z>>
  <2>1. Shape(g, n, k, a, b, v, z)
    BY <1>2, <1>4
  <2>2. PICK i1, i2 \in 0..30 : Stands(g, k, a, b, v, z, c, i1, i2)
    BY <2>1, PlaceOfCard
  <2>3. i1 < k /\ c = k * i2 + i1
    BY <2>2 DEF Stands
  <2>4. PICK e \in Nat, d \in Nat \ {0}, i3 \in Nat :
          e = c /\ d = k /\ i3 = i2 /\ i1 \in 0..(d - 1) /\ e = d * i3 + i1
    BY <2>3
  <2>5. e \div d = i3
    BY <2>4, DivIs
  <2>6. c \div k \in 0..(rows - 1)
    BY <1>41, <1>42
  <2>7. i2 < rows
    BY <2>4, <2>5, <2>6
  <2>. QED  BY <2>2, <2>3, <2>7 DEF Stands
<1>. SUFFICES ASSUME NEW c \in 0..(n - 1)
     PROVE  /\ \A d \in {1, 2} : /\ 0 < GetCardPosition(g, c)[d]
                                 /\ GetCardPosition(g, c)[d] + g.size[d] < g.win[d]
            /\ \A o \in 0..(n - 1) \ {c} :
                 \E d \in {1, 2} :
                   \/ GetCardPosition(g, c)[d] + g.size[d] < GetCardPosition(g, o)[d]
                   \/ GetCardPosition(g, o)[d] + g.size[d] < GetCardPosition(g, c)[d]
  BY <1>4
<1>7. PICK col, row \in 0..30 :
        /\ col < k /\ row < rows /\ c = k * row + col
        /\ GetCardPosition(g, c) = <<col * (a + v) + v, row * (b + z) + z>>
  BY <1>6
<1>8. PICK s, t \in Nat : s = col * (a + v) + v /\ t = row * (b + z) + z
                          /\ s > 0 /\ t > 0 /\ s + a < w /\ t + b < h
  <2>1. /\ col * (a + v) \in Nat
        /\ col * (a + v) + v + a < k * (a + v) + v
        /\ k * (a + v) + v = k * a + (k + 1) * v
    BY <1>5, <1>7, NextSide
  <2>2. /\ row * (b + z) \in Nat
        /\ row * (b + z) + z + b < rows * (b + z) + z
        /\ rows * (b + z) + z = rows * b + (rows + 1) * z
    BY <1>5, <1>7, NextSide
  <2>3. col * (a + v) + v + a < w
    <3>1. PICK m1, m2 \in Int : m1 = col * (a + v) /\ m2 = k * a + (k + 1) * v
      BY <2>1
    <3>. QED  BY <1>5, <2>1, <3>1
  <2>4. row * (b + z) + z + b < h
    <3>1. PICK m1, m2 \in Int : m1 = row * (b + z) /\ m2 = rows * b + (rows + 1) * z
      BY <2>2
    <3>. QED  BY <1>5, <2>2, <3>1
  <2>. QED  BY <1>5, <2>1, <2>2, <2>3, <2>4
<1>9. GetCardPosition(g, c) = <<s, t>>
  BY <1>7, <1>8
<1>10. \A d \in {1, 2} : /\ 0 < GetCardPosition(g, c)[d]
                         /\ GetCardPosition(g, c)[d] + g.size[d] < g.win[d]
  <2>1. 0 < <<s, t>>[1] /\ <<s, t>>[1] + g.size[1] < g.win[1]
    BY <1>2, <1>8
  <2>2. 0 < <<s, t>>[2] /\ <<s, t>>[2] + g.size[2] < g.win[2]
    BY <1>2, <1>8
  <2>. QED  BY <1>9, <2>1, <2>2
<1>11. ASSUME NEW o \in 0..(n - 1) \ {c}
       PROVE  \E d \in {1, 2} :
                \/ GetCardPosition(g, c)[d] + g.size[d] < GetCardPosition(g, o)[d]
                \/ GetCardPosition(g, o)[d] + g.size[d] < GetCardPosition(g, c)[d]
  <2>0. o \in 0..(n - 1) /\ o # c
    BY SMTT(60)
  <2>1. PICK col2, row2 \in 0..30 :
          /\ col2 < k /\ row2 < rows /\ o = k * row2 + col2
          /\ GetCardPosition(g, o) = <<col2 * (a + v) + v, row2 * (b + z) + z>>
    BY <1>6, <2>0
  <2>2. PICK s2, t2 : s2 = col2 * (a + v) + v /\ t2 = row2 * (b + z) + z
    OBVIOUS
  <2>3. GetCardPosition(g, o) = <<s2, t2>>
    BY <2>1, <2>2
  <2>4. col # col2 \/ row # row2
    BY <1>7, <2>0, <2>1
  <2>5. ASSUME NEW q \in 0..30, NEW q2 \in 0..30, q < q2, NEW e \in Nat, NEW f \in Nat, f > 0
        PROVE  q * (e + f) + f + e < q2 * (e + f) + f
    <3>1. q2 \in 1..31
      BY <2>5
    <3>. QED  BY <2>5, <3>1, NextSide
  <2>6. CASE col < col2
    <3>1. s + a < s2
      BY <1>5, <1>8, <2>2, <2>5, <2>6
    <3>2. <<s, t>>[1] + g.size[1] < <<s2, t2>>[1]
      BY <1>2, <3>1
    <3>. QED  BY <1>9, <2>3, <3>2
  <2>7. CASE col2 < col
    <3>1. s2 + a < s
      BY <1>5, <1>8, <2>2, <2>5, <2>7
    <3>2. <<s2, t2>>[1] + g.size[1] < <<s, t>>[1]
      BY <1>2, <3>1
    <3>. QED  BY <1>9, <2>3, <3>2
  <2>8. CASE row < row2
    <3>1. t + b < t2
      BY <1>5, <1>8, <2>2, <2>5, <2>8
    <3>2. <<s, t>>[2] + g.size[2] < <<s2, t2>>[2]
      BY <1>2, <3>1
    <3>. QED  BY <1>9, <2>3, <3>2
  <2>9. CASE row2 < row
    <3>1. t2 + b < t
      BY <1>5, <1>8, <2>2, <2>5, <2>9
    <3>2. <<s2, t2>>[2] + g.size[2] < <<s, t>>[2]
      BY <1>2, <3>1
    <3>. QED  BY <1>9, <2>3, <3>2
  <2>. QED  BY <2>4, <2>6, <2>7, <2>8, <2>9
<1>. QED  BY <1>10, <1>11

\* A layout without an error puts the cards into the window, each at least a
\* pixel from the next, in any window and with any board that GOLDEN_TEST
\* could be run with.
THEOREM CardsApartAlways == Spec => []CardsApart
<1>1. Sane(layout) => CardsApart
  BY SaneApart
<1>. QED  BY <1>1, AlwaysSane, PTL

LEMMA SanePicks == ASSUME Sane(layout) PROVE PickIsDrawn
<1>. PICK g : g = layout
  OBVIOUS
<1>1. Sane(g)
  OBVIOUS
<1>2. PICK w, h, a, b, v, z \in Nat :
        /\ g.win = <<w, h>> /\ w < Word /\ h < Word
        /\ g.size = <<a, b>> /\ g.gap = <<v, z>>
        /\ Shape(g, g.n, g.cols, a, b, v, z)
        /\ (a = 0 /\ b = 0) \/ (a > 0 /\ b > 0)
  BY <1>1, SaneShape, ZenonT(60)
<1>3. PICK n \in 0..31, k \in 1..31 : n = g.n /\ k = g.cols
  BY <1>2 DEF Shape
<1>4. Shape(g, n, k, a, b, v, z) /\ 32 * (a + v) < Word /\ 32 * (b + z) < Word
  BY <1>2, <1>3 DEF Shape
<1>5. ASSUME NEW c \in 0..(n - 1)
      PROVE  GetCardPosition(g, c)[1] \in Nat /\ GetCardPosition(g, c)[2] \in Nat
  <2>1. PICK i1, i2 \in 0..30 : Stands(g, k, a, b, v, z, c, i1, i2)
    BY <1>4, PlaceOfCard
  <2>2. i1 * (a + v) \in Nat /\ i2 * (b + z) \in Nat
    OBVIOUS
  <2>3. i1 * (a + v) + v \in Nat /\ i2 * (b + z) + z \in Nat
    BY <2>2
  <2>4. GetCardPosition(g, c) = <<i1 * (a + v) + v, i2 * (b + z) + z>>
    BY <2>1 DEF Stands
  <2>. QED  BY <2>3, <2>4
<1>6. ASSUME NEW x \in Probes(g, 1)  PROVE x \in Nat /\ x < Word
  <2>1. 0 <= x /\ x < g.win[1]
    BY DEF Probes
  <2>2. x \in Int
    <3>1. CASE x \in {0, g.win[1] - 1}
      BY <1>2, <3>1
    <3>2. CASE x \in UNION {LET at == GetCardPosition(g, c)[1]
                            IN  {at - 1, at, at + g.size[1] - 1, at + g.size[1]} : c \in 0..(g.n - 1)}
      <4>1. PICK c \in 0..(g.n - 1) :
              x \in {GetCardPosition(g, c)[1] - 1, GetCardPosition(g, c)[1],
                     GetCardPosition(g, c)[1] + g.size[1] - 1, GetCardPosition(g, c)[1] + g.size[1]}
        BY <3>2
      <4>2. GetCardPosition(g, c)[1] \in Nat /\ g.size[1] \in Nat
        BY <1>2, <1>3, <1>5
      <4>. QED  BY <4>1, <4>2
    <3>. QED  BY <3>1, <3>2 DEF Probes
  <2>3. g.win[1] = w
    BY <1>2
  <2>. QED  BY <1>2, <2>1, <2>2, <2>3, WordAssumption
<1>7. ASSUME NEW y \in Probes(g, 2)  PROVE y \in Nat /\ y < Word
  <2>1. 0 <= y /\ y < g.win[2]
    BY DEF Probes
  <2>2. y \in Int
    <3>1. CASE y \in {0, g.win[2] - 1}
      BY <1>2, <3>1
    <3>2. CASE y \in UNION {LET at == GetCardPosition(g, c)[2]
                            IN  {at - 1, at, at + g.size[2] - 1, at + g.size[2]} : c \in 0..(g.n - 1)}
      <4>1. PICK c \in 0..(g.n - 1) :
              y \in {GetCardPosition(g, c)[2] - 1, GetCardPosition(g, c)[2],
                     GetCardPosition(g, c)[2] + g.size[2] - 1, GetCardPosition(g, c)[2] + g.size[2]}
        BY <3>2
      <4>2. GetCardPosition(g, c)[2] \in Nat /\ g.size[2] \in Nat
        BY <1>2, <1>3, <1>5
      <4>. QED  BY <4>1, <4>2
    <3>. QED  BY <3>1, <3>2 DEF Probes
  <2>3. g.win[2] = h
    BY <1>2
  <2>. QED  BY <1>2, <2>1, <2>2, <2>3, WordAssumption
<1>. SUFFICES ASSUME layout.size # <<0, 0>>,
                     NEW x \in Probes(layout, 1), NEW y \in Probes(layout, 2)
     PROVE  IF Pick(layout, x, y) = None
            THEN {c \in 0..(layout.n - 1) :
                    Covers(GetCardPosition(layout, c), layout.size, x, y)} = {}
            ELSE {c \in 0..(layout.n - 1) :
                    Covers(GetCardPosition(layout, c), layout.size, x, y)} = {Pick(layout, x, y)}
  BY DEF PickIsDrawn
<1>8. x \in Nat /\ x < Word /\ y \in Nat /\ y < Word
  BY <1>6, <1>7
<1>9. a + v > 0 /\ b + z > 0
  BY <1>2
<1>10. ASSUME NEW c \in 0..(n - 1), Covers(GetCardPosition(g, c), g.size, x, y)
       PROVE  Pick(g, x, y) = c
  BY <1>4, <1>8, <1>10, CoveredIsPicked
<1>11. Pick(g, x, y) # None => /\ Pick(g, x, y) \in 0..(n - 1)
                               /\ Covers(GetCardPosition(g, Pick(g, x, y)), g.size, x, y)
  BY <1>4, <1>8, <1>9, PickedIsCovered
<1>12. None \notin 0..(n - 1)
  BY <1>4, <1>9, WordAssumption DEF None
<1>. DEFINE drawn == {c \in 0..(n - 1) : Covers(GetCardPosition(g, c), g.size, x, y)}
<1>13. \A c : c \in drawn <=> c \in 0..(n - 1) /\ Covers(GetCardPosition(g, c), g.size, x, y)
  OBVIOUS
<1>14. IF Pick(g, x, y) = None THEN drawn = {} ELSE drawn = {Pick(g, x, y)}
  <2>. HIDE DEF drawn
  <2>1. ASSUME Pick(g, x, y) = None PROVE drawn = {}
    BY <1>10, <1>12, <1>13, <2>1
  <2>2. ASSUME Pick(g, x, y) # None PROVE drawn = {Pick(g, x, y)}
    BY <1>10, <1>11, <1>13, <2>2
  <2>. QED  BY <2>1, <2>2
<1>. QED  BY <1>3, <1>14

\* The card picked at a pixel is the card drawn there, and none is picked in
\* the gaps, also in the layouts that an error leaves half changed, although
\* the unsigned differences there wrap around.
THEOREM PickIsDrawnAlways == Spec => []PickIsDrawn
<1>1. Sane(layout) => PickIsDrawn
  BY SanePicks
<1>. QED  BY <1>1, AlwaysSane, PTL

-----------------------------------------------------------------------------
(* The board of 3333.js.                                                   *)

\* What keeps its order when multiplied by a positive number kept it before.
LEMMA Cancel ==
  ASSUME NEW a \in Int, NEW b \in Int, NEW m \in Nat \ {0}, a * m < b * m
  PROVE  a < b
<1>. SUFFICES ASSUME b <= a  PROVE FALSE
  OBVIOUS
<1>1. PICK e \in Nat : a = b + e
  <2>1. a - b \in Nat /\ a = b + (a - b)
    OBVIOUS
  <2>. QED  BY <2>1
<1>2. a * m = b * m + e * m /\ e * m \in Nat /\ b * m \in Int
  BY <1>1
<1>. QED  BY <1>2

\* The greater of two positive numbers has the greater square.
LEMMA Squares ==
  ASSUME NEW a \in Nat, NEW b \in Nat, a <= b
  PROVE  a * a <= b * b
<1>1. a * a <= b * a /\ a * b <= b * b
  BY TimesMonotone
<1>. QED  BY <1>1

\* RatioLessThanGolden compares with a number: a ratio below the golden one
\* is less than a ratio that is not.
LEMMA GoldenOrder ==
  ASSUME NEW a \in Nat, NEW b \in Nat \ {0}, NEW c \in Nat, NEW d \in Nat \ {0},
         RatioLessThanGolden(a, b), ~RatioLessThanGolden(c, d)
  PROVE  a * d < c * b
<1>. SUFFICES ASSUME c * b <= a * d  PROVE FALSE
  OBVIOUS
<1>. DEFINE u == 2 * a - b
            v == 2 * c - d
<1>1. u \in Int /\ v \in Int /\ u * u < 5 * (b * b) /\ v * v >= 5 * (d * d)
  BY DEF RatioLessThanGolden
<1>2. b * b \in Nat \ {0} /\ d * d \in Nat \ {0}
  OBVIOUS
<1>3. v > 0
  <2>1. SUFFICES ASSUME v <= 0  PROVE FALSE
    BY <1>1
  <2>2. -v \in Nat /\ -v <= d
    BY <1>1, <2>1
  <2>3. (-v) * (-v) <= d * d
    <3>. HIDE DEF v
    <3>. QED  BY <2>2, Squares
  <2>4. (-v) * (-v) = v * v
    BY <1>1
  <2>. HIDE DEF v
  <2>. QED  BY <1>1, <1>2, <2>3, <2>4
<1>4. u * d >= v * b
  <2>1. u * d = 2 * (a * d) - b * d /\ v * b = 2 * (c * b) - b * d
    OBVIOUS
  <2>2. a * d \in Int /\ b * d \in Int /\ c * b \in Int
    OBVIOUS
  <2>. HIDE DEF u, v
  <2>. QED  BY <2>1, <2>2
<1>. HIDE DEF u, v
<1>5. v * b \in Nat /\ u * d \in Nat
  BY <1>1, <1>3, <1>4
<1>6. (v * b) * (v * b) <= (u * d) * (u * d)
  BY <1>4, <1>5, Squares
<1>7. (v * b) * (v * b) = (v * v) * (b * b) /\ (u * d) * (u * d) = (u * u) * (d * d)
  BY <1>1
<1>8. PICK bb \in Nat \ {0}, dd \in Nat \ {0} : bb = b * b /\ dd = d * d
  BY <1>2
<1>9. PICK uu \in Int, vv \in Int : uu = u * u /\ vv = v * v
  BY <1>1
<1>10. uu < 5 * bb /\ vv >= 5 * dd /\ vv * bb <= uu * dd
  BY <1>1, <1>6, <1>7, <1>8, <1>9
<1>11. PICK e \in Nat \ {0}, f \in Nat : 5 * bb = uu + e /\ vv = 5 * dd + f
  <2>1. 5 * bb - uu \in Nat \ {0} /\ vv - 5 * dd \in Nat
    BY <1>10
  <2>2. 5 * bb = uu + (5 * bb - uu) /\ vv = 5 * dd + (vv - 5 * dd)
    OBVIOUS
  <2>. QED  BY <2>1, <2>2
<1>12. vv * bb = 5 * (dd * bb) + f * bb
  BY <1>11
<1>13. uu * dd = 5 * (dd * bb) - e * dd
  <2>1. uu = 5 * bb - e
    BY <1>11
  <2>. QED  BY <2>1
<1>14. f * bb \in Nat /\ e * dd \in Nat \ {0} /\ dd * bb \in Nat
  OBVIOUS
<1>. QED  BY <1>10, <1>12, <1>13, <1>14

\* The golden ratio lies between 21 : 13 and 34 : 21.
LEMMA GoldenBounds == RatioLessThanGolden(21, 13) /\ ~RatioLessThanGolden(34, 21)
BY DEF RatioLessThanGolden

\* Dividing by the golden ratio, rounded: a positive number gives one.
LEMMA RoundByGoldenIs ==
  ASSUME NEW x \in Nat \ {0}, NEW k, k = RoundByGolden(x)
  PROVE  k \in Nat \ {0} /\ ~RatioLessThanGolden(2 * x, 2 * k - 1)
<1>. DEFINE S == {m \in 0..x : RatioLessThanGolden(2 * x, 2 * m + 1)}
<1>1. x \in S
  <2>1. (2 * (2 * x) - (2 * x + 1)) * (2 * (2 * x) - (2 * x + 1)) = 4 * (x * x) - 4 * x + 1
    OBVIOUS
  <2>2. 5 * (2 * x + 1) * (2 * x + 1) = 20 * (x * x) + 20 * x + 5
    OBVIOUS
  <2>3. x * x \in Nat
    OBVIOUS
  <2>4. RatioLessThanGolden(2 * x, 2 * x + 1)
    BY <2>1, <2>2, <2>3 DEF RatioLessThanGolden
  <2>. QED  BY <2>4
<1>. HIDE DEF S
<1>2. PICK m \in S : \A o \in S : m <= o
  <2>1. S \in SUBSET Nat
    BY DEF S
  <2>. QED  BY <1>1, <2>1, LeastOf
<1>3. m \in 0..x /\ RatioLessThanGolden(2 * x, 2 * m + 1)
  BY DEF S
<1>4. m > 0 => ~RatioLessThanGolden(2 * x, 2 * m - 1)
  <2>1. SUFFICES ASSUME m > 0, RatioLessThanGolden(2 * x, 2 * m - 1)  PROVE FALSE
    OBVIOUS
  <2>2. m - 1 \in 0..x /\ 2 * (m - 1) + 1 = 2 * m - 1 /\ ~(m <= m - 1)
    BY <1>3, <2>1
  <2>3. m - 1 \in S
    BY <2>1, <2>2 DEF S
  <2>. QED  BY <1>2, <2>2, <2>3
<1>5. /\ k \in 0..x /\ RatioLessThanGolden(2 * x, 2 * k + 1)
      /\ k > 0 => ~RatioLessThanGolden(2 * x, 2 * k - 1)
  BY <1>3, <1>4 DEF RoundByGolden
<1>6. k # 0
  <2>1. SUFFICES ASSUME k = 0  PROVE FALSE
    OBVIOUS
  <2>2. RatioLessThanGolden(2 * x, 1)
    BY <1>5, <2>1
  <2>3. (2 * (2 * x) - 1) * (2 * (2 * x) - 1) = 16 * (x * x) - 8 * x + 1
    OBVIOUS
  <2>4. x * x >= x
    <3>1. x * 1 <= x * x
      OBVIOUS
    <3>. QED  BY <3>1
  <2>5. x * x \in Nat
    OBVIOUS
  <2>. QED  BY <2>2, <2>3, <2>4, <2>5 DEF RatioLessThanGolden
<1>. QED  BY <1>5, <1>6

\* Multiplying by it, rounded, likewise.
LEMMA RoundTimesGoldenIs ==
  ASSUME NEW x \in Nat \ {0}, NEW k, k = RoundTimesGolden(x)
  PROVE  k \in Nat \ {0} /\ RatioLessThanGolden(2 * k - 1, 2 * x)
<1>. DEFINE S == {m \in x..(2 * x) : ~RatioLessThanGolden(2 * m + 1, 2 * x)}
<1>0. x * x \in Nat
  OBVIOUS
<1>1. 2 * x \in S
  <2>1. /\ (2 * (2 * (2 * x) + 1) - 2 * x) * (2 * (2 * (2 * x) + 1) - 2 * x)
             = 36 * (x * x) + 24 * x + 4
        /\ 5 * (2 * x) * (2 * x) = 20 * (x * x)
    OBVIOUS
  <2>2. ~RatioLessThanGolden(2 * (2 * x) + 1, 2 * x)
    BY <1>0, <2>1 DEF RatioLessThanGolden
  <2>. QED  BY <2>2
<1>. HIDE DEF S
<1>2. PICK m \in S : \A o \in S : m <= o
  <2>1. S \in SUBSET Nat
    BY DEF S
  <2>. QED  BY <1>1, <2>1, LeastOf
<1>3. m \in x..(2 * x) /\ ~RatioLessThanGolden(2 * m + 1, 2 * x)
  BY DEF S
<1>4. RatioLessThanGolden(2 * m - 1, 2 * x)
  <2>1. CASE m = x
    <3>1. /\ (2 * (2 * x - 1) - 2 * x) * (2 * (2 * x - 1) - 2 * x) = 4 * (x * x) - 8 * x + 4
          /\ 5 * (2 * x) * (2 * x) = 20 * (x * x)
      OBVIOUS
    <3>2. RatioLessThanGolden(2 * x - 1, 2 * x)
      BY <1>0, <3>1 DEF RatioLessThanGolden
    <3>. QED  BY <2>1, <3>2
  <2>2. CASE m # x
    <3>1. m - 1 \in x..(2 * x) /\ 2 * (m - 1) + 1 = 2 * m - 1 /\ ~(m <= m - 1)
      BY <1>3, <2>2
    <3>2. m - 1 \notin S
      BY <1>2, <3>1
    <3>. QED  BY <3>1, <3>2 DEF S
  <2>. QED  BY <2>1, <2>2
<1>5. /\ k \in x..(2 * x)
      /\ k > 0 => RatioLessThanGolden(2 * k - 1, 2 * x)
  BY <1>3, <1>4 DEF RoundTimesGolden
<1>. QED  BY <1>5

\* One side of the window is rounded among p cards to x pixels; the golden
\* ratio gives y half pixels, less than g / 42 of x, on the other side, t.
LEMMA OtherSide ==
  ASSUME NEW s \in Nat, NEW t \in Nat, NEW p \in Nat \ {0}, NEW q \in Nat \ {0},
         NEW x \in Nat \ {0}, NEW y \in Nat \ {0}, NEW g \in Nat,
         200 * (p * x) <= 190 * s + 100 * p,
         (s * q) * y < (2 * x) * (t * p),
         21 * y < g * x
  PROVE  4200 * (y * q) < 7980 * t + 100 * (g * q)
<1>1. PICK m \in Nat \ {0} : m = p * x
  OBVIOUS
<1>2. PICK n \in Nat \ {0} : n = y * q
  OBVIOUS
<1>3. (200 * m) * n <= (190 * s + 100 * p) * n
  <2>1. 200 * m \in Nat /\ 190 * s + 100 * p \in Nat /\ 200 * m <= 190 * s + 100 * p
    BY <1>1
  <2>. QED  BY <2>1, TimesMonotone
<1>4. s * n < 2 * (t * m)
  <2>1. s * n = (s * q) * y /\ 2 * (t * m) = (2 * x) * (t * p)
    BY <1>1, <1>2
  <2>. QED  BY <2>1
<1>5. 21 * (p * n) <= g * (q * m)
  <2>1. (21 * y) * (p * q) <= (g * x) * (p * q)
    <3>1. 21 * y \in Nat /\ g * x \in Nat /\ p * q \in Nat
      OBVIOUS
    <3>. QED  BY <3>1, TimesMonotone
  <2>2. (21 * y) * (p * q) = 21 * (p * n) /\ (g * x) * (p * q) = g * (q * m)
    BY <1>1, <1>2
  <2>. QED  BY <2>1, <2>2
<1>6. (190 * s + 100 * p) * n = 190 * (s * n) + 100 * (p * n)
  OBVIOUS
<1>7. 21 * ((200 * m) * n) < 7980 * (t * m) + 100 * (g * (q * m))
  <2>1. PICK a, b, c, d, e \in Int :
          /\ a = (200 * m) * n /\ b = s * n /\ c = p * n /\ d = t * m /\ e = g * (q * m)
    OBVIOUS
  <2>2. a <= 190 * b + 100 * c /\ b < 2 * d /\ 21 * c <= e
    BY <1>3, <1>4, <1>5, <1>6, <2>1
  <2>3. 21 * a < 7980 * d + 100 * e
    BY <2>2
  <2>. QED  BY <2>1, <2>3
<1>8. /\ 21 * ((200 * m) * n) = (4200 * n) * m
      /\ 7980 * (t * m) + 100 * (g * (q * m)) = (7980 * t + 100 * (g * q)) * m
  OBVIOUS
<1>9. 4200 * n \in Int /\ 7980 * t + 100 * (g * q) \in Int
  OBVIOUS
<1>10. (4200 * n) * m < (7980 * t + 100 * (g * q)) * m
  BY <1>7, <1>8
<1>11. 4200 * n < 7980 * t + 100 * (g * q)
  BY <1>9, <1>10, Cancel
<1>. QED  BY <1>2, <1>11

\* A twentieth of the window is left, less what the rounding takes of it.
LEMMA RoundedSide ==
  ASSUME NEW s \in Nat, NEW p \in Nat \ {0}, 17 * p <= s,
         NEW x, x = Round(95 * s, 100 * p)
  PROVE  x \in Nat \ {0} /\ 200 * (p * x) <= 190 * s + 100 * p /\ p * x <= s
<1>. DEFINE a == 2 * (95 * s) + 100 * p
            b == 2 * (100 * p)
<1>1. a \in Nat /\ b \in Nat \ {0}
  OBVIOUS
<1>2. x = a \div b
  BY DEF Round
<1>3. a = 190 * s + 100 * p /\ b = 200 * p
  OBVIOUS
<1>. HIDE DEF a, b
<1>4. x \in Nat /\ a % b \in 0..(b - 1) /\ a = b * x + (a % b)
  BY <1>1, <1>2, DivMod
<1>5. PICK r \in 0..(b - 1) : a = b * x + r
  BY <1>4
<1>6. b * x = 200 * (p * x) /\ p * x \in Nat
  BY <1>3, <1>4
<1>7. x # 0
  <2>1. SUFFICES ASSUME x = 0  PROVE FALSE
    OBVIOUS
  <2>2. a < b
    BY <1>1, <1>5, <1>6, <2>1
  <2>. QED  BY <1>3, <2>2
<1>8. 200 * (p * x) <= 190 * s + 100 * p
  BY <1>1, <1>3, <1>5, <1>6
<1>9. p * x <= s
  BY <1>6, <1>8
<1>. QED  BY <1>4, <1>7, <1>8, <1>9

\* The size of a card, rounded by the width or by the height of the window.
JsSize(w, h, cols, rows) ==
  IF RatioLessThanGolden(w * rows, h * cols)
    THEN <<Round(95 * w, 100 * cols), RoundByGolden(Round(95 * w, 100 * cols))>>
    ELSE <<RoundTimesGolden(Round(95 * h, 100 * rows)), Round(95 * h, 100 * rows)>>

\* The plan of a board: its rows, and the size of its cards.
LEMMA PlanParts ==
  ASSUME NEW w \in Nat, NEW h \in Nat, NEW n \in 1..31, NEW cols \in 1..n
  PROVE  /\ JsPlan(w, h, n, cols) = [win |-> <<w, h>>, n |-> n, cols |-> cols,
                                     size |-> JsSize(w, h, cols, NumRows(n, cols))]
         /\ NumRows(n, cols) \in 1..n /\ RowsOf(n, cols) = NumRows(n, cols)
<1>1. NumRows(n, cols) \in 1..n
  BY RowsOfCards
<1>2. RowsOf(n, cols) = NumRows(n, cols)
  BY <1>1, MaxOfTwo DEF RowsOf
<1>. QED  BY <1>1, <1>2, SMTT(60) DEF JsPlan, JsSize

\* Cards that are 17 pixels each way apart fit into the window, by columns
\* and by rows, in whichever direction they were rounded first.
LEMMA PlanFits ==
  ASSUME NEW w \in Nat, NEW h \in Nat, NEW cols \in Nat \ {0}, NEW rows \in Nat \ {0},
         17 * cols <= w, 17 * rows <= h
  PROVE  \E a, b \in Nat \ {0} :
           JsSize(w, h, cols, rows) = <<a, b>> /\ cols * a <= w /\ rows * b <= h
<1>1. w * rows \in Nat /\ h * cols \in Nat \ {0}
  <2>1. h # 0
    OBVIOUS
  <2>. QED  BY <2>1
<1>2. CASE RatioLessThanGolden(w * rows, h * cols)
  <2>. DEFINE x == Round(95 * w, 100 * cols)
              k == RoundByGolden(x)
  <2>1. x \in Nat \ {0} /\ 200 * (cols * x) <= 190 * w + 100 * cols /\ cols * x <= w
    BY RoundedSide
  <2>. HIDE DEF x
  <2>2. k \in Nat \ {0} /\ ~RatioLessThanGolden(2 * x, 2 * k - 1)
    BY <2>1, RoundByGoldenIs
  <2>. HIDE DEF k
  <2>3. PICK y \in Nat \ {0} : y = 2 * k - 1
    BY <2>2
  <2>4. (w * rows) * y < (2 * x) * (h * cols)
    BY <1>1, <1>2, <2>1, <2>2, <2>3, GoldenOrder
  <2>5. 21 * y < (2 * x) * 13
    BY <2>1, <2>2, <2>3, GoldenBounds, GoldenOrder
  <2>6. 21 * y < 26 * x
    BY <2>1, <2>5
  <2>7. 4200 * (y * rows) < 7980 * h + 100 * (26 * rows)
    BY <2>1, <2>4, <2>6, OtherSide
  <2>8. y * rows = 2 * (rows * k) - rows /\ rows * k \in Nat
    BY <2>2, <2>3
  <2>9. rows * k <= h
    <3>. PICK z \in Nat : z = rows * k
      BY <2>8
    <3>1. 4200 * (2 * z - rows) < 7980 * h + 100 * (26 * rows)
      BY <2>7, <2>8
    <3>. QED  BY <3>1
  <2>10. JsSize(w, h, cols, rows) = <<x, k>>
    BY <1>2 DEF x, k, JsSize
  <2>. QED  BY <2>1, <2>2, <2>9, <2>10
<1>3. CASE ~RatioLessThanGolden(w * rows, h * cols)
  <2>. DEFINE x == Round(95 * h, 100 * rows)
              k == RoundTimesGolden(x)
  <2>1. x \in Nat \ {0} /\ 200 * (rows * x) <= 190 * h + 100 * rows /\ rows * x <= h
    BY RoundedSide
  <2>. HIDE DEF x
  <2>2. k \in Nat \ {0} /\ RatioLessThanGolden(2 * k - 1, 2 * x)
    BY <2>1, RoundTimesGoldenIs
  <2>. HIDE DEF k
  <2>3. PICK y \in Nat \ {0} : y = 2 * k - 1
    BY <2>2
  <2>4. y * (h * cols) < (w * rows) * (2 * x)
    BY <1>1, <1>3, <2>1, <2>2, <2>3, GoldenOrder
  <2>5. (h * cols) * y < (2 * x) * (w * rows)
    BY <2>1, <2>4
  <2>6. y * 21 < 34 * (2 * x)
    BY <2>1, <2>2, <2>3, GoldenBounds, GoldenOrder
  <2>7. 21 * y < 68 * x
    BY <2>1, <2>6
  <2>8. 4200 * (y * cols) < 7980 * w + 100 * (68 * cols)
    BY <2>1, <2>5, <2>7, OtherSide
  <2>9. 357 * cols < 13 * w
    <3>1. 21 * (h * cols) < (w * rows) * 13
      BY <1>1, <1>3, GoldenBounds, GoldenOrder
    <3>2. (17 * rows) * cols <= h * cols
      <4>1. 17 * rows \in Nat
        OBVIOUS
      <4>. QED  BY <4>1, TimesMonotone
    <3>3. (17 * rows) * cols = 17 * (cols * rows) /\ (w * rows) * 13 = (13 * w) * rows
      OBVIOUS
    <3>4. (357 * cols) * rows = 357 * (cols * rows) /\ cols * rows \in Int
      OBVIOUS
    <3>5. (357 * cols) * rows < (13 * w) * rows
      BY <1>1, <3>1, <3>2, <3>3, <3>4
    <3>6. 357 * cols \in Int /\ 13 * w \in Int
      OBVIOUS
    <3>. QED  BY <3>5, <3>6, Cancel
  <2>10. y * cols = 2 * (cols * k) - cols /\ cols * k \in Nat
    BY <2>2, <2>3
  <2>11. cols * k <= w
    <3>. PICK z \in Nat : z = cols * k
      BY <2>10
    <3>1. 4200 * (2 * z - cols) < 7980 * w + 100 * (68 * cols)
      BY <2>8, <2>10
    <3>. QED  BY <2>9, <3>1
  <2>12. JsSize(w, h, cols, rows) = <<k, x>>
    BY <1>3 DEF x, k, JsSize
  <2>. QED  BY <2>1, <2>2, <2>11, <2>12
<1>. QED  BY <1>2, <1>3

\* Along one side: cnt cards of `a' pixels in s pixels, with the gaps in units
\* of which a pixel has cnt + 1.  Where unit e of card k is, and whose a unit is.
JsUnit(s, cnt, a, k, e) == s - cnt * a + k * (a * (cnt + 1) + (s - cnt * a)) + e
CellAt(s, cnt, a, x) == Max({(x - (s - cnt * a)) \div (a * (cnt + 1) + (s - cnt * a)), 0})

\* From its first unit to its last a card is in its cell, and before the side
\* ends.
LEMMA CellOfUnit ==
  ASSUME NEW s \in Nat, NEW cnt \in Nat \ {0}, NEW a \in Nat \ {0}, cnt * a <= s,
         NEW k \in 0..(cnt - 1), NEW e \in 0..(a * (cnt + 1) - 1)
  PROVE  /\ CellAt(s, cnt, a, JsUnit(s, cnt, a, k, e)) = k
         /\ JsUnit(s, cnt, a, k, e) < s * (cnt + 1)
<1>. PICK gap, pitch, x :
       gap = s - cnt * a /\ pitch = a * (cnt + 1) + gap /\ x = gap + k * pitch + e
  OBVIOUS
<1>1. /\ cnt * a \in Nat /\ gap \in Nat
      /\ a * (cnt + 1) = cnt * a + a
  OBVIOUS
<1>2. pitch = s + a /\ pitch \in Nat \ {0}
  BY <1>1
<1>3. k * pitch \in Nat /\ x - gap = pitch * k + e /\ e \in 0..(pitch - 1)
  BY <1>1, <1>2
<1>4. (x - gap) \div pitch = k
  BY <1>2, <1>3, DivIs
<1>5. Max({k, 0}) = k
  BY MaxOfTwo
<1>6. x < s * (cnt + 1)
  <2>1. k * pitch <= (cnt - 1) * pitch
    BY <1>2, TimesMonotone
  <2>2. (cnt - 1) * pitch = cnt * s + cnt * a - s - a
    BY <1>2
  <2>3. s * (cnt + 1) = cnt * s + s /\ cnt * s \in Nat
    OBVIOUS
  <2>. QED  BY <1>1, <1>2, <1>3, <2>1, <2>2, <2>3
<1>7. x = JsUnit(s, cnt, a, k, e)
  BY DEF JsUnit
<1>8. CellAt(s, cnt, a, x) = Max({(x - gap) \div pitch, 0})
  BY DEF CellAt
<1>. QED  BY <1>4, <1>5, <1>6, <1>7, <1>8

\* The last unit of a card is as far from its first as the card is wide.
LEMMA LastUnit ==
  ASSUME NEW s \in Nat, NEW cnt \in Nat, NEW z \in Nat, NEW k \in Nat
  PROVE  JsUnit(s, cnt, z, k, 0) + z * (cnt + 1) - 1
           = JsUnit(s, cnt, z, k, z * (cnt + 1) - 1)
<1>1. PICK u, v \in Int : /\ u = s - cnt * z + k * (z * (cnt + 1) + (s - cnt * z))
                          /\ v = z * (cnt + 1)
  OBVIOUS
<1>2. JsUnit(s, cnt, z, k, 0) = u + 0 /\ JsUnit(s, cnt, z, k, v - 1) = u + (v - 1)
  BY <1>1 DEF JsUnit
<1>. QED  BY <1>1, <1>2

\* A click on the first unit or the last of a card picks it.
Clicked(p, c) ==
  LET at == JsPosition(p, c)
      x1 == at[1] + p.size[1] * Unit(p, 1) - 1
      y1 == at[2] + p.size[2] * Unit(p, 2) - 1
  IN  /\ Xy2CardIndex(p, at[1], at[2]) = c
      /\ Xy2CardIndex(p, x1, y1) = c
      /\ x1 < p.win[1] * Unit(p, 1)

\* A plan whose cards fit picks at both corners of a card that card.
LEMMA FitsPicks ==
  ASSUME NEW w \in Nat, NEW h \in Nat, NEW n \in 1..31, NEW cols \in 1..n,
         NEW p, p = JsPlan(w, h, n, cols),
         \A d \in {1, 2} : p.win[d] >= 17 * Count(p, d), NEW c \in 0..(n - 1)
  PROVE  Clicked(p, c)
<1>0. PICK rows : rows = NumRows(n, cols)
  OBVIOUS
<1>. DEFINE at == JsPosition(p, c)
            x1 == at[1] + p.size[1] * Unit(p, 1) - 1
            y1 == at[2] + p.size[2] * Unit(p, 2) - 1
<1>1. /\ p.win = <<w, h>> /\ p.n = n /\ p.cols = cols /\ p.size = JsSize(w, h, cols, rows)
      /\ rows \in 1..n /\ RowsOf(n, cols) = rows
  <2>1. /\ JsPlan(w, h, n, cols) = [win |-> <<w, h>>, n |-> n, cols |-> cols,
                                    size |-> JsSize(w, h, cols, NumRows(n, cols))]
        /\ NumRows(n, cols) \in 1..n /\ RowsOf(n, cols) = NumRows(n, cols)
    BY PlanParts, Zenon
  <2>. QED  BY <1>0, <2>1
<1>2. \A o \in 0..(n - 1) : o \div cols \in 0..(rows - 1)
  BY <1>0, RowsOfCards
<1>3. Count(p, 1) = cols /\ Count(p, 2) = rows /\ Unit(p, 1) = cols + 1 /\ Unit(p, 2) = rows + 1
  BY <1>1 DEF Count, Unit, Rows
<1>4. p.win[1] = w /\ p.win[2] = h
  BY <1>1
<1>5. 17 * cols <= w /\ 17 * rows <= h /\ cols \in Nat \ {0} /\ rows \in Nat \ {0}
  BY <1>1, <1>3, <1>4
<1>6. PICK a, b \in Nat \ {0} : p.size = <<a, b>> /\ cols * a <= w /\ rows * b <= h
  <2>1. \E a, b \in Nat \ {0} :
          JsSize(w, h, cols, rows) = <<a, b>> /\ cols * a <= w /\ rows * b <= h
    BY <1>5, PlanFits, Zenon
  <2>. QED  BY <1>1, <2>1, Zenon
<1>7. p.size[1] = a /\ p.size[2] = b
  BY <1>6
<1>8. /\ Leftover(p, 1) = w - cols * a /\ JsPitch(p, 1) = a * (cols + 1) + (w - cols * a)
      /\ Leftover(p, 2) = h - rows * b /\ JsPitch(p, 2) = b * (rows + 1) + (h - rows * b)
  BY <1>3, <1>4, <1>7 DEF Leftover, JsPitch
<1>9. PICK col \in 0..(cols - 1), row \in 0..(rows - 1) :
        col = c % cols /\ row = c \div cols /\ c = cols * row + col
  <2>1. c \in Nat /\ cols \in Nat \ {0}
    OBVIOUS
  <2>2. c % cols \in 0..(cols - 1) /\ c = cols * (c \div cols) + (c % cols)
    BY <2>1, DivMod
  <2>. QED  BY <1>2, <2>2
<1>10. \A e \in 0..(a * (cols + 1) - 1) :
          /\ CellAt(w, cols, a, JsUnit(w, cols, a, col, e)) = col
          /\ JsUnit(w, cols, a, col, e) < w * (cols + 1)
  BY <1>5, <1>6, CellOfUnit, Zenon
<1>11. \A f \in 0..(b * (rows + 1) - 1) :
          CellAt(h, rows, b, JsUnit(h, rows, b, row, f)) = row
  <2>1. rows \in Nat \ {0} /\ rows * b <= h
    BY <1>5, <1>6
  <2>. QED  BY <2>1, CellOfUnit, ZenonT(60)
<1>12. ASSUME NEW e \in 0..(a * (cols + 1) - 1), NEW f \in 0..(b * (rows + 1) - 1),
              NEW x, NEW y, x = JsUnit(w, cols, a, col, e), y = JsUnit(h, rows, b, row, f)
       PROVE  Xy2CardIndex(p, x, y) = c /\ x < w * (cols + 1)
  <2>1. CellAt(w, cols, a, x) = col /\ x < w * (cols + 1)
    BY <1>12, <1>10
  <2>2. CellAt(h, rows, b, y) = row
    BY <1>12, <1>11
  <2>3. Xy2CardIndex(p, x, y) =
          IF p.cols * CellAt(h, rows, b, y) + CellAt(w, cols, a, x) >= p.n THEN -1
          ELSE p.cols * CellAt(h, rows, b, y) + CellAt(w, cols, a, x)
    BY <1>8 DEF Xy2CardIndex, CellAt
  <2>4. ~(c >= n)
    OBVIOUS
  <2>. QED  BY <1>1, <1>9, <1>12, <2>1, <2>2, <2>3, <2>4
<1>13. /\ 0 \in 0..(a * (cols + 1) - 1) /\ a * (cols + 1) - 1 \in 0..(a * (cols + 1) - 1)
       /\ 0 \in 0..(b * (rows + 1) - 1) /\ b * (rows + 1) - 1 \in 0..(b * (rows + 1) - 1)
  <2>1. a * (cols + 1) \in Nat \ {0} /\ b * (rows + 1) \in Nat \ {0}
    BY <1>5
  <2>. QED  BY <2>1
<1>14. at[1] = JsUnit(w, cols, a, col, 0) /\ at[2] = JsUnit(h, rows, b, row, 0)
  <2>1. /\ at[1] = w - cols * a + col * (a * (cols + 1) + (w - cols * a))
        /\ at[2] = h - rows * b + row * (b * (rows + 1) + (h - rows * b))
    BY <1>1, <1>8, <1>9 DEF JsPosition, Place, Col, Row
  <2>2. /\ JsUnit(w, cols, a, col, 0) = w - cols * a + col * (a * (cols + 1) + (w - cols * a))
        /\ JsUnit(h, rows, b, row, 0) = h - rows * b + row * (b * (rows + 1) + (h - rows * b))
    BY <1>5 DEF JsUnit
  <2>. QED  BY <2>1, <2>2
<1>15. /\ x1 = JsUnit(w, cols, a, col, a * (cols + 1) - 1)
       /\ y1 = JsUnit(h, rows, b, row, b * (rows + 1) - 1)
  <2>1. /\ x1 = JsUnit(w, cols, a, col, 0) + a * (cols + 1) - 1
        /\ y1 = JsUnit(h, rows, b, row, 0) + b * (rows + 1) - 1
    BY <1>3, <1>7, <1>14
  <2>2. col \in Nat /\ cols \in Nat /\ a \in Nat
    BY <1>5
  <2>3. row \in Nat /\ rows \in Nat /\ b \in Nat
    BY <1>5
  <2>. HIDE DEF x1, y1
  <2>4. JsUnit(w, cols, a, col, 0) + a * (cols + 1) - 1
          = JsUnit(w, cols, a, col, a * (cols + 1) - 1)
    BY <2>2, LastUnit, ZenonT(60)
  <2>5. JsUnit(h, rows, b, row, 0) + b * (rows + 1) - 1
          = JsUnit(h, rows, b, row, b * (rows + 1) - 1)
    BY <2>3, LastUnit, Zenon
  <2>. QED  BY <2>1, <2>4, <2>5, Zenon
<1>. HIDE DEF at, x1, y1
<1>16. Xy2CardIndex(p, at[1], at[2]) = c
  BY <1>12, <1>13, <1>14
<1>17. Xy2CardIndex(p, x1, y1) = c /\ x1 < w * (cols + 1)
  BY <1>12, <1>13, <1>15
<1>. QED  BY <1>3, <1>4, <1>16, <1>17 DEF at, x1, y1, Clicked

\* A click on a card of 3333.js picks that card, in every window, with every
\* number of cards and of columns that leaves a card 17 pixels each way.
THEOREM JsPicksDrawnAlways == Spec => []JsPicksDrawn
<1>1. ASSUME Sane(layout)  PROVE JsPicksDrawn
  <2>1. PICK g : g = layout
    OBVIOUS
  <2>2. PICK w, h \in Nat : g.win = <<w, h>>
    <3>1. Sane(g)
      BY <1>1, <2>1
    <3>. QED  BY <3>1, SaneParts
  <2>3. ASSUME NEW cols \in 1..g.n,
               NEW p, p = JsPlan(g.win[1], g.win[2], g.n, cols),
               \A d \in {1, 2} : p.win[d] >= 17 * Count(p, d),
               NEW c \in 0..(p.n - 1)
        PROVE  Clicked(p, c)
    <3>1. PICK n \in 1..31 : n = g.n
      BY <1>1, <2>1 DEF Sane
    <3>2. cols \in 1..n /\ p = JsPlan(w, h, n, cols)
      BY <2>2, <2>3, <3>1
    <3>3. p.n = n
      <4>1. JsPlan(w, h, n, cols) = [win |-> <<w, h>>, n |-> n, cols |-> cols,
                                     size |-> JsSize(w, h, cols, NumRows(n, cols))]
        BY <3>2, PlanParts, Zenon
      <4>. QED  BY <3>2, <4>1
    <3>4. c \in 0..(n - 1)
      BY <2>3, <3>3
    <3>. QED  BY <2>3, <3>2, <3>4, FitsPicks, Zenon
  <2>. QED  BY <2>1, <2>3 DEF JsPicksDrawn, Clicked
<1>. QED  BY <1>1, AlwaysSane, PTL

-----------------------------------------------------------------------------
(* The forms of the clients.                                               *)

\* A word is kept unless it is empty.
Keep(s, w) == IF w = Empty THEN s ELSE Append(s, w)

\* The loop of SSplit comes to its end over sequences each of which is the
\* one before with the next word kept or dropped.
LEMMA SplitLoop ==
  ASSUME NEW words, Len(words) \in Nat
  PROVE  \E f : /\ f[0] = <<>>
                /\ \A n \in 1..Len(words) : f[n] = Keep(f[n - 1], words[n])
                /\ SSplit(words) = f[Len(words)]
<1>. DEFINE N == Len(words)
            Step(g, k) == IF k = 0 THEN <<>>
                          ELSE IF words[k] = Empty THEN g[k - 1] ELSE Append(g[k - 1], words[k])
            Solves(g, n) == g = [k \in 0..n |-> Step(g, k)]
            T == {n \in 0..N : \E g : Solves(g, n)}
            after == CHOOSE g : Solves(g, N)
<1>1. 0 \in T
  <2>. DEFINE g0 == [k \in 0..0 |-> <<>>]
  <2>1. Solves(g0, 0)
    <3>1. \A k \in 0..0 : k = 0
      OBVIOUS
    <3>. QED  BY <3>1
  <2>. HIDE DEF Solves
  <2>. QED  BY <2>1
<1>2. ASSUME NEW n \in 1..N, n - 1 \in T  PROVE n \in T
  <2>1. PICK g : Solves(g, n - 1)
    BY <1>2
  <2>. DEFINE h == [k \in 0..n |-> IF k = n THEN Step(g, n) ELSE g[k]]
  <2>2. ASSUME NEW k \in 0..n  PROVE h[k] = Step(h, k)
    <3>1. CASE k = n
      <4>1. n - 1 \in 0..n /\ n - 1 # n /\ n # 0
        OBVIOUS
      <4>. HIDE DEF Step
      <4>2. h[n - 1] = g[n - 1] /\ h[n] = Step(g, n)
        BY <4>1
      <4>. USE DEF Step
      <4>. HIDE DEF h
      <4>. QED  BY <3>1, <4>1, <4>2
    <3>2. CASE k # n
      <4>1. k \in 0..(n - 1)
        BY <3>2
      <4>2. h[k] = g[k]
        BY <3>2
      <4>3. g[k] = Step(g, k)
        <5>. DEFINE r == [l \in 0..(n - 1) |-> Step(g, l)]
        <5>1. r[k] = Step(g, k)
          BY <4>1
        <5>2. g = r
          BY <2>1, Zenon
        <5>. HIDE DEF r, Step
        <5>. QED  BY <5>1, <5>2, Zenon
      <4>. HIDE DEF Step
      <4>4. k # 0 => h[k - 1] = g[k - 1]
        BY <4>1
      <4>. USE DEF Step
      <4>. HIDE DEF h
      <4>. QED  BY <4>2, <4>3, <4>4
    <3>. QED  BY <3>1, <3>2
  <2>3. Solves(h, n)
    <3>. DEFINE r == [k \in 0..n |-> Step(h, k)]
    <3>1. \A k \in 0..n : h[k] = r[k]
      <4>. HIDE DEF Step
      <4>. QED  BY <2>2
    <3>2. h = r
      <4>. HIDE DEF Step
      <4>. QED  BY <3>1
    <3>. QED  BY <3>2, Zenon
  <2>. HIDE DEF Solves, h
  <2>4. n \in 0..N
    OBVIOUS
  <2>. QED  BY <2>3, <2>4
<1>3. \E g : Solves(g, N)
  <2>. HIDE DEF T
  <2>1. 0..N \subseteq T
    BY <1>1, <1>2, UpTo
  <2>2. N \in T
    BY <2>1
  <2>. QED  BY <2>2 DEF T
<1>4. Solves(after, N)
  <2>. HIDE DEF Solves
  <2>. QED  BY <1>3, Zenon
<1>5. SSplit(words) = after[N]
  BY DEF SSplit
<1>6. ASSUME NEW n \in 0..N  PROVE after[n] = Step(after, n)
  <2>. DEFINE r == [k \in 0..N |-> Step(after, k)]
  <2>1. r[n] = Step(after, n)
    OBVIOUS
  <2>2. after = r
    BY <1>4, Zenon
  <2>. HIDE DEF r, after, Step
  <2>. QED  BY <2>1, <2>2, Zenon
<1>. HIDE DEF after
<1>7. after[0] = <<>>
  <2>1. 0 \in 0..N
    OBVIOUS
  <2>2. after[0] = Step(after, 0)
    <3>. HIDE DEF Step
    <3>. QED  BY <1>6, <2>1
  <2>. QED  BY <2>2, Zenon
<1>8. ASSUME NEW n \in 1..N  PROVE after[n] = Keep(after[n - 1], words[n])
  <2>1. n \in 0..N /\ n # 0
    OBVIOUS
  <2>. QED  BY <1>6, <2>1 DEF Keep
<1>. QED  BY <1>5, <1>7, <1>8

\* The words of a line one by one, as many as a command has.
LEMMA SplitFive ==
  ASSUME NEW a, NEW b, NEW c, NEW d, NEW e
  PROVE  SSplit(<<a, b, c, d, e>>) = Keep(Keep(Keep(Keep(Keep(<<>>, a), b), c), d), e)
<1>. PICK words : words = <<a, b, c, d, e>>
  OBVIOUS
<1>1. /\ Len(words) = 5 /\ words[1] = a /\ words[2] = b /\ words[3] = c
      /\ words[4] = d /\ words[5] = e
  OBVIOUS
<1>2. PICK f : /\ f[0] = <<>>
               /\ \A n \in 1..5 : f[n] = Keep(f[n - 1], words[n])
               /\ SSplit(words) = f[5]
  BY <1>1, SplitLoop
<1>3. /\ f[1] = Keep(f[0], a) /\ f[2] = Keep(f[1], b) /\ f[3] = Keep(f[2], c)
      /\ f[4] = Keep(f[3], d) /\ f[5] = Keep(f[4], e)
  BY <1>1, <1>2
<1>. QED  BY <1>2, <1>3, ZenonT(60)

LEMMA SplitSix ==
  ASSUME NEW a, NEW b, NEW c, NEW d, NEW e, NEW g
  PROVE  SSplit(<<a, b, c, d, e, g>>)
           = Keep(Keep(Keep(Keep(Keep(Keep(<<>>, a), b), c), d), e), g)
<1>. PICK words : words = <<a, b, c, d, e, g>>
  OBVIOUS
<1>1. /\ Len(words) = 6 /\ words[1] = a /\ words[2] = b /\ words[3] = c
      /\ words[4] = d /\ words[5] = e /\ words[6] = g
  OBVIOUS
<1>2. PICK f : /\ f[0] = <<>>
               /\ \A n \in 1..6 : f[n] = Keep(f[n - 1], words[n])
               /\ SSplit(words) = f[6]
  BY <1>1, SplitLoop
<1>3. /\ f[1] = Keep(f[0], a) /\ f[2] = Keep(f[1], b) /\ f[3] = Keep(f[2], c)
      /\ f[4] = Keep(f[3], d) /\ f[5] = Keep(f[4], e) /\ f[6] = Keep(f[5], g)
  BY <1>1, <1>2
<1>4. f[3] = Keep(Keep(Keep(<<>>, a), b), c)
  BY <1>2, <1>3, Zenon
<1>5. f[6] = Keep(Keep(Keep(f[3], d), e), g)
  BY <1>3, Zenon
<1>. QED  BY <1>2, <1>4, <1>5, Zenon

\* The digits mean what they say, to either server.
LEMMA DigitsRead ==
  ASSUME NEW k \in 0..3, NEW v
  PROVE  StrToInt(Digits[k + 1], v) = k /\ Digits[k + 1] # Empty
<1>1. /\ Len(Digits) = 4 /\ Digits[1] = "0" /\ Digits[2] = "1" /\ Digits[3] = "2"
      /\ Digits[4] = "3"
  BY DEF Digits
<1>2. k + 1 \in 1..4 /\ k + 1 \in 1..Len(Digits)
  BY <1>1
<1>3. \A m \in 1..4 : Digits[m] = Digits[k + 1] => m = k + 1
  BY <1>1, <1>2
<1>4. Contains(Digits, Digits[k + 1])
  BY <1>2 DEF Contains
<1>5. (CHOOSE m \in 1..4 : Digits[m] = Digits[k + 1]) = k + 1
  BY <1>2, <1>3
<1>6. StrToInt(Digits[k + 1], v) = (k + 1) - 1
  BY <1>4, <1>5 DEF StrToInt
<1>7. Digits[k + 1] # Empty
  <2>1. "0" # Empty /\ "1" # Empty /\ "2" # Empty /\ "3" # Empty
    BY Zenon DEF Empty
  <2>. QED  BY <1>1, <1>2, <2>1
<1>. QED  BY <1>6, <1>7

\* The flags of a form, case by case.
LEMMA FlagsAre ==
  ASSUME NEW f, NEW none, NEW k, k = PwFlags(f, none)
  PROVE  /\ k \in 0..3
         /\ f.tpass = none /\ f.pass = none => k = 0
         /\ f.tpass # none /\ f.pass = none => k = 1
         /\ f.tpass = none /\ f.pass # none => k = 2
         /\ f.tpass # none /\ f.pass # none => k = 3
BY DEF PwFlags

\* What Server::Join makes of its four to six words.
LEMMA ReadJoin ==
  ASSUME NEW table, NEW name, NEW d, NEW k \in 0..3, StrToInt(d, -1) = k, NEW a, NEW b
  PROVE  /\ Read(<<"join", table, name, d>>) =
              IF k = 0 THEN Form("join", table, name, Empty, Empty) ELSE Refused
         /\ Read(<<"join", table, name, d, a>>) =
              IF k = 1 THEN Form("join", table, name, a, Empty)
              ELSE IF k = 2 THEN Form("join", table, name, Empty, a) ELSE Refused
         /\ Read(<<"join", table, name, d, a, b>>) =
              IF k = 3 THEN Form("join", table, name, a, b) ELSE Refused
<1>1. ASSUME NEW cmd, cmd[1] = "join", cmd[2] = table, cmd[3] = name, cmd[4] = d,
             Len(cmd) \in 4..6
      PROVE  Read(cmd) = IF Len(cmd) # 4 + (k % 2) + (k \div 2) THEN Refused
                         ELSE Form("join", table, name, IF k % 2 = 1 THEN cmd[5] ELSE Empty,
                                   IF k \div 2 = 1 THEN cmd[4 + (k % 2) + 1] ELSE Empty)
  <2>1. Read(cmd) = GetCommandPasswords(cmd, 4, "join", table, name)
    BY <1>1 DEF Read
  <2>2. StrToInt(cmd[4], -1) = k
    BY <1>1
  <2>3. ~(k = -1) /\ 4 + 1 = 5
    OBVIOUS
  <2>. QED  BY <2>1, <2>2, <2>3 DEF GetCommandPasswords
<1>2. \/ k = 0 /\ k % 2 = 0 /\ k \div 2 = 0
      \/ k = 1 /\ k % 2 = 1 /\ k \div 2 = 0
      \/ k = 2 /\ k % 2 = 0 /\ k \div 2 = 1
      \/ k = 3 /\ k % 2 = 1 /\ k \div 2 = 1
  OBVIOUS
<1>3. Read(<<"join", table, name, d>>) =
        IF k = 0 THEN Form("join", table, name, Empty, Empty) ELSE Refused
  <2>. PICK cmd : cmd = <<"join", table, name, d>>
    OBVIOUS
  <2>1. cmd[1] = "join" /\ cmd[2] = table /\ cmd[3] = name /\ cmd[4] = d /\ Len(cmd) = 4
    OBVIOUS
  <2>2. Read(cmd) = IF 4 # 4 + (k % 2) + (k \div 2) THEN Refused
                    ELSE Form("join", table, name, IF k % 2 = 1 THEN cmd[5] ELSE Empty,
                              IF k \div 2 = 1 THEN cmd[4 + (k % 2) + 1] ELSE Empty)
    <3>1. 4 \in 4..6
      OBVIOUS
    <3>. QED  BY <1>1, <2>1, <3>1
  <2>. QED  BY <1>2, <2>1, <2>2
<1>4. Read(<<"join", table, name, d, a>>) =
        IF k = 1 THEN Form("join", table, name, a, Empty)
        ELSE IF k = 2 THEN Form("join", table, name, Empty, a) ELSE Refused
  <2>. PICK cmd : cmd = <<"join", table, name, d, a>>
    OBVIOUS
  <2>1. /\ cmd[1] = "join" /\ cmd[2] = table /\ cmd[3] = name /\ cmd[4] = d /\ cmd[5] = a
        /\ Len(cmd) = 5
    OBVIOUS
  <2>2. Read(cmd) = IF 5 # 4 + (k % 2) + (k \div 2) THEN Refused
                    ELSE Form("join", table, name, IF k % 2 = 1 THEN cmd[5] ELSE Empty,
                              IF k \div 2 = 1 THEN cmd[4 + (k % 2) + 1] ELSE Empty)
    <3>1. 5 \in 4..6
      OBVIOUS
    <3>. QED  BY <1>1, <2>1, <3>1
  <2>. QED  BY <1>2, <2>1, <2>2
<1>5. Read(<<"join", table, name, d, a, b>>) =
        IF k = 3 THEN Form("join", table, name, a, b) ELSE Refused
  <2>. PICK cmd : cmd = <<"join", table, name, d, a, b>>
    OBVIOUS
  <2>1. /\ cmd[1] = "join" /\ cmd[2] = table /\ cmd[3] = name /\ cmd[4] = d /\ cmd[5] = a
        /\ cmd[6] = b /\ Len(cmd) = 6
    OBVIOUS
  <2>2. Read(cmd) = IF 6 # 4 + (k % 2) + (k \div 2) THEN Refused
                    ELSE Form("join", table, name, IF k % 2 = 1 THEN cmd[5] ELSE Empty,
                              IF k \div 2 = 1 THEN cmd[4 + (k % 2) + 1] ELSE Empty)
    <3>1. 6 \in 4..6
      OBVIOUS
    <3>. QED  BY <1>1, <2>1, <3>1
  <2>. QED  BY <1>2, <2>1, <2>2
<1>. QED  BY <1>3, <1>4, <1>5

\* What Server::NewTable makes of its three to five words.
LEMMA ReadNewTable ==
  ASSUME NEW table, NEW d, NEW k \in 0..3, StrToInt(d, -1) = k, NEW a, NEW b
  PROVE  /\ Read(<<"ntbl", table, d>>) =
              IF k = 0 THEN Form("ntbl", table, table, Empty, Empty) ELSE Refused
         /\ Read(<<"ntbl", table, d, a>>) =
              IF k = 1 THEN Form("ntbl", table, table, a, Empty)
              ELSE IF k = 2 THEN Form("ntbl", table, table, Empty, a) ELSE Refused
         /\ Read(<<"ntbl", table, d, a, b>>) =
              IF k = 3 THEN Form("ntbl", table, table, a, b) ELSE Refused
<1>1. ASSUME NEW cmd, cmd[1] = "ntbl", cmd[2] = table, cmd[3] = d, Len(cmd) \in 3..5
      PROVE  Read(cmd) = IF Len(cmd) # 3 + (k % 2) + (k \div 2) THEN Refused
                         ELSE Form("ntbl", table, table, IF k % 2 = 1 THEN cmd[4] ELSE Empty,
                                   IF k \div 2 = 1 THEN cmd[3 + (k % 2) + 1] ELSE Empty)
  <2>1. Read(cmd) = GetCommandPasswords(cmd, 3, "ntbl", table, table)
    BY <1>1 DEF Read
  <2>2. StrToInt(cmd[3], -1) = k
    BY <1>1
  <2>3. ~(k = -1) /\ 3 + 1 = 4
    OBVIOUS
  <2>. QED  BY <2>1, <2>2, <2>3 DEF GetCommandPasswords
<1>2. \/ k = 0 /\ k % 2 = 0 /\ k \div 2 = 0
      \/ k = 1 /\ k % 2 = 1 /\ k \div 2 = 0
      \/ k = 2 /\ k % 2 = 0 /\ k \div 2 = 1
      \/ k = 3 /\ k % 2 = 1 /\ k \div 2 = 1
  OBVIOUS
<1>3. Read(<<"ntbl", table, d>>) =
        IF k = 0 THEN Form("ntbl", table, table, Empty, Empty) ELSE Refused
  <2>. PICK cmd : cmd = <<"ntbl", table, d>>
    OBVIOUS
  <2>1. cmd[1] = "ntbl" /\ cmd[2] = table /\ cmd[3] = d /\ Len(cmd) = 3
    OBVIOUS
  <2>2. Read(cmd) = IF 3 # 3 + (k % 2) + (k \div 2) THEN Refused
                    ELSE Form("ntbl", table, table, IF k % 2 = 1 THEN cmd[4] ELSE Empty,
                              IF k \div 2 = 1 THEN cmd[3 + (k % 2) + 1] ELSE Empty)
    <3>1. 3 \in 3..5
      OBVIOUS
    <3>. QED  BY <1>1, <2>1, <3>1
  <2>. QED  BY <1>2, <2>1, <2>2
<1>4. Read(<<"ntbl", table, d, a>>) =
        IF k = 1 THEN Form("ntbl", table, table, a, Empty)
        ELSE IF k = 2 THEN Form("ntbl", table, table, Empty, a) ELSE Refused
  <2>. PICK cmd : cmd = <<"ntbl", table, d, a>>
    OBVIOUS
  <2>1. cmd[1] = "ntbl" /\ cmd[2] = table /\ cmd[3] = d /\ cmd[4] = a /\ Len(cmd) = 4
    OBVIOUS
  <2>2. Read(cmd) = IF 4 # 3 + (k % 2) + (k \div 2) THEN Refused
                    ELSE Form("ntbl", table, table, IF k % 2 = 1 THEN cmd[4] ELSE Empty,
                              IF k \div 2 = 1 THEN cmd[3 + (k % 2) + 1] ELSE Empty)
    <3>1. 4 \in 3..5
      OBVIOUS
    <3>. QED  BY <1>1, <2>1, <3>1
  <2>. QED  BY <1>2, <2>1, <2>2
<1>5. Read(<<"ntbl", table, d, a, b>>) =
        IF k = 3 THEN Form("ntbl", table, table, a, b) ELSE Refused
  <2>. PICK cmd : cmd = <<"ntbl", table, d, a, b>>
    OBVIOUS
  <2>1. /\ cmd[1] = "ntbl" /\ cmd[2] = table /\ cmd[3] = d /\ cmd[4] = a /\ cmd[5] = b
        /\ Len(cmd) = 5
    OBVIOUS
  <2>2. Read(cmd) = IF 5 # 3 + (k % 2) + (k \div 2) THEN Refused
                    ELSE Form("ntbl", table, table, IF k % 2 = 1 THEN cmd[4] ELSE Empty,
                              IF k \div 2 = 1 THEN cmd[3 + (k % 2) + 1] ELSE Empty)
    <3>1. 5 \in 3..5
      OBVIOUS
    <3>. QED  BY <1>1, <2>1, <3>1
  <2>. QED  BY <1>2, <2>1, <2>2
<1>. QED  BY <1>3, <1>4, <1>5

\* A sequence with one more element is the one that agrees with it before.
LEMMA AppendOne ==
  ASSUME NEW S, NEW s \in Seq(S), NEW t \in Seq(S), NEW e \in S, Len(t) = Len(s) + 1,
         \A k \in 1..Len(s) : t[k] = s[k], t[Len(s) + 1] = e
  PROVE  Append(s, e) = t
<1>1. Append(s, e) \in Seq(S) /\ Len(Append(s, e)) = Len(t)
  OBVIOUS
<1>2. \A k \in 1..Len(t) : Append(s, e)[k] = t[k]
  OBVIOUS
<1>. QED  BY <1>1, <1>2, SeqEqual

\* A first word.
LEMMA AppendToNone ==
  ASSUME NEW a
  PROVE  Append(<<>>, a) = <<a>>
<1>. DEFINE S == {a}
<1>1. a \in S
  OBVIOUS
<1>. HIDE DEF S
<1>2. PICK s, t, n : s = <<>> /\ t = <<a>> /\ n = 0
  OBVIOUS
<1>3. s \in Seq(S) /\ t \in Seq(S)
  BY <1>1, <1>2
<1>4. Len(s) = n /\ Len(t) = n + 1 /\ t[n + 1] = a /\ \A k \in 1..n : t[k] = s[k]
  BY <1>2
<1>5. Append(s, a) = t
  BY <1>1, <1>3, <1>4, AppendOne
<1>. QED  BY <1>2, <1>5, Zenon

\* A second word.
LEMMA AppendToOne ==
  ASSUME NEW a, NEW b
  PROVE  Append(<<a>>, b) = <<a, b>>
<1>. DEFINE S == {a, b}
<1>1. a \in S /\ b \in S
  OBVIOUS
<1>. HIDE DEF S
<1>2. PICK s, t, n : s = <<a>> /\ t = <<a, b>> /\ n = 1
  OBVIOUS
<1>3. s \in Seq(S) /\ t \in Seq(S)
  BY <1>1, <1>2
<1>4. Len(s) = n /\ Len(t) = n + 1 /\ t[n + 1] = b /\ \A k \in 1..n : t[k] = s[k]
  BY <1>2
<1>5. Append(s, b) = t
  BY <1>1, <1>3, <1>4, AppendOne
<1>. QED  BY <1>2, <1>5, Zenon

\* A third word.
LEMMA AppendToTwo ==
  ASSUME NEW a, NEW b, NEW c
  PROVE  Append(<<a, b>>, c) = <<a, b, c>>
<1>. DEFINE S == {a, b, c}
<1>1. a \in S /\ b \in S /\ c \in S
  OBVIOUS
<1>. HIDE DEF S
<1>2. PICK s, t, n : s = <<a, b>> /\ t = <<a, b, c>> /\ n = 2
  OBVIOUS
<1>3. s \in Seq(S) /\ t \in Seq(S)
  BY <1>1, <1>2
<1>4. Len(s) = n /\ Len(t) = n + 1 /\ t[n + 1] = c /\ \A k \in 1..n : t[k] = s[k]
  BY <1>2
<1>5. Append(s, c) = t
  BY <1>1, <1>3, <1>4, AppendOne
<1>. QED  BY <1>2, <1>5, Zenon

\* A fourth word.
LEMMA AppendToThree ==
  ASSUME NEW a, NEW b, NEW c, NEW d
  PROVE  Append(<<a, b, c>>, d) = <<a, b, c, d>>
<1>. DEFINE S == {a, b, c, d}
<1>1. a \in S /\ b \in S /\ c \in S /\ d \in S
  OBVIOUS
<1>. HIDE DEF S
<1>2. PICK s, t, n : s = <<a, b, c>> /\ t = <<a, b, c, d>> /\ n = 3
  OBVIOUS
<1>3. s \in Seq(S) /\ t \in Seq(S)
  BY <1>1, <1>2
<1>4. Len(s) = n /\ Len(t) = n + 1 /\ t[n + 1] = d /\ \A k \in 1..n : t[k] = s[k]
  BY <1>2
<1>5. Append(s, d) = t
  BY <1>1, <1>3, <1>4, AppendOne
<1>. QED  BY <1>2, <1>5, Zenon

\* A fifth word.
LEMMA AppendToFour ==
  ASSUME NEW a, NEW b, NEW c, NEW d, NEW e
  PROVE  Append(<<a, b, c, d>>, e) = <<a, b, c, d, e>>
<1>. DEFINE S == {a, b, c, d, e}
<1>1. a \in S /\ b \in S /\ c \in S /\ d \in S /\ e \in S
  OBVIOUS
<1>. HIDE DEF S
<1>2. PICK s, t, n : s = <<a, b, c, d>> /\ t = <<a, b, c, d, e>> /\ n = 4
  OBVIOUS
<1>3. s \in Seq(S) /\ t \in Seq(S)
  BY <1>1, <1>2
<1>4. Len(s) = n /\ Len(t) = n + 1 /\ t[n + 1] = e /\ \A k \in 1..n : t[k] = s[k]
  BY <1>2
<1>5. Append(s, e) = t
  BY <1>1, <1>3, <1>4, AppendOne
<1>. QED  BY <1>2, <1>5, Zenon

\* A sixth word.
LEMMA AppendToFive ==
  ASSUME NEW a, NEW b, NEW c, NEW d, NEW e, NEW g
  PROVE  Append(<<a, b, c, d, e>>, g) = <<a, b, c, d, e, g>>
<1>. DEFINE S == {a, b, c, d, e, g}
<1>1. a \in S /\ b \in S /\ c \in S /\ d \in S /\ e \in S /\ g \in S
  OBVIOUS
<1>. HIDE DEF S
<1>2. PICK s, t, n : s = <<a, b, c, d, e>> /\ t = <<a, b, c, d, e, g>> /\ n = 5
  OBVIOUS
<1>3. s \in Seq(S) /\ t \in Seq(S)
  BY <1>1, <1>2
<1>4. Len(s) = n /\ Len(t) = n + 1 /\ t[n + 1] = g /\ \A k \in 1..n : t[k] = s[k]
  BY <1>2
<1>5. Append(s, g) = t
  BY <1>1, <1>3, <1>4, AppendOne
<1>. QED  BY <1>2, <1>5, Zenon

\* The words behind the second of four.
LEMMA BehindFour ==
  ASSUME NEW a, NEW b, NEW c, NEW d
  PROVE  SubSeq(<<a, b, c, d>>, 3, 4) = <<c, d>>
<1>. DEFINE S == {a, b, c, d}
<1>1. a \in S /\ b \in S /\ c \in S /\ d \in S
  OBVIOUS
<1>. HIDE DEF S
<1>2. PICK s, t : s = <<a, b, c, d>> /\ t = <<c, d>>
  OBVIOUS
<1>3. t \in Seq(S) /\ Len(t) = 2 /\ \A k \in 3..4 : s[k] \in S
  BY <1>1, <1>2
<1>4. \A k \in 1..2 : t[k] = s[3 + k - 1]
  BY <1>2
<1>5. /\ SubSeq(s, 3, 4) \in Seq(S) /\ Len(SubSeq(s, 3, 4)) = 2
      /\ \A k \in 1..2 : SubSeq(s, 3, 4)[k] = s[3 + k - 1]
  BY <1>3, SubSeqProperties
<1>6. \A k \in 1..2 : SubSeq(s, 3, 4)[k] = t[k]
  BY <1>4, <1>5
<1>7. SubSeq(s, 3, 4) = t
  BY <1>3, <1>5, <1>6, SeqEqual
<1>. QED  BY <1>2, <1>7, Zenon

\* The words behind the second of five.
LEMMA BehindFive ==
  ASSUME NEW a, NEW b, NEW c, NEW d, NEW e
  PROVE  SubSeq(<<a, b, c, d, e>>, 3, 5) = <<c, d, e>>
<1>. DEFINE S == {a, b, c, d, e}
<1>1. a \in S /\ b \in S /\ c \in S /\ d \in S /\ e \in S
  OBVIOUS
<1>. HIDE DEF S
<1>2. PICK s, t : s = <<a, b, c, d, e>> /\ t = <<c, d, e>>
  OBVIOUS
<1>3. t \in Seq(S) /\ Len(t) = 3 /\ \A k \in 3..5 : s[k] \in S
  BY <1>1, <1>2
<1>4. \A k \in 1..3 : t[k] = s[3 + k - 1]
  BY <1>2
<1>5. /\ SubSeq(s, 3, 5) \in Seq(S) /\ Len(SubSeq(s, 3, 5)) = 3
      /\ \A k \in 1..3 : SubSeq(s, 3, 5)[k] = s[3 + k - 1]
  BY <1>3, SubSeqProperties
<1>6. \A k \in 1..3 : SubSeq(s, 3, 5)[k] = t[k]
  BY <1>4, <1>5
<1>7. SubSeq(s, 3, 5) = t
  BY <1>3, <1>5, <1>6, SeqEqual
<1>. QED  BY <1>2, <1>7, Zenon

\* The words behind the second of six.
LEMMA BehindSix ==
  ASSUME NEW a, NEW b, NEW c, NEW d, NEW e, NEW g
  PROVE  SubSeq(<<a, b, c, d, e, g>>, 3, 6) = <<c, d, e, g>>
<1>. DEFINE S == {a, b, c, d, e, g}
<1>1. a \in S /\ b \in S /\ c \in S /\ d \in S /\ e \in S /\ g \in S
  OBVIOUS
<1>. HIDE DEF S
<1>2. PICK s, t : s = <<a, b, c, d, e, g>> /\ t = <<c, d, e, g>>
  OBVIOUS
<1>3. t \in Seq(S) /\ Len(t) = 4 /\ \A k \in 3..6 : s[k] \in S
  BY <1>1, <1>2
<1>4. \A k \in 1..4 : t[k] = s[3 + k - 1]
  BY <1>2
<1>5. /\ SubSeq(s, 3, 6) \in Seq(S) /\ Len(SubSeq(s, 3, 6)) = 4
      /\ \A k \in 1..4 : SubSeq(s, 3, 6)[k] = s[3 + k - 1]
  BY <1>3, SubSeqProperties
<1>6. \A k \in 1..4 : SubSeq(s, 3, 6)[k] = t[k]
  BY <1>4, <1>5
<1>7. SubSeq(s, 3, 6) = t
  BY <1>3, <1>5, <1>6, SeqEqual
<1>. QED  BY <1>2, <1>7, Zenon

\* What name_tpass_upass of 3333-server.py makes of its two to four arguments.
LEMMA ReadArguments ==
  ASSUME NEW name, NEW d, NEW k \in 0..3, StrToInt(d, 0) = k, NEW a, NEW b, NEW op, NEW table
  PROVE  /\ NameTPassUPass(<<name, d>>, op, table) =
              IF k = 0 THEN Form(op, table, name, Empty, Empty) ELSE Refused
         /\ NameTPassUPass(<<name, d, a>>, op, table) =
              IF k = 1 THEN Form(op, table, name, a, Empty)
              ELSE IF k = 2 THEN Form(op, table, name, Empty, a) ELSE Refused
         /\ NameTPassUPass(<<name, d, a, b>>, op, table) =
              IF k = 3 THEN Form(op, table, name, a, b) ELSE Refused
<1>1. ASSUME NEW args, args[1] = name, args[2] = d
      PROVE  NameTPassUPass(args, op, table)
               = IF Len(args) # 2 + (k % 2) + (k \div 2) THEN Refused
                 ELSE Form(op, table, name, IF k % 2 = 1 THEN args[3] ELSE Empty,
                           IF k \div 2 = 1 THEN args[3 + (k % 2)] ELSE Empty)
  <2>1. StrToInt(args[2], 0) = k
    BY <1>1
  <2>. QED  BY <1>1, <2>1 DEF NameTPassUPass
<1>2. \/ k = 0 /\ k % 2 = 0 /\ k \div 2 = 0
      \/ k = 1 /\ k % 2 = 1 /\ k \div 2 = 0
      \/ k = 2 /\ k % 2 = 0 /\ k \div 2 = 1
      \/ k = 3 /\ k % 2 = 1 /\ k \div 2 = 1
  OBVIOUS
<1>3. NameTPassUPass(<<name, d>>, op, table) =
        IF k = 0 THEN Form(op, table, name, Empty, Empty) ELSE Refused
  <2>. PICK args : args = <<name, d>>
    OBVIOUS
  <2>1. args[1] = name /\ args[2] = d /\ Len(args) = 2
    OBVIOUS
  <2>2. NameTPassUPass(args, op, table)
          = IF 2 # 2 + (k % 2) + (k \div 2) THEN Refused
            ELSE Form(op, table, name, IF k % 2 = 1 THEN args[3] ELSE Empty,
                      IF k \div 2 = 1 THEN args[3 + (k % 2)] ELSE Empty)
    BY <1>1, <2>1
  <2>. QED  BY <1>2, <2>1, <2>2
<1>4. NameTPassUPass(<<name, d, a>>, op, table) =
        IF k = 1 THEN Form(op, table, name, a, Empty)
        ELSE IF k = 2 THEN Form(op, table, name, Empty, a) ELSE Refused
  <2>. PICK args : args = <<name, d, a>>
    OBVIOUS
  <2>1. args[1] = name /\ args[2] = d /\ args[3] = a /\ Len(args) = 3
    OBVIOUS
  <2>2. NameTPassUPass(args, op, table)
          = IF 3 # 2 + (k % 2) + (k \div 2) THEN Refused
            ELSE Form(op, table, name, IF k % 2 = 1 THEN args[3] ELSE Empty,
                      IF k \div 2 = 1 THEN args[3 + (k % 2)] ELSE Empty)
    BY <1>1, <2>1
  <2>. QED  BY <1>2, <2>1, <2>2
<1>5. NameTPassUPass(<<name, d, a, b>>, op, table) =
        IF k = 3 THEN Form(op, table, name, a, b) ELSE Refused
  <2>. PICK args : args = <<name, d, a, b>>
    OBVIOUS
  <2>1. args[1] = name /\ args[2] = d /\ args[3] = a /\ args[4] = b /\ Len(args) = 4
    OBVIOUS
  <2>2. NameTPassUPass(args, op, table)
          = IF 4 # 2 + (k % 2) + (k \div 2) THEN Refused
            ELSE Form(op, table, name, IF k % 2 = 1 THEN args[3] ELSE Empty,
                      IF k \div 2 = 1 THEN args[3 + (k % 2)] ELSE Empty)
    BY <1>1, <2>1
  <2>. QED  BY <1>2, <2>1, <2>2
<1>. QED  BY <1>3, <1>4, <1>5

\* new_table and table_join hand on the words behind the command and, for
\* join, behind the table.
LEMMA PyReadArguments ==
  ASSUME NEW table, NEW name, NEW d, NEW a, NEW b
  PROVE  /\ PyRead(<<"join", table, name, d>>) = NameTPassUPass(<<name, d>>, "join", table)
         /\ PyRead(<<"join", table, name, d, a>>) = NameTPassUPass(<<name, d, a>>, "join", table)
         /\ PyRead(<<"join", table, name, d, a, b>>)
              = NameTPassUPass(<<name, d, a, b>>, "join", table)
         /\ PyRead(<<"ntbl", name, d>>) = NameTPassUPass(<<name, d>>, "ntbl", name)
         /\ PyRead(<<"ntbl", name, d, a>>) = NameTPassUPass(<<name, d, a>>, "ntbl", name)
         /\ PyRead(<<"ntbl", name, d, a, b>>) = NameTPassUPass(<<name, d, a, b>>, "ntbl", name)
<1>1. PyRead(<<"join", table, name, d>>) = NameTPassUPass(<<name, d>>, "join", table)
  <2>1. SubSeq(<<"join", table, name, d>>, 3, 4) = <<name, d>>
    BY BehindFour
  <2>2. PICK cmd : cmd = <<"join", table, name, d>>
    OBVIOUS
  <2>3. cmd[1] = "join" /\ cmd[2] = table /\ Len(cmd) = 4
    BY <2>2
  <2>4. SubSeq(cmd, 3, Len(cmd)) = <<name, d>>
    BY <2>1, <2>2, <2>3, Zenon
  <2>5. cmd[1] # "ntbl" /\ ~(Len(cmd) < 4)
    BY <2>3
  <2>6. PyRead(cmd) = NameTPassUPass(<<name, d>>, "join", table)
    BY <2>3, <2>4, <2>5, Zenon DEF PyRead
  <2>. QED  BY <2>2, <2>6, Zenon
<1>2. PyRead(<<"join", table, name, d, a>>) = NameTPassUPass(<<name, d, a>>, "join", table)
  <2>1. SubSeq(<<"join", table, name, d, a>>, 3, 5) = <<name, d, a>>
    BY BehindFive
  <2>2. PICK cmd : cmd = <<"join", table, name, d, a>>
    OBVIOUS
  <2>3. cmd[1] = "join" /\ cmd[2] = table /\ Len(cmd) = 5
    BY <2>2
  <2>4. SubSeq(cmd, 3, Len(cmd)) = <<name, d, a>>
    BY <2>1, <2>2, <2>3, Zenon
  <2>5. cmd[1] # "ntbl" /\ ~(Len(cmd) < 4)
    BY <2>3
  <2>6. PyRead(cmd) = NameTPassUPass(<<name, d, a>>, "join", table)
    BY <2>3, <2>4, <2>5, Zenon DEF PyRead
  <2>. QED  BY <2>2, <2>6, Zenon
<1>3. PyRead(<<"join", table, name, d, a, b>>)
        = NameTPassUPass(<<name, d, a, b>>, "join", table)
  <2>1. SubSeq(<<"join", table, name, d, a, b>>, 3, 6) = <<name, d, a, b>>
    BY BehindSix
  <2>2. PICK cmd : cmd = <<"join", table, name, d, a, b>>
    OBVIOUS
  <2>3. cmd[1] = "join" /\ cmd[2] = table /\ Len(cmd) = 6
    BY <2>2
  <2>4. SubSeq(cmd, 3, Len(cmd)) = <<name, d, a, b>>
    BY <2>1, <2>2, <2>3, Zenon
  <2>5. cmd[1] # "ntbl" /\ ~(Len(cmd) < 4)
    BY <2>3
  <2>6. PyRead(cmd) = NameTPassUPass(<<name, d, a, b>>, "join", table)
    BY <2>3, <2>4, <2>5, Zenon DEF PyRead
  <2>. QED  BY <2>2, <2>6, Zenon
<1>4. PyRead(<<"ntbl", name, d>>) = NameTPassUPass(<<name, d>>, "ntbl", name)
  <2>. PICK cmd : cmd = <<"ntbl", name, d>>
    OBVIOUS
  <2>1. cmd[1] = "ntbl" /\ cmd[2] = name /\ Len(cmd) = 3 /\ Tail(cmd) = <<name, d>>
    OBVIOUS
  <2>. QED  BY <2>1 DEF PyRead
<1>5. PyRead(<<"ntbl", name, d, a>>) = NameTPassUPass(<<name, d, a>>, "ntbl", name)
  <2>. PICK cmd : cmd = <<"ntbl", name, d, a>>
    OBVIOUS
  <2>1. cmd[1] = "ntbl" /\ cmd[2] = name /\ Len(cmd) = 4 /\ Tail(cmd) = <<name, d, a>>
    OBVIOUS
  <2>. QED  BY <2>1 DEF PyRead
<1>6. PyRead(<<"ntbl", name, d, a, b>>) = NameTPassUPass(<<name, d, a, b>>, "ntbl", name)
  <2>. PICK cmd : cmd = <<"ntbl", name, d, a, b>>
    OBVIOUS
  <2>1. cmd[1] = "ntbl" /\ cmd[2] = name /\ Len(cmd) = 5 /\ Tail(cmd) = <<name, d, a, b>>
    OBVIOUS
  <2>. QED  BY <2>1 DEF PyRead
<1>. QED  BY <1>1, <1>2, <1>3, <1>4, <1>5, <1>6

\* The words of a line that are kept: the passwords that there are.
LEMMA SplitJoin ==
  ASSUME NEW op, NEW table, NEW name, NEW d, NEW a, NEW b,
         op # Empty, table # Empty, name # Empty, d # Empty
  PROVE  SSplit(<<op, table, name, d, a, b>>) =
           IF a = Empty THEN IF b = Empty THEN <<op, table, name, d>>
                             ELSE <<op, table, name, d, b>>
           ELSE IF b = Empty THEN <<op, table, name, d, a>> ELSE <<op, table, name, d, a, b>>
<1>1. Append(<<>>, op) = <<op>> /\ Append(<<op>>, table) = <<op, table>>
  BY AppendToNone, AppendToOne
<1>2. Append(<<op, table>>, name) = <<op, table, name>>
  BY AppendToTwo
<1>3. Append(<<op, table, name>>, d) = <<op, table, name, d>>
  BY AppendToThree
<1>4. Keep(Keep(Keep(Keep(<<>>, op), table), name), d) = <<op, table, name, d>>
  BY <1>1, <1>2, <1>3, Zenon DEF Keep
<1>5. SSplit(<<op, table, name, d, a, b>>)
        = Keep(Keep(Keep(Keep(Keep(Keep(<<>>, op), table), name), d), a), b)
  BY SplitSix
<1>6. SSplit(<<op, table, name, d, a, b>>) = Keep(Keep(<<op, table, name, d>>, a), b)
  BY <1>4, <1>5, Zenon
<1>7. Append(<<op, table, name, d>>, a) = <<op, table, name, d, a>>
  BY AppendToFour
<1>8. Append(<<op, table, name, d>>, b) = <<op, table, name, d, b>>
  BY AppendToFour
<1>9. Append(<<op, table, name, d, a>>, b) = <<op, table, name, d, a, b>>
  BY AppendToFive
<1>. QED  BY <1>6, <1>7, <1>8, <1>9, Zenon DEF Keep

\* The line of a new table, with the word of the table that 3333.js leaves
\* empty and without it.
LEMMA SplitNewTable ==
  ASSUME NEW op, NEW name, NEW d, NEW a, NEW b, op # Empty, name # Empty, d # Empty,
         NEW words, words = <<op, name, d, a, b>> \/ words = <<op, Empty, name, d, a, b>>
  PROVE  SSplit(words) =
           IF a = Empty THEN IF b = Empty THEN <<op, name, d>> ELSE <<op, name, d, b>>
           ELSE IF b = Empty THEN <<op, name, d, a>> ELSE <<op, name, d, a, b>>
<1>1. Append(<<>>, op) = <<op>> /\ Append(<<op>>, name) = <<op, name>>
  BY AppendToNone, AppendToOne
<1>2. Append(<<op, name>>, d) = <<op, name, d>>
  BY AppendToTwo
<1>3. Keep(Keep(Keep(<<>>, op), name), d) = <<op, name, d>>
  BY <1>1, <1>2, Zenon DEF Keep
<1>4. Keep(Keep(Keep(Keep(<<>>, op), Empty), name), d) = <<op, name, d>>
  BY <1>1, <1>2, Zenon DEF Keep
<1>5. SSplit(<<op, name, d, a, b>>) = Keep(Keep(Keep(Keep(Keep(<<>>, op), name), d), a), b)
  BY SplitFive
<1>6. SSplit(<<op, Empty, name, d, a, b>>)
        = Keep(Keep(Keep(Keep(Keep(Keep(<<>>, op), Empty), name), d), a), b)
  BY SplitSix
<1>7. Append(<<op, name, d>>, a) = <<op, name, d, a>>
  BY AppendToThree
<1>8. Append(<<op, name, d>>, b) = <<op, name, d, b>>
  BY AppendToThree
<1>9. Append(<<op, name, d, a>>, b) = <<op, name, d, a, b>>
  BY AppendToFour
<1>10. Keep(Keep(<<op, name, d>>, a), b) =
         IF a = Empty THEN IF b = Empty THEN <<op, name, d>> ELSE <<op, name, d, b>>
         ELSE IF b = Empty THEN <<op, name, d, a>> ELSE <<op, name, d, a, b>>
  BY <1>7, <1>8, <1>9, Zenon DEF Keep
<1>11. SSplit(words) = Keep(Keep(<<op, name, d>>, a), b)
  BY <1>3, <1>4, <1>5, <1>6, Zenon
<1>. QED  BY <1>10, <1>11, Zenon

\* The words of a command and three more.
LEMMA ConcatThree ==
  ASSUME NEW S, NEW s \in Seq(S), NEW t \in Seq(S), NEW a \in S, NEW b \in S, NEW c \in S,
         NEW n \in Nat, Len(s) = n, Len(t) = n + 3, \A k \in 1..n : t[k] = s[k],
         t[n + 1] = a, t[n + 2] = b, t[n + 3] = c
  PROVE  s \o <<a, b, c>> = t
<1>1. PICK r : r = <<a, b, c>>
  OBVIOUS
<1>2. r \in Seq(S) /\ Len(r) = 3 /\ r[1] = a /\ r[2] = b /\ r[3] = c
  BY <1>1
<1>3. /\ s \o r \in Seq(S) /\ Len(s \o r) = n + Len(r)
      /\ \A k \in 1..(n + Len(r)) : (s \o r)[k] = IF k <= n THEN s[k] ELSE r[k - n]
  BY <1>2, ConcatProperties
<1>4. /\ Len(t) = n + 3 /\ \A k \in 1..n : t[k] = s[k]
      /\ t[n + 1] = r[1] /\ t[n + 2] = r[2] /\ t[n + 3] = r[3]
  BY <1>2
<1>5. ASSUME NEW k \in 1..(n + 3)  PROVE (s \o r)[k] = t[k]
  <2>1. (s \o r)[k] = IF k <= n THEN s[k] ELSE r[k - n]
    BY <1>2, <1>3
  <2>2. CASE k <= n
    BY <1>4, <2>1, <2>2
  <2>3. CASE k = n + 1
    <3>1. k - n = 1 /\ ~(k <= n)
      BY <2>3
    <3>. QED  BY <1>4, <2>1, <2>3, <3>1
  <2>4. CASE k = n + 2
    <3>1. k - n = 2 /\ ~(k <= n)
      BY <2>4
    <3>. QED  BY <1>4, <2>1, <2>4, <3>1
  <2>5. CASE k = n + 3
    <3>1. k - n = 3 /\ ~(k <= n)
      BY <2>5
    <3>. QED  BY <1>4, <2>1, <2>5, <3>1
  <2>6. k <= n \/ k = n + 1 \/ k = n + 2 \/ k = n + 3
    OBVIOUS
  <2>. QED  BY <2>2, <2>3, <2>4, <2>5, <2>6
<1>6. s \o r \in Seq(S) /\ Len(s \o r) = Len(t) /\ Len(t) = n + 3
  BY <1>2, <1>3, <1>4
<1>7. s \o r = t
  BY <1>5, <1>6, SeqEqual
<1>. QED  BY <1>1, <1>7, Zenon

\* The three words of join and three more.
LEMMA JoinLine ==
  ASSUME NEW op, NEW table, NEW name, NEW d, NEW a, NEW b
  PROVE  <<op, table, name>> \o <<d, a, b>> = <<op, table, name, d, a, b>>
<1>. DEFINE S == {op, table, name, d, a, b}
<1>1. op \in S /\ table \in S /\ name \in S /\ d \in S /\ a \in S /\ b \in S
  OBVIOUS
<1>. HIDE DEF S
<1>2. PICK s, t, n : s = <<op, table, name>> /\ t = <<op, table, name, d, a, b>> /\ n = 3
  OBVIOUS
<1>3. s \in Seq(S) /\ t \in Seq(S)
  BY <1>1, <1>2
<1>4. /\ Len(s) = n /\ Len(t) = n + 3 /\ t[n + 1] = d /\ t[n + 2] = a /\ t[n + 3] = b
      /\ \A k \in 1..n : t[k] = s[k]
  BY <1>2
<1>5. n \in Nat
  BY <1>2
<1>6. s \o <<d, a, b>> = t
  BY <1>1, <1>3, <1>4, <1>5, ConcatThree, SMTT(60)
<1>. QED  BY <1>2, <1>6, Zenon

\* The two words of ntbl and three more.
LEMMA NewTableLine ==
  ASSUME NEW op, NEW name, NEW d, NEW a, NEW b
  PROVE  <<op, name>> \o <<d, a, b>> = <<op, name, d, a, b>>
<1>. DEFINE S == {op, name, d, a, b}
<1>1. op \in S /\ name \in S /\ d \in S /\ a \in S /\ b \in S
  OBVIOUS
<1>. HIDE DEF S
<1>2. PICK s, t, n : s = <<op, name>> /\ t = <<op, name, d, a, b>> /\ n = 2
  OBVIOUS
<1>3. s \in Seq(S) /\ t \in Seq(S)
  BY <1>1, <1>2
<1>4. /\ Len(s) = n /\ Len(t) = n + 3 /\ t[n + 1] = d /\ t[n + 2] = a /\ t[n + 3] = b
      /\ \A k \in 1..n : t[k] = s[k]
  BY <1>2
<1>5. n \in Nat
  BY <1>2
<1>6. s \o <<d, a, b>> = t
  BY <1>1, <1>3, <1>4, <1>5, ConcatThree, SMTT(60)
<1>. QED  BY <1>2, <1>6, Zenon

\* A word behind a sequence of words.
LEMMA ConcatWord ==
  ASSUME NEW S, NEW s \in Seq(S), NEW e \in S
  PROVE  s \o <<e>> = Append(s, e)
BY AppendIsConcat

\* Texts of one word each are joined to a line of these words.
LEMMA JoinedSix ==
  ASSUME NEW a, NEW b, NEW c, NEW d, NEW e, NEW g,
         NEW A, NEW B, NEW C, NEW D, NEW E, NEW G,
         A = <<a>>, B = <<b>>, C = <<c>>, D = <<d>>, E = <<e>>, G = <<g>>
  PROVE  A \o B \o C \o D \o E \o G = <<a, b, c, d, e, g>>
<1>. DEFINE S == {a, b, c, d, e, g}
<1>1. a \in S /\ b \in S /\ c \in S /\ d \in S /\ e \in S /\ g \in S
  OBVIOUS
<1>. HIDE DEF S
<1>2. /\ <<a>> \in Seq(S) /\ <<a, b>> \in Seq(S) /\ <<a, b, c>> \in Seq(S)
      /\ <<a, b, c, d>> \in Seq(S) /\ <<a, b, c, d, e>> \in Seq(S)
  BY <1>1
<1>3. <<a>> \o <<b>> = <<a, b>>
  BY <1>1, <1>2, ConcatWord, AppendToOne, Zenon
<1>4. <<a, b>> \o <<c>> = <<a, b, c>>
  BY <1>1, <1>2, ConcatWord, AppendToTwo, Zenon
<1>5. <<a, b, c>> \o <<d>> = <<a, b, c, d>>
  BY <1>1, <1>2, ConcatWord, AppendToThree, Zenon
<1>6. <<a, b, c, d>> \o <<e>> = <<a, b, c, d, e>>
  <2>1. Append(<<a, b, c, d>>, e) = <<a, b, c, d, e>>
    BY AppendToFour
  <2>2. PICK s : s = <<a, b, c, d>>
    OBVIOUS
  <2>3. s \o <<e>> = Append(s, e)
    BY <1>1, <1>2, <2>2, ConcatWord, Zenon
  <2>. QED  BY <2>1, <2>2, <2>3, Zenon
<1>7. <<a, b, c, d, e>> \o <<g>> = <<a, b, c, d, e, g>>
  <2>1. Append(<<a, b, c, d, e>>, g) = <<a, b, c, d, e, g>>
    BY AppendToFive
  <2>2. PICK s : s = <<a, b, c, d, e>>
    OBVIOUS
  <2>3. s \o <<g>> = Append(s, g)
    BY <1>1, <1>2, <2>2, ConcatWord, Zenon
  <2>. QED  BY <2>1, <2>2, <2>3, Zenon
<1>8. A \o B \o C = <<a, b, c>>
  BY <1>3, <1>4, Zenon
<1>9. A \o B \o C \o D \o E = <<a, b, c, d, e>>
  BY <1>5, <1>6, <1>8, Zenon
<1>. QED  BY <1>7, <1>9, Zenon

LEMMA JoinedFive ==
  ASSUME NEW a, NEW b, NEW c, NEW d, NEW e,
         NEW A, NEW B, NEW C, NEW D, NEW E,
         A = <<a>>, B = <<b>>, C = <<c>>, D = <<d>>, E = <<e>>
  PROVE  A \o B \o C \o D \o E = <<a, b, c, d, e>>
<1>. DEFINE S == {a, b, c, d, e}
<1>1. a \in S /\ b \in S /\ c \in S /\ d \in S /\ e \in S
  OBVIOUS
<1>. HIDE DEF S
<1>2. /\ <<a>> \in Seq(S) /\ <<a, b>> \in Seq(S) /\ <<a, b, c>> \in Seq(S)
      /\ <<a, b, c, d>> \in Seq(S)
  BY <1>1
<1>3. <<a>> \o <<b>> = <<a, b>>
  BY <1>1, <1>2, ConcatWord, AppendToOne, Zenon
<1>4. <<a, b>> \o <<c>> = <<a, b, c>>
  BY <1>1, <1>2, ConcatWord, AppendToTwo, Zenon
<1>5. <<a, b, c>> \o <<d>> = <<a, b, c, d>>
  BY <1>1, <1>2, ConcatWord, AppendToThree, Zenon
<1>6. <<a, b, c, d>> \o <<e>> = <<a, b, c, d, e>>
  <2>1. Append(<<a, b, c, d>>, e) = <<a, b, c, d, e>>
    BY AppendToFour
  <2>2. PICK s : s = <<a, b, c, d>>
    OBVIOUS
  <2>3. s \o <<e>> = Append(s, e)
    BY <1>1, <1>2, <2>2, ConcatWord, Zenon
  <2>. QED  BY <2>1, <2>2, <2>3, Zenon
<1>7. A \o B \o C = <<a, b, c>>
  BY <1>3, <1>4, Zenon
<1>. QED  BY <1>5, <1>6, <1>7, Zenon

\* A text without a blank is its only word and has nothing to trim.
LEMMA OneWordText ==
  ASSUME NEW w
  PROVE  /\ FirstWord(<<w>>) = w
         /\ Trim(<<w>>) = <<w>>
         /\ <<w>> = Nothing <=> w = Empty
<1>. PICK t : t = <<w>>
  OBVIOUS
<1>1. Len(t) = 1 /\ t[1] = w /\ DOMAIN t = {1}
  OBVIOUS
<1>2. FirstWord(t) = w
  <2>1. PICK f : /\ f[0] = <<>>
                 /\ \A n \in 1..1 : f[n] = Keep(f[n - 1], t[n])
                 /\ SSplit(t) = f[1]
    BY <1>1, SplitLoop
  <2>2. f[1] = Keep(f[0], t[1])
    BY <2>1
  <2>3. SSplit(t) = Keep(<<>>, w)
    BY <1>1, <2>1, <2>2, Zenon
  <2>4. CASE w = Empty
    <3>1. SSplit(t) = <<>>
      BY <2>3, <2>4, Zenon DEF Keep
    <3>. QED  BY <2>4, <3>1, Zenon DEF FirstWord
  <2>5. CASE w # Empty
    <3>1. SSplit(t) = <<w>>
      BY <2>3, <2>5, AppendToNone, Zenon DEF Keep
    <3>2. <<w>> # <<>> /\ <<w>>[1] = w
      OBVIOUS
    <3>. QED  BY <3>1, <3>2, Zenon DEF FirstWord
  <2>. QED  BY <2>4, <2>5
<1>3. t = Nothing <=> w = Empty
  <2>1. Nothing = <<Empty>> /\ Nothing[1] = Empty
    BY DEF Nothing
  <2>. QED  BY <1>1, <2>1, Zenon
<1>4. Trim(t) = t
  <2>. DEFINE kept == {k \in DOMAIN t : t[k] # Empty}
  <2>1. CASE w = Empty
    <3>1. kept = {}
      BY <1>1, <2>1
    <3>2. Trim(t) = Nothing
      BY <3>1, Zenon DEF Trim
    <3>. QED  BY <1>3, <2>1, <3>2
  <2>2. CASE w # Empty
    <3>1. kept = {1}
      BY <1>1, <2>2
    <3>2. Min({1}) = 1 /\ Max({1}) = 1
      BY DEF Min, Max
    <3>3. SubSeq(t, 1, 1) = t
      <4>1. t \in Seq({w})
        OBVIOUS
      <4>2. /\ SubSeq(t, 1, 1) \in Seq({w}) /\ Len(SubSeq(t, 1, 1)) = 1
            /\ SubSeq(t, 1, 1)[1] = t[1]
        <5>1. \A k \in 1..1 : t[k] \in {w}
          BY <1>1
        <5>. QED  BY <5>1, SubSeqProperties
      <4>3. \A k \in 1..1 : SubSeq(t, 1, 1)[k] = t[k]
        BY <4>2
      <4>. QED  BY <1>1, <4>1, <4>2, <4>3, SeqEqual
    <3>4. kept # {}
      BY <3>1
    <3>. QED  BY <3>1, <3>2, <3>3, <3>4, Zenon DEF Trim
  <2>. QED  BY <2>1, <2>2
<1>. QED  BY <1>2, <1>3, <1>4, Zenon

\* The flags that tell the passwords.
Telling(a, b) == IF a = Empty THEN IF b = Empty THEN 0 ELSE 2
                 ELSE IF b = Empty THEN 1 ELSE 3

\* A line of join with flags k is read as the passwords it has, if the flags
\* tell them, by either server.
LEMMA JoinRead ==
  ASSUME NEW table, NEW name, NEW a, NEW b, table # Empty, name # Empty,
         NEW k \in 0..3
  PROVE  /\ k = Telling(a, b) =>
              Read(SSplit(<<"join", table, name, Digits[k + 1], a, b>>))
                = Form("join", table, name, a, b)
         /\ k = Telling(a, b) =>
              PyRead(SSplit(<<"join", table, name, Digits[k + 1], a, b>>))
                = Form("join", table, name, a, b)
         /\ k = 3 /\ Telling(a, b) # 3 =>
              Read(SSplit(<<"join", table, name, Digits[k + 1], a, b>>)) = Refused
<1>0. PICK line, right : /\ line = SSplit(<<"join", table, name, Digits[k + 1], a, b>>)
                         /\ right = Telling(a, b)
  OBVIOUS
<1>1. PICK d : d = Digits[k + 1]
  OBVIOUS
<1>2. StrToInt(d, -1) = k /\ StrToInt(d, 0) = k /\ d # Empty
  BY <1>1, DigitsRead
<1>3. "join" # Empty
  BY Zenon DEF Empty
<1>4. line = IF a = Empty THEN IF b = Empty THEN <<"join", table, name, d>>
                               ELSE <<"join", table, name, d, b>>
             ELSE IF b = Empty THEN <<"join", table, name, d, a>>
                  ELSE <<"join", table, name, d, a, b>>
  <2>1. line = SSplit(<<"join", table, name, d, a, b>>)
    BY <1>0, <1>1, Zenon
  <2>. QED  BY <1>2, <1>3, <2>1, SplitJoin
<1>5. ASSUME NEW p, NEW q
      PROVE  /\ Read(<<"join", table, name, d>>) =
                  IF k = 0 THEN Form("join", table, name, Empty, Empty) ELSE Refused
             /\ Read(<<"join", table, name, d, p>>) =
                  IF k = 1 THEN Form("join", table, name, p, Empty)
                  ELSE IF k = 2 THEN Form("join", table, name, Empty, p) ELSE Refused
             /\ Read(<<"join", table, name, d, p, q>>) =
                  IF k = 3 THEN Form("join", table, name, p, q) ELSE Refused
  BY <1>2, ReadJoin
<1>6. ASSUME NEW p, NEW q
      PROVE  /\ PyRead(<<"join", table, name, d>>) =
                  IF k = 0 THEN Form("join", table, name, Empty, Empty) ELSE Refused
             /\ PyRead(<<"join", table, name, d, p>>) =
                  IF k = 1 THEN Form("join", table, name, p, Empty)
                  ELSE IF k = 2 THEN Form("join", table, name, Empty, p) ELSE Refused
             /\ PyRead(<<"join", table, name, d, p, q>>) =
                  IF k = 3 THEN Form("join", table, name, p, q) ELSE Refused
  <2>1. /\ PyRead(<<"join", table, name, d>>) = NameTPassUPass(<<name, d>>, "join", table)
        /\ PyRead(<<"join", table, name, d, p>>) = NameTPassUPass(<<name, d, p>>, "join", table)
        /\ PyRead(<<"join", table, name, d, p, q>>)
             = NameTPassUPass(<<name, d, p, q>>, "join", table)
        /\ PyRead(<<"ntbl", name, d>>) = NameTPassUPass(<<name, d>>, "ntbl", name)
        /\ PyRead(<<"ntbl", name, d, p>>) = NameTPassUPass(<<name, d, p>>, "ntbl", name)
        /\ PyRead(<<"ntbl", name, d, p, q>>) = NameTPassUPass(<<name, d, p, q>>, "ntbl", name)
    BY PyReadArguments
  <2>2. /\ NameTPassUPass(<<name, d>>, "join", table) =
             IF k = 0 THEN Form("join", table, name, Empty, Empty) ELSE Refused
        /\ NameTPassUPass(<<name, d, p>>, "join", table) =
             IF k = 1 THEN Form("join", table, name, p, Empty)
             ELSE IF k = 2 THEN Form("join", table, name, Empty, p) ELSE Refused
        /\ NameTPassUPass(<<name, d, p, q>>, "join", table) =
             IF k = 3 THEN Form("join", table, name, p, q) ELSE Refused
    BY <1>2, ReadArguments
  <2>. QED  BY <2>1, <2>2, Zenon
<1>7. CASE a = Empty /\ b = Empty
  <2>1. line = <<"join", table, name, d>> /\ right = 0
    BY <1>0, <1>4, <1>7, Zenon DEF Telling
  <2>2. Read(line) = IF k = 0 THEN Form("join", table, name, Empty, Empty) ELSE Refused
    BY <1>5, <2>1, Zenon
  <2>3. PyRead(line) = IF k = 0 THEN Form("join", table, name, Empty, Empty) ELSE Refused
    BY <1>6, <2>1, Zenon
  <2>. QED  BY <1>0, <1>7, <2>1, <2>2, <2>3
<1>8. CASE a # Empty /\ b = Empty
  <2>1. line = <<"join", table, name, d, a>> /\ right = 1
    BY <1>0, <1>4, <1>8, Zenon DEF Telling
  <2>2. Read(line) = IF k = 1 THEN Form("join", table, name, a, Empty)
                     ELSE IF k = 2 THEN Form("join", table, name, Empty, a) ELSE Refused
    BY <1>5, <2>1, Zenon
  <2>3. PyRead(line) = IF k = 1 THEN Form("join", table, name, a, Empty)
                       ELSE IF k = 2 THEN Form("join", table, name, Empty, a) ELSE Refused
    BY <1>6, <2>1, Zenon
  <2>. QED  BY <1>0, <1>8, <2>1, <2>2, <2>3
<1>9. CASE a = Empty /\ b # Empty
  <2>1. line = <<"join", table, name, d, b>> /\ right = 2
    BY <1>0, <1>4, <1>9, Zenon DEF Telling
  <2>2. Read(line) = IF k = 1 THEN Form("join", table, name, b, Empty)
                     ELSE IF k = 2 THEN Form("join", table, name, Empty, b) ELSE Refused
    BY <1>5, <2>1, Zenon
  <2>3. PyRead(line) = IF k = 1 THEN Form("join", table, name, b, Empty)
                       ELSE IF k = 2 THEN Form("join", table, name, Empty, b) ELSE Refused
    BY <1>6, <2>1, Zenon
  <2>. QED  BY <1>0, <1>9, <2>1, <2>2, <2>3
<1>10. CASE a # Empty /\ b # Empty
  <2>1. line = <<"join", table, name, d, a, b>> /\ right = 3
    BY <1>0, <1>4, <1>10, Zenon DEF Telling
  <2>2. Read(line) = IF k = 3 THEN Form("join", table, name, a, b) ELSE Refused
    BY <1>5, <2>1, Zenon
  <2>3. PyRead(line) = IF k = 3 THEN Form("join", table, name, a, b) ELSE Refused
    BY <1>6, <2>1, Zenon
  <2>. QED  BY <1>0, <1>10, <2>1, <2>2, <2>3
<1>. QED  BY <1>7, <1>8, <1>9, <1>10

\* The same for a line of ntbl.
LEMMA NewTableRead ==
  ASSUME NEW name, NEW a, NEW b, name # Empty, NEW k \in 0..3
  PROVE  /\ k = Telling(a, b) =>
              Read(SSplit(<<"ntbl", name, Digits[k + 1], a, b>>))
                = Form("ntbl", name, name, a, b)
         /\ k = Telling(a, b) =>
              /\ PyRead(SSplit(<<"ntbl", Empty, name, Digits[k + 1], a, b>>))
                   = Form("ntbl", name, name, a, b)
              /\ PyRead(SSplit(<<"ntbl", name, Digits[k + 1], a, b>>))
                   = Form("ntbl", name, name, a, b)
         /\ k = 3 /\ Telling(a, b) # 3 =>
              Read(SSplit(<<"ntbl", name, Digits[k + 1], a, b>>)) = Refused
<1>0. PICK right : right = Telling(a, b)
  OBVIOUS
<1> SUFFICES ASSUME NEW line, \/ line = SSplit(<<"ntbl", name, Digits[k + 1], a, b>>)
                              \/ line = SSplit(<<"ntbl", Empty, name, Digits[k + 1], a, b>>)
             PROVE  /\ k = right => Read(line) = Form("ntbl", name, name, a, b)
                    /\ k = right => PyRead(line) = Form("ntbl", name, name, a, b)
                    /\ k = 3 /\ right # 3 => Read(line) = Refused
  BY <1>0, Zenon
<1>1. PICK d : d = Digits[k + 1]
  OBVIOUS
<1>2. StrToInt(d, -1) = k /\ StrToInt(d, 0) = k /\ d # Empty
  BY <1>1, DigitsRead
<1>3. "ntbl" # Empty
  BY Zenon DEF Empty
<1>4. line = IF a = Empty THEN IF b = Empty THEN <<"ntbl", name, d>>
                               ELSE <<"ntbl", name, d, b>>
             ELSE IF b = Empty THEN <<"ntbl", name, d, a>> ELSE <<"ntbl", name, d, a, b>>
  <2>1. \/ line = SSplit(<<"ntbl", name, d, a, b>>)
        \/ line = SSplit(<<"ntbl", Empty, name, d, a, b>>)
    BY <1>1, Zenon
  <2>. QED  BY <1>2, <1>3, <2>1, SplitNewTable
<1>5. ASSUME NEW p, NEW q
      PROVE  /\ Read(<<"ntbl", name, d>>) =
                  IF k = 0 THEN Form("ntbl", name, name, Empty, Empty) ELSE Refused
             /\ Read(<<"ntbl", name, d, p>>) =
                  IF k = 1 THEN Form("ntbl", name, name, p, Empty)
                  ELSE IF k = 2 THEN Form("ntbl", name, name, Empty, p) ELSE Refused
             /\ Read(<<"ntbl", name, d, p, q>>) =
                  IF k = 3 THEN Form("ntbl", name, name, p, q) ELSE Refused
  BY <1>2, ReadNewTable
<1>6. ASSUME NEW p, NEW q
      PROVE  /\ PyRead(<<"ntbl", name, d>>) =
                  IF k = 0 THEN Form("ntbl", name, name, Empty, Empty) ELSE Refused
             /\ PyRead(<<"ntbl", name, d, p>>) =
                  IF k = 1 THEN Form("ntbl", name, name, p, Empty)
                  ELSE IF k = 2 THEN Form("ntbl", name, name, Empty, p) ELSE Refused
             /\ PyRead(<<"ntbl", name, d, p, q>>) =
                  IF k = 3 THEN Form("ntbl", name, name, p, q) ELSE Refused
  <2>. PICK table : TRUE
    OBVIOUS
  <2>1. /\ PyRead(<<"join", table, name, d>>) = NameTPassUPass(<<name, d>>, "join", table)
        /\ PyRead(<<"join", table, name, d, p>>) = NameTPassUPass(<<name, d, p>>, "join", table)
        /\ PyRead(<<"join", table, name, d, p, q>>)
             = NameTPassUPass(<<name, d, p, q>>, "join", table)
        /\ PyRead(<<"ntbl", name, d>>) = NameTPassUPass(<<name, d>>, "ntbl", name)
        /\ PyRead(<<"ntbl", name, d, p>>) = NameTPassUPass(<<name, d, p>>, "ntbl", name)
        /\ PyRead(<<"ntbl", name, d, p, q>>) = NameTPassUPass(<<name, d, p, q>>, "ntbl", name)
    BY PyReadArguments, SMTT(60)
  <2>2. /\ NameTPassUPass(<<name, d>>, "ntbl", name) =
             IF k = 0 THEN Form("ntbl", name, name, Empty, Empty) ELSE Refused
        /\ NameTPassUPass(<<name, d, p>>, "ntbl", name) =
             IF k = 1 THEN Form("ntbl", name, name, p, Empty)
             ELSE IF k = 2 THEN Form("ntbl", name, name, Empty, p) ELSE Refused
        /\ NameTPassUPass(<<name, d, p, q>>, "ntbl", name) =
             IF k = 3 THEN Form("ntbl", name, name, p, q) ELSE Refused
    BY <1>2, ReadArguments
  <2>. QED  BY <2>1, <2>2, Zenon
<1>7. CASE a = Empty /\ b = Empty
  <2>1. line = <<"ntbl", name, d>> /\ right = 0
    BY <1>0, <1>4, <1>7, Zenon DEF Telling
  <2>2. Read(line) = IF k = 0 THEN Form("ntbl", name, name, Empty, Empty) ELSE Refused
    BY <1>5, <2>1, Zenon
  <2>3. PyRead(line) = IF k = 0 THEN Form("ntbl", name, name, Empty, Empty) ELSE Refused
    BY <1>6, <2>1, Zenon
  <2>. QED  BY <1>7, <2>1, <2>2, <2>3
<1>8. CASE a # Empty /\ b = Empty
  <2>1. line = <<"ntbl", name, d, a>> /\ right = 1
    BY <1>0, <1>4, <1>8, Zenon DEF Telling
  <2>2. Read(line) = IF k = 1 THEN Form("ntbl", name, name, a, Empty)
                     ELSE IF k = 2 THEN Form("ntbl", name, name, Empty, a) ELSE Refused
    BY <1>5, <2>1, Zenon
  <2>3. PyRead(line) = IF k = 1 THEN Form("ntbl", name, name, a, Empty)
                       ELSE IF k = 2 THEN Form("ntbl", name, name, Empty, a) ELSE Refused
    BY <1>6, <2>1, Zenon
  <2>. QED  BY <1>8, <2>1, <2>2, <2>3
<1>9. CASE a = Empty /\ b # Empty
  <2>1. line = <<"ntbl", name, d, b>> /\ right = 2
    BY <1>0, <1>4, <1>9, Zenon DEF Telling
  <2>2. Read(line) = IF k = 1 THEN Form("ntbl", name, name, b, Empty)
                     ELSE IF k = 2 THEN Form("ntbl", name, name, Empty, b) ELSE Refused
    BY <1>5, <2>1, Zenon
  <2>3. PyRead(line) = IF k = 1 THEN Form("ntbl", name, name, b, Empty)
                       ELSE IF k = 2 THEN Form("ntbl", name, name, Empty, b) ELSE Refused
    BY <1>6, <2>1, Zenon
  <2>. QED  BY <1>9, <2>1, <2>2, <2>3
<1>10. CASE a # Empty /\ b # Empty
  <2>1. line = <<"ntbl", name, d, a, b>> /\ right = 3
    BY <1>0, <1>4, <1>10, Zenon DEF Telling
  <2>2. Read(line) = IF k = 3 THEN Form("ntbl", name, name, a, b) ELSE Refused
    BY <1>5, <2>1, Zenon
  <2>3. PyRead(line) = IF k = 3 THEN Form("ntbl", name, name, a, b) ELSE Refused
    BY <1>6, <2>1, Zenon
  <2>. QED  BY <1>10, <2>1, <2>2, <2>3
<1>. QED  BY <1>7, <1>8, <1>9, <1>10

\* A form is what Type made of one, or none yet.
FormOk ==
  form = Refused \/
  \E op \in {"ntbl", "join"} : \E table, name, tpass, pass :
    /\ form = Form(op, table, name, tpass, pass)
    /\ name \in Texts /\ tpass \in Texts /\ pass \in Texts
    /\ IF op = "ntbl" THEN table = name ELSE \E w : w # Empty /\ table = <<w>>

\* A text without a blank is the sequence of one word.
LEMMA PlainText ==
  ASSUME NEW t \in Texts, Len(t) = 1
  PROVE  \E w : t = <<w>>
<1>1. PICK n \in 1..MaxPieces : t \in [1..n -> Words]
  BY DEF Texts
<1>2. n \in Nat /\ t \in Seq(Words)
  BY <1>1, MaxPiecesAssumption
<1>3. <<t[1]>> \in Seq(Words) /\ Len(<<t[1]>>) = 1 /\ \A k \in 1..1 : <<t[1]>>[k] = t[k]
  BY <1>2
<1>4. t = <<t[1]>>
  BY <1>2, <1>3, SeqEqual
<1>. QED  BY <1>4

\* The word of these flags.
Flag(a, b) == Digits[Telling(a, b) + 1]

\* What 3333.js and m3333.js make of a form without blanks, word by word.
LEMMA JsLines ==
  ASSUME NEW op \in {"ntbl", "join"}, NEW table, NEW name, NEW tpass, NEW pass,
         NEW f, f = Form(op, <<table>>, <<name>>, <<tpass>>, <<pass>>),
         NEW d, d = Flag(tpass, pass)
  PROVE  /\ op = "join" => /\ JsWords(f) = <<"join", table, name, d, tpass, pass>>
                            /\ M3Words(f) = <<"join", table, name, d, tpass, pass>>
         /\ op = "ntbl" => /\ JsWords(f) = <<"ntbl", Empty, name, d, tpass, pass>>
                            /\ M3Words(f) = <<"ntbl", name, d, tpass, pass>>
<1>1. /\ f.op = op /\ f.table = <<table>> /\ f.name = <<name>>
      /\ f.tpass = <<tpass>> /\ f.pass = <<pass>>
  BY DEF Form
<1>2. Trimmed(f) = f
  <2>1. Trim(<<name>>) = <<name>> /\ Trim(<<tpass>>) = <<tpass>> /\ Trim(<<pass>>) = <<pass>>
    BY OneWordText
  <2>. QED  BY <1>1, <2>1, Zenon DEF Trimmed
<1>3. PwFlags(f, Nothing) = Telling(tpass, pass)
  <2>1. (f.tpass = Nothing <=> tpass = Empty) /\ (f.pass = Nothing <=> pass = Empty)
    BY <1>1, OneWordText, Zenon
  <2>2. PICK k : k = PwFlags(f, Nothing)
    OBVIOUS
  <2>3. k = Telling(tpass, pass)
    BY <2>1, <2>2, FlagsAre DEF Telling
  <2>. QED  BY <2>2, <2>3
<1>4. PICK O, N, D, P, Q : O = <<op>> /\ N = <<name>> /\ D = <<d>> /\ P = <<tpass>> /\ Q = <<pass>>
  OBVIOUS
<1>5. ASSUME NEW t
      PROVE  Joined(f, t) = O \o t \o N \o D \o P \o Q
  BY <1>1, <1>3, <1>4, Zenon DEF Joined, Flag
<1>6. CASE op = "join"
  <2>1. JsWords(f) = Joined(f, <<table>>) /\ M3Words(f) = Joined(f, <<table>>)
    BY <1>1, <1>2, <1>6, Zenon DEF JsWords, M3Words
  <2>2. PICK T : T = <<table>>
    OBVIOUS
  <2>3. O \o T \o N \o D \o P \o Q = <<op, table, name, d, tpass, pass>>
    BY <1>4, <2>2, JoinedSix
  <2>4. Joined(f, <<table>>) = <<op, table, name, d, tpass, pass>>
    BY <1>5, <2>2, <2>3, Zenon
  <2>5. op # "ntbl"
    BY <1>6
  <2>. QED  BY <1>6, <2>1, <2>4, <2>5, Zenon
<1>7. CASE op = "ntbl"
  <2>1. op # "join"
    BY <1>7
  <2>2. JsWords(f) = Joined(f, <<Empty>>) /\ M3Words(f) = Joined(f, <<>>)
    BY <1>1, <1>2, <2>1, Zenon DEF JsWords, M3Words, Nothing
  <2>3. PICK T, U : T = <<Empty>> /\ U = <<>>
    OBVIOUS
  <2>4. O \o T \o N \o D \o P \o Q = <<op, Empty, name, d, tpass, pass>>
    <3>1. PICK e : e = Empty
      OBVIOUS
    <3>2. T = <<e>>
      BY <2>3, <3>1, Zenon
    <3>3. O \o T \o N \o D \o P \o Q = <<op, e, name, d, tpass, pass>>
      BY <1>4, <3>2, JoinedSix
    <3>. QED  BY <3>1, <3>3, Zenon
  <2>5. O \o U \o N \o D \o P \o Q = <<op, name, d, tpass, pass>>
    <3>1. O \o N \o D \o P \o Q = <<op, name, d, tpass, pass>>
      BY <1>4, JoinedFive
    <3>2. O \o U = O
      <4>1. O \in Seq({op})
        BY <1>4
      <4>. QED  BY <2>3, <4>1, ConcatEmptySeq
    <3>. QED  BY <3>1, <3>2, Zenon
  <2>6. /\ Joined(f, <<Empty>>) = <<op, Empty, name, d, tpass, pass>>
        /\ Joined(f, <<>>) = <<op, name, d, tpass, pass>>
    BY <1>5, <2>3, <2>4, <2>5, Zenon
  <2>. QED  BY <1>7, <2>1, <2>2, <2>6, Zenon
<1>. QED  BY <1>6, <1>7

\* What the servers make of what the clients make of a form.
LEMMA LinesRead ==
  ASSUME NEW op \in {"ntbl", "join"}, NEW table, NEW name, NEW tpass, NEW pass,
         table # Empty, name # Empty, op = "ntbl" => name = table,
         NEW f, f = Form(op, table, name, tpass, pass),
         NEW texts, texts = Form(op, <<table>>, <<name>>, <<tpass>>, <<pass>>)
  PROVE  /\ Read(SSplit(QtWords(f))) = f
         /\ PyRead(SSplit(JsWords(texts))) = f
         /\ PyRead(SSplit(M3Words(texts))) = f
         /\ Read(SSplit(WebWords(f))) = IF f.tpass # Empty /\ f.pass # Empty THEN f ELSE Refused
<1>1. /\ f.op = op /\ f.table = table /\ f.name = name /\ f.tpass = tpass /\ f.pass = pass
  BY DEF Form
<1>2. PICK k, three, right : /\ k = PwFlags(f, Empty) /\ three = 3
                             /\ right = Telling(tpass, pass)
  OBVIOUS
<1>3. k \in 0..3 /\ k = right
  BY <1>1, <1>2, FlagsAre DEF Telling
<1>4. three \in 0..3 /\ "3" = Digits[three + 1]
  BY <1>2 DEF Digits
<1>5. right = 3 <=> tpass # Empty /\ pass # Empty
  BY <1>2 DEF Telling
<1>6. CASE op = "join"
  <2>1. Start(f) = <<"join", table, name>>
    BY <1>1, <1>6, Zenon DEF Start
  <2>2. ASSUME NEW d  PROVE Start(f) \o <<d, tpass, pass>> = <<"join", table, name, d, tpass, pass>>
    <3>1. <<"join", table, name>> \o <<d, tpass, pass>> = <<"join", table, name, d, tpass, pass>>
      BY JoinLine
    <3>. QED  BY <2>1, <3>1, Zenon
  <2>3. QtWords(f) = <<"join", table, name, Digits[k + 1], tpass, pass>>
    BY <1>1, <1>2, <2>2, Zenon DEF QtWords
  <2>4. /\ JsWords(texts) = <<"join", table, name, Digits[k + 1], tpass, pass>>
        /\ M3Words(texts) = <<"join", table, name, Digits[k + 1], tpass, pass>>
    <3>1. PICK d : d = Flag(tpass, pass)
      OBVIOUS
    <3>2. d = Digits[k + 1]
      BY <1>2, <1>3, <3>1, Zenon DEF Flag
    <3>3. /\ op = "join" => /\ JsWords(texts) = <<"join", table, name, d, tpass, pass>>
                            /\ M3Words(texts) = <<"join", table, name, d, tpass, pass>>
          /\ op = "ntbl" => /\ JsWords(texts) = <<"ntbl", Empty, name, d, tpass, pass>>
                            /\ M3Words(texts) = <<"ntbl", name, d, tpass, pass>>
      BY <3>1, JsLines
    <3>. QED  BY <1>6, <3>2, <3>3, Zenon
  <2>5. WebWords(f) = <<"join", table, name, Digits[three + 1], tpass, pass>>
    BY <1>1, <1>4, <2>2, Zenon DEF WebWords
  <2>. DEFINE Line(n) == SSplit(<<"join", table, name, Digits[n + 1], tpass, pass>>)
  <2>6. ASSUME NEW n \in 0..3
        PROVE  /\ n = right => Read(Line(n)) = Form("join", table, name, tpass, pass)
               /\ n = right => PyRead(Line(n)) = Form("join", table, name, tpass, pass)
               /\ n = 3 /\ right # 3 => Read(Line(n)) = Refused
    <3>1. /\ n = Telling(tpass, pass) => Read(Line(n)) = Form("join", table, name, tpass, pass)
          /\ n = Telling(tpass, pass) => PyRead(Line(n)) = Form("join", table, name, tpass, pass)
          /\ n = 3 /\ Telling(tpass, pass) # 3 => Read(Line(n)) = Refused
      BY JoinRead, ZenonT(60)
    <3>. QED  BY <1>2, <3>1, Zenon
  <2>7. /\ Read(Line(k)) = Form("join", table, name, tpass, pass)
        /\ PyRead(Line(k)) = Form("join", table, name, tpass, pass)
    BY <1>3, <2>6, Zenon
  <2>8. /\ right = 3 => Read(Line(three)) = Form("join", table, name, tpass, pass)
        /\ right # 3 => Read(Line(three)) = Refused
    BY <1>2, <1>4, <2>6, Zenon
  <2>. QED  BY <1>1, <1>5, <1>6, <2>3, <2>4, <2>5, <2>7, <2>8, Zenon
<1>7. CASE op = "ntbl"
  <2>1. "ntbl" # "join" /\ table = name
    BY <1>7
  <2>2. Start(f) = <<"ntbl", name>>
    BY <1>1, <1>7, <2>1, Zenon DEF Start
  <2>3. ASSUME NEW d  PROVE Start(f) \o <<d, tpass, pass>> = <<"ntbl", name, d, tpass, pass>>
    <3>1. <<"ntbl", name>> \o <<d, tpass, pass>> = <<"ntbl", name, d, tpass, pass>>
      BY NewTableLine
    <3>. QED  BY <2>2, <3>1, Zenon
  <2>4. QtWords(f) = <<"ntbl", name, Digits[k + 1], tpass, pass>>
    BY <1>1, <1>2, <2>3, Zenon DEF QtWords
  <2>5. /\ JsWords(texts) = <<"ntbl", Empty, name, Digits[k + 1], tpass, pass>>
        /\ M3Words(texts) = <<"ntbl", name, Digits[k + 1], tpass, pass>>
    <3>1. PICK d : d = Flag(tpass, pass)
      OBVIOUS
    <3>2. d = Digits[k + 1]
      BY <1>2, <1>3, <3>1, Zenon DEF Flag
    <3>3. /\ op = "join" => /\ JsWords(texts) = <<"join", table, name, d, tpass, pass>>
                            /\ M3Words(texts) = <<"join", table, name, d, tpass, pass>>
          /\ op = "ntbl" => /\ JsWords(texts) = <<"ntbl", Empty, name, d, tpass, pass>>
                            /\ M3Words(texts) = <<"ntbl", name, d, tpass, pass>>
      BY <3>1, JsLines
    <3>. QED  BY <1>7, <3>2, <3>3, Zenon
  <2>6. WebWords(f) = <<"ntbl", name, Digits[three + 1], tpass, pass>>
    BY <1>1, <1>4, <2>3, Zenon DEF WebWords
  <2>7. PICK line, jsline, webline :
          /\ line = SSplit(<<"ntbl", name, Digits[k + 1], tpass, pass>>)
          /\ jsline = SSplit(<<"ntbl", Empty, name, Digits[k + 1], tpass, pass>>)
          /\ webline = SSplit(<<"ntbl", name, Digits[three + 1], tpass, pass>>)
    OBVIOUS
  <2>8. /\ Read(line) = Form("ntbl", name, name, tpass, pass)
        /\ PyRead(jsline) = Form("ntbl", name, name, tpass, pass)
        /\ PyRead(line) = Form("ntbl", name, name, tpass, pass)
    BY <1>2, <1>3, <2>7, NewTableRead
  <2>9. /\ right = 3 => Read(webline) = Form("ntbl", name, name, tpass, pass)
        /\ right # 3 => Read(webline) = Refused
    BY <1>2, <1>4, <2>7, NewTableRead
  <2>10. f = Form("ntbl", name, name, tpass, pass)
    BY <1>7, <2>1
  <2>. QED  BY <1>1, <1>5, <2>4, <2>5, <2>6, <2>7, <2>8, <2>9, <2>10, Zenon
<1>. QED  BY <1>6, <1>7

\* SelfTests!ReadAsTyped: what was typed without blanks into a form of the Qt
\* client, of 3333.js and of m3333.js is what its server reads, whatever the words
\* and whether or not there are passwords; what wscon.ts sends is read so if both
\* are given and refused otherwise.
THEOREM ReadAsTypedAlways == Spec => []ReadAsTyped
<1>1. Init => FormOk
  BY DEF Init, FormOk
<1>2. FormOk /\ [Next]_vars => FormOk'
  <2> SUFFICES ASSUME FormOk, [Next]_vars  PROVE FormOk'
    OBVIOUS
  <2>1. CASE form' = form
    BY <2>1, Zenon DEF FormOk
  <2>2. CASE Type
    <3>1. PICK name \in Texts, tpass \in Texts, pass \in Texts :
            \/ form' = Form("ntbl", name, name, tpass, pass)
            \/ \E table \in Words \ {Empty} :
                  form' = Form("join", <<table>>, name, tpass, pass)
      BY <2>2 DEF Type
    <3>2. CASE form' = Form("ntbl", name, name, tpass, pass)
      BY <3>2, Zenon DEF FormOk
    <3>3. CASE \E table \in Words \ {Empty} :
                 form' = Form("join", <<table>>, name, tpass, pass)
      <4>1. PICK w : w # Empty /\ form' = Form("join", <<w>>, name, tpass, pass)
        BY <3>3
      <4>2. "join" # "ntbl"
        OBVIOUS
      <4>. QED  BY <4>1, <4>2, Zenon DEF FormOk
    <3>. QED  BY <3>1, <3>2, <3>3
  <2>. QED  BY <2>1, <2>2 DEF Next, NextSecond, NextFirst, Paint, vars
<1>3. FormOk => ReadAsTyped
  <2> SUFFICES ASSUME FormOk, form # Refused, Plain(form)
               PROVE  /\ Read(SSplit(QtWords(InWords(form)))) = InWords(form)
                      /\ PyRead(SSplit(JsWords(form))) = InWords(form)
                      /\ PyRead(SSplit(M3Words(form))) = InWords(form)
                      /\ Read(SSplit(WebWords(InWords(form)))) =
                           IF InWords(form).tpass # Empty /\ InWords(form).pass # Empty
                             THEN InWords(form) ELSE Refused
    BY Zenon DEF ReadAsTyped
  <2>1. PICK op \in {"ntbl", "join"} : \E table, name, tpass, pass :
          /\ form = Form(op, table, name, tpass, pass)
          /\ name \in Texts /\ tpass \in Texts /\ pass \in Texts
          /\ IF op = "ntbl" THEN table = name ELSE \E w : w # Empty /\ table = <<w>>
    BY DEF FormOk
  <2>2. PICK table, name, tpass, pass :
          /\ form = Form(op, table, name, tpass, pass)
          /\ name \in Texts /\ tpass \in Texts /\ pass \in Texts
          /\ IF op = "ntbl" THEN table = name ELSE \E w : w # Empty /\ table = <<w>>
    BY <2>1
  <2>3. /\ form.op = op /\ form.table = table /\ form.name = name
        /\ form.tpass = tpass /\ form.pass = pass
    BY <2>2 DEF Form
  <2>4. Len(name) = 1 /\ Len(tpass) = 1 /\ Len(pass) = 1
    BY <2>3 DEF Plain, Inputs
  <2>5. PICK n, t, p : name = <<n>> /\ tpass = <<t>> /\ pass = <<p>>
    <3>1. (\E n : name = <<n>>) /\ (\E t : tpass = <<t>>) /\ (\E p : pass = <<p>>)
      BY <2>2, <2>4, PlainText
    <3>. QED  BY <3>1, Zenon
  <2>6. PICK w : table = <<w>> /\ (IF op = "ntbl" THEN w = n ELSE w # Empty)
    BY <2>2, <2>5, Zenon
  <2>7. InWords(form) = Form(op, w, n, t, p)
    <3>1. /\ FirstWord(<<w>>) = w /\ FirstWord(<<n>>) = n
          /\ FirstWord(<<t>>) = t /\ FirstWord(<<p>>) = p
      BY OneWordText
    <3>. QED  BY <2>3, <2>5, <2>6, <3>1, Zenon DEF InWords
  <2>8. InWords(form).name = n
    BY <2>7 DEF Form
  <2>9. n # Empty /\ w # Empty /\ (op = "ntbl" => n = w)
    BY <2>6, <2>8, Zenon DEF Plain
  <2>10. form = Form(op, <<w>>, <<n>>, <<t>>, <<p>>)
    BY <2>2, <2>5, <2>6, Zenon
  <2>11. PICK f : f = InWords(form)
    OBVIOUS
  <2>12. /\ Read(SSplit(QtWords(f))) = f
         /\ PyRead(SSplit(JsWords(form))) = f
         /\ PyRead(SSplit(M3Words(form))) = f
         /\ Read(SSplit(WebWords(f))) = IF f.tpass # Empty /\ f.pass # Empty THEN f ELSE Refused
    BY <2>7, <2>9, <2>10, <2>11, LinesRead
  <2>. QED  BY <2>11, <2>12, Zenon
<1>. QED  BY <1>1, <1>2, <1>3, PTL DEF Spec
=============================================================================
