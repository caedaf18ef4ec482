---------------------------- MODULE Basics_proofs ----------------------------
(***************************************************************************)
(* What the operators of Cards return, for all 81 cards, and what removing *)
(* an element of a vector by its position leaves there, for every vector:  *)
(* cards on a board, players at a table.  First, what proofs about loops   *)
(* need of the natural numbers.                                            *)
(***************************************************************************)
EXTENDS Cards, VectorOps, SequenceTheorems, WellFoundedInduction, TLAPS

-----------------------------------------------------------------------------
(* Numbers.                                                                *)

\* A set of numbers has a least one.
LEMMA LeastOf ==
  ASSUME NEW T \in SUBSET Nat, T # {}
  PROVE  \E m \in T : \A k \in T : m <= k
<1>. DEFINE R == OpToRel(<, Nat)
<1>1. \A x, y \in Nat : <<x, y>> \in R <=> x < y
  BY DEF OpToRel
<1>2. IsWellFoundedOn(R, Nat)
  BY NatLessThanWellFounded
<1>. HIDE DEF R
<1>3. PICK m \in T : \A k \in T : <<k, m>> \notin R
  BY <1>2, WFMin
<1>4. ASSUME NEW k \in T  PROVE m <= k
  <2>1. m \in Nat /\ k \in Nat /\ <<k, m>> \notin R
    BY <1>3
  <2>. QED  BY <1>1, <2>1
<1>. QED  BY <1>4

\* What holds at the beginning and is passed on holds up to the end.  (The
\* library's induction needs an operator; this one takes a set.)
LEMMA UpTo ==
  ASSUME NEW N \in Nat, NEW T, 0 \in T,
         \A n \in 1..N : n - 1 \in T => n \in T
  PROVE  0..N \subseteq T
<1>. DEFINE F == {n \in 0..N : n \notin T}
<1>1. CASE F = {}
  BY <1>1
<1>2. CASE F # {}
  <2>1. F \in SUBSET Nat
    OBVIOUS
  <2>2. PICK m \in F : \A k \in F : m <= k
    BY <1>2, <2>1, LeastOf
  <2>3. m \in 1..N /\ m \notin T
    <3>1. m # 0
      BY <2>2
    <3>. QED  BY <2>2, <3>1
  <2>4. m - 1 \in 0..N /\ m - 1 \notin F
    <3>1. m - 1 \in 0..N /\ ~(m <= m - 1)
      BY <2>3
    <3>. QED  BY <2>2, <3>1
  <2>. QED  BY <2>3, <2>4
<1>. QED  BY <1>1, <1>2

-----------------------------------------------------------------------------
(* Cards.                                                                  *)

\* The four features of a card, spelled out.
LEMMA Features ==
  ASSUME NEW c \in Card
  PROVE  /\ AllCards[c] \in [Cat -> 0..2]
         /\ AllCards[c][1] = c % 3
         /\ AllCards[c][2] = (c \div 3) % 3
         /\ AllCards[c][3] = (c \div 9) % 3
         /\ AllCards[c][4] = (c \div 27) % 3
<1>1. AllCards[c] = [cat \in Cat |-> (c \div Trip[cat]) % 3]
  BY DEF AllCards
<1>2. Trip[1] = 1 /\ Trip[2] = 3 /\ Trip[3] = 9 /\ Trip[4] = 27
  BY DEF Trip
<1>3. ASSUME NEW cat \in Cat
      PROVE  Trip[cat] \in 1..27
  BY <1>2 DEF Cat
<1>4. ASSUME NEW cat \in Cat
      PROVE  (c \div Trip[cat]) % 3 \in 0..2
  BY <1>3, SMTT(60) DEF Card
<1>5. c \div 1 = c
  BY DEF Card
<1>6. AllCards[c] \in [Cat -> 0..2]
  BY <1>1, <1>4
<1>. QED  BY <1>1, <1>2, <1>5, <1>6 DEF Cat

\* The index of a card's features is the card (first loop of TEST_CARD).
LEMMA IndexOfFeatures ==
  ASSUME NEW c \in Card
  PROVE  GetAllCardsIndex(AllCards[c]) = c
<1>1. c \in 0..80
  BY DEF Card
<1>2. (c % 3) + 3 * ((c \div 3) % 3) + 9 * ((c \div 9) % 3)
        + 27 * ((c \div 27) % 3) = c
  BY <1>1
<1>. QED  BY <1>2, Features DEF GetAllCardsIndex

\* Four digits are the features of the card they index.
LEMMA FeaturesOfIndex ==
  ASSUME NEW d \in [Cat -> 0..2]
  PROVE  /\ GetAllCardsIndex(d) \in Card
         /\ AllCards[GetAllCardsIndex(d)] = d
<1>1. GetAllCardsIndex(d) \in Card
  BY DEF Card, Cat, GetAllCardsIndex
<1>2. ASSUME NEW cat \in Cat
      PROVE  AllCards[GetAllCardsIndex(d)][cat] = d[cat]
  BY <1>1 DEF Card, Cat, AllCards, Trip, GetAllCardsIndex
<1>3. AllCards[GetAllCardsIndex(d)] = d
  BY <1>1, <1>2 DEF AllCards
<1>. QED  BY <1>1, <1>3

\* Cards with the same features are the same card.
LEMMA SameFeatures ==
  ASSUME NEW c \in Card, NEW d \in Card,
         \A cat \in Cat : AllCards[c][cat] = AllCards[d][cat]
  PROVE  c = d
<1>1. AllCards[c] = AllCards[d]
  BY Features
<1>. QED  BY <1>1, IndexOfFeatures

\* GetIndexToCompleteSet returns a card, and one that makes a set.
LEMMA CompletionFeatures ==
  ASSUME NEW c0 \in Card, NEW c1 \in Card
  PROVE  /\ GetIndexToCompleteSet(c0, c1) \in Card
         /\ \A cat \in Cat :
              AllCards[GetIndexToCompleteSet(c0, c1)][cat]
                = (6 - (AllCards[c0][cat] + AllCards[c1][cat])) % 3
<1>. DEFINE d == [cat \in Cat |->
                    (6 - (AllCards[c0][cat] + AllCards[c1][cat])) % 3]
<1>1. ASSUME NEW cat \in Cat
      PROVE  (6 - (AllCards[c0][cat] + AllCards[c1][cat])) % 3 \in 0..2
  <2>1. AllCards[c0][cat] \in 0..2 /\ AllCards[c1][cat] \in 0..2
    BY Features
  <2>. QED  BY <2>1
<1>2. d \in [Cat -> 0..2]
  BY <1>1
<1>3. GetIndexToCompleteSet(c0, c1) = GetAllCardsIndex(d)
  BY DEF GetIndexToCompleteSet
<1>. QED  BY <1>2, <1>3, FeaturesOfIndex

\* Two cards are completed to a set by exactly the card that
\* GetIndexToCompleteSet names, and IsSet says so of no other card: what the
\* second loop of TEST_CARD tries, for equal cards as well.
THEOREM SetIffCompletesThm ==
  ASSUME NEW c0 \in Card, NEW c1 \in Card, NEW c2 \in Card
  PROVE  IsSet(c0, c1, c2) <=> c2 = GetIndexToCompleteSet(c0, c1)
<1>. DEFINE t == GetIndexToCompleteSet(c0, c1)
<1>1. ASSUME NEW cat \in Cat
      PROVE  AllCards[c0][cat] + AllCards[c1][cat] + AllCards[c2][cat] \in {0, 3, 6}
               <=> AllCards[c2][cat] = AllCards[t][cat]
  <2>1. /\ AllCards[c0][cat] \in 0..2
        /\ AllCards[c1][cat] \in 0..2
        /\ AllCards[c2][cat] \in 0..2
    BY Features
  <2>2. AllCards[t][cat] = (6 - (AllCards[c0][cat] + AllCards[c1][cat])) % 3
    BY CompletionFeatures
  <2>. QED  BY <2>1, <2>2
<1>2. IsSet(c0, c1, c2) <=> \A cat \in Cat : AllCards[c2][cat] = AllCards[t][cat]
  BY <1>1 DEF IsSet
<1>3. (\A cat \in Cat : AllCards[c2][cat] = AllCards[t][cat]) <=> c2 = t
  BY CompletionFeatures, SameFeatures
<1>. QED  BY <1>2, <1>3

-----------------------------------------------------------------------------
(* Vectors.                                                                *)

\* SwapOut returns a sequence one shorter, the last element in the gap.
LEMMA SwapOutSeq ==
  ASSUME NEW S, NEW s \in Seq(S), NEW pos \in 1..Len(s)
  PROVE  /\ SwapOut(s, pos) \in Seq(S)
         /\ Len(SwapOut(s, pos)) = Len(s) - 1
         /\ \A k \in 1..(Len(s) - 1) :
              SwapOut(s, pos)[k] = IF k = pos THEN s[Len(s)] ELSE s[k]
<1>. DEFINE n == Len(s) - 1
<1>1. n \in Nat /\ Len(s) \in Nat /\ DOMAIN s = 1..Len(s)
  BY LenProperties
<1>2. SwapOut(s, pos) \in [1..n -> S]
  <2>1. \A k \in 1..n : (IF k = pos THEN s[Len(s)] ELSE s[k]) \in S
    BY <1>1, ElementOfSeq
  <2>. QED  BY <2>1 DEF SwapOut
<1>3. SwapOut(s, pos) \in Seq(S)
  BY <1>1, <1>2, SeqDef
<1>4. DOMAIN SwapOut(s, pos) = 1..n
  BY DEF SwapOut
<1>5. Len(SwapOut(s, pos)) = n
  <2>1. Len(SwapOut(s, pos)) \in Nat /\ 1..n = 1..Len(SwapOut(s, pos))
    BY <1>3, <1>4, LenProperties
  <2>. HIDE DEF n
  <2>. QED  BY <1>1, <2>1
<1>. QED  BY <1>3, <1>5 DEF SwapOut

\* Of a sequence without repetition SwapOut removes exactly one element.
LEMMA SwapOutElements ==
  ASSUME NEW S, NEW s \in Seq(S), NEW pos \in 1..Len(s), IsInjective(s)
  PROVE  /\ IsInjective(SwapOut(s, pos))
         /\ Range(SwapOut(s, pos)) = Range(s) \ {s[pos]}
<1>. DEFINE t == SwapOut(s, pos)
            n == Len(s) - 1
<1>1. n \in Nat /\ Len(s) \in Nat /\ DOMAIN s = 1..Len(s)
  BY LenProperties
<1>2. DOMAIN t = 1..n
  BY DEF SwapOut
<1>3. \A k \in 1..n : t[k] = IF k = pos THEN s[Len(s)] ELSE s[k]
  BY SwapOutSeq
<1>4. \A i, j \in 1..Len(s) : s[i] = s[j] => i = j
  BY <1>1 DEF IsInjective
<1>5. IsInjective(t)
  <2>1. ASSUME NEW i \in 1..n, NEW j \in 1..n, t[i] = t[j]  PROVE i = j
    BY <1>1, <1>3, <1>4, <2>1, SMTT(60)
  <2>. QED  BY <1>2, <2>1 DEF IsInjective
<1>6. ASSUME NEW k \in 1..n  PROVE t[k] \in Range(s) \ {s[pos]}
  <2>1. CASE k = pos
    <3>1. pos <= n /\ t[k] = s[Len(s)]
      BY <1>3, <2>1
    <3>2. Len(s) \in 1..Len(s) /\ Len(s) # pos
      BY <1>1, <3>1
    <3>. QED  BY <1>1, <1>4, <3>1, <3>2 DEF Range
  <2>2. CASE k # pos
    <3>1. k \in 1..Len(s) /\ t[k] = s[k]
      BY <1>1, <1>3, <2>2
    <3>. QED  BY <1>1, <1>4, <2>2, <3>1 DEF Range
  <2>. QED  BY <2>1, <2>2
<1>7. ASSUME NEW i \in 1..Len(s), s[i] # s[pos]
      PROVE  \E k \in 1..n : t[k] = s[i]
  <2>1. CASE i = Len(s)
    <3>1. pos \in 1..n /\ t[pos] = s[i]
      BY <1>1, <1>3, <1>7, <2>1
    <3>. QED  BY <3>1
  <2>2. CASE i # Len(s)
    <3>1. i \in 1..n
      <4>1. Len(s) \in Nat
        BY <1>1
      <4>. QED  BY <2>2, <4>1
    <3>2. i # pos
      BY <1>7, Zenon
    <3>. QED  BY <1>3, <3>1, <3>2
  <2>. QED  BY <2>1, <2>2
<1>8. Range(t) = Range(s) \ {s[pos]}
  <2>. HIDE DEF t, n
  <2>1. Range(t) \subseteq Range(s) \ {s[pos]}
    <3>1. Range(t) = {t[k] : k \in 1..n}
      BY <1>2 DEF Range
    <3>. QED  BY <1>6, <3>1
  <2>2. ASSUME NEW x \in Range(s) \ {s[pos]}  PROVE x \in Range(t)
    <3>1. PICK i \in 1..Len(s) : x = s[i]
      BY <1>1 DEF Range
    <3>. QED  BY <1>2, <1>7, <3>1 DEF Range
  <2>. QED  BY <2>1, <2>2
<1>. QED  BY <1>5, <1>8
=============================================================================
