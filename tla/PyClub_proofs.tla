---------------------------- MODULE PyClub_proofs ----------------------------
(***************************************************************************)
(* That the registry of the Python server stays what PyClub says, for any  *)
(* number of connections, names, players and tables, whatever dies of an   *)
(* exception on the way.                                                   *)
(***************************************************************************)
EXTENDS PyClub, SequenceTheorems, WellFoundedInduction, TLAPS

-----------------------------------------------------------------------------
(* Sequences and least numbers.                                            *)

\* A set of numbers has a least one.
LEMMA LeastOf ==
  ASSUME NEW T \in SUBSET Nat, T # {}
  PROVE  \E m \in T : \A k \in T : m <= k
<1>. DEFINE R == OpToRel(<, Nat)
<1>1. \A x, y \in Nat : <<x, y>> \in R <=> x < y
  BY DEF OpToRel
<1>2. IsWellFoundedOn(R, Nat)
  BY NatLessThanWellFounded
<1>. HIDE DEF R
<1>3. PICK m \in T : \A k \in T : <<k, m>> \notin R
  BY <1>2, WFMin
<1>4. ASSUME NEW k \in T  PROVE m <= k
  <2>1. m \in Nat /\ k \in Nat /\ <<k, m>> \notin R
    BY <1>3
  <2>. QED  BY <1>1, <2>1
<1>. QED  BY <1>4

\* Append adds one element, at the end.
LEMMA AppendElements ==
  ASSUME NEW S, NEW s \in Seq(S), NEW x \in S
  PROVE  /\ Append(s, x) \in Seq(S)
         /\ ToSet(Append(s, x)) = ToSet(s) \cup {x}
         /\ IsInjective(s) /\ x \notin ToSet(s) => IsInjective(Append(s, x))
         /\ s # <<>> => Append(s, x)[1] = s[1]
         /\ Append(s, x) # <<>>
         /\ s = <<>> => Append(s, x)[1] = x
<1>. DEFINE n == Len(s)
            t == Append(s, x)
<1>1. n \in Nat /\ DOMAIN s = 1..n
  BY LenProperties
<1>2. /\ t \in Seq(S) /\ t # <<>> /\ Len(t) = n + 1 /\ DOMAIN t = 1..(n + 1)
      /\ \A k \in 1..n : t[k] = s[k]
      /\ t[n + 1] = x
  BY AppendProperties, LenProperties
<1>. HIDE DEF n, t
<1>3. ToSet(t) = ToSet(s) \cup {x}
  <2>1. ASSUME NEW k \in 1..(n + 1)  PROVE t[k] \in ToSet(s) \cup {x}
    BY <1>1, <1>2 DEF ToSet
  <2>2. ASSUME NEW k \in 1..n  PROVE s[k] \in ToSet(t)
    <3>1. k \in 1..(n + 1)
      BY <1>1
    <3>. QED  BY <1>2, <3>1 DEF ToSet
  <2>3. x \in ToSet(t)
    BY <1>1, <1>2 DEF ToSet
  <2>. QED  BY <1>1, <1>2, <2>1, <2>2, <2>3 DEF ToSet
<1>4. ASSUME IsInjective(s), x \notin ToSet(s)  PROVE IsInjective(t)
  <2>1. \A i, j \in 1..n : s[i] = s[j] => i = j
    BY <1>1, <1>4 DEF IsInjective
  <2>2. \A i \in 1..n : s[i] # x
    BY <1>1, <1>4 DEF ToSet
  <2>3. ASSUME NEW i \in 1..(n + 1), NEW j \in 1..(n + 1), t[i] = t[j]  PROVE i = j
    BY <1>1, <1>2, <2>1, <2>2, <2>3
  <2>. QED  BY <1>2, <2>3 DEF IsInjective
<1>5. s # <<>> => t[1] = s[1]
  <2>1. s # <<>> => n # 0
    BY EmptySeq DEF n
  <2>. QED  BY <1>1, <1>2, <2>1
<1>6. s = <<>> => t[1] = x
  <2>1. s = <<>> => n = 0
    BY EmptySeq DEF n
  <2>. QED  BY <1>2, <2>1
<1>. QED  BY <1>2, <1>3, <1>4, <1>5, <1>6 DEF t

\* Removing an element, if it is there, from a sequence without repetition.
LEMMA RemoveFirstElements ==
  ASSUME NEW S, NEW s \in Seq(S), NEW x, IsInjective(s)
  PROVE  /\ RemoveFirst(s, x) \in Seq(S)
         /\ ToSet(RemoveFirst(s, x)) = ToSet(s) \ {x}
         /\ IsInjective(RemoveFirst(s, x))
         /\ s # <<>> /\ s[1] # x => RemoveFirst(s, x) # <<>> /\ RemoveFirst(s, x)[1] = s[1]
<1>. DEFINE n == Len(s)
            I == {i \in 1..Len(s) : s[i] = x}
<1>1. n \in Nat /\ DOMAIN s = 1..n /\ \A i, j \in 1..n : s[i] = s[j] => i = j
  BY LenProperties DEF IsInjective
<1>2. CASE I = {}
  <2>1. RemoveFirst(s, x) = s
    BY <1>2 DEF RemoveFirst
  <2>2. x \notin ToSet(s)
    BY <1>1, <1>2 DEF ToSet
  <2>. QED  BY <2>1, <2>2
<1>3. CASE I # {}
  <2>1. PICK i \in I : RemoveFirst(s, x) = RemoveAt(s, i)
    <3>1. Min(I) \in I
      <4>1. I \in SUBSET Nat
        OBVIOUS
      <4>. HIDE DEF I
      <4>2. \E m \in I : \A k \in I : m <= k
        BY <1>3, <4>1, LeastOf
      <4>. QED  BY <4>2 DEF Min
    <3>2. SelectInSeq(s, LAMBDA v : v = x) = Min(I)
      BY <1>3 DEF SelectInSeq
    <3>3. RemoveFirst(s, x) = RemoveAt(s, SelectInSeq(s, LAMBDA v : v = x))
      BY <1>3 DEF RemoveFirst
    <3>. QED  BY <3>1, <3>2, <3>3
  <2>2. i \in 1..n /\ s[i] = x
    OBVIOUS
  <2>. DEFINE a == SubSeq(s, 1, i - 1)
              b == SubSeq(s, i + 1, Len(s))
              r == a \o b
  <2>3. /\ a \in Seq(S) /\ Len(a) = i - 1 /\ \A k \in 1..(i - 1) : a[k] = s[k]
    <3>1. \A k \in 1..(i - 1) : s[k] \in S
      BY <1>1, <2>2, ElementOfSeq
    <3>2. i - 1 \in Int
      BY <1>1, <2>2
    <3>. QED  BY <1>1, <2>2, <3>1, <3>2, SubSeqProperties
  <2>4. /\ b \in Seq(S) /\ Len(b) = n - i /\ \A k \in 1..(n - i) : b[k] = s[i + k]
    <3>1. PICK m \in Nat : m = i + 1
      BY <1>1, <2>2
    <3>2. \A k \in m..n : s[k] \in S
      BY <1>1, <2>2, <3>1, ElementOfSeq
    <3>3. /\ SubSeq(s, m, n) \in Seq(S)
          /\ Len(SubSeq(s, m, n)) = IF m <= n THEN n - m + 1 ELSE 0
          /\ \A k \in 1..(n - m + 1) : SubSeq(s, m, n)[k] = s[m + k - 1]
      BY <1>1, <3>1, <3>2, SubSeqProperties
    <3>4. b = SubSeq(s, m, n)
      BY <3>1
    <3>5. Len(b) = n - i /\ n - m + 1 = n - i
      <4>1. Len(b) = IF m <= n THEN n - m + 1 ELSE 0
        BY <3>3, <3>4
      <4>. HIDE DEF b, n
      <4>2. n - m + 1 = n - i /\ (~(m <= n) => n - i = 0)
        BY <1>1, <2>2, <3>1
      <4>. QED  BY <4>1, <4>2
    <3>6. \A k \in 1..(n - i) : m + k - 1 = i + k
      BY <1>1, <2>2, <3>1
    <3>. QED  BY <3>3, <3>4, <3>5, <3>6
  <2>. HIDE DEF a, b
  <2>5. /\ r \in Seq(S) /\ Len(r) = n - 1
        /\ \A k \in 1..(n - 1) : r[k] = IF k < i THEN s[k] ELSE s[k + 1]
    <3>1. r \in Seq(S) /\ Len(r) = Len(a) + Len(b)
          /\ \A k \in 1..(Len(a) + Len(b)) : r[k] = IF k <= Len(a) THEN a[k] ELSE b[k - Len(a)]
      BY <2>3, <2>4, ConcatProperties
    <3>2. Len(a) + Len(b) = n - 1
      BY <1>1, <2>2, <2>3, <2>4
    <3>3. ASSUME NEW k \in 1..(n - 1)  PROVE r[k] = IF k < i THEN s[k] ELSE s[k + 1]
      <4>1. CASE k < i
        BY <1>1, <2>2, <2>3, <3>1, <3>2, <4>1
      <4>2. CASE ~(k < i)
        <5>1. PICK m \in 1..(n - i) : m = k - (i - 1)
          BY <1>1, <2>2, <4>2
        <5>2. b[m] = s[i + m] /\ i + m = k + 1
          BY <1>1, <2>2, <2>4, <5>1
        <5>. QED  BY <1>1, <2>2, <2>3, <3>1, <3>2, <4>2, <5>1, <5>2
      <4>. QED  BY <4>1, <4>2
    <3>. QED  BY <3>1, <3>2, <3>3
  <2>6. RemoveFirst(s, x) = r /\ DOMAIN r = 1..(n - 1)
    BY <2>1, <2>5, LenProperties DEF RemoveAt, a, b
  <2>. HIDE DEF r, n, I
  <2>7. IsInjective(r)
    <3>1. ASSUME NEW k \in 1..(n - 1), NEW m \in 1..(n - 1), r[k] = r[m]  PROVE k = m
      BY <1>1, <2>2, <2>5, <3>1
    <3>. QED  BY <2>6, <3>1 DEF IsInjective
  <2>8. ToSet(r) = ToSet(s) \ {x}
    <3>1. ASSUME NEW k \in 1..(n - 1)  PROVE r[k] \in ToSet(s) \ {x}
      <4>1. PICK m \in 1..n : r[k] = s[m] /\ m # i
        BY <1>1, <2>2, <2>5
      <4>. QED  BY <1>1, <2>2, <4>1 DEF ToSet
    <3>2. ASSUME NEW k \in 1..n, s[k] # x  PROVE s[k] \in ToSet(r)
      <4>1. k # i
        BY <2>2, <3>2
      <4>2. PICK m \in 1..(n - 1) : r[m] = s[k]
        <5>1. CASE k < i
          <6>1. k \in 1..(n - 1)
            BY <1>1, <2>2, <5>1
          <6>2. r[k] = s[k]
            BY <2>5, <5>1, <6>1
          <6>. QED  BY <6>1, <6>2
        <5>2. CASE i < k
          <6>1. PICK m \in 1..(n - 1) : m = k - 1
            BY <1>1, <2>2, <5>2
          <6>2. ~(m < i) /\ m + 1 = k
            BY <1>1, <2>2, <5>2, <6>1
          <6>3. r[m] = s[k]
            BY <2>5, <6>2
          <6>. QED  BY <6>3
        <5>. QED  BY <1>1, <2>2, <4>1, <5>1, <5>2
      <4>. QED  BY <2>6, <4>2 DEF ToSet
    <3>. QED  BY <1>1, <2>6, <3>1, <3>2 DEF ToSet
  <2>9. s # <<>> /\ s[1] # x => r # <<>> /\ r[1] = s[1]
    <3>. SUFFICES ASSUME s # <<>>, s[1] # x  PROVE r # <<>> /\ r[1] = s[1]
      OBVIOUS
    <3>1. i # 1 /\ 1 < i /\ 1 \in 1..(n - 1)
      BY <1>1, <2>2
    <3>2. Len(r) # 0
      BY <1>1, <2>2, <2>5, <3>1
    <3>3. r # <<>>
      BY <3>2, EmptySeq
    <3>. QED  BY <2>5, <3>1, <3>3
  <2>. QED  BY <2>5, <2>6, <2>7, <2>8, <2>9
<1>. QED  BY <1>2, <1>3

-----------------------------------------------------------------------------
(* What the operations do to the registry.                                 *)

Person == [name : Name, table : Object, ws : Conn \cup {None}]

\* A registry in the middle of a handler, which may have raised.
IsRegistry(c) ==
  /\ c = [client |-> c.client, heap |-> c.heap, seats |-> c.seats,
          named |-> c.named, raised |-> c.raised]
  /\ c.client \in [Conn -> Object \cup {None, Absent}]
  /\ c.heap \in [Object -> Person \cup {Free}]
  /\ c.seats \in [Object -> Seq(Object)]
  /\ DOMAIN c.named \subseteq Name /\ c.named \in [DOMAIN c.named -> Object]
  /\ c.raised \in BOOLEAN

Sitting(c, t) == ToSet(c.seats[t])

\* The type invariant says that club is a registry and nothing is raised.
LEMMA ClubIsRegistry ==
  club \in [client : [Conn -> Object \cup {None, Absent}],
            heap : [Object -> [name : Name, table : Object, ws : Conn \cup {None}] \cup {Free}],
            seats : [Object -> Seq(Object)],
            named : UNION {[D -> Object] : D \in SUBSET Name},
            raised : {FALSE}]
    <=> IsRegistry(club) /\ club.raised = FALSE
<1>1. ASSUME club \in [client : [Conn -> Object \cup {None, Absent}],
                       heap : [Object -> [name : Name, table : Object, ws : Conn \cup {None}] \cup {Free}],
                       seats : [Object -> Seq(Object)],
                       named : UNION {[D -> Object] : D \in SUBSET Name},
                       raised : {FALSE}]
      PROVE  IsRegistry(club) /\ club.raised = FALSE
  <2>1. club.named \in UNION {[D -> Object] : D \in SUBSET Name}
    BY <1>1
  <2>2. PICK D \in SUBSET Name : club.named \in [D -> Object]
    BY <2>1
  <2>3. DOMAIN club.named = D
    BY <2>2
  <2>. QED  BY <1>1, <2>2, <2>3 DEF IsRegistry, Person
<1>2. ASSUME IsRegistry(club), club.raised = FALSE
      PROVE  club \in [client : [Conn -> Object \cup {None, Absent}],
                       heap : [Object -> [name : Name, table : Object, ws : Conn \cup {None}] \cup {Free}],
                       seats : [Object -> Seq(Object)],
                       named : UNION {[D -> Object] : D \in SUBSET Name},
                       raised : {FALSE}]
  <2>1. DOMAIN club.named \in SUBSET Name /\ club.named \in [DOMAIN club.named -> Object]
    BY <1>2 DEF IsRegistry
  <2>2. [DOMAIN club.named -> Object] \in {[D -> Object] : D \in SUBSET Name}
    BY <2>1
  <2>3. club.named \in UNION {[D -> Object] : D \in SUBSET Name}
    BY <2>1, <2>2
  <2>. QED  BY <1>2, <2>3 DEF IsRegistry, Person
<1>. QED  BY <1>1, <1>2

\* Who has a heap entry is a person, and a person is not Free.
LEMMA Persons ==
  ASSUME NEW c, IsRegistry(c), NEW p \in Object, c.heap[p] # Free
  PROVE  /\ c.heap[p] \in Person
         /\ c.heap[p].name \in Name /\ c.heap[p].table \in Object
         /\ c.heap[p].ws \in Conn \cup {None}
<1>1. c.heap[p] \in Person
  BY DEF IsRegistry
<1>. QED  BY <1>1 DEF Person

LEMMA PersonIsNotFree == \A x \in Person : x # Free
BY ValuesAssumption DEF Person, Object

LEMMA RaiseEffect ==
  ASSUME NEW c, IsRegistry(c)
  PROVE  /\ IsRegistry(Raise(c)) /\ Raise(c).raised
         /\ Raise(c).client = c.client /\ Raise(c).heap = c.heap
         /\ Raise(c).seats = c.seats /\ Raise(c).named = c.named
<1>1. PICK d : d = Raise(c)
  OBVIOUS
<1>2. d = [client |-> c.client, heap |-> c.heap, seats |-> c.seats,
           named |-> c.named, raised |-> TRUE]
  BY <1>1 DEF IsRegistry, Raise
<1>3. /\ IsRegistry(d) /\ d.raised /\ d.client = c.client /\ d.heap = c.heap
      /\ d.seats = c.seats /\ d.named = c.named
  BY <1>2 DEF IsRegistry
<1>. QED  BY <1>1, <1>3

\* After the handler: nothing but the exception is gone.
LEMMA CaughtEffect ==
  ASSUME NEW c, IsRegistry(c), NEW d, d = [c EXCEPT !.raised = FALSE]
  PROVE  /\ IsRegistry(d) /\ d.raised = FALSE
         /\ d.client = c.client /\ d.heap = c.heap
         /\ d.seats = c.seats /\ d.named = c.named
<1>1. d = [client |-> c.client, heap |-> c.heap, seats |-> c.seats,
           named |-> c.named, raised |-> FALSE]
  BY DEF IsRegistry
<1>2. /\ c.client \in [Conn -> Object \cup {None, Absent}]
      /\ c.heap \in [Object -> Person \cup {Free}] /\ c.seats \in [Object -> Seq(Object)]
      /\ DOMAIN c.named \subseteq Name /\ c.named \in [DOMAIN c.named -> Object]
  BY DEF IsRegistry
<1>. QED  BY <1>1, <1>2 DEF IsRegistry

\* Telling everyone changes nothing, or raises.
LEMMA RefreshEffect ==
  ASSUME NEW c, IsRegistry(c), NEW t
  PROVE  /\ IsRegistry(Refresh(c, t))
         /\ Refresh(c, t).client = c.client /\ Refresh(c, t).heap = c.heap
         /\ Refresh(c, t).seats = c.seats /\ Refresh(c, t).named = c.named
BY RaiseEffect DEF Refresh

\* Closing tables takes the players from the connections of those who are
\* told, which is everybody or raises.
ClosedFor(c, d, places, told) ==
  /\ d.heap = c.heap /\ d.seats = c.seats /\ d.named = c.named
  /\ d.client = [w \in Conn |-> IF \E x \in told : c.heap[At(c, x)].ws = w
                                THEN None ELSE c.client[w]]
  /\ \A x \in told : UpTo(x, x) => ~Unknown(c, At(c, x))
  /\ (\A x \in places : ~Unknown(c, At(c, x))) => told = places
  /\ told = places => d.raised = c.raised

LEMMA ClosedEffect ==
  ASSUME NEW c, NEW places, NEW d, IsRegistry(c), d = PlayersTableClosed(c, places)
  PROVE  IsRegistry(d) /\ \E told \in SUBSET places : ClosedFor(c, d, places, told)
<1>. DEFINE told == {x \in places : \A y \in places : UpTo(y, x) => ~Unknown(c, At(c, y))}
            conns == {c.heap[At(c, x)].ws : x \in told}
            cl == [w \in Conn |-> IF w \in conns THEN None ELSE c.client[w]]
            e == [c EXCEPT !.client = cl]
<1>1. d = IF told = places THEN e ELSE Raise(e)
  BY DEF PlayersTableClosed
<1>2. /\ told \in SUBSET places
      /\ \A x \in told : UpTo(x, x) => ~Unknown(c, At(c, x))
      /\ (\A x \in places : ~Unknown(c, At(c, x))) => told = places
  OBVIOUS
<1>3. cl = [w \in Conn |-> IF \E x \in told : c.heap[At(c, x)].ws = w
                           THEN None ELSE c.client[w]]
  <2>. HIDE DEF told
  <2>1. \A w : w \in conns <=> \E x \in told : c.heap[At(c, x)].ws = w
    OBVIOUS
  <2>. HIDE DEF conns
  <2>. QED  BY <2>1
<1>4. cl \in [Conn -> Object \cup {None, Absent}]
  <2>1. c.client \in [Conn -> Object \cup {None, Absent}]
    BY DEF IsRegistry
  <2>. HIDE DEF conns
  <2>. QED  BY <2>1
<1>. HIDE DEF told, conns, cl
<1>5. e = [client |-> cl, heap |-> c.heap, seats |-> c.seats, named |-> c.named,
           raised |-> c.raised]
  BY DEF IsRegistry
<1>6. /\ IsRegistry(e) /\ e.client = cl /\ e.heap = c.heap /\ e.seats = c.seats
      /\ e.named = c.named /\ e.raised = c.raised
  BY <1>4, <1>5 DEF IsRegistry
<1>. HIDE DEF e
<1>7. /\ IsRegistry(d) /\ d.client = cl /\ d.heap = c.heap /\ d.seats = c.seats
      /\ d.named = c.named /\ (told = places => d.raised = c.raised)
  BY <1>1, <1>6, RaiseEffect
<1>8. ClosedFor(c, d, places, told)
  BY <1>2, <1>3, <1>7 DEF ClosedFor
<1>. QED  BY <1>2, <1>7, <1>8

\* Nobody sits twice at a table.
Once(c) == \A t \in Object : IsInjective(c.seats[t])

\* Leaving a table empties the seat.
LEMMA LeaveEffect ==
  ASSUME NEW c, IsRegistry(c), Once(c), NEW p \in Object, c.heap[p] # Free,
         NEW d, d = Leave(c, p)
  PROVE  /\ IsRegistry(d) /\ Once(d)
         /\ d.client = c.client /\ d.heap = c.heap /\ d.named = c.named /\ d.raised = c.raised
         /\ \A u \in Object :
              /\ Sitting(d, u) = IF u = c.heap[p].table THEN Sitting(c, u) \ {p} ELSE Sitting(c, u)
              /\ c.seats[u] # <<>> /\ c.seats[u][1] # p
                   => d.seats[u] # <<>> /\ d.seats[u][1] = c.seats[u][1]
<1>1. PICK t \in Object : t = c.heap[p].table
  BY Persons
<1>2. PICK r : r = RemoveFirst(c.seats[t], p)
  OBVIOUS
<1>3. c.seats \in [Object -> Seq(Object)] /\ IsInjective(c.seats[t]) /\ c.seats[t] \in Seq(Object)
  BY DEF IsRegistry, Once
<1>4. /\ r \in Seq(Object) /\ ToSet(r) = ToSet(c.seats[t]) \ {p} /\ IsInjective(r)
      /\ c.seats[t] # <<>> /\ c.seats[t][1] # p => r # <<>> /\ r[1] = c.seats[t][1]
  BY <1>2, <1>3, RemoveFirstElements
<1>5. PICK s : s = [c.seats EXCEPT ![t] = r]
  OBVIOUS
<1>6. s \in [Object -> Seq(Object)]
  BY <1>3, <1>4, <1>5
<1>7. d = [client |-> c.client, heap |-> c.heap, seats |-> s, named |-> c.named,
           raised |-> c.raised]
  BY <1>1, <1>2, <1>5 DEF IsRegistry, Leave
<1>8. /\ IsRegistry(d) /\ d.client = c.client /\ d.heap = c.heap /\ d.seats = s
      /\ d.named = c.named /\ d.raised = c.raised
  BY <1>6, <1>7 DEF IsRegistry
<1>9. s[t] = r /\ \A u \in Object : u # t => s[u] = c.seats[u]
  BY <1>3, <1>5
<1>10. Once(d)
  BY <1>4, <1>8, <1>9 DEF Once
<1>11. ASSUME NEW u \in Object
       PROVE  /\ Sitting(d, u) = IF u = t THEN Sitting(c, u) \ {p} ELSE Sitting(c, u)
              /\ c.seats[u] # <<>> /\ c.seats[u][1] # p
                   => d.seats[u] # <<>> /\ d.seats[u][1] = c.seats[u][1]
  BY <1>4, <1>8, <1>9 DEF Sitting
<1>. QED  BY <1>1, <1>8, <1>10, <1>11

\* The player of a connection is set; its old one leaves.
LEMMA SetPlayerEffect ==
  ASSUME NEW c, IsRegistry(c), Once(c), NEW w \in Conn, NEW p \in Object,
         c.client[w] \in Object => c.heap[c.client[w]] # Free,
         NEW d, d = SetPlayer(c, w, p)
  PROVE  /\ IsRegistry(d) /\ Once(d)
         /\ d.client = [c.client EXCEPT ![w] = p]
         /\ d.heap = c.heap /\ d.named = c.named /\ d.raised = c.raised
         /\ \A u \in Object : Sitting(d, u) \subseteq Sitting(c, u)
         /\ c.client[w] \notin Object \ {p} => d.seats = c.seats
<1>1. PICK e : /\ e = IF c.client[w] \in Object \ {p} THEN Leave(c, c.client[w]) ELSE c
               /\ d = [e EXCEPT !.client[w] = p]
  BY DEF SetPlayer
<1>2. /\ IsRegistry(e) /\ Once(e)
      /\ e.client = c.client /\ e.heap = c.heap /\ e.named = c.named /\ e.raised = c.raised
      /\ \A u \in Object : Sitting(e, u) \subseteq Sitting(c, u)
      /\ c.client[w] \notin Object \ {p} => e.seats = c.seats
  <2>1. CASE c.client[w] \in Object \ {p}
    <3>1. PICK o \in Object : o = c.client[w]
      BY <2>1
    <3>2. e = Leave(c, o) /\ c.heap[o] # Free
      BY <1>1, <2>1, <3>1
    <3>3. /\ IsRegistry(e) /\ Once(e)
          /\ e.client = c.client /\ e.heap = c.heap /\ e.named = c.named /\ e.raised = c.raised
          /\ \A u \in Object :
               Sitting(e, u) = IF u = c.heap[o].table THEN Sitting(c, u) \ {o} ELSE Sitting(c, u)
      BY <3>2, LeaveEffect
    <3>4. \A u \in Object : Sitting(e, u) \subseteq Sitting(c, u)
      BY <3>3
    <3>. QED  BY <2>1, <3>3, <3>4
  <2>2. CASE c.client[w] \notin Object \ {p}
    BY <1>1, <2>2
  <2>. QED  BY <2>1, <2>2
<1>3. PICK cl : cl = [e.client EXCEPT ![w] = p]
  OBVIOUS
<1>4. cl \in [Conn -> Object \cup {None, Absent}]
  BY <1>2, <1>3 DEF IsRegistry
<1>5. d = [client |-> cl, heap |-> e.heap, seats |-> e.seats, named |-> e.named,
           raised |-> e.raised]
  BY <1>1, <1>2, <1>3 DEF IsRegistry
<1>6. /\ IsRegistry(d) /\ d.client = cl /\ d.heap = e.heap /\ d.seats = e.seats
      /\ d.named = e.named /\ d.raised = e.raised
  BY <1>2, <1>4, <1>5 DEF IsRegistry
<1>. QED  BY <1>2, <1>3, <1>6 DEF Once, Sitting

\* A new player takes the first free object and the last seat at a table.
LEMMA CreatePlayerEffect ==
  ASSUME NEW c, IsRegistry(c), Once(c), NewObjects(c) # {},
         \A u \in Object : \A q \in Sitting(c, u) : c.heap[q] # Free,
         NEW n \in Name, NEW t \in Object, NEW w \in Conn,
         NEW p, p = NextObject(c), NEW d, d = CreatePlayer(c, n, t, w)
  PROVE  /\ p \in Object /\ c.heap[p] = Free
         /\ IsRegistry(d) /\ Once(d)
         /\ d.client = c.client /\ d.named = c.named /\ d.raised = c.raised
         /\ d.heap = [c.heap EXCEPT ![p] = [name |-> n, table |-> t, ws |-> w]]
         /\ \A u \in Object : u # t => d.seats[u] = c.seats[u]
         /\ Sitting(d, t) = Sitting(c, t) \cup {p}
         /\ d.seats[t] # <<>>
         /\ d.seats[t][1] = IF c.seats[t] = <<>> THEN p ELSE c.seats[t][1]
<1>1. p \in NewObjects(c)
  <2>1. NewObjects(c) \in SUBSET Nat
    BY DEF NewObjects, Object
  <2>2. \E q \in NewObjects(c) : \A k \in NewObjects(c) : q <= k
    BY <2>1, LeastOf
  <2>. QED  BY <2>2 DEF NextObject
<1>2. p \in Object /\ c.heap[p] = Free
  BY <1>1 DEF NewObjects
<1>3. PICK h : h = [c.heap EXCEPT ![p] = [name |-> n, table |-> t, ws |-> w]]
  OBVIOUS
<1>4. h \in [Object -> Person \cup {Free}]
  <2>1. [name |-> n, table |-> t, ws |-> w] \in Person
    BY DEF Person
  <2>2. c.heap \in [Object -> Person \cup {Free}]
    BY DEF IsRegistry
  <2>. HIDE DEF Person
  <2>. QED  BY <1>2, <1>3, <2>1, <2>2
<1>5. PICK s : s = [c.seats EXCEPT ![t] = Append(@, p)]
  OBVIOUS
<1>6. c.seats \in [Object -> Seq(Object)] /\ c.seats[t] \in Seq(Object) /\ IsInjective(c.seats[t])
  BY DEF IsRegistry, Once
<1>7. p \notin ToSet(c.seats[t])
  BY <1>2 DEF Sitting
<1>8. PICK r : r = Append(c.seats[t], p)
  OBVIOUS
<1>9. /\ r \in Seq(Object) /\ ToSet(r) = ToSet(c.seats[t]) \cup {p} /\ IsInjective(r)
      /\ r # <<>>
      /\ r[1] = IF c.seats[t] = <<>> THEN p ELSE c.seats[t][1]
  BY <1>2, <1>6, <1>7, <1>8, AppendElements
<1>10. /\ s \in [Object -> Seq(Object)] /\ s[t] = r /\ \A u \in Object : u # t => s[u] = c.seats[u]
  BY <1>5, <1>6, <1>8, <1>9
<1>11. d = [client |-> c.client, heap |-> h, seats |-> s, named |-> c.named,
            raised |-> c.raised]
  BY <1>3, <1>5 DEF IsRegistry, CreatePlayer
<1>12. /\ IsRegistry(d) /\ d.client = c.client /\ d.heap = h /\ d.seats = s
       /\ d.named = c.named /\ d.raised = c.raised
  BY <1>4, <1>10, <1>11 DEF IsRegistry
<1>13. Once(d)
  BY <1>9, <1>10, <1>12 DEF Once
<1>. QED  BY <1>2, <1>3, <1>9, <1>10, <1>12, <1>13 DEF Sitting

\* A table gets a name.
LEMMA NamedEffect ==
  ASSUME NEW c, IsRegistry(c), NEW n \in Name, NEW t \in Object, NEW d, d = Named(c, n, t)
  PROVE  /\ IsRegistry(d)
         /\ d.client = c.client /\ d.heap = c.heap /\ d.seats = c.seats /\ d.raised = c.raised
         /\ d.named = [m \in DOMAIN c.named \cup {n} |-> IF m = n THEN t ELSE c.named[m]]
<1>1. PICK m : m = [k \in DOMAIN c.named \cup {n} |-> IF k = n THEN t ELSE c.named[k]]
  OBVIOUS
<1>2. DOMAIN m \subseteq Name /\ m \in [DOMAIN m -> Object]
  BY <1>1 DEF IsRegistry
<1>3. d = [client |-> c.client, heap |-> c.heap, seats |-> c.seats, named |-> m,
           raised |-> c.raised]
  BY <1>1 DEF IsRegistry, Named
<1>4. /\ c.client \in [Conn -> Object \cup {None, Absent}] /\ c.raised \in BOOLEAN
      /\ c.heap \in [Object -> Person \cup {Free}] /\ c.seats \in [Object -> Seq(Object)]
  BY DEF IsRegistry
<1>. QED  BY <1>1, <1>2, <1>3, <1>4 DEF IsRegistry

\* Tables lose their names.
Without(f, ns) == [m \in DOMAIN f \ ns |-> f[m]]

LEMMA UnnamedEffect ==
  ASSUME NEW c, IsRegistry(c), NEW ns, NEW d, d = Unnamed(c, ns)
  PROVE  /\ IsRegistry(d)
         /\ d.client = c.client /\ d.heap = c.heap /\ d.seats = c.seats
         /\ ns \subseteq DOMAIN c.named =>
              /\ d.raised = c.raised
              /\ d.named = Without(c.named, ns)
         /\ ~(ns \subseteq DOMAIN c.named) => d.named = c.named /\ d.raised
<1>1. CASE ns \subseteq DOMAIN c.named
  <2>1. PICK m : m = [k \in DOMAIN c.named \ ns |-> c.named[k]]
    OBVIOUS
  <2>2. DOMAIN m \subseteq Name /\ m \in [DOMAIN m -> Object] /\ m = Without(c.named, ns)
    BY <2>1 DEF IsRegistry, Without
  <2>3. d = [client |-> c.client, heap |-> c.heap, seats |-> c.seats, named |-> m,
             raised |-> c.raised]
    BY <1>1, <2>1 DEF IsRegistry, Unnamed
  <2>4. /\ c.client \in [Conn -> Object \cup {None, Absent}] /\ c.raised \in BOOLEAN
        /\ c.heap \in [Object -> Person \cup {Free}] /\ c.seats \in [Object -> Seq(Object)]
    BY DEF IsRegistry
  <2>. QED  BY <1>1, <2>1, <2>2, <2>3, <2>4 DEF IsRegistry
<1>2. CASE ~(ns \subseteq DOMAIN c.named)
  BY <1>2, RaiseEffect DEF Unnamed
<1>. QED  BY <1>1, <1>2

\* A lost client is forgotten, if nothing was raised before.
LEMMA ForgetEffect ==
  ASSUME NEW c, IsRegistry(c), NEW w \in Conn, NEW d, d = Forget(c, w)
  PROVE  /\ IsRegistry(d)
         /\ d.heap = c.heap /\ d.seats = c.seats /\ d.named = c.named /\ d.raised = c.raised
         /\ d.client = IF c.raised THEN c.client ELSE [c.client EXCEPT ![w] = Absent]
<1>1. CASE c.raised
  BY <1>1 DEF Forget
<1>2. CASE ~c.raised
  <2>1. PICK cl : cl = [c.client EXCEPT ![w] = Absent]
    OBVIOUS
  <2>2. cl \in [Conn -> Object \cup {None, Absent}]
    BY <2>1 DEF IsRegistry
  <2>3. d = [client |-> cl, heap |-> c.heap, seats |-> c.seats, named |-> c.named,
             raised |-> c.raised]
    BY <1>2, <2>1 DEF IsRegistry, Forget
  <2>. QED  BY <1>2, <2>1, <2>2, <2>3 DEF IsRegistry
<1>. QED  BY <1>1, <1>2

\* A player is connected to a connection, or to none.
Connecting(c, p, w) == [c EXCEPT !.heap[p].ws = w]

LEMMA ConnectedEffect ==
  ASSUME NEW c, IsRegistry(c), NEW p \in Object, c.heap[p] # Free, NEW w \in Conn \cup {None},
         NEW d, d = Connecting(c, p, w)
  PROVE  /\ IsRegistry(d)
         /\ d.client = c.client /\ d.seats = c.seats /\ d.named = c.named /\ d.raised = c.raised
         /\ \A q \in Object : q # p => d.heap[q] = c.heap[q]
         /\ d.heap[p] # Free /\ d.heap[p].name = c.heap[p].name
         /\ d.heap[p].table = c.heap[p].table /\ d.heap[p].ws = w
<1>1. PICK x : x = [c.heap[p] EXCEPT !.ws = w]
  OBVIOUS
<1>2. c.heap[p] \in Person
  BY Persons
<1>3. x \in Person /\ x.name = c.heap[p].name /\ x.table = c.heap[p].table /\ x.ws = w
  BY <1>1, <1>2 DEF Person
<1>4. PICK h : h = [c.heap EXCEPT ![p] = x]
  OBVIOUS
<1>5. h \in [Object -> Person \cup {Free}] /\ h[p] = x /\ \A q \in Object : q # p => h[q] = c.heap[q]
  BY <1>3, <1>4 DEF IsRegistry
<1>6. d = [client |-> c.client, heap |-> h, seats |-> c.seats, named |-> c.named,
           raised |-> c.raised]
  BY <1>1, <1>4 DEF IsRegistry, Connecting
<1>7. \A e : e = [client |-> c.client, heap |-> h, seats |-> c.seats, named |-> c.named,
                  raised |-> c.raised]
         => /\ IsRegistry(e) /\ e.client = c.client /\ e.heap = h /\ e.seats = c.seats
            /\ e.named = c.named /\ e.raised = c.raised
  BY <1>5 DEF IsRegistry
<1>8. /\ IsRegistry(d) /\ d.client = c.client /\ d.heap = h /\ d.seats = c.seats
      /\ d.named = c.named /\ d.raised = c.raised
  BY <1>6, <1>7
<1>. QED  BY <1>3, <1>5, <1>8, PersonIsNotFree

-----------------------------------------------------------------------------
(* What the operations keep.                                               *)

LEMMA Values ==
  None \notin Conn \cup Object /\ Absent \notin Conn \cup Object /\ None # Absent
BY ValuesAssumption DEF Object

\* Players know tables that were created, and so do the names; clients know
\* players that were created.
Rooted(c) ==
  /\ \A p \in Object : c.heap[p] # Free => c.heap[c.heap[p].table] # Free
  /\ \A n \in DOMAIN c.named : c.heap[c.named[n]] # Free
  /\ \A w \in Conn : c.client[w] \in Object => c.heap[c.client[w]] # Free

\* Who sits at a table is a player of it, under a name of its own.
SeatsOwn(c) ==
  \A t \in Object : \A p \in Sitting(c, t) : c.heap[p] # Free /\ c.heap[p].table = t
NamesApart(c) ==
  \A t \in Object : \A p, q \in Sitting(c, t) : c.heap[p].name = c.heap[q].name => p = q

Whole(c) == IsRegistry(c) /\ Once(c) /\ Rooted(c) /\ SeatsOwn(c) /\ NamesApart(c)

LEMMA SittingObjects ==
  ASSUME NEW c, IsRegistry(c), NEW t \in Object
  PROVE  /\ Sitting(c, t) \subseteq Object
         /\ c.seats[t] = <<>> <=> Sitting(c, t) = {}
         /\ c.seats[t] # <<>> => c.seats[t][1] \in Sitting(c, t)
<1>1. PICK s \in Seq(Object) : s = c.seats[t]
  BY DEF IsRegistry
<1>2. Len(s) \in Nat /\ DOMAIN s = 1..Len(s) /\ (s = <<>> <=> Len(s) = 0)
  BY EmptySeq, LenProperties
<1>3. \A k \in 1..Len(s) : s[k] \in Object
  BY ElementOfSeq
<1>4. ToSet(s) = {s[k] : k \in 1..Len(s)}
  BY <1>2 DEF ToSet
<1>5. s # <<>> => 1 \in 1..Len(s)
  BY <1>2
<1>6. s = <<>> => ToSet(s) = {}
  BY <1>2, <1>4
<1>7. /\ ToSet(s) \subseteq Object
      /\ s = <<>> <=> ToSet(s) = {}
      /\ s # <<>> => s[1] \in ToSet(s)
  BY <1>3, <1>4, <1>5, <1>6
<1>. QED  BY <1>1, <1>7 DEF Sitting

\* d has the persons of c, and nobody sits who did not sit in c.
Within(c, d) ==
  /\ IsRegistry(d) /\ Once(d)
  /\ \A p \in Object : d.heap[p] = Free <=> c.heap[p] = Free
  /\ \A p \in Object : c.heap[p] # Free =>
       d.heap[p].name = c.heap[p].name /\ d.heap[p].table = c.heap[p].table
  /\ \A u \in Object : Sitting(d, u) \subseteq Sitting(c, u)

LEMMA WithinKeeps ==
  ASSUME NEW c, NEW d, Whole(c), Within(c, d),
         \A n \in DOMAIN d.named : d.heap[d.named[n]] # Free,
         \A w \in Conn : d.client[w] \in Object => d.heap[d.client[w]] # Free
  PROVE  Whole(d)
<1>. IsRegistry(c) /\ Rooted(c) /\ SeatsOwn(c) /\ NamesApart(c) /\ IsRegistry(d) /\ Once(d)
  BY DEF Whole, Within
<1>1. Rooted(d)
  <2>1. ASSUME NEW p \in Object, d.heap[p] # Free  PROVE d.heap[d.heap[p].table] # Free
    <3>1. c.heap[p] # Free /\ d.heap[p].table = c.heap[p].table
      BY <2>1 DEF Within
    <3>2. c.heap[p].table \in Object /\ c.heap[c.heap[p].table] # Free
      BY <3>1, Persons DEF Rooted
    <3>. QED  BY <3>1, <3>2 DEF Within
  <2>. QED  BY <2>1 DEF Rooted
<1>2. ASSUME NEW t \in Object, NEW p \in Sitting(d, t)
      PROVE  /\ p \in Object /\ p \in Sitting(c, t) /\ d.heap[p] # Free
             /\ d.heap[p].name = c.heap[p].name /\ d.heap[p].table = t
  <2>1. p \in Sitting(c, t) /\ p \in Object
    BY SittingObjects DEF Within
  <2>. QED  BY <2>1 DEF Within, SeatsOwn
<1>3. SeatsOwn(d)
  BY <1>2 DEF SeatsOwn
<1>4. NamesApart(d)
  BY <1>2 DEF NamesApart
<1>. QED  BY <1>1, <1>3, <1>4 DEF Whole

\* The same seats and the same persons.
LEMMA SameSeatsKeep ==
  ASSUME NEW c, NEW d, Whole(c), IsRegistry(d), d.heap = c.heap, d.seats = c.seats,
         \A n \in DOMAIN d.named : d.heap[d.named[n]] # Free,
         \A w \in Conn : d.client[w] \in Object => d.heap[d.client[w]] # Free
  PROVE  Whole(d)
<1>1. Within(c, d)
  BY DEF Whole, Within, Once, Sitting
<1>. QED  BY <1>1, WithinKeeps

\* The same but for what is raised.
LEMMA CaughtKeeps ==
  ASSUME NEW c, NEW d, Whole(c), IsRegistry(d), d.heap = c.heap, d.seats = c.seats,
         d.named = c.named, d.client = c.client
  PROVE  Whole(d)
BY SameSeatsKeep DEF Whole, Rooted

\* A new player, with a name of its own at the table, sits there.
LEMMA CreatePlayerKeeps ==
  ASSUME NEW c, Whole(c), NewObjects(c) # {},
         NEW p, p = NextObject(c),
         NEW n \in Name, NEW t \in Object, t = p \/ c.heap[t] # Free, ByName(c, t, n) = {},
         NEW w \in Conn, NEW d, d = CreatePlayer(c, n, t, w)
  PROVE  /\ p \in Object /\ c.heap[p] = Free /\ c.seats[p] = <<>>
         /\ Whole(d)
         /\ d.client = c.client /\ d.named = c.named /\ d.raised = c.raised
         /\ \A q \in Object : q # p => d.heap[q] = c.heap[q]
         /\ d.heap[p] = [name |-> n, table |-> t, ws |-> w]
         /\ \A u \in Object : u # t => d.seats[u] = c.seats[u]
         /\ Sitting(d, t) = Sitting(c, t) \cup {p}
         /\ d.seats[t] # <<>>
         /\ d.seats[t][1] = IF c.seats[t] = <<>> THEN p ELSE c.seats[t][1]
<1>. IsRegistry(c) /\ Once(c) /\ Rooted(c) /\ SeatsOwn(c) /\ NamesApart(c)
  BY DEF Whole
<1>1. \A u \in Object : \A q \in Sitting(c, u) : c.heap[q] # Free
  BY DEF SeatsOwn
<1>2. /\ p \in Object /\ c.heap[p] = Free
      /\ IsRegistry(d) /\ Once(d)
      /\ d.client = c.client /\ d.named = c.named /\ d.raised = c.raised
      /\ d.heap = [c.heap EXCEPT ![p] = [name |-> n, table |-> t, ws |-> w]]
      /\ \A u \in Object : u # t => d.seats[u] = c.seats[u]
      /\ Sitting(d, t) = Sitting(c, t) \cup {p}
      /\ d.seats[t] # <<>>
      /\ d.seats[t][1] = IF c.seats[t] = <<>> THEN p ELSE c.seats[t][1]
  BY <1>1, CreatePlayerEffect
<1>3. /\ \A q \in Object : q # p => d.heap[q] = c.heap[q]
      /\ d.heap[p] = [name |-> n, table |-> t, ws |-> w]
  BY <1>2 DEF IsRegistry
<1>4. d.heap[p] # Free /\ d.heap[p].table = t /\ d.heap[p].name = n
  <2>1. [name |-> n, table |-> t, ws |-> w] \in Person
    BY DEF Person
  <2>. QED  BY <1>3, <2>1, PersonIsNotFree
<1>5. ASSUME NEW u \in Object, NEW q \in Sitting(c, u)
      PROVE  q \in Object /\ q # p /\ c.heap[q] # Free /\ c.heap[q].table = u /\ u # p
  <2>1. q \in Object /\ c.heap[q] # Free /\ c.heap[q].table = u
    BY SittingObjects DEF SeatsOwn
  <2>2. c.heap[u] # Free
    BY <2>1 DEF Rooted
  <2>. QED  BY <1>2, <2>1, <2>2
<1>6. c.seats[p] = <<>>
  <2>1. Sitting(c, p) = {}
    BY <1>2, <1>5
  <2>. QED  BY <1>2, <2>1, SittingObjects
<1>7. \A u \in Object : Sitting(d, u) = IF u = t THEN Sitting(c, u) \cup {p} ELSE Sitting(c, u)
  BY <1>2 DEF Sitting
<1>8. ASSUME NEW q \in Object, c.heap[q] # Free  PROVE q # p /\ d.heap[q] = c.heap[q]
  BY <1>2, <1>3, <1>8
<1>9. SeatsOwn(d)
  <2>. SUFFICES ASSUME NEW u \in Object, NEW q \in Sitting(d, u)
       PROVE  d.heap[q] # Free /\ d.heap[q].table = u
    BY DEF SeatsOwn
  <2>1. CASE q \in Sitting(c, u)
    BY <1>5, <1>8, <2>1
  <2>2. CASE q = p /\ u = t
    BY <1>4, <2>2
  <2>. QED  BY <1>7, <2>1, <2>2
<1>10. NamesApart(d)
  <2>. SUFFICES ASSUME NEW u \in Object, NEW q \in Sitting(d, u), NEW r \in Sitting(d, u),
                       d.heap[q].name = d.heap[r].name
       PROVE  q = r
    BY DEF NamesApart
  <2>1. ASSUME NEW x \in Sitting(c, t)  PROVE d.heap[x].name # n
    <3>1. c.heap[x].name # n
      BY DEF ByName, Sitting
    <3>. QED  BY <1>5, <1>8, <3>1
  <2>2. CASE q \in Sitting(c, u) /\ r \in Sitting(c, u)
    <3>1. d.heap[q] = c.heap[q] /\ d.heap[r] = c.heap[r]
      BY <1>5, <1>8, <2>2
    <3>. QED  BY <2>2, <3>1 DEF NamesApart
  <2>3. CASE q = p /\ u = t /\ r # p
    BY <1>4, <1>7, <2>1, <2>3
  <2>4. CASE r = p /\ u = t /\ q # p
    BY <1>4, <1>7, <2>1, <2>4
  <2>. QED  BY <1>7, <2>2, <2>3, <2>4
<1>11. Rooted(d)
  <2>1. ASSUME NEW q \in Object, d.heap[q] # Free  PROVE d.heap[d.heap[q].table] # Free
    <3>1. CASE q = p
      <4>1. d.heap[q].table = t
        BY <1>4, <3>1
      <4>. QED  BY <1>4, <1>8, <4>1
    <3>2. CASE q # p
      <4>1. d.heap[q] = c.heap[q] /\ c.heap[q] # Free
        BY <1>3, <2>1, <3>2
      <4>2. c.heap[q].table \in Object /\ c.heap[c.heap[q].table] # Free
        BY <4>1, Persons DEF Rooted
      <4>. QED  BY <1>8, <4>1, <4>2
    <3>. QED  BY <3>1, <3>2
  <2>2. ASSUME NEW m \in DOMAIN d.named  PROVE d.heap[d.named[m]] # Free
    <3>1. c.named[m] \in Object /\ c.heap[c.named[m]] # Free /\ d.named[m] = c.named[m]
      BY <1>2 DEF Rooted, IsRegistry
    <3>. QED  BY <1>8, <3>1
  <2>3. ASSUME NEW v \in Conn, d.client[v] \in Object  PROVE d.heap[d.client[v]] # Free
    <3>1. c.client[v] \in Object /\ c.heap[c.client[v]] # Free /\ d.client[v] = c.client[v]
      BY <1>2, <2>3 DEF Rooted
    <3>. QED  BY <1>8, <3>1
  <2>. QED  BY <2>1, <2>2, <2>3 DEF Rooted
<1>. QED  BY <1>2, <1>3, <1>6, <1>9, <1>10, <1>11 DEF Whole

\* A connection gets a player; the one it had leaves the seat.
LEMMA SetPlayerKeeps ==
  ASSUME NEW c, Whole(c), NEW w \in Conn, NEW p \in Object, c.heap[p] # Free,
         NEW d, d = SetPlayer(c, w, p)
  PROVE  /\ Whole(d)
         /\ d.client = [c.client EXCEPT ![w] = p]
         /\ d.heap = c.heap /\ d.named = c.named /\ d.raised = c.raised
         /\ \A u \in Object : Sitting(d, u) \subseteq Sitting(c, u)
         /\ c.client[w] \notin Object \ {p} => d.seats = c.seats
<1>. IsRegistry(c) /\ Once(c) /\ Rooted(c)
  BY DEF Whole
<1>1. c.client[w] \in Object => c.heap[c.client[w]] # Free
  BY DEF Rooted
<1>2. /\ IsRegistry(d) /\ Once(d)
      /\ d.client = [c.client EXCEPT ![w] = p]
      /\ d.heap = c.heap /\ d.named = c.named /\ d.raised = c.raised
      /\ \A u \in Object : Sitting(d, u) \subseteq Sitting(c, u)
      /\ c.client[w] \notin Object \ {p} => d.seats = c.seats
  BY <1>1, SetPlayerEffect
<1>3. Within(c, d)
  BY <1>2 DEF Within
<1>4. \A v \in Conn : d.client[v] \in Object => d.heap[d.client[v]] # Free
  <2>1. \A v \in Conn : d.client[v] = IF v = w THEN p ELSE c.client[v]
    BY <1>2 DEF IsRegistry
  <2>. QED  BY <1>2, <2>1 DEF Rooted
<1>5. \A n \in DOMAIN d.named : d.heap[d.named[n]] # Free
  BY <1>2 DEF Rooted
<1>. QED  BY <1>2, <1>3, <1>4, <1>5, WithinKeeps

\* d is c with the new player p of connection w at table t; whom w played
\* before left the table.
Newcomer(c, d, w, p, t, n) ==
  /\ p \in Object /\ c.heap[p] = Free /\ c.seats[p] = <<>>
  /\ \A q \in Object : q # p => d.heap[q] = c.heap[q]
  /\ d.heap[p] = [name |-> n, table |-> t, ws |-> w]
  /\ d.client = [c.client EXCEPT ![w] = p]
  /\ \A u \in Object : Sitting(d, u) \subseteq Sitting(c, u) \cup {p}
  /\ c.client[w] \notin Object =>
       /\ \A u \in Object : u # t => d.seats[u] = c.seats[u]
       /\ Sitting(d, t) = Sitting(c, t) \cup {p}
       /\ d.seats[t] # <<>>
       /\ d.seats[t][1] = IF c.seats[t] = <<>> THEN p ELSE c.seats[t][1]

LEMMA NewcomerKeeps ==
  ASSUME NEW c, Whole(c), NewObjects(c) # {},
         NEW p, p = NextObject(c),
         NEW n \in Name, NEW t \in Object, t = p \/ c.heap[t] # Free, ByName(c, t, n) = {},
         NEW w \in Conn, NEW d, d = SetPlayer(CreatePlayer(c, n, t, w), w, p)
  PROVE  Whole(d) /\ Newcomer(c, d, w, p, t, n) /\ d.named = c.named /\ d.raised = c.raised
<1>1. PICK e : e = CreatePlayer(c, n, t, w)
  OBVIOUS
<1>2. /\ p \in Object /\ c.heap[p] = Free /\ c.seats[p] = <<>>
      /\ Whole(e)
      /\ e.client = c.client /\ e.named = c.named /\ e.raised = c.raised
      /\ \A q \in Object : q # p => e.heap[q] = c.heap[q]
      /\ e.heap[p] = [name |-> n, table |-> t, ws |-> w]
      /\ \A u \in Object : u # t => e.seats[u] = c.seats[u]
      /\ Sitting(e, t) = Sitting(c, t) \cup {p}
      /\ e.seats[t] # <<>>
      /\ e.seats[t][1] = IF c.seats[t] = <<>> THEN p ELSE c.seats[t][1]
  BY <1>1, CreatePlayerKeeps
<1>3. e.heap[p] # Free
  <2>1. [name |-> n, table |-> t, ws |-> w] \in Person
    BY DEF Person
  <2>. QED  BY <1>2, <2>1, PersonIsNotFree
<1>4. d = SetPlayer(e, w, p)
  BY <1>1
<1>5. /\ Whole(d)
      /\ d.client = [e.client EXCEPT ![w] = p]
      /\ d.heap = e.heap /\ d.named = e.named /\ d.raised = e.raised
      /\ \A u \in Object : Sitting(d, u) \subseteq Sitting(e, u)
      /\ e.client[w] \notin Object \ {p} => d.seats = e.seats
  BY <1>2, <1>3, <1>4, SetPlayerKeeps
<1>6. \A u \in Object : Sitting(d, u) \subseteq Sitting(c, u) \cup {p}
  BY <1>2, <1>5 DEF Sitting
<1>7. ASSUME c.client[w] \notin Object
      PROVE  /\ \A u \in Object : u # t => d.seats[u] = c.seats[u]
             /\ Sitting(d, t) = Sitting(c, t) \cup {p}
             /\ d.seats[t] # <<>>
             /\ d.seats[t][1] = IF c.seats[t] = <<>> THEN p ELSE c.seats[t][1]
  <2>1. d.seats = e.seats
    BY <1>2, <1>5, <1>7
  <2>. QED  BY <1>2, <2>1 DEF Sitting
<1>. QED  BY <1>2, <1>5, <1>6, <1>7 DEF Newcomer

\* d is c with player p connected to w; whom w played before, if that was
\* another player, left the table.
Return(c, d, w, p) ==
  /\ \A q \in Object : q # p => d.heap[q] = c.heap[q]
  /\ d.heap[p] # Free /\ d.heap[p].name = c.heap[p].name
  /\ d.heap[p].table = c.heap[p].table /\ d.heap[p].ws = w
  /\ d.client = [c.client EXCEPT ![w] = p]
  /\ \A u \in Object : Sitting(d, u) \subseteq Sitting(c, u)
  /\ c.client[w] \notin Object \ {p} => d.seats = c.seats

\* A player is connected to a connection, or to none, and nothing else.
LEMMA ConnectedKeeps ==
  ASSUME NEW c, Whole(c), NEW p \in Object, c.heap[p] # Free, NEW w \in Conn \cup {None},
         NEW d, d = Connecting(c, p, w)
  PROVE  /\ Whole(d)
         /\ d.client = c.client /\ d.seats = c.seats /\ d.named = c.named /\ d.raised = c.raised
         /\ \A q \in Object : q # p => d.heap[q] = c.heap[q]
         /\ d.heap[p] # Free /\ d.heap[p].name = c.heap[p].name
         /\ d.heap[p].table = c.heap[p].table /\ d.heap[p].ws = w
<1>. IsRegistry(c) /\ Once(c) /\ Rooted(c)
  BY DEF Whole
<1>1. /\ IsRegistry(d)
      /\ d.client = c.client /\ d.seats = c.seats /\ d.named = c.named /\ d.raised = c.raised
      /\ \A q \in Object : q # p => d.heap[q] = c.heap[q]
      /\ d.heap[p] # Free /\ d.heap[p].name = c.heap[p].name
      /\ d.heap[p].table = c.heap[p].table /\ d.heap[p].ws = w
  BY ConnectedEffect
<1>2. \A q \in Object : d.heap[q] = Free <=> c.heap[q] = Free
  BY <1>1
<1>3. Within(c, d)
  BY <1>1, <1>2 DEF Within, Once, Sitting
<1>4. \A n \in DOMAIN d.named : d.heap[d.named[n]] # Free
  <2>1. \A n \in DOMAIN c.named : c.named[n] \in Object
    BY DEF IsRegistry
  <2>. QED  BY <1>1, <1>2, <2>1 DEF Rooted
<1>5. \A v \in Conn : d.client[v] \in Object => d.heap[d.client[v]] # Free
  BY <1>1, <1>2 DEF Rooted
<1>. QED  BY <1>1, <1>3, <1>4, <1>5, WithinKeeps

LEMMA ReturnKeeps ==
  ASSUME NEW c, Whole(c), NEW p \in Object, c.heap[p] # Free, NEW w \in Conn,
         NEW d, d = SetPlayer(Connecting(c, p, w), w, p)
  PROVE  Whole(d) /\ Return(c, d, w, p) /\ d.named = c.named /\ d.raised = c.raised
<1>1. PICK e : e = Connecting(c, p, w)
  OBVIOUS
<1>2. /\ Whole(e)
      /\ e.client = c.client /\ e.seats = c.seats /\ e.named = c.named /\ e.raised = c.raised
      /\ \A q \in Object : q # p => e.heap[q] = c.heap[q]
      /\ e.heap[p] # Free /\ e.heap[p].name = c.heap[p].name
      /\ e.heap[p].table = c.heap[p].table /\ e.heap[p].ws = w
  BY <1>1, ConnectedKeeps
<1>3. d = SetPlayer(e, w, p)
  BY <1>1
<1>4. /\ Whole(d)
      /\ d.client = [e.client EXCEPT ![w] = p]
      /\ d.heap = e.heap /\ d.named = e.named /\ d.raised = e.raised
      /\ \A u \in Object : Sitting(d, u) \subseteq Sitting(e, u)
      /\ e.client[w] \notin Object \ {p} => d.seats = e.seats
  BY <1>2, <1>3, SetPlayerKeeps
<1>. QED  BY <1>2, <1>4 DEF Return, Sitting

-----------------------------------------------------------------------------
(* What the actions do, and that they keep the registry whole.             *)

\* No client before the handler runs, one while it does.
Handled(c, h) ==
  \A w \in Conn : /\ h[w] = "none" => c.client[w] = Absent
                  /\ h[w] = "running" => c.client[w] # Absent

\* Timers are of players that were created.
Timed(c, tm) == \A p \in Object : tm[p] > 0 => c.heap[p] # Free

Common ==
  TypeOK /\ Whole(club) /\ Handled(club, handler) /\ Timed(club, timers)

\* The same registry, whatever is raised.
Same(c, d) ==
  d.client = c.client /\ d.heap = c.heap /\ d.seats = c.seats /\ d.named = c.named

LEMMA RaiseKeeps ==
  ASSUME NEW c, Whole(c)
  PROVE  Whole(Raise(c)) /\ Same(c, Raise(c)) /\ Raise(c).raised
<1>1. PICK d : d = Raise(c)
  OBVIOUS
<1>2. IsRegistry(d) /\ Same(c, d) /\ d.raised
  BY <1>1, RaiseEffect DEF Same, Whole
<1>3. Whole(d)
  BY <1>2, CaughtKeeps DEF Same
<1>. QED  BY <1>1, <1>2, <1>3

LEMMA RefreshKeeps ==
  ASSUME NEW c, Whole(c), NEW t
  PROVE  Whole(Refresh(c, t)) /\ Same(c, Refresh(c, t))
BY RaiseKeeps DEF Refresh, Same

\* The end of a command's handler that made c of the registry.
LEMMA EndsEffect ==
  ASSUME Common, NEW w \in Conn, handler[w] = "running", NEW c, Whole(c), Ends(w, c)
  PROVE  /\ Whole(club') /\ club'.raised = FALSE /\ Same(c, club')
         /\ handler' \in [Conn -> {"none", "running", "ended"}]
         /\ \A v \in Conn : v # w => handler'[v] = handler[v]
         /\ handler'[w] \in {"running", "ended"}
         /\ ~c.raised => handler' = handler
<1>1. PICK d : d = club'
  OBVIOUS
<1>2. d = [c EXCEPT !.raised = FALSE]
  BY <1>1 DEF Ends
<1>3. IsRegistry(d) /\ d.raised = FALSE /\ Same(c, d)
  BY <1>2, CaughtEffect DEF Same, Whole
<1>4. Whole(d)
  BY <1>3, CaughtKeeps DEF Same
<1>5. /\ handler' \in [Conn -> {"none", "running", "ended"}]
      /\ \A v \in Conn : v # w => handler'[v] = handler[v]
      /\ handler'[w] \in {"running", "ended"}
      /\ ~c.raised => handler' = handler
  BY DEF Ends, Common, TypeOK
<1>. QED  BY <1>1, <1>3, <1>4, <1>5

\* A command leaves the handlers as Handled says, and the types.
LEMMA CommandKeeps ==
  ASSUME Common, NEW w \in Conn, handler[w] = "running",
         Whole(club'), club'.raised = FALSE,
         handler' \in [Conn -> {"none", "running", "ended"}],
         \A v \in Conn : v # w => handler'[v] = handler[v],
         handler'[w] \in {"running", "ended"},
         \A v \in Conn : v # w => club'.client[v] = club.client[v],
         club'.client[w] # Absent,
         events' \subseteq {"taken", "switched", "rejoined", "died"},
         \A p \in Object : club.heap[p] # Free => club'.heap[p] # Free,
         UNCHANGED <<timers, cleaner>>
  PROVE  Common'
<1>1. Handled(club', handler')
  BY DEF Common, Handled
<1>2. Timed(club', timers')
  BY DEF Common, Timed
<1>3. IsRegistry(club)' /\ (club.raised = FALSE)'
  BY DEF Whole
<1>4. (club \in [client : [Conn -> Object \cup {None, Absent}],
            heap : [Object -> [name : Name, table : Object, ws : Conn \cup {None}] \cup {Free}],
            seats : [Object -> Seq(Object)],
            named : UNION {[D -> Object] : D \in SUBSET Name},
            raised : {FALSE}])'
  BY <1>3, ClubIsRegistry, PTL
<1>5. TypeOK'
  BY <1>4 DEF Common, TypeOK
<1>. QED  BY <1>1, <1>2, <1>5 DEF Common

\* The next object is a new one, and nobody sits at a table that is none.
LEMMA NextIsNew ==
  ASSUME NEW c, IsRegistry(c), NewObjects(c) # {}
  PROVE  NextObject(c) \in Object /\ c.heap[NextObject(c)] = Free
<1>1. NewObjects(c) \in SUBSET Nat
  BY DEF NewObjects, Object
<1>2. \E q \in NewObjects(c) : \A k \in NewObjects(c) : q <= k
  BY <1>1, LeastOf
<1>. QED  BY <1>2 DEF NextObject, NewObjects

LEMMA NobodySitsAtFree ==
  ASSUME NEW c, Whole(c), NEW p \in Object, c.heap[p] = Free
  PROVE  Sitting(c, p) = {}
<1>1. ASSUME NEW q \in Sitting(c, p)  PROVE FALSE
  <2>1. q \in Object /\ c.heap[q] # Free /\ c.heap[q].table = p
    BY SittingObjects DEF Whole, SeatsOwn
  <2>. QED  BY <2>1 DEF Whole, Rooted
<1>. QED  BY <1>1

\* What a newcomer is to the other parts of the state.
LEMMA NewcomerIsPerson ==
  ASSUME NEW c, NEW d, NEW w \in Conn, NEW p \in Object, NEW t \in Object, NEW n \in Name,
         Newcomer(c, d, w, p, t, n)
  PROVE  /\ d.heap[p] # Free /\ d.heap[p].name = n
         /\ d.heap[p].table = t /\ d.heap[p].ws = w
<1>1. [name |-> n, table |-> t, ws |-> w] \in Person
  BY DEF Person
<1>. QED  BY <1>1, PersonIsNotFree DEF Newcomer

LEMMA NewcomerCommon ==
  ASSUME NEW c, NEW d, NEW w \in Conn, NEW p \in Object, NEW tb \in Object,
         NEW n \in Name, IsRegistry(c), Newcomer(c, d, w, p, tb, n)
  PROVE  /\ \A v \in Conn : v # w => d.client[v] = c.client[v]
         /\ d.client[w] = p /\ d.client[w] # Absent
         /\ \A q \in Object : c.heap[q] # Free => d.heap[q] # Free
<1>1. d.client[w] = p /\ \A v \in Conn : v # w => d.client[v] = c.client[v]
  BY DEF IsRegistry, Newcomer
<1>2. \A q \in Object : c.heap[q] # Free => d.heap[q] # Free
  BY NewcomerIsPerson DEF Newcomer
<1>. QED  BY <1>1, <1>2, Values

\* new_table raises, or makes a table under a new name with w's new player as
\* its owner.
LEMMA NewTableDoes ==
  ASSUME Common, NEW w \in Conn, NEW n \in Name, NewTable(w, n)
  PROVE  /\ Common'
         /\ \/ Same(club, club') /\ events' = events \cup {"died"}
            \/ \E p \in Object :
                 /\ Newcomer(club, club', w, p, p, n)
                 /\ n \notin DOMAIN club.named
                 /\ club'.named = [m \in DOMAIN club.named \cup {n} |->
                                     IF m = n THEN p ELSE club.named[m]]
                 /\ events' = events \cup Switching(w, p) /\ handler' = handler
<1>. Whole(club) /\ IsRegistry(club) /\ club.raised = FALSE
  BY ClubIsRegistry DEF Common, TypeOK, Whole
<1>0. handler[w] = "running" /\ UNCHANGED <<timers, cleaner>> /\ NewObjects(club) # {}
      /\ club.client[w] # Absent
  BY DEF NewTable, Common, Handled
<1>1. PICK p : p = NextObject(club)
  OBVIOUS
<1>2. PICK c : /\ c = IF TablesFull(club) THEN Raise(club)
                      ELSE IF n \in DOMAIN club.named THEN club
                      ELSE Named(SetPlayer(CreatePlayer(club, n, p, w), w, p), n, p)
               /\ c # club /\ Ends(w, c)
               /\ Happened(c, IF c.raised THEN {} ELSE Switching(w, p))
  BY <1>1 DEF NewTable
<1>3. CASE TablesFull(club)
  <2>1. c = Raise(club)
    BY <1>2, <1>3
  <2>2. Whole(c) /\ Same(club, c) /\ c.raised
    BY <2>1, RaiseKeeps
  <2>3. events' = events \cup {"died"}
    BY <1>2, <2>2 DEF Happened
  <2>4. /\ Whole(club') /\ club'.raised = FALSE /\ Same(c, club')
        /\ handler' \in [Conn -> {"none", "running", "ended"}]
        /\ \A v \in Conn : v # w => handler'[v] = handler[v]
        /\ handler'[w] \in {"running", "ended"}
    BY <1>0, <1>2, <2>2, EndsEffect
  <2>5. Same(club, club')
    BY <2>2, <2>4 DEF Same
  <2>6. events' \subseteq {"taken", "switched", "rejoined", "died"}
    BY <2>3 DEF Common, TypeOK
  <2>7. Common'
    BY <1>0, <2>4, <2>5, <2>6, CommandKeeps DEF Same
  <2>. QED  BY <2>3, <2>5, <2>7
<1>4. CASE ~TablesFull(club) /\ n \notin DOMAIN club.named
  <2>1. PICK d : d = SetPlayer(CreatePlayer(club, n, p, w), w, p)
    OBVIOUS
  <2>2. p \in Object /\ club.heap[p] = Free /\ ByName(club, p, n) = {}
    <3>1. p \in Object /\ club.heap[p] = Free
      BY <1>0, <1>1, NextIsNew
    <3>2. Sitting(club, p) = {}
      BY <3>1, NobodySitsAtFree
    <3>. QED  BY <3>1, <3>2 DEF ByName, Sitting
  <2>3. Whole(d) /\ Newcomer(club, d, w, p, p, n) /\ d.named = club.named /\ d.raised = FALSE
    BY <1>0, <1>1, <2>1, <2>2, NewcomerKeeps
  <2>4. c = Named(d, n, p)
    BY <1>2, <1>4, <2>1
  <2>5. /\ IsRegistry(c)
        /\ c.client = d.client /\ c.heap = d.heap /\ c.seats = d.seats /\ c.raised = d.raised
        /\ c.named = [m \in DOMAIN d.named \cup {n} |-> IF m = n THEN p ELSE d.named[m]]
    BY <2>2, <2>3, <2>4, NamedEffect DEF Whole
  <2>6. Whole(c)
    <3>1. \A m \in DOMAIN c.named : c.heap[c.named[m]] # Free
      <4>1. c.heap[p] # Free
        BY <2>2, <2>3, <2>5, NewcomerIsPerson
      <4>. QED  BY <2>3, <2>5, <4>1 DEF Whole, Rooted
    <3>2. \A v \in Conn : c.client[v] \in Object => c.heap[c.client[v]] # Free
      BY <2>3, <2>5 DEF Whole, Rooted
    <3>. QED  BY <2>3, <2>5, <3>1, <3>2, SameSeatsKeep
  <2>7. /\ Whole(club') /\ club'.raised = FALSE /\ Same(c, club')
        /\ handler' \in [Conn -> {"none", "running", "ended"}]
        /\ \A v \in Conn : v # w => handler'[v] = handler[v]
        /\ handler'[w] \in {"running", "ended"}
        /\ handler' = handler
    BY <1>0, <1>2, <2>3, <2>5, <2>6, EndsEffect
  <2>8. Newcomer(club, club', w, p, p, n)
    BY <2>3, <2>5, <2>7 DEF Same, Newcomer, Sitting
  <2>9. club'.named = [m \in DOMAIN club.named \cup {n} |->
                         IF m = n THEN p ELSE club.named[m]]
    BY <2>3, <2>5, <2>7 DEF Same
  <2>10. events' = events \cup Switching(w, p)
    BY <1>2, <2>3, <2>5 DEF Happened
  <2>11. events' \subseteq {"taken", "switched", "rejoined", "died"}
    BY <2>10 DEF Switching, Common, TypeOK
  <2>12. Common'
    <3>1. /\ \A v \in Conn : v # w => club'.client[v] = club.client[v]
          /\ club'.client[w] # Absent
          /\ \A q \in Object : club.heap[q] # Free => club'.heap[q] # Free
      <4>1. PICK e : e = club'
        OBVIOUS
      <4>2. Newcomer(club, e, w, p, p, n)
        BY <2>8, <4>1
      <4>3. /\ \A v \in Conn : v # w => e.client[v] = club.client[v]
            /\ e.client[w] # Absent
            /\ \A q \in Object : club.heap[q] # Free => e.heap[q] # Free
        BY <2>2, <4>2, NewcomerCommon
      <4>. QED  BY <4>1, <4>3
    <3>. QED  BY <1>0, <2>7, <2>11, <3>1, CommandKeeps
  <2>. QED  BY <1>4, <2>2, <2>7, <2>8, <2>9, <2>10, <2>12
<1>. QED  BY <1>2, <1>3, <1>4

\* table_join under a new name: w's new player sits at the table; the answer
\* may raise.
LEMMA JoinAsNewDoes ==
  ASSUME Common, NEW w \in Conn, NEW t \in Name, NEW n \in Name, JoinAsNew(w, t, n)
  PROVE  /\ Common' /\ t \in DOMAIN club.named
         /\ \E p \in Object :
              /\ Newcomer(club, club', w, p, club.named[t], n)
              /\ club'.named = club.named
              /\ events' \in {events \cup Switching(w, p),
                              events \cup Switching(w, p) \cup {"died"}}
              /\ events' = {} => handler' = handler
<1>. Whole(club) /\ IsRegistry(club) /\ club.raised = FALSE
  BY ClubIsRegistry DEF Common, TypeOK, Whole
<1>0. /\ handler[w] = "running" /\ UNCHANGED <<timers, cleaner>> /\ NewObjects(club) # {}
      /\ club.client[w] # Absent /\ t \in DOMAIN club.named
  BY DEF JoinAsNew, Common, Handled
<1>1. PICK p, tb : p = NextObject(club) /\ tb = club.named[t]
  OBVIOUS
<1>2. p \in Object /\ tb \in Object /\ club.heap[tb] # Free
  BY <1>0, <1>1, NextIsNew DEF IsRegistry, Whole, Rooted
<1>3. PICK d : d = SetPlayer(CreatePlayer(club, n, tb, w), w, p)
  OBVIOUS
<1>4. PICK c : /\ c = Refresh(d, tb)
               /\ ByName(club, tb, n) = {}
               /\ Ends(w, c) /\ Happened(c, Switching(w, p))
  BY <1>1, <1>3 DEF JoinAsNew
<1>5. Whole(d) /\ Newcomer(club, d, w, p, tb, n) /\ d.named = club.named
  BY <1>0, <1>1, <1>2, <1>3, <1>4, NewcomerKeeps
<1>6. Whole(c) /\ Same(d, c)
  BY <1>4, <1>5, RefreshKeeps
<1>7. /\ Whole(club') /\ club'.raised = FALSE /\ Same(c, club')
      /\ handler' \in [Conn -> {"none", "running", "ended"}]
      /\ \A v \in Conn : v # w => handler'[v] = handler[v]
      /\ handler'[w] \in {"running", "ended"}
      /\ ~c.raised => handler' = handler
  BY <1>0, <1>4, <1>6, EndsEffect
<1>8. Newcomer(club, club', w, p, tb, n) /\ club'.named = club.named
  BY <1>5, <1>6, <1>7 DEF Same, Newcomer, Sitting
<1>9. /\ events' \in {events \cup Switching(w, p), events \cup Switching(w, p) \cup {"died"}}
      /\ c.raised => "died" \in events'
  BY <1>4 DEF Happened
<1>10. events' \subseteq {"taken", "switched", "rejoined", "died"}
  BY <1>9 DEF Switching, Common, TypeOK
<1>11. Common'
  <2>1. /\ \A v \in Conn : v # w => club'.client[v] = club.client[v]
        /\ club'.client[w] # Absent
        /\ \A q \in Object : club.heap[q] # Free => club'.heap[q] # Free
    <3>1. PICK e : e = club'
      OBVIOUS
    <3>2. Newcomer(club, e, w, p, tb, n)
      BY <1>8, <3>1
    <3>3. /\ \A v \in Conn : v # w => e.client[v] = club.client[v]
          /\ e.client[w] # Absent
          /\ \A q \in Object : club.heap[q] # Free => e.heap[q] # Free
      <4>1. e.client[w] = p /\ \A v \in Conn : v # w => e.client[v] = club.client[v]
        BY <3>2 DEF Newcomer, IsRegistry
      <4>2. \A q \in Object : club.heap[q] # Free => e.heap[q] # Free
        BY <1>2, <3>2, NewcomerCommon
      <4>. QED  BY <1>2, <4>1, <4>2, Values
    <3>. QED  BY <3>1, <3>3
  <2>. QED  BY <1>0, <1>7, <1>10, <2>1, CommandKeeps
<1>. QED  BY <1>0, <1>1, <1>2, <1>7, <1>8, <1>9, <1>11

\* table_join under the name of a player: a connection of it that is not
\* known raises, otherwise it is w's player from now on.
LEMMA JoinAgainDoes ==
  ASSUME Common, NEW w \in Conn, NEW t \in Name, NEW n \in Name, JoinAgain(w, t, n)
  PROVE  /\ Common' /\ t \in DOMAIN club.named
         /\ \E p \in Sitting(club, club.named[t]) :
              /\ Same(club, club') \/ Return(club, club', w, p)
              /\ club.heap[p].ws = None => Return(club, club', w, p)
              /\ club'.named = club.named
              /\ events \cup Switching(w, p) \subseteq events'
              /\ (IF club.heap[p].ws = None THEN "rejoined" ELSE "taken") \in events'
<1>. Whole(club) /\ IsRegistry(club) /\ club.raised = FALSE
  BY ClubIsRegistry DEF Common, TypeOK, Whole
<1>0. /\ handler[w] = "running" /\ UNCHANGED <<timers, cleaner>>
      /\ club.client[w] # Absent /\ t \in DOMAIN club.named
  BY DEF JoinAgain, Common, Handled
<1>1. PICK tb : tb = club.named[t]
  OBVIOUS
<1>2. tb \in Object
  BY <1>0, <1>1 DEF IsRegistry
<1>3. PICK p \in ByName(club, tb, n) :
        LET c == IF Unknown(club, p) THEN Raise(club)
                 ELSE Refresh(SetPlayer([club EXCEPT !.heap[p].ws = w], w, p), tb)
        IN  /\ Ends(w, c)
            /\ Happened(c, Switching(w, p) \cup
                 {IF club.heap[p].ws = None THEN "rejoined" ELSE "taken"})
  BY <1>1 DEF JoinAgain
<1>4. p \in Sitting(club, tb) /\ p \in Object /\ club.heap[p] # Free
  <2>1. p \in Sitting(club, tb)
    BY DEF ByName, Sitting
  <2>. QED  BY <1>2, <2>1, SittingObjects DEF Whole, SeatsOwn
<1>5. PICK d : d = SetPlayer(Connecting(club, p, w), w, p)
  OBVIOUS
<1>6. PICK c : /\ c = IF Unknown(club, p) THEN Raise(club) ELSE Refresh(d, tb)
               /\ Ends(w, c)
               /\ Happened(c, Switching(w, p) \cup
                    {IF club.heap[p].ws = None THEN "rejoined" ELSE "taken"})
  BY <1>3, <1>5 DEF Connecting
<1>7. Whole(d) /\ Return(club, d, w, p) /\ d.named = club.named
  BY <1>4, <1>5, ReturnKeeps
<1>8. Whole(c) /\ c.named = club.named /\ (Same(club, c) \/ Same(d, c))
      /\ (club.heap[p].ws = None => Same(d, c))
  <2>1. CASE Unknown(club, p)
    <3>1. c = Raise(club) /\ club.heap[p].ws # None
      BY <1>6, <2>1 DEF Unknown
    <3>. QED  BY <3>1, RaiseKeeps DEF Same
  <2>2. CASE ~Unknown(club, p)
    <3>1. c = Refresh(d, tb)
      BY <1>6, <2>2
    <3>. QED  BY <1>7, <3>1, RefreshKeeps DEF Same
  <2>. QED  BY <2>1, <2>2
<1>9. /\ Whole(club') /\ club'.raised = FALSE /\ Same(c, club')
      /\ handler' \in [Conn -> {"none", "running", "ended"}]
      /\ \A v \in Conn : v # w => handler'[v] = handler[v]
      /\ handler'[w] \in {"running", "ended"}
  BY <1>0, <1>6, <1>8, EndsEffect
<1>10. /\ Same(club, club') \/ Return(club, club', w, p)
       /\ club.heap[p].ws = None => Return(club, club', w, p)
       /\ club'.named = club.named
  <2>1. Same(d, c) => Return(club, club', w, p)
    BY <1>7, <1>9 DEF Same, Return, Sitting
  <2>2. Same(club, c) => Same(club, club')
    BY <1>9 DEF Same
  <2>3. club'.named = club.named
    BY <1>8, <1>9 DEF Same
  <2>. QED  BY <1>8, <2>1, <2>2, <2>3
<1>11. /\ events \cup Switching(w, p) \subseteq events'
       /\ (IF club.heap[p].ws = None THEN "rejoined" ELSE "taken") \in events'
       /\ events' \subseteq {"taken", "switched", "rejoined", "died"}
  BY <1>6 DEF Happened, Switching, Common, TypeOK
<1>12. Common'
  <2>1. /\ \A v \in Conn : v # w => club'.client[v] = club.client[v]
        /\ club'.client[w] # Absent
        /\ \A q \in Object : club.heap[q] # Free => club'.heap[q] # Free
    <3>1. CASE Same(club, club')
      BY <1>0, <3>1 DEF Same
    <3>2. CASE Return(club, club', w, p)
      <4>1. club'.client[w] = p /\ \A v \in Conn : v # w => club'.client[v] = club.client[v]
        BY <3>2 DEF Return, IsRegistry
      <4>2. \A q \in Object : club.heap[q] # Free => club'.heap[q] # Free
        BY <3>2 DEF Return
      <4>. QED  BY <1>4, <4>1, <4>2, Values
    <3>. QED  BY <1>10, <3>1, <3>2
  <2>. QED  BY <1>0, <1>9, <1>11, <2>1, CommandKeeps
<1>. QED  BY <1>0, <1>1, <1>4, <1>10, <1>11, <1>12

\* clos, and a game command whose table cannot be told, die and change nothing.
LEMMA DyingDoes ==
  ASSUME Common, NEW w \in Conn, CloseTable(w) \/ Play(w)
  PROVE  Common' /\ Same(club, club') /\ events' = events \cup {"died"}
<1>. Whole(club) /\ IsRegistry(club) /\ club.raised = FALSE
  BY ClubIsRegistry DEF Common, TypeOK, Whole
<1>0. /\ handler[w] = "running" /\ UNCHANGED <<timers, cleaner>>
      /\ club.client[w] # Absent
  BY DEF CloseTable, Play, Common, Handled
<1>1. PICK c : /\ Whole(c) /\ Same(club, c) /\ c.raised
               /\ Ends(w, c) /\ Happened(c, {})
  <2>1. CASE CloseTable(w)
    BY <2>1, RaiseKeeps DEF CloseTable
  <2>2. CASE Play(w)
    BY <2>2, RefreshKeeps DEF Play
  <2>. QED  BY <2>1, <2>2
<1>2. /\ Whole(club') /\ club'.raised = FALSE /\ Same(c, club')
      /\ handler' \in [Conn -> {"none", "running", "ended"}]
      /\ \A v \in Conn : v # w => handler'[v] = handler[v]
      /\ handler'[w] \in {"running", "ended"}
  BY <1>0, <1>1, EndsEffect
<1>3. Same(club, club')
  BY <1>1, <1>2 DEF Same
<1>4. events' = events \cup {"died"}
  BY <1>1 DEF Happened
<1>5. events' \subseteq {"taken", "switched", "rejoined", "died"}
  BY <1>4 DEF Common, TypeOK
<1>6. Common'
  BY <1>0, <1>2, <1>3, <1>5, CommandKeeps DEF Same
<1>. QED  BY <1>3, <1>4, <1>6

\* Other clients than that of w are as they were or have lost their players.
Lost(c, d, w) ==
  \A v \in Conn : v # w => \/ d.client[v] = c.client[v]
                           \/ d.client[v] = None /\ c.client[v] # Absent

\* Closing tables keeps the registry whole; where all who are told are known,
\* it takes the players from just their connections and raises nothing.
LEMMA ClosedKeeps ==
  ASSUME NEW c, NEW places, NEW d, Whole(c), places \subseteq Object \X Nat,
         d = PlayersTableClosed(c, places)
  PROVE  /\ Whole(d) /\ d.heap = c.heap /\ d.seats = c.seats /\ d.named = c.named
         /\ \A v \in Conn : \/ d.client[v] = c.client[v]
                            \/ d.client[v] = None /\ c.client[v] # Absent
         /\ (\A x \in places : ~Unknown(c, At(c, x))) =>
              /\ d.raised = c.raised
              /\ \A v \in Conn : d.client[v] = IF \E x \in places : c.heap[At(c, x)].ws = v
                                               THEN None ELSE c.client[v]
<1>0. PICK told \in SUBSET places : ClosedFor(c, d, places, told)
  BY ClosedEffect DEF Whole
<1>1. /\ IsRegistry(d) /\ d.heap = c.heap /\ d.seats = c.seats /\ d.named = c.named
      /\ d.client = [w \in Conn |-> IF \E x \in told : c.heap[At(c, x)].ws = w
                                    THEN None ELSE c.client[w]]
      /\ \A x \in told : UpTo(x, x) => ~Unknown(c, At(c, x))
      /\ (\A x \in places : ~Unknown(c, At(c, x))) => told = places
      /\ told = places => d.raised = c.raised
  BY <1>0, ClosedEffect DEF ClosedFor, Whole
<1>2. \A v \in Conn : d.client[v] = IF \E x \in told : c.heap[At(c, x)].ws = v
                                    THEN None ELSE c.client[v]
  BY <1>1
<1>3. \A x \in told : ~Unknown(c, At(c, x))
  <2>1. ASSUME NEW x \in told  PROVE UpTo(x, x)
    <3>1. x \in Object \X Nat
      OBVIOUS
    <3>2. x[1] = x[1] /\ x[2] <= x[2]
      BY <3>1
    <3>. QED  BY <3>2 DEF UpTo
  <2>. QED  BY <1>1, <2>1
<1>4. ASSUME NEW v \in Conn
      PROVE  \/ d.client[v] = c.client[v]
             \/ d.client[v] = None /\ c.client[v] # Absent
  <2>1. ASSUME NEW x \in told, c.heap[At(c, x)].ws = v  PROVE c.client[v] # Absent
    BY <1>3, <2>1, Values DEF Unknown
  <2>. QED  BY <1>2, <2>1
<1>5. ASSUME NEW v \in Conn, d.client[v] \in Object  PROVE d.heap[d.client[v]] # Free
  <2>1. d.client[v] = c.client[v]
    BY <1>4, <1>5, Values
  <2>2. c.heap[c.client[v]] # Free
    BY <1>5, <2>1 DEF Whole, Rooted
  <2>. QED  BY <1>1, <2>1, <2>2
<1>6. \A n \in DOMAIN d.named : d.heap[d.named[n]] # Free
  BY <1>1 DEF Whole, Rooted
<1>7. Whole(d)
  BY <1>1, <1>5, <1>6, SameSeatsKeep
<1>. QED  BY <1>1, <1>2, <1>4, <1>7

\* Names are deleted, if they all are there.
LEMMA UnnamedKeeps ==
  ASSUME NEW c, NEW ns, NEW d, Whole(c), d = Unnamed(c, ns)
  PROVE  /\ Whole(d) /\ d.client = c.client /\ d.heap = c.heap /\ d.seats = c.seats
         /\ ns \subseteq DOMAIN c.named =>
              /\ d.raised = c.raised
              /\ d.named = Without(c.named, ns)
<1>1. /\ IsRegistry(d)
      /\ d.client = c.client /\ d.heap = c.heap /\ d.seats = c.seats
      /\ ns \subseteq DOMAIN c.named =>
           /\ d.raised = c.raised
           /\ d.named = Without(c.named, ns)
      /\ ~(ns \subseteq DOMAIN c.named) => d.named = c.named
  BY UnnamedEffect DEF Whole
<1>2. \A n \in DOMAIN d.named : n \in DOMAIN c.named /\ d.named[n] = c.named[n]
  BY <1>1 DEF Without
<1>3. \A n \in DOMAIN d.named : d.heap[d.named[n]] # Free
  BY <1>1, <1>2 DEF Whole, Rooted
<1>4. \A v \in Conn : d.client[v] \in Object => d.heap[d.client[v]] # Free
  BY <1>1 DEF Whole, Rooted
<1>. QED  BY <1>1, <1>3, <1>4, SameSeatsKeep

\* A client is forgotten, unless something was raised before.
LEMMA ForgetKeeps ==
  ASSUME NEW c, NEW w \in Conn, NEW d, Whole(c), d = Forget(c, w)
  PROVE  /\ Whole(d)
         /\ d.heap = c.heap /\ d.seats = c.seats /\ d.named = c.named /\ d.raised = c.raised
         /\ \A v \in Conn : v # w => d.client[v] = c.client[v]
         /\ ~c.raised => d.client[w] = Absent
<1>1. /\ IsRegistry(d)
      /\ d.heap = c.heap /\ d.seats = c.seats /\ d.named = c.named /\ d.raised = c.raised
      /\ d.client = IF c.raised THEN c.client ELSE [c.client EXCEPT ![w] = Absent]
  BY ForgetEffect DEF Whole
<1>2. /\ \A v \in Conn : v # w => d.client[v] = c.client[v]
      /\ ~c.raised => d.client[w] = Absent
      /\ d.client[w] = c.client[w] \/ d.client[w] = Absent
  BY <1>1 DEF Whole, IsRegistry
<1>3. \A n \in DOMAIN d.named : d.heap[d.named[n]] # Free
  BY <1>1 DEF Whole, Rooted
<1>4. ASSUME NEW v \in Conn, d.client[v] \in Object  PROVE d.heap[d.client[v]] # Free
  <2>1. d.client[v] = c.client[v]
    BY <1>2, <1>4, Values
  <2>. QED  BY <1>1, <1>4, <2>1 DEF Whole, Rooted
<1>. QED  BY <1>1, <1>2, <1>3, <1>4, SameSeatsKeep

\* What is raised is not kept.
LEMMA EndKeeps ==
  ASSUME NEW c, NEW d, Whole(c), d = [c EXCEPT !.raised = FALSE]
  PROVE  Whole(d) /\ Same(c, d) /\ d.raised = FALSE
<1>1. IsRegistry(d) /\ Same(c, d) /\ d.raised = FALSE
  BY CaughtEffect DEF Same, Whole
<1>2. Whole(d)
  BY <1>1, CaughtKeeps DEF Same
<1>. QED  BY <1>1, <1>2

\* A player leaves a table.
LEMMA LeaveKeeps ==
  ASSUME NEW c, NEW p \in Object, NEW d, Whole(c), c.heap[p] # Free, d = Leave(c, p)
  PROVE  /\ Whole(d)
         /\ d.client = c.client /\ d.heap = c.heap /\ d.named = c.named /\ d.raised = c.raised
         /\ \A u \in Object :
              /\ Sitting(d, u) = Sitting(c, u) \ {p}
              /\ c.seats[u] # <<>> /\ c.seats[u][1] # p
                   => d.seats[u] # <<>> /\ d.seats[u][1] = c.seats[u][1]
<1>. IsRegistry(c) /\ Once(c)
  BY DEF Whole
<1>1. /\ IsRegistry(d) /\ Once(d)
      /\ d.client = c.client /\ d.heap = c.heap /\ d.named = c.named /\ d.raised = c.raised
      /\ \A u \in Object :
           /\ Sitting(d, u) = IF u = c.heap[p].table THEN Sitting(c, u) \ {p} ELSE Sitting(c, u)
           /\ c.seats[u] # <<>> /\ c.seats[u][1] # p
                => d.seats[u] # <<>> /\ d.seats[u][1] = c.seats[u][1]
  BY LeaveEffect
<1>2. \A u \in Object : u # c.heap[p].table => p \notin Sitting(c, u)
  BY DEF Whole, SeatsOwn
<1>3. \A u \in Object : Sitting(d, u) = Sitting(c, u) \ {p}
  BY <1>1, <1>2
<1>4. Within(c, d)
  BY <1>1, <1>3 DEF Within
<1>5. /\ \A n \in DOMAIN d.named : d.heap[d.named[n]] # Free
      /\ \A v \in Conn : d.client[v] \in Object => d.heap[d.client[v]] # Free
  BY <1>1 DEF Whole, Rooted
<1>6. Whole(d)
  BY <1>4, <1>5, WithinKeeps
<1>. QED  BY <1>1, <1>3, <1>6

\* What makes the invariant's common part of the next state.
LEMMA CommonNext ==
  ASSUME Whole(club'), club'.raised = FALSE,
         handler' \in [Conn -> {"none", "running", "ended"}], Handled(club', handler'),
         timers' \in [Object -> Nat], Timed(club', timers'),
         cleaner' \in BOOLEAN, events' \subseteq {"taken", "switched", "rejoined", "died"}
  PROVE  Common'
<1>1. IsRegistry(club)' /\ (club.raised = FALSE)'
  BY DEF Whole
<1>2. (club \in [client : [Conn -> Object \cup {None, Absent}],
            heap : [Object -> [name : Name, table : Object, ws : Conn \cup {None}] \cup {Free}],
            seats : [Object -> Seq(Object)],
            named : UNION {[D -> Object] : D \in SUBSET Name},
            raised : {FALSE}])'
  BY <1>1, ClubIsRegistry, PTL
<1>3. TypeOK'
  BY <1>2 DEF TypeOK
<1>. QED  BY <1>3 DEF Common

LEMMA ConnectDoes ==
  ASSUME Common, NEW w \in Conn, Connect(w)
  PROVE  /\ Common' /\ club.client[w] = Absent /\ club'.client[w] = None
         /\ \A v \in Conn : v # w => club'.client[v] = club.client[v] /\ handler'[v] = handler[v]
         /\ club'.heap = club.heap /\ club'.seats = club.seats /\ club'.named = club.named
         /\ UNCHANGED <<timers, cleaner, events>>
<1>. Whole(club) /\ IsRegistry(club) /\ club.raised = FALSE
  BY ClubIsRegistry DEF Common, TypeOK, Whole
<1>0. /\ handler[w] = "none" /\ handler' = [handler EXCEPT ![w] = "running"]
      /\ UNCHANGED <<timers, cleaner, events>>
      /\ club.client[w] = Absent
  BY DEF Connect, Common, Handled
<1>1. PICK d : d = club'
  OBVIOUS
<1>2. PICK cl : cl = [club.client EXCEPT ![w] = None]
  OBVIOUS
<1>3. cl \in [Conn -> Object \cup {None, Absent}]
  BY <1>2 DEF IsRegistry
<1>4. d = [client |-> cl, heap |-> club.heap, seats |-> club.seats, named |-> club.named,
           raised |-> FALSE]
  BY <1>1, <1>2 DEF Connect, IsRegistry
<1>5. /\ IsRegistry(d) /\ d.client = cl /\ d.heap = club.heap /\ d.seats = club.seats
      /\ d.named = club.named /\ d.raised = FALSE
  BY <1>3, <1>4 DEF IsRegistry
<1>6. cl[w] = None /\ \A v \in Conn : v # w => cl[v] = club.client[v]
  BY <1>2 DEF IsRegistry
<1>7. ASSUME NEW v \in Conn, d.client[v] \in Object  PROVE d.heap[d.client[v]] # Free
  <2>1. d.client[v] = club.client[v]
    BY <1>5, <1>6, <1>7, Values
  <2>2. club.heap[club.client[v]] # Free
    BY <1>7, <2>1 DEF Whole, Rooted
  <2>. QED  BY <1>5, <2>1, <2>2
<1>8. \A n \in DOMAIN d.named : d.heap[d.named[n]] # Free
  BY <1>5 DEF Whole, Rooted
<1>9. Whole(d)
  BY <1>5, <1>7, <1>8, SameSeatsKeep
<1>10. /\ handler' \in [Conn -> {"none", "running", "ended"}]
       /\ handler'[w] = "running" /\ \A v \in Conn : v # w => handler'[v] = handler[v]
  BY <1>0 DEF Common, TypeOK
<1>11. Handled(club', handler')
  <2>1. club'.client[w] = None /\ \A v \in Conn : v # w => club'.client[v] = club.client[v]
    BY <1>1, <1>5, <1>6
  <2>. QED  BY <1>10, <2>1, Values DEF Common, Handled
<1>12. Timed(club', timers')
  BY <1>0, <1>1, <1>5 DEF Common, Timed
<1>13. /\ timers' \in [Object -> Nat] /\ cleaner' \in BOOLEAN
       /\ events' \subseteq {"taken", "switched", "rejoined", "died"}
  BY <1>0 DEF Common, TypeOK
<1>14. Common'
  BY <1>1, <1>5, <1>9, <1>10, <1>11, <1>12, <1>13, CommonNext
<1>. QED  BY <1>0, <1>1, <1>5, <1>6, <1>10, <1>14

\* The end of a handler, at w, after which c is the registry and nobody is
\* connected anew.
LEMMA HandlerEnds ==
  ASSUME Common, NEW w \in Conn, handler' = [handler EXCEPT ![w] = "ended"],
         Whole(club'), club'.raised = FALSE,
         Lost(club, club', w),
         timers' \in [Object -> Nat], Timed(club', timers'), cleaner' = cleaner,
         events' \in {events, events \cup {"died"}}
  PROVE  /\ Common'
         /\ \A v \in Conn : v # w => handler'[v] = handler[v]
<1>1. /\ handler' \in [Conn -> {"none", "running", "ended"}]
      /\ handler'[w] = "ended" /\ \A v \in Conn : v # w => handler'[v] = handler[v]
  BY DEF Common, TypeOK
<1>2. Handled(club', handler')
  BY <1>1, Values DEF Common, Handled, Lost
<1>3. cleaner' \in BOOLEAN /\ events' \subseteq {"taken", "switched", "rejoined", "died"}
  BY DEF Common, TypeOK
<1>. QED  BY <1>1, <1>2, <1>3, CommonNext

LEMMA SendRaisesDoes ==
  ASSUME Common, NEW w \in Conn, SendRaises(w)
  PROVE  Common' /\ club' = club /\ events' = events \cup {"died"} /\ UNCHANGED <<timers, cleaner>>
<1>. Whole(club) /\ IsRegistry(club) /\ club.raised = FALSE
  BY ClubIsRegistry DEF Common, TypeOK, Whole
<1>1. /\ handler' = [handler EXCEPT ![w] = "ended"]
      /\ club' = club /\ events' = events \cup {"died"} /\ UNCHANGED <<timers, cleaner>>
  BY DEF SendRaises
<1>2. timers' \in [Object -> Nat] /\ Timed(club', timers') /\ Whole(club')
  BY <1>1 DEF Common, TypeOK, Timed
<1>3. Lost(club, club', w)
  BY <1>1 DEF Lost
<1>4. Common'
  BY <1>1, <1>2, <1>3, HandlerEnds
<1>. QED  BY <1>1, <1>4

\* player_remove: the seat is empty, and one timer is over.
LEMMA PlayerRemoveDoes ==
  ASSUME Common, NEW p \in Object, PlayerRemove(p)
  PROVE  /\ Common'
         /\ club.heap[p] # Free /\ timers[p] > 0
         /\ club'.client = club.client /\ club'.heap = club.heap /\ club'.named = club.named
         /\ \A u \in Object :
              /\ Sitting(club', u) = Sitting(club, u) \ {p}
              /\ club.seats[u] # <<>> /\ club.seats[u][1] # p
                   => club'.seats[u] # <<>> /\ club'.seats[u][1] = club.seats[u][1]
         /\ timers' = [timers EXCEPT ![p] = @ - 1]
         /\ UNCHANGED <<handler, cleaner, events>>
<1>. Whole(club) /\ IsRegistry(club) /\ club.raised = FALSE
  BY ClubIsRegistry DEF Common, TypeOK, Whole
<1>1. /\ timers[p] > 0 /\ timers' = [timers EXCEPT ![p] = @ - 1]
      /\ UNCHANGED <<handler, cleaner, events>> /\ club.heap[p] # Free
      /\ timers \in [Object -> Nat]
  BY DEF PlayerRemove, Common, Timed, TypeOK
<1>2. PICK d : d = Leave(club, p) /\ d = club'
  BY DEF PlayerRemove
<1>3. /\ Whole(d)
      /\ d.client = club.client /\ d.heap = club.heap /\ d.named = club.named
      /\ d.raised = club.raised
      /\ \A u \in Object :
           /\ Sitting(d, u) = Sitting(club, u) \ {p}
           /\ club.seats[u] # <<>> /\ club.seats[u][1] # p
                => d.seats[u] # <<>> /\ d.seats[u][1] = club.seats[u][1]
  <2>1. PICK c : c = club
    OBVIOUS
  <2>2. Whole(c) /\ c.heap[p] # Free /\ d = Leave(c, p)
    BY <1>1, <1>2, <2>1
  <2>3. Whole(d) /\ d.client = c.client /\ d.heap = c.heap /\ d.named = c.named /\ d.raised = c.raised
    BY <2>2, LeaveKeeps
  <2>4. \A u \in Object :
          /\ Sitting(d, u) = Sitting(c, u) \ {p}
          /\ c.seats[u] # <<>> /\ c.seats[u][1] # p
               => d.seats[u] # <<>> /\ d.seats[u][1] = c.seats[u][1]
    BY <2>2, LeaveKeeps
  <2>. QED  BY <2>1, <2>3, <2>4
<1>4. timers' \in [Object -> Nat] /\ \A q \in Object : timers'[q] <= timers[q]
  <2>1. timers[p] - 1 \in Nat
    BY <1>1
  <2>. QED  BY <1>1, <2>1
<1>5. Timed(club', timers')
  <2>1. \A q \in Object : timers'[q] \in Nat /\ timers[q] \in Nat
    BY <1>1, <1>4
  <2>2. \A q \in Object : timers'[q] > 0 => timers[q] > 0
    BY <1>4, <2>1
  <2>. QED  BY <1>2, <1>3, <2>2 DEF Common, Timed
<1>6. /\ Handled(club', handler') /\ handler' \in [Conn -> {"none", "running", "ended"}]
      /\ cleaner' \in BOOLEAN /\ events' \subseteq {"taken", "switched", "rejoined", "died"}
  BY <1>1, <1>2, <1>3 DEF Common, TypeOK, Handled
<1>7. Common'
  BY <1>2, <1>3, <1>4, <1>5, <1>6, CommonNext
<1>. QED  BY <1>1, <1>2, <1>3, <1>7

\* The tables named N are gone and with them the players P of connections;
\* the clients of gone are forgotten.
Closing(c, d, N, P, gone) ==
  /\ d.heap = c.heap /\ d.seats = c.seats
  /\ d.named = Without(c.named, N)
  /\ \A v \in Conn : d.client[v] = IF v \in gone THEN Absent
                                   ELSE IF \E q \in P : c.heap[q].ws = v THEN None
                                   ELSE c.client[v]

AllKnown(c, P) == \A q \in P : ~Unknown(c, q)

\* The places of a table's players but its owner, and the loss of names,
\* unless something was raised before.
OthersAt(c, t) == {t} \X (2..Len(c.seats[t]))
Unnaming(c, ns) == IF c.raised THEN c ELSE Unnamed(c, ns)

LEMMA UnnamingKeeps ==
  ASSUME NEW c, NEW ns, NEW d, Whole(c), d = Unnaming(c, ns)
  PROVE  /\ Whole(d) /\ d.client = c.client /\ d.heap = c.heap /\ d.seats = c.seats
         /\ ~c.raised /\ ns \subseteq DOMAIN c.named =>
              /\ ~d.raised
              /\ d.named = Without(c.named, ns)
<1>1. CASE c.raised
  BY <1>1 DEF Unnaming
<1>2. CASE ~c.raised
  <2>1. d = Unnamed(c, ns)
    BY <1>2 DEF Unnaming
  <2>. QED  BY <2>1, UnnamedKeeps
<1>. QED  BY <1>1, <1>2

\* Closing the table of owner p for the others, its name included.
OwnerClosing(c, p, t, w, d, e, f) ==
  /\ Whole(c) /\ ~c.raised /\ c.client[w] = p /\ t = c.heap[p].table
  /\ c.seats[t] # <<>> /\ c.seats[t][1] = p
  /\ d = PlayersTableClosed(c, OthersAt(c, t)) /\ e = Unnaming(d, {c.heap[p].name})
  /\ f = Forget(e, w)

OwnerClosed(c, p, t, w, e, f) ==
  AllKnown(c, Sitting(c, t) \ {p}) /\ c.heap[p].name \in DOMAIN c.named =>
    /\ ~e.raised
    /\ Closing(c, f, {c.heap[p].name}, Sitting(c, t) \ {p}, {w})

LEMMA OwnerCloses ==
  ASSUME NEW c, NEW p \in Object, NEW t \in Object, NEW w \in Conn, NEW d, NEW e, NEW f,
         OwnerClosing(c, p, t, w, d, e, f)
  PROVE  /\ Whole(f) /\ f.heap = c.heap /\ f.seats = c.seats
         /\ Lost(c, f, w) /\ OwnerClosed(c, p, t, w, e, f)
<1>. /\ Whole(c) /\ ~c.raised /\ c.client[w] = p /\ t = c.heap[p].table
     /\ c.seats[t] # <<>> /\ c.seats[t][1] = p
     /\ d = PlayersTableClosed(c, OthersAt(c, t)) /\ e = Unnaming(d, {c.heap[p].name})
     /\ f = Forget(e, w)
  BY DEF OwnerClosing
<1>1. PICK s \in Seq(Object) : s = c.seats[t] /\ IsInjective(s)
  BY DEF Whole, IsRegistry, Once
<1>2. Len(s) \in Nat /\ DOMAIN s = 1..Len(s) /\ Len(s) # 0
  BY <1>1, EmptySeq, LenProperties
<1>3. PICK places : places = {t} \X (2..Len(s)) /\ places = OthersAt(c, t)
  BY <1>1 DEF OthersAt
<1>4. places \subseteq Object \X Nat
  BY <1>2, <1>3
<1>5. {At(c, x) : x \in places} = Sitting(c, t) \ {p}
  <2>1. ASSUME NEW x \in places  PROVE At(c, x) \in Sitting(c, t) \ {p}
    <3>1. x[1] = t /\ x[2] \in 2..Len(s) /\ At(c, x) = s[x[2]]
      BY <1>1, <1>3 DEF At
    <3>2. x[2] \in DOMAIN s /\ 1 \in DOMAIN s /\ x[2] # 1
      BY <1>2, <3>1
    <3>3. s[x[2]] # s[1]
      BY <1>1, <3>2 DEF IsInjective
    <3>. QED  BY <1>1, <3>1, <3>2, <3>3 DEF Sitting, ToSet
  <2>2. ASSUME NEW q \in Sitting(c, t) \ {p}  PROVE \E x \in places : q = At(c, x)
    <3>1. PICK k \in DOMAIN s : q = s[k]
      BY <1>1 DEF Sitting, ToSet
    <3>2. k # 1 /\ k \in 1..Len(s)
      BY <1>1, <1>2, <3>1
    <3>3. k \in 2..Len(s)
      BY <1>2, <3>2
    <3>4. <<t, k>> \in places /\ At(c, <<t, k>>) = s[k]
      BY <1>1, <1>3, <3>3 DEF At
    <3>. QED  BY <3>1, <3>4
  <2>. QED  BY <2>1, <2>2
<1>6. d = PlayersTableClosed(c, places)
  BY <1>3
<1>7. /\ Whole(d) /\ d.heap = c.heap /\ d.seats = c.seats /\ d.named = c.named
      /\ \A v \in Conn : \/ d.client[v] = c.client[v]
                         \/ d.client[v] = None /\ c.client[v] # Absent
      /\ (\A x \in places : ~Unknown(c, At(c, x))) =>
           /\ d.raised = c.raised
           /\ \A v \in Conn : d.client[v] = IF \E x \in places : c.heap[At(c, x)].ws = v
                                            THEN None ELSE c.client[v]
  BY <1>4, <1>6, ClosedKeeps
<1>8. /\ Whole(e) /\ e.client = d.client /\ e.heap = d.heap /\ e.seats = d.seats
      /\ ~d.raised /\ {c.heap[p].name} \subseteq DOMAIN d.named =>
           /\ ~e.raised
           /\ e.named = Without(d.named, {c.heap[p].name})
  <2>1. PICK ns : ns = {c.heap[p].name} /\ e = Unnaming(d, ns)
    OBVIOUS
  <2>2. /\ Whole(e) /\ e.client = d.client /\ e.heap = d.heap /\ e.seats = d.seats
        /\ ~d.raised /\ ns \subseteq DOMAIN d.named =>
             /\ ~e.raised
             /\ e.named = Without(d.named, ns)
    BY <1>7, <2>1, UnnamingKeeps
  <2>. QED  BY <2>1, <2>2
<1>9. /\ Whole(f)
      /\ f.heap = e.heap /\ f.seats = e.seats /\ f.named = e.named
      /\ \A v \in Conn : v # w => f.client[v] = e.client[v]
      /\ ~e.raised => f.client[w] = Absent
  <2>1. Whole(e) /\ f = Forget(e, w)
    BY <1>8
  <2>. QED  BY ONLY w \in Conn, <2>1, ForgetKeeps
<1>10. ASSUME AllKnown(c, Sitting(c, t) \ {p}), c.heap[p].name \in DOMAIN c.named
       PROVE  ~e.raised /\ Closing(c, f, {c.heap[p].name}, Sitting(c, t) \ {p}, {w})
  <2>1. \A x \in places : ~Unknown(c, At(c, x))
    BY <1>5, <1>10 DEF AllKnown
  <2>2. ~d.raised
    BY <1>7, <2>1
  <2>3. ~e.raised /\ f.named = Without(c.named, {c.heap[p].name})
    <3>1. {c.heap[p].name} \subseteq DOMAIN d.named
      BY <1>7, <1>10
    <3>2. ~e.raised /\ e.named = Without(d.named, {c.heap[p].name})
      BY <1>8, <2>2, <3>1
    <3>. QED  BY <1>7, <1>9, <3>2
  <2>4. ASSUME NEW v \in Conn
        PROVE  (\E x \in places : c.heap[At(c, x)].ws = v)
                 <=> (\E q \in Sitting(c, t) \ {p} : c.heap[q].ws = v)
    BY <1>5
  <2>5. ASSUME NEW v \in Conn
        PROVE  f.client[v] = IF v \in {w} THEN Absent
                             ELSE IF \E q \in Sitting(c, t) \ {p} : c.heap[q].ws = v THEN None
                             ELSE c.client[v]
    <3>1. d.client[v] = IF \E q \in Sitting(c, t) \ {p} : c.heap[q].ws = v
                        THEN None ELSE c.client[v]
      BY <1>7, <2>1, <2>4
    <3>2. e.client[v] = d.client[v]
      BY <1>8
    <3>3. CASE v = w
      BY <1>9, <2>3, <3>3
    <3>4. CASE v # w
      <4>1. f.client[v] = e.client[v]
        BY <1>9, <3>4
      <4>. QED  BY <3>1, <3>2, <3>4, <4>1
    <3>. QED  BY <3>3, <3>4
  <2>. QED  BY <1>7, <1>8, <1>9, <2>3, <2>5 DEF Closing
<1>11. ASSUME NEW v \in Conn, v # w
       PROVE  \/ f.client[v] = c.client[v]
              \/ f.client[v] = None /\ c.client[v] # Absent
  <2>1. f.client[v] = e.client[v]
    BY <1>9, <1>11
  <2>2. e.client[v] = d.client[v]
    BY <1>8
  <2>3. \/ d.client[v] = c.client[v]
        \/ d.client[v] = None /\ c.client[v] # Absent
    BY <1>7
  <2>. QED  BY <2>1, <2>2, <2>3
<1>. QED  BY <1>7, <1>8, <1>9, <1>10, <1>11 DEF Lost, OwnerClosed

\* A player leaves for a while: the seat is kept.
LEMMA PlayerLeftKeeps ==
  ASSUME NEW c, NEW p \in Object, NEW w \in Conn, NEW f,
         Whole(c), ~c.raised, c.heap[p] # Free, f = Forget(Connecting(c, p, None), w)
  PROVE  /\ Whole(f) /\ f.seats = c.seats /\ f.named = c.named /\ ~f.raised
         /\ \A v \in Conn : v # w => f.client[v] = c.client[v]
         /\ f.client[w] = Absent
         /\ \A q \in Object : q # p => f.heap[q] = c.heap[q]
         /\ f.heap[p] # Free /\ f.heap[p].name = c.heap[p].name
         /\ f.heap[p].table = c.heap[p].table /\ f.heap[p].ws = None
<1>1. PICK e : e = Connecting(c, p, None)
  OBVIOUS
<1>2. None \in Conn \cup {None}
  OBVIOUS
<1>3. /\ Whole(e)
      /\ e.client = c.client /\ e.seats = c.seats /\ e.named = c.named /\ e.raised = c.raised
      /\ \A q \in Object : q # p => e.heap[q] = c.heap[q]
      /\ e.heap[p] # Free /\ e.heap[p].name = c.heap[p].name
      /\ e.heap[p].table = c.heap[p].table /\ e.heap[p].ws = None
  BY <1>1, <1>2, ConnectedKeeps
<1>4. /\ Whole(f)
      /\ f.heap = e.heap /\ f.seats = e.seats /\ f.named = e.named /\ f.raised = e.raised
      /\ \A v \in Conn : v # w => f.client[v] = e.client[v]
      /\ ~e.raised => f.client[w] = Absent
  BY <1>1, <1>3, ForgetKeeps
<1>. QED  BY <1>3, <1>4

\* The end of a connection: one of four things, by who its player is.
LEMMA DisconnectDoes ==
  ASSUME Common, NEW w \in Conn, Disconnect(w)
  PROVE  /\ Common' /\ cleaner' = cleaner /\ club.client[w] \in Object \cup {None}
         /\ \A v \in Conn : v # w => handler'[v] = handler[v]
         /\ club.client[w] = None =>
              /\ Closing(club, club', {}, {}, {w}) /\ UNCHANGED <<timers, events>>
         /\ club.client[w] # None =>
              LET p == club.client[w]
                  t == club.heap[p].table
              IN  /\ club.heap[p] # Free /\ t \in Object
                  /\ club.seats[t] = <<>> =>
                       /\ UNCHANGED <<club, timers>> /\ events' = events \cup {"died"}
                  /\ club.seats[t] # <<>> /\ club.seats[t][1] = p =>
                       /\ club'.heap = club.heap /\ club'.seats = club.seats
                       /\ UNCHANGED timers
                       /\ events' \in {events, events \cup {"died"}}
                       /\ AllKnown(club, Sitting(club, t) \ {p})
                          /\ club.heap[p].name \in DOMAIN club.named =>
                            /\ events' = events
                            /\ Closing(club, club', {club.heap[p].name},
                                       Sitting(club, t) \ {p}, {w})
                  /\ club.seats[t] # <<>> /\ club.seats[t][1] # p =>
                       /\ club'.seats = club.seats /\ club'.named = club.named
                       /\ \A v \in Conn : v # w => club'.client[v] = club.client[v]
                       /\ club'.client[w] = Absent
                       /\ \A q \in Object : q # p => club'.heap[q] = club.heap[q]
                       /\ club'.heap[p] # Free /\ club'.heap[p].name = club.heap[p].name
                       /\ club'.heap[p].table = t /\ club'.heap[p].ws = None
                       /\ timers' = [timers EXCEPT ![p] = @ + 1] /\ events' = events
<1>. Whole(club) /\ IsRegistry(club) /\ club.raised = FALSE
  BY ClubIsRegistry DEF Common, TypeOK, Whole
<1>0. /\ handler[w] = "running" /\ cleaner' = cleaner
      /\ handler' = [handler EXCEPT ![w] = "ended"]
      /\ club.client[w] \in Object \cup {None} /\ timers \in [Object -> Nat]
  BY DEF Disconnect, Common, Handled, TypeOK, IsRegistry
<1>1. PICK d : d = club'
  OBVIOUS
<1>2. CASE club.client[w] = None
  <2>1. d = Forget(club, w) /\ UNCHANGED <<timers, events>>
    BY <1>1, <1>2 DEF Disconnect
  <2>2. /\ Whole(d)
        /\ d.heap = club.heap /\ d.seats = club.seats /\ d.named = club.named
        /\ d.raised = club.raised
        /\ \A v \in Conn : v # w => d.client[v] = club.client[v]
        /\ ~club.raised => d.client[w] = Absent
    BY <2>1, ForgetKeeps
  <2>3. Closing(club, d, {}, {}, {w})
    <3>1. club.named = Without(club.named, {})
      BY DEF Without, IsRegistry
    <3>. QED  BY <2>2, <3>1 DEF Closing
  <2>4. timers' \in [Object -> Nat] /\ Timed(club', timers')
    BY <1>0, <1>1, <2>1, <2>2 DEF Common, Timed
  <2>5. Lost(club, club', w)
    BY <1>1, <2>2 DEF Lost
  <2>6. Common' /\ \A v \in Conn : v # w => handler'[v] = handler[v]
    BY <1>0, <1>1, <2>1, <2>2, <2>4, <2>5, HandlerEnds
  <2>. QED  BY <1>0, <1>1, <1>2, <2>1, <2>3, <2>6
<1>3. CASE club.client[w] # None
  <2>1. PICK p \in Object : p = club.client[w]
    BY <1>0, <1>3
  <2>2. club.heap[p] # Free
    BY <2>1 DEF Whole, Rooted
  <2>3. PICK t \in Object : t = club.heap[p].table
    BY <2>2, Persons
  <2>4. p # None
    BY <1>3, <2>1
  <2>5. CASE club.seats[t] = <<>>
    <3>1. UNCHANGED <<club, timers>> /\ events' = events \cup {"died"}
      BY <2>1, <2>3, <2>4, <2>5 DEF Disconnect, TableOf
    <3>2. timers' \in [Object -> Nat] /\ Timed(club', timers') /\ Whole(club')
          /\ Lost(club, club', w)
      BY <1>0, <3>1 DEF Common, Timed, Lost
    <3>3. Common' /\ \A v \in Conn : v # w => handler'[v] = handler[v]
      BY <1>0, <3>1, <3>2, HandlerEnds
    <3>. QED  BY <1>0, <1>3, <2>1, <2>2, <2>3, <2>5, <3>1, <3>3
  <2>6. CASE club.seats[t] # <<>> /\ club.seats[t][1] = p
    <3>1. PICK a, e, f :
            /\ a = PlayersTableClosed(club, OthersAt(club, t))
            /\ e = Unnaming(a, {club.heap[p].name})
            /\ f = Forget(e, w)
            /\ d = [f EXCEPT !.raised = FALSE]
            /\ Happened(e, {}) /\ UNCHANGED timers
      BY <1>1, <2>1, <2>3, <2>4, <2>6 DEF Disconnect, TableOf, Owns, OthersAt, Unnaming
    <3>2. /\ Whole(f) /\ f.heap = club.heap /\ f.seats = club.seats
          /\ Lost(club, f, w)
          /\ AllKnown(club, Sitting(club, t) \ {p}) /\ club.heap[p].name \in DOMAIN club.named =>
               /\ ~e.raised
               /\ Closing(club, f, {club.heap[p].name}, Sitting(club, t) \ {p}, {w})
      <4>1. PICK c : c = club
        OBVIOUS
      <4>2. OwnerClosing(c, p, t, w, a, e, f)
        BY <2>1, <2>3, <2>6, <3>1, <4>1 DEF OwnerClosing
      <4>3. /\ Whole(f) /\ f.heap = c.heap /\ f.seats = c.seats
            /\ Lost(c, f, w) /\ OwnerClosed(c, p, t, w, e, f)
        BY <4>2, OwnerCloses
      <4>4. OwnerClosed(club, p, t, w, e, f)
        BY <4>1, <4>3
      <4>5. AllKnown(club, Sitting(club, t) \ {p}) /\ club.heap[p].name \in DOMAIN club.named =>
              /\ ~e.raised
              /\ Closing(club, f, {club.heap[p].name}, Sitting(club, t) \ {p}, {w})
        BY <4>4 DEF OwnerClosed
      <4>. QED  BY <4>1, <4>3, <4>5
    <3>3. Whole(d) /\ Same(f, d) /\ d.raised = FALSE
      BY <3>1, <3>2, EndKeeps
    <3>4. /\ events' \in {events, events \cup {"died"}}
          /\ ~e.raised => events' = events
      BY <3>1 DEF Happened
    <3>5. /\ d.heap = club.heap /\ d.seats = club.seats
          /\ Closing(club, f, {club.heap[p].name}, Sitting(club, t) \ {p}, {w})
               => Closing(club, d, {club.heap[p].name}, Sitting(club, t) \ {p}, {w})
      BY <3>2, <3>3 DEF Same, Closing
    <3>6. Lost(club, club', w)
      BY <1>1, <3>2, <3>3 DEF Same, Lost
    <3>7. timers' \in [Object -> Nat] /\ Timed(club', timers')
      BY <1>0, <1>1, <3>1, <3>5 DEF Common, Timed
    <3>8. Common' /\ \A v \in Conn : v # w => handler'[v] = handler[v]
      BY <1>0, <1>1, <3>3, <3>4, <3>6, <3>7, HandlerEnds
    <3>9. AllKnown(club, Sitting(club, t) \ {p}) /\ club.heap[p].name \in DOMAIN club.named =>
            /\ events' = events
            /\ Closing(club, club', {club.heap[p].name}, Sitting(club, t) \ {p}, {w})
      BY <1>1, <3>2, <3>4, <3>5
    <3>10. club'.heap = club.heap /\ club'.seats = club.seats
      BY <1>1, <3>5
    <3>. QED  BY <1>0, <1>3, <2>1, <2>2, <2>3, <2>6, <3>1, <3>4, <3>8, <3>9, <3>10
  <2>7. CASE club.seats[t] # <<>> /\ club.seats[t][1] # p
    <3>1. /\ d = Forget(Connecting(club, p, None), w)
          /\ timers' = [timers EXCEPT ![p] = @ + 1] /\ events' = events
      BY <1>1, <2>1, <2>3, <2>4, <2>7 DEF Disconnect, TableOf, Owns, PlayerLeft, Connecting
    <3>2. /\ Whole(d) /\ d.seats = club.seats /\ d.named = club.named /\ d.raised = FALSE
          /\ \A v \in Conn : v # w => d.client[v] = club.client[v]
          /\ d.client[w] = Absent
          /\ \A q \in Object : q # p => d.heap[q] = club.heap[q]
          /\ d.heap[p] # Free /\ d.heap[p].name = club.heap[p].name
          /\ d.heap[p].table = club.heap[p].table /\ d.heap[p].ws = None
      <4>1. PICK c : c = club
        OBVIOUS
      <4>2. Whole(c) /\ ~c.raised /\ c.heap[p] # Free /\ d = Forget(Connecting(c, p, None), w)
        BY <2>2, <3>1, <4>1
      <4>3. /\ Whole(d) /\ d.seats = c.seats /\ d.named = c.named /\ ~d.raised
            /\ \A v \in Conn : v # w => d.client[v] = c.client[v]
            /\ d.client[w] = Absent
            /\ \A q \in Object : q # p => d.heap[q] = c.heap[q]
            /\ d.heap[p] # Free /\ d.heap[p].name = c.heap[p].name
            /\ d.heap[p].table = c.heap[p].table /\ d.heap[p].ws = None
        BY ONLY w \in Conn, p \in Object, <4>2, PlayerLeftKeeps
      <4>4. d.raised = FALSE
        BY <4>3 DEF Whole, IsRegistry
      <4>. QED  BY <4>1, <4>3, <4>4
    <3>3. timers' \in [Object -> Nat] /\ \A q \in Object : q # p => timers'[q] = timers[q]
      BY <1>0, <3>1
    <3>4. Timed(club', timers')
      <4>1. ASSUME NEW q \in Object, timers'[q] > 0  PROVE d.heap[q] # Free
        <5>1. CASE q = p
          BY <3>2, <5>1
        <5>2. CASE q # p
          <6>1. timers[q] > 0
            BY <3>3, <4>1, <5>2
          <6>2. club.heap[q] # Free
            BY <6>1 DEF Common, Timed
          <6>. QED  BY <3>2, <5>2, <6>2
        <5>. QED  BY <5>1, <5>2
      <4>. QED  BY <1>1, <4>1 DEF Timed
    <3>5. Lost(club, club', w)
      BY <1>1, <3>2 DEF Lost
    <3>6. Common' /\ \A v \in Conn : v # w => handler'[v] = handler[v]
      BY <1>0, <1>1, <3>1, <3>2, <3>3, <3>4, <3>5, HandlerEnds
    <3>. QED  BY <1>0, <1>1, <1>3, <2>1, <2>2, <2>3, <2>7, <3>1, <3>2, <3>6
  <2>. QED  BY <2>5, <2>6, <2>7
<1>. QED  BY <1>0, <1>2, <1>3

\* The players at the tables named N, and their places.
SeatedAt(c, N) == UNION {Sitting(c, c.named[n]) : n \in N}
PlacesAt(c, N) == UNION {{t} \X DOMAIN c.seats[t] : t \in {c.named[n] : n \in N}}

LEMMA PlacesOfSeated ==
  ASSUME NEW c, NEW N \in SUBSET DOMAIN c.named, IsRegistry(c)
  PROVE  /\ PlacesAt(c, N) \subseteq Object \X Nat
         /\ {At(c, x) : x \in PlacesAt(c, N)} = SeatedAt(c, N)
<1>1. ASSUME NEW n \in N
      PROVE  /\ c.named[n] \in Object /\ DOMAIN c.seats[c.named[n]] \subseteq Nat
             /\ Sitting(c, c.named[n])
                  = {c.seats[c.named[n]][k] : k \in DOMAIN c.seats[c.named[n]]}
  <2>1. PICK t \in Object : t = c.named[n]
    BY DEF IsRegistry
  <2>2. PICK s \in Seq(Object) : s = c.seats[t]
    BY DEF IsRegistry
  <2>3. DOMAIN s \subseteq Nat
    BY LenProperties
  <2>. QED  BY <2>1, <2>2, <2>3 DEF Sitting, ToSet
<1>2. ASSUME NEW x \in PlacesAt(c, N)
      PROVE  x \in Object \X Nat /\ At(c, x) \in SeatedAt(c, N)
  <2>1. PICK n \in N : x \in {c.named[n]} \X DOMAIN c.seats[c.named[n]]
    BY DEF PlacesAt
  <2>2. PICK k \in DOMAIN c.seats[c.named[n]] : x = <<c.named[n], k>>
    BY <2>1
  <2>3. At(c, x) = c.seats[c.named[n]][k]
    BY <2>2 DEF At
  <2>. QED  BY <1>1, <2>2, <2>3 DEF SeatedAt
<1>3. ASSUME NEW q \in SeatedAt(c, N)  PROVE \E x \in PlacesAt(c, N) : q = At(c, x)
  <2>1. PICK n \in N : q \in Sitting(c, c.named[n])
    BY DEF SeatedAt
  <2>2. PICK k \in DOMAIN c.seats[c.named[n]] : q = c.seats[c.named[n]][k]
    BY <1>1, <2>1
  <2>3. PICK x : x = <<c.named[n], k>>
    OBVIOUS
  <2>4. x \in {c.named[n]} \X DOMAIN c.seats[c.named[n]]
    BY <2>3
  <2>5. x \in PlacesAt(c, N)
    BY <2>4 DEF PlacesAt
  <2>6. At(c, x) = q
    BY <2>2, <2>3 DEF At
  <2>. QED  BY <2>5, <2>6
<1>. QED  BY <1>2, <1>3

\* Closing the tables named N, with their names.
IdleClosing(c, N, d, e) ==
  /\ Whole(c) /\ ~c.raised /\ N \subseteq DOMAIN c.named
  /\ d = PlayersTableClosed(c, PlacesAt(c, N)) /\ e = Unnaming(d, N)

IdleClosed(c, N, e) ==
  AllKnown(c, SeatedAt(c, N)) => ~e.raised /\ Closing(c, e, N, SeatedAt(c, N), {})

LEMMA IdleCloses ==
  ASSUME NEW c, NEW N, NEW d, NEW e, IdleClosing(c, N, d, e)
  PROVE  /\ Whole(e) /\ e.heap = c.heap /\ e.seats = c.seats
         /\ \A v \in Conn : \/ e.client[v] = c.client[v]
                            \/ e.client[v] = None /\ c.client[v] # Absent
         /\ IdleClosed(c, N, e)
<1>1. Whole(c) /\ ~c.raised /\ N \in SUBSET DOMAIN c.named
  BY DEF IdleClosing
<1>2. PICK places : places = PlacesAt(c, N)
  OBVIOUS
<1>3. d = PlayersTableClosed(c, places) /\ e = Unnaming(d, N)
  BY <1>2 DEF IdleClosing
<1>4. places \subseteq Object \X Nat /\ {At(c, x) : x \in places} = SeatedAt(c, N)
  BY <1>1, <1>2, PlacesOfSeated DEF Whole
<1>5. /\ Whole(d) /\ d.heap = c.heap /\ d.seats = c.seats /\ d.named = c.named
      /\ \A v \in Conn : \/ d.client[v] = c.client[v]
                         \/ d.client[v] = None /\ c.client[v] # Absent
      /\ (\A x \in places : ~Unknown(c, At(c, x))) =>
           /\ d.raised = c.raised
           /\ \A v \in Conn : d.client[v] = IF \E x \in places : c.heap[At(c, x)].ws = v
                                            THEN None ELSE c.client[v]
  BY <1>1, <1>3, <1>4, ClosedKeeps
<1>6. /\ Whole(e) /\ e.client = d.client /\ e.heap = d.heap /\ e.seats = d.seats
      /\ ~d.raised /\ N \subseteq DOMAIN d.named =>
           /\ ~e.raised
           /\ e.named = Without(d.named, N)
  BY <1>3, <1>5, UnnamingKeeps
<1>7. ASSUME AllKnown(c, SeatedAt(c, N))
      PROVE  ~e.raised /\ Closing(c, e, N, SeatedAt(c, N), {})
  <2>1. \A x \in places : ~Unknown(c, At(c, x))
    BY <1>4, <1>7 DEF AllKnown
  <2>2. ~d.raised /\ N \subseteq DOMAIN d.named
    BY <1>1, <1>5, <2>1
  <2>3. ASSUME NEW v \in Conn
        PROVE  (\E x \in places : c.heap[At(c, x)].ws = v)
                 <=> (\E q \in SeatedAt(c, N) : c.heap[q].ws = v)
    BY <1>4
  <2>4. \A v \in Conn : e.client[v] = IF \E q \in SeatedAt(c, N) : c.heap[q].ws = v
                                      THEN None ELSE c.client[v]
    BY <1>5, <1>6, <2>1, <2>3
  <2>. QED  BY <1>5, <1>6, <2>2, <2>4 DEF Closing
<1>. QED  BY <1>5, <1>6, <1>7 DEF IdleClosed

\* Closing idle tables: what is raised ends the task.
LEMMA PeriodicCleanDoes ==
  ASSUME Common, NEW idle \in SUBSET DOMAIN club.named, PeriodicClean(idle)
  PROVE  /\ Common' /\ cleaner
         /\ club'.heap = club.heap /\ club'.seats = club.seats
         /\ UNCHANGED <<handler, timers, events>>
         /\ AllKnown(club, SeatedAt(club, idle)) =>
              cleaner' /\ Closing(club, club', idle, SeatedAt(club, idle), {})
<1>. Whole(club) /\ IsRegistry(club) /\ club.raised = FALSE
  BY ClubIsRegistry DEF Common, TypeOK, Whole
<1>1. PICK c, d, e, f :
        /\ c = club /\ f = club'
        /\ d = PlayersTableClosed(c, PlacesAt(c, idle)) /\ e = Unnaming(d, idle)
        /\ f = [e EXCEPT !.raised = FALSE] /\ cleaner' = ~e.raised
  BY DEF PeriodicClean, PlacesAt, Unnaming
<1>2. cleaner /\ UNCHANGED <<handler, timers, events>>
  BY DEF PeriodicClean
<1>3. IdleClosing(c, idle, d, e)
  BY <1>1 DEF IdleClosing
<1>4. /\ Whole(e) /\ e.heap = c.heap /\ e.seats = c.seats
      /\ \A v \in Conn : \/ e.client[v] = c.client[v]
                         \/ e.client[v] = None /\ c.client[v] # Absent
      /\ IdleClosed(c, idle, e)
  BY <1>3, IdleCloses
<1>5. Whole(f) /\ Same(e, f) /\ f.raised = FALSE
  BY <1>1, <1>4, EndKeeps
<1>6. AllKnown(c, SeatedAt(c, idle)) =>
        ~e.raised /\ Closing(c, f, idle, SeatedAt(c, idle), {})
  BY <1>4, <1>5 DEF IdleClosed, Same, Closing
<1>7. \A v \in Conn : \/ f.client[v] = c.client[v]
                      \/ f.client[v] = None /\ c.client[v] # Absent
  BY <1>4, <1>5 DEF Same
<1>8. Handled(f, handler')
  BY <1>1, <1>2, <1>7, Values DEF Common, Handled
<1>9. f.heap = c.heap /\ f.seats = c.seats
  BY <1>4, <1>5 DEF Same
<1>10. /\ Timed(f, timers') /\ timers' \in [Object -> Nat] /\ cleaner' \in BOOLEAN
       /\ handler' \in [Conn -> {"none", "running", "ended"}]
       /\ events' \subseteq {"taken", "switched", "rejoined", "died"}
  BY <1>1, <1>2, <1>9 DEF Common, TypeOK, Timed
<1>11. Common'
  BY <1>1, <1>5, <1>8, <1>10, CommonNext
<1>12. AllKnown(club, SeatedAt(club, idle)) =>
         cleaner' /\ Closing(club, club', idle, SeatedAt(club, idle), {})
  BY <1>1, <1>6
<1>. QED  BY <1>1, <1>2, <1>9, <1>11, <1>12

-----------------------------------------------------------------------------
(* As long as no connection is taken over and nobody switches tables.      *)

\* The tables of the club have the names of their owners, who sit first and
\* do not leave.
Heads(c, tm) ==
  \A n \in DOMAIN c.named :
    /\ c.heap[c.named[n]].name = n
    /\ c.seats[c.named[n]] # <<>> /\ c.seats[c.named[n]][1] = c.named[n]
    /\ tm[c.named[n]] = 0

\* Who sits there on a connection is the player of its client.
Reached(c) ==
  \A n \in DOMAIN c.named : \A p \in Sitting(c, c.named[n]) :
    c.heap[p].ws # None => c.client[c.heap[p].ws] = p

\* The player of a client is connected to it and sits, if at all, at a table
\* of the club.
InClub(c, t) == \E n \in DOMAIN c.named : c.named[n] = t
Joined(c) ==
  \A w \in Conn : \A p \in Object : c.client[w] = p =>
    /\ c.heap[p].ws = w
    /\ \A t \in Object : p \in Sitting(c, t) => InClub(c, t)

Served(c, tm) == Heads(c, tm) /\ Reached(c) /\ Joined(c)

\* Named tables are objects, and different names are of different tables.
LEMMA NamedTables ==
  ASSUME NEW c, NEW tm, Whole(c), Served(c, tm), NEW n \in DOMAIN c.named
  PROVE  /\ c.named[n] \in Object /\ n \in Name
         /\ c.named[n] \in Sitting(c, c.named[n])
         /\ c.heap[c.named[n]].table = c.named[n]
         /\ \A m \in DOMAIN c.named : c.named[m] = c.named[n] => m = n
         /\ \A q \in Sitting(c, c.named[n]) :
              /\ q \in Object /\ c.heap[q] \in Person /\ c.heap[q].table = c.named[n]
              /\ c.heap[q].ws \in Conn \cup {None}
<1>1. c.named[n] \in Object /\ n \in Name
  BY DEF Whole, IsRegistry
<1>2. c.named[n] \in Sitting(c, c.named[n])
  <2>1. c.seats[c.named[n]] # <<>> /\ c.seats[c.named[n]][1] = c.named[n]
    BY DEF Served, Heads
  <2>. QED  BY <1>1, <2>1, SittingObjects DEF Whole
<1>3. ASSUME NEW q \in Sitting(c, c.named[n])
      PROVE  /\ q \in Object /\ c.heap[q] \in Person /\ c.heap[q].table = c.named[n]
             /\ c.heap[q].ws \in Conn \cup {None}
  <2>1. q \in Object /\ c.heap[q] # Free /\ c.heap[q].table = c.named[n]
    BY <1>1, SittingObjects DEF Whole, SeatsOwn
  <2>2. c.heap[q] \in Person /\ c.heap[q].ws \in Conn \cup {None}
    BY <2>1, Persons DEF Whole
  <2>. QED  BY <2>1, <2>2
<1>4. \A m \in DOMAIN c.named : c.named[m] = c.named[n] => m = n
  BY DEF Served, Heads
<1>. QED  BY <1>1, <1>2, <1>3, <1>4

\* All who sit there are known.
LEMMA SeatedAreKnown ==
  ASSUME NEW c, NEW tm, NEW N \in SUBSET DOMAIN c.named, Whole(c), Served(c, tm)
  PROVE  AllKnown(c, SeatedAt(c, N))
<1>. SUFFICES ASSUME NEW q \in SeatedAt(c, N)  PROVE ~Unknown(c, q)
  BY DEF AllKnown
<1>1. PICK n \in N : q \in Sitting(c, c.named[n])
  BY DEF SeatedAt
<1>2. q \in Object
  <2>1. PICK m \in DOMAIN c.named : m = n
    OBVIOUS
  <2>. QED  BY <1>1, <2>1, NamedTables
<1>3. c.heap[q].ws # None => c.client[c.heap[q].ws] = q
  BY <1>1 DEF Served, Reached
<1>. QED  BY <1>2, <1>3, Values DEF Unknown

\* A new player at a table of the club, or with a new one.
LEMMA NewcomerServed ==
  ASSUME NEW c, NEW d, NEW tm, NEW w \in Conn, NEW p \in Object, NEW tb \in Object, NEW n \in Name,
         Whole(c), Whole(d), Served(c, tm), Newcomer(c, d, w, p, tb, n),
         c.client[w] \notin Object, tm[p] = 0,
         \A m \in DOMAIN c.named : m \in DOMAIN d.named /\ d.named[m] = c.named[m],
         \A m \in DOMAIN d.named : m \in DOMAIN c.named \/ (m = n /\ d.named[m] = p /\ tb = p),
         \E m \in DOMAIN d.named : d.named[m] = tb
  PROVE  Served(d, tm)
<1>1. /\ c.heap[p] = Free /\ c.seats[p] = <<>>
      /\ \A q \in Object : q # p => d.heap[q] = c.heap[q]
      /\ \A u \in Object : Sitting(d, u) \subseteq Sitting(c, u) \cup {p}
      /\ \A u \in Object : u # tb => d.seats[u] = c.seats[u]
      /\ Sitting(d, tb) = Sitting(c, tb) \cup {p}
      /\ d.seats[tb] # <<>>
      /\ d.seats[tb][1] = IF c.seats[tb] = <<>> THEN p ELSE c.seats[tb][1]
  BY DEF Newcomer
<1>2. d.heap[p] # Free /\ d.heap[p].name = n /\ d.heap[p].table = tb /\ d.heap[p].ws = w
  BY NewcomerIsPerson
<1>3. d.client[w] = p /\ \A v \in Conn : v # w => d.client[v] = c.client[v]
  BY DEF Newcomer, Whole, IsRegistry
<1>4. ASSUME NEW m \in DOMAIN c.named
      PROVE  /\ c.named[m] \in Object /\ c.named[m] # p
             /\ d.heap[c.named[m]].name = m
             /\ d.seats[c.named[m]] # <<>> /\ d.seats[c.named[m]][1] = c.named[m]
             /\ tm[c.named[m]] = 0
  <2>1. /\ c.named[m] \in Object /\ c.heap[c.named[m]].name = m
        /\ c.seats[c.named[m]] # <<>> /\ c.seats[c.named[m]][1] = c.named[m]
        /\ tm[c.named[m]] = 0
    BY NamedTables DEF Served, Heads
  <2>2. c.named[m] # p
    BY <1>1, <2>1
  <2>. QED  BY <1>1, <2>1, <2>2
<1>5. Heads(d, tm)
  <2>. SUFFICES ASSUME NEW m \in DOMAIN d.named
       PROVE  /\ d.heap[d.named[m]].name = m
              /\ d.seats[d.named[m]] # <<>> /\ d.seats[d.named[m]][1] = d.named[m]
              /\ tm[d.named[m]] = 0
    BY DEF Heads
  <2>1. CASE m \in DOMAIN c.named
    BY <1>4, <2>1
  <2>2. CASE m = n /\ d.named[m] = p /\ tb = p
    BY <1>1, <1>2, <2>2
  <2>. QED  BY <2>1, <2>2
<1>6. Reached(d)
  <2>. SUFFICES ASSUME NEW m \in DOMAIN d.named, NEW q \in Sitting(d, d.named[m]),
                       d.heap[q].ws # None
       PROVE  d.client[d.heap[q].ws] = q
    BY DEF Reached
  <2>1. CASE q = p
    BY <1>2, <1>3, <2>1
  <2>2. CASE q # p
    <3>1. m \in DOMAIN c.named /\ q \in Sitting(c, c.named[m])
      <4>1. d.named[m] \in Object
        BY DEF Whole, IsRegistry
      <4>2. q \in Sitting(c, d.named[m])
        BY <1>1, <2>2, <4>1
      <4>3. d.named[m] # p
        BY <1>1, <4>1, <4>2, SittingObjects DEF Whole
      <4>. QED  BY <4>2, <4>3
    <3>2. q \in Object /\ c.heap[q].ws \in Conn \cup {None} /\ d.heap[q] = c.heap[q]
      <4>1. PICK k \in DOMAIN c.named : k = m
        BY <3>1
      <4>2. q \in Object /\ c.heap[q].ws \in Conn \cup {None}
        BY <3>1, <4>1, NamedTables
      <4>. QED  BY <1>1, <2>2, <4>2
    <3>3. c.client[c.heap[q].ws] = q
      BY <3>1, <3>2 DEF Served, Reached
    <3>4. c.heap[q].ws # w
      BY <3>2, <3>3
    <3>. QED  BY <1>3, <3>2, <3>3, <3>4
  <2>. QED  BY <2>1, <2>2
<1>7. Joined(d)
  <2>. SUFFICES ASSUME NEW v \in Conn, NEW q \in Object, d.client[v] = q
       PROVE  /\ d.heap[q].ws = v
              /\ \A u \in Object : q \in Sitting(d, u) => InClub(d, u)
    BY DEF Joined
  <2>1. CASE v = w
    <3>1. \A u \in Object : p \in Sitting(d, u) => u = tb
      BY <1>2 DEF Whole, SeatsOwn
    <3>2. InClub(d, tb)
      BY DEF InClub
    <3>. QED  BY <1>2, <1>3, <2>1, <3>1, <3>2
  <2>2. CASE v # w
    <3>1. q = c.client[v]
      BY <1>3, <2>2
    <3>2. /\ c.heap[q] # Free /\ c.heap[q].ws = v
          /\ \A u \in Object : q \in Sitting(c, u) => InClub(c, u)
      BY <3>1 DEF Served, Joined, Whole, Rooted
    <3>3. q # p /\ d.heap[q] = c.heap[q]
      BY <1>1, <3>2
    <3>4. ASSUME NEW u \in Object, q \in Sitting(d, u)  PROVE InClub(d, u)
      <4>1. q \in Sitting(c, u)
        BY <1>1, <3>3, <3>4
      <4>2. InClub(c, u)
        BY <3>2, <4>1
      <4>. QED  BY <4>2 DEF InClub
    <3>. QED  BY <3>1, <3>2, <3>3, <3>4
  <2>. QED  BY <2>1, <2>2
<1>. QED  BY <1>5, <1>6, <1>7 DEF Served

\* Who comes back to a seat whose connection was lost.
LEMMA ReturnServed ==
  ASSUME NEW c, NEW d, NEW tm, NEW w \in Conn, NEW p \in Object, NEW k \in DOMAIN c.named,
         Whole(c), Whole(d), Served(c, tm), Return(c, d, w, p), d.named = c.named,
         p \in Sitting(c, c.named[k]), c.heap[p].ws = None,
         c.client[w] \notin Object \ {p}
  PROVE  Served(d, tm)
<1>1. /\ \A q \in Object : q # p => d.heap[q] = c.heap[q]
      /\ d.heap[p].name = c.heap[p].name
      /\ d.heap[p].table = c.heap[p].table /\ d.heap[p].ws = w
      /\ d.client = [c.client EXCEPT ![w] = p]
      /\ d.seats = c.seats
  BY DEF Return
<1>2. d.client[w] = p /\ \A v \in Conn : v # w => d.client[v] = c.client[v]
  BY <1>1 DEF Whole, IsRegistry
<1>3. \A v \in Conn : c.client[v] # p
  BY Values DEF Served, Joined
<1>4. c.client[w] \notin Object
  BY <1>3
<1>5. \A u \in Object : Sitting(d, u) = Sitting(c, u)
  BY <1>1 DEF Sitting
<1>6. \A q \in Object : d.heap[q].name = c.heap[q].name
  BY <1>1
<1>7. \A m \in DOMAIN c.named : c.named[m] \in Object
  BY NamedTables
<1>8. Heads(d, tm)
  BY <1>1, <1>6, <1>7 DEF Heads, Served
<1>9. Reached(d)
  <2>. SUFFICES ASSUME NEW m \in DOMAIN c.named, NEW q \in Sitting(c, c.named[m]),
                       d.heap[q].ws # None
       PROVE  d.client[d.heap[q].ws] = q
    BY <1>5, <1>7 DEF Reached
  <2>1. CASE q = p
    BY <1>1, <1>2, <2>1
  <2>2. CASE q # p
    <3>1. q \in Object /\ c.heap[q].ws \in Conn \cup {None}
      <4>1. Whole(c) /\ Served(c, tm) /\ q \in Sitting(c, c.named[m])
        OBVIOUS
      <4>. QED  BY ONLY m \in DOMAIN c.named, <4>1, NamedTables
    <3>2. c.client[c.heap[q].ws] = q
      BY <1>1, <2>2, <3>1 DEF Served, Reached
    <3>3. c.heap[q].ws # w
      BY <1>4, <3>1, <3>2
    <3>. QED  BY <1>1, <1>2, <2>2, <3>1, <3>2, <3>3
  <2>. QED  BY <2>1, <2>2
<1>10. Joined(d)
  <2>. SUFFICES ASSUME NEW v \in Conn, NEW q \in Object, d.client[v] = q
       PROVE  /\ d.heap[q].ws = v
              /\ \A u \in Object : q \in Sitting(d, u) => InClub(d, u)
    BY DEF Joined
  <2>1. CASE v = w
    <3>1. \A u \in Object : p \in Sitting(c, u) => u = c.named[k]
      BY <1>7 DEF Whole, SeatsOwn
    <3>2. InClub(d, c.named[k])
      BY DEF InClub
    <3>. QED  BY <1>1, <1>2, <1>5, <2>1, <3>1, <3>2
  <2>2. CASE v # w
    <3>1. q = c.client[v]
      BY <1>2, <2>2
    <3>2. /\ c.heap[q].ws = v
          /\ \A u \in Object : q \in Sitting(c, u) => InClub(c, u)
      BY <3>1 DEF Served, Joined
    <3>3. q # p /\ d.heap[q] = c.heap[q]
      BY <1>1, <1>3, <3>1
    <3>4. \A u \in Object : InClub(c, u) => InClub(d, u)
      BY DEF InClub
    <3>. QED  BY <1>5, <3>1, <3>2, <3>3, <3>4
  <2>. QED  BY <2>1, <2>2
<1>. QED  BY <1>8, <1>9, <1>10 DEF Served

\* Tables are closed and who sat there has no client any more.
LEMMA ClosingServed ==
  ASSUME NEW c, NEW d, NEW tm, NEW N \in SUBSET DOMAIN c.named, NEW P, NEW gone \in SUBSET Conn,
         Whole(c), Whole(d), Served(c, tm), Closing(c, d, N, P, gone),
         P \subseteq SeatedAt(c, N),
         \A v \in gone : c.client[v] = None \/ c.client[v] \in SeatedAt(c, N),
         \A q \in SeatedAt(c, N) : q \in P \/ \E v \in gone : c.client[v] = q
  PROVE  Served(d, tm)
<1>1. /\ d.heap = c.heap /\ \A u : Sitting(d, u) = Sitting(c, u) /\ d.seats = c.seats
      /\ DOMAIN d.named = DOMAIN c.named \ N
      /\ \A m \in DOMAIN c.named \ N : d.named[m] = c.named[m]
  BY DEF Closing, Without, Sitting
<1>2. ASSUME NEW v \in Conn
      PROVE  d.client[v] = IF v \in gone THEN Absent
                           ELSE IF \E q \in P : c.heap[q].ws = v THEN None
                           ELSE c.client[v]
  BY DEF Closing
<1>3. ASSUME NEW q \in SeatedAt(c, N)
      PROVE  /\ q \in Object /\ \E n \in N : c.named[n] = c.heap[q].table
             /\ c.heap[q].ws # None => c.client[c.heap[q].ws] = q
  <2>1. PICK n \in N : q \in Sitting(c, c.named[n])
    BY DEF SeatedAt
  <2>2. PICK m \in DOMAIN c.named : m = n
    OBVIOUS
  <2>3. q \in Object /\ c.heap[q].table = c.named[m]
    BY <2>1, <2>2, NamedTables
  <2>. QED  BY <2>1, <2>2, <2>3 DEF Served, Reached
<1>4. ASSUME NEW m \in DOMAIN c.named, m \notin N, NEW q \in Sitting(c, c.named[m])
      PROVE  /\ q \in Object /\ q \notin SeatedAt(c, N)
             /\ c.heap[q].ws \in Conn \cup {None}
  <2>1. /\ q \in Object /\ c.heap[q].table = c.named[m] /\ c.heap[q].ws \in Conn \cup {None}
        /\ \A k \in DOMAIN c.named : c.named[k] = c.named[m] => k = m
    BY NamedTables
  <2>. QED  BY <1>3, <1>4, <2>1
<1>5. Heads(d, tm)
  BY <1>1 DEF Served, Heads
<1>6. Reached(d)
  <2>. SUFFICES ASSUME NEW m \in DOMAIN c.named, m \notin N, NEW q \in Sitting(c, c.named[m]),
                       c.heap[q].ws # None
       PROVE  d.client[c.heap[q].ws] = q
    BY <1>1 DEF Reached
  <2>1. q \in Object /\ q \notin SeatedAt(c, N) /\ c.heap[q].ws \in Conn \cup {None}
    BY <1>4
  <2>2. PICK v \in Conn : v = c.heap[q].ws
    BY <2>1
  <2>3. c.client[v] = q
    BY <2>2 DEF Served, Reached
  <2>4. v \notin gone
    BY <2>1, <2>3, Values
  <2>5. ASSUME NEW r \in P, c.heap[r].ws = v  PROVE FALSE
    BY <1>3, <2>1, <2>3, <2>5, Values
  <2>. QED  BY <1>2, <2>2, <2>3, <2>4, <2>5
<1>7. Joined(d)
  <2>. SUFFICES ASSUME NEW v \in Conn, NEW q \in Object, d.client[v] = q
       PROVE  /\ d.heap[q].ws = v
              /\ \A u \in Object : q \in Sitting(d, u) => InClub(d, u)
    BY DEF Joined
  <2>1. v \notin gone /\ (\A r \in P : c.heap[r].ws # v) /\ c.client[v] = q
    BY <1>2, Values
  <2>2. /\ c.heap[q].ws = v
        /\ \A u \in Object : q \in Sitting(c, u) => InClub(c, u)
    BY <2>1 DEF Served, Joined
  <2>3. q \notin SeatedAt(c, N)
    <3>1. ASSUME NEW x \in gone, c.client[x] = q  PROVE x = v
      BY <2>2, <3>1 DEF Served, Joined
    <3>. QED  BY <2>1, <2>2, <3>1
  <2>4. ASSUME NEW u \in Object, q \in Sitting(c, u)  PROVE InClub(d, u)
    <3>1. PICK m \in DOMAIN c.named : c.named[m] = u
      BY <2>2, <2>4 DEF InClub
    <3>2. m \notin N
      BY <2>3, <2>4, <3>1 DEF SeatedAt
    <3>. QED  BY <1>1, <3>1, <3>2 DEF InClub
  <2>. QED  BY <1>1, <2>2, <2>4
<1>. QED  BY <1>5, <1>6, <1>7 DEF Served

\* A player who is no owner leaves for a while.
LEMMA LeftServed ==
  ASSUME NEW c, NEW d, NEW tm, NEW tn, NEW w \in Conn, NEW p \in Object,
         Whole(c), Whole(d), Served(c, tm), c.client[w] = p,
         d.seats = c.seats, d.named = c.named,
         \A v \in Conn : v # w => d.client[v] = c.client[v], d.client[w] = Absent,
         \A q \in Object : q # p => d.heap[q] = c.heap[q],
         d.heap[p].name = c.heap[p].name, d.heap[p].ws = None,
         \A q \in Object : q # p => tn[q] = tm[q],
         \A m \in DOMAIN c.named : c.named[m] # p
  PROVE  Served(d, tn)
<1>1. \A u : Sitting(d, u) = Sitting(c, u)
  BY DEF Sitting
<1>2. \A m \in DOMAIN c.named : c.named[m] \in Object
  BY NamedTables
<1>3. Heads(d, tn)
  BY <1>2 DEF Served, Heads
<1>4. c.heap[p].ws = w
  BY DEF Served, Joined
<1>5. Reached(d)
  <2>. SUFFICES ASSUME NEW m \in DOMAIN c.named, NEW q \in Sitting(c, c.named[m]),
                       d.heap[q].ws # None
       PROVE  d.client[d.heap[q].ws] = q
    BY <1>1 DEF Reached
  <2>1. q \in Object /\ c.heap[q].ws \in Conn \cup {None}
    <3>1. Whole(c) /\ Served(c, tm) /\ q \in Sitting(c, c.named[m])
      OBVIOUS
    <3>. QED  BY ONLY m \in DOMAIN c.named, <3>1, NamedTables
  <2>2. q # p /\ d.heap[q] = c.heap[q]
    BY <2>1
  <2>3. c.client[c.heap[q].ws] = q
    BY <2>2 DEF Served, Reached
  <2>4. c.heap[q].ws # w
    BY <2>2, <2>3
  <2>. QED  BY <2>1, <2>2, <2>3, <2>4
<1>6. Joined(d)
  <2>. SUFFICES ASSUME NEW v \in Conn, NEW q \in Object, d.client[v] = q
       PROVE  /\ d.heap[q].ws = v
              /\ \A u \in Object : q \in Sitting(d, u) => InClub(d, u)
    BY DEF Joined
  <2>1. v # w /\ c.client[v] = q
    BY Values
  <2>2. c.heap[q].ws = v /\ \A u \in Object : q \in Sitting(c, u) => InClub(c, u)
    BY <2>1 DEF Served, Joined
  <2>3. q # p
    BY <1>4, <2>1, <2>2
  <2>. QED  BY <1>1, <2>2, <2>3 DEF InClub
<1>. QED  BY <1>3, <1>5, <1>6 DEF Served

\* A player with a timer is removed: it is no owner of a table of the club.
LEMMA RemovedServed ==
  ASSUME NEW c, NEW d, NEW tm, NEW tn, NEW p \in Object,
         Whole(c), Whole(d), Served(c, tm), tm[p] # 0,
         d.client = c.client, d.heap = c.heap, d.named = c.named,
         \A u \in Object :
           /\ Sitting(d, u) = Sitting(c, u) \ {p}
           /\ c.seats[u] # <<>> /\ c.seats[u][1] # p
                => d.seats[u] # <<>> /\ d.seats[u][1] = c.seats[u][1],
         \A q \in Object : q # p => tn[q] = tm[q]
  PROVE  Served(d, tn)
<1>1. \A m \in DOMAIN c.named : c.named[m] \in Object /\ c.named[m] # p
  BY NamedTables DEF Served, Heads
<1>2. Heads(d, tn)
  <2>. SUFFICES ASSUME NEW m \in DOMAIN c.named
       PROVE  /\ c.heap[c.named[m]].name = m
              /\ d.seats[c.named[m]] # <<>> /\ d.seats[c.named[m]][1] = c.named[m]
              /\ tn[c.named[m]] = 0
    BY DEF Heads
  <2>1. /\ c.heap[c.named[m]].name = m
        /\ c.seats[c.named[m]] # <<>> /\ c.seats[c.named[m]][1] = c.named[m]
        /\ tm[c.named[m]] = 0
    BY DEF Served, Heads
  <2>. QED  BY <1>1, <2>1
<1>3. Reached(d)
  BY <1>1 DEF Served, Reached
<1>4. Joined(d)
  BY DEF Served, Joined, InClub
<1>. QED  BY <1>2, <1>3, <1>4 DEF Served

\* A connection without a client gets one, without a player.
LEMMA ConnectServed ==
  ASSUME NEW c, NEW d, NEW tm, NEW w \in Conn,
         Whole(c), Whole(d), Served(c, tm), c.client[w] = Absent, d.client[w] = None,
         \A v \in Conn : v # w => d.client[v] = c.client[v],
         d.heap = c.heap, d.seats = c.seats, d.named = c.named
  PROVE  Served(d, tm)
<1>1. \A u : Sitting(d, u) = Sitting(c, u)
  BY DEF Sitting
<1>2. Heads(d, tm)
  BY DEF Served, Heads
<1>3. Reached(d)
  <2>. SUFFICES ASSUME NEW m \in DOMAIN c.named, NEW q \in Sitting(c, c.named[m]),
                       c.heap[q].ws # None
       PROVE  d.client[c.heap[q].ws] = q
    BY <1>1 DEF Reached
  <2>1. q \in Object /\ c.heap[q].ws \in Conn \cup {None}
    <3>1. Whole(c) /\ Served(c, tm) /\ q \in Sitting(c, c.named[m])
      OBVIOUS
    <3>. QED  BY ONLY m \in DOMAIN c.named, <3>1, NamedTables
  <2>2. c.client[c.heap[q].ws] = q
    BY DEF Served, Reached
  <2>. QED  BY <2>1, <2>2, Values
<1>4. Joined(d)
  BY <1>1, Values DEF Served, Joined, InClub
<1>. QED  BY <1>2, <1>3, <1>4 DEF Served

LEMMA SameServed ==
  ASSUME NEW c, NEW d, NEW tm, Served(c, tm), Same(c, d)
  PROVE  Served(d, tm)
BY DEF Served, Same, Heads, Reached, Joined, InClub, Sitting
-----------------------------------------------------------------------------
(* The invariant, and that it holds at first.                              *)

\* A seat without a connection has a timer.
Leaving(c, tm) ==
  \A t \in Object : \A p \in Sitting(c, t) : c.heap[p].ws = None => tm[p] > 0

\* The players of clients that nobody touched sit and are being served, and
\* timers are of those who left.
Untouched(c, h, tm) ==
  /\ \A w \in Conn : \A p \in Object : c.client[w] = p =>
       h[w] = "running" /\ p \in Sitting(c, c.heap[p].table)
  /\ \A p \in Object : tm[p] > 0 => c.heap[p].ws = None

Calm(ev) == ev \subseteq {"rejoined", "died"}

IInv ==
  /\ Common
  /\ Leaving(club, timers)
  /\ Calm(events) => cleaner /\ Served(club, timers)
  /\ events = {} => Untouched(club, handler, timers)

\* The empty registry.
LEMMA EmptyWhole ==
  ASSUME NEW c, NEW h, NEW tm,
         c = [client |-> [w \in Conn |-> Absent], heap |-> [p \in Object |-> Free],
              seats |-> [t \in Object |-> <<>>], named |-> [n \in {} |-> 0],
              raised |-> FALSE],
         h = [w \in Conn |-> "none"], tm = [p \in Object |-> 0]
  PROVE  Whole(c) /\ ~c.raised /\ Handled(c, h) /\ Timed(c, tm)
         /\ Leaving(c, tm) /\ Served(c, tm) /\ Untouched(c, h, tm)
<1>1. /\ \A w \in Conn : c.client[w] = Absent
      /\ \A p \in Object : c.heap[p] = Free /\ c.seats[p] = <<>> /\ tm[p] = 0
      /\ DOMAIN c.named = {} /\ c.raised = FALSE
  OBVIOUS
<1>2. IsRegistry(c)
  <2>1. <<>> \in Seq(Object)
    OBVIOUS
  <2>. QED  BY <2>1 DEF IsRegistry
<1>3. \A t \in Object : Sitting(c, t) = {}
  BY <1>1, <1>2, SittingObjects
<1>4. Once(c)
  <2>1. ASSUME NEW t \in Object  PROVE IsInjective(c.seats[t])
    BY <1>1 DEF IsInjective
  <2>. QED  BY <2>1 DEF Once
<1>5. Whole(c)
  BY <1>1, <1>2, <1>3, <1>4, Values DEF Whole, Rooted, SeatsOwn, NamesApart
<1>6. Handled(c, h) /\ Timed(c, tm)
  BY <1>1 DEF Handled, Timed
<1>7. Leaving(c, tm)
  BY <1>3 DEF Leaving
<1>8. Served(c, tm)
  BY <1>1, Values DEF Served, Heads, Reached, Joined
<1>9. Untouched(c, h, tm)
  BY <1>1, Values DEF Untouched
<1>. QED  BY <1>1, <1>5, <1>6, <1>7, <1>8, <1>9

LEMMA InitIInv == Init => IInv
<1>. SUFFICES ASSUME Init  PROVE IInv
  OBVIOUS
<1>1. /\ Whole(club) /\ ~club.raised /\ Handled(club, handler) /\ Timed(club, timers)
      /\ Leaving(club, timers) /\ Served(club, timers) /\ Untouched(club, handler, timers)
  BY EmptyWhole DEF Init
<1>2. TypeOK
  <2>1. IsRegistry(club) /\ club.raised = FALSE
    BY <1>1 DEF Whole, Init
  <2>2. club \in [client : [Conn -> Object \cup {None, Absent}],
            heap : [Object -> [name : Name, table : Object, ws : Conn \cup {None}] \cup {Free}],
            seats : [Object -> Seq(Object)],
            named : UNION {[D -> Object] : D \in SUBSET Name},
            raised : {FALSE}]
    BY <2>1, ClubIsRegistry
  <2>3. /\ handler \in [Conn -> {"none", "running", "ended"}] /\ timers \in [Object -> Nat]
        /\ cleaner \in BOOLEAN /\ events \subseteq {"taken", "switched", "rejoined", "died"}
    BY DEF Init
  <2>. QED  BY <2>2, <2>3 DEF TypeOK
<1>3. cleaner
  BY DEF Init
<1>. QED  BY <1>1, <1>2, <1>3 DEF IInv, Common

-----------------------------------------------------------------------------
(* Those who left have their timers.                                       *)

\* Only p may have changed, and has a timer if need be.
OnlyOne(c, d, tm, tn, p) ==
  /\ \A u \in Object : Sitting(d, u) \subseteq Sitting(c, u) \cup {p}
  /\ \A q \in Object : q # p => d.heap[q].ws = c.heap[q].ws /\ tn[q] = tm[q]
  /\ \A u \in Object : p \in Sitting(d, u) /\ d.heap[p].ws = None => tn[p] > 0

LEMMA LeavingKeeps ==
  ASSUME NEW c, NEW d, NEW tm, NEW tn, NEW p, Whole(d), Leaving(c, tm),
         OnlyOne(c, d, tm, tn, p)
  PROVE  Leaving(d, tn)
<1>. SUFFICES ASSUME NEW t \in Object, NEW q \in Sitting(d, t), d.heap[q].ws = None
     PROVE  tn[q] > 0
  BY DEF Leaving
<1>1. q \in Object
  BY SittingObjects DEF Whole
<1>2. CASE q = p
  BY <1>2 DEF OnlyOne
<1>3. CASE q # p
  BY <1>1, <1>3 DEF Leaving, OnlyOne
<1>. QED  BY <1>2, <1>3

LEMMA SameLeaving ==
  ASSUME NEW c, NEW d, NEW tm, Leaving(c, tm), d.heap = c.heap, d.seats = c.seats
  PROVE  Leaving(d, tm)
BY DEF Leaving, Sitting

LEMMA NewcomerLeaving ==
  ASSUME NEW c, NEW d, NEW tm, NEW w \in Conn, NEW p, NEW tb \in Object,
         NEW n \in Name, Whole(d), Leaving(c, tm), Newcomer(c, d, w, p, tb, n)
  PROVE  Leaving(d, tm)
<1>0. p \in Object
  BY DEF Newcomer
<1>1. d.heap[p].ws = w /\ w # None
  BY <1>0, NewcomerIsPerson, Values
<1>2. OnlyOne(c, d, tm, tm, p)
  BY <1>1 DEF Newcomer, OnlyOne
<1>. QED  BY <1>2, LeavingKeeps

LEMMA ReturnLeaving ==
  ASSUME NEW c, NEW d, NEW tm, NEW w \in Conn, NEW p, Whole(d), Leaving(c, tm),
         Return(c, d, w, p)
  PROVE  Leaving(d, tm)
<1>1. d.heap[p].ws = w /\ w # None
  BY Values DEF Return
<1>2. OnlyOne(c, d, tm, tm, p)
  BY <1>1 DEF Return, OnlyOne
<1>. QED  BY <1>2, LeavingKeeps
-----------------------------------------------------------------------------
(* While nobody is touched, who plays sits.                                *)

\* No client gets a player, nobody moves, and timers are of those who left.
Undisturbed(c, d, h, g, tn) ==
  /\ \A v \in Conn : d.client[v] \in Object => d.client[v] = c.client[v] /\ g[v] = h[v]
  /\ \A q \in Object : d.heap[q].table = c.heap[q].table
  /\ d.seats = c.seats
  /\ \A q \in Object : tn[q] > 0 => d.heap[q].ws = None

LEMMA UntouchedKeeps ==
  ASSUME NEW c, NEW d, NEW h, NEW g, NEW tm, NEW tn,
         Untouched(c, h, tm), Undisturbed(c, d, h, g, tn)
  PROVE  Untouched(d, g, tn)
BY DEF Untouched, Undisturbed, Sitting

LEMMA NewcomerUntouched ==
  ASSUME NEW c, NEW d, NEW h, NEW tm, NEW w \in Conn, NEW p, NEW tb \in Object,
         NEW n \in Name, Whole(c), Untouched(c, h, tm), Newcomer(c, d, w, p, tb, n),
         c.client[w] \notin Object, h[w] = "running", tm[p] = 0
  PROVE  Untouched(d, h, tm)
<1>0. p \in Object /\ c.heap[p] = Free
  BY DEF Newcomer
<1>1. /\ \A q \in Object : q # p => d.heap[q] = c.heap[q]
      /\ \A u \in Object : u # tb => Sitting(d, u) = Sitting(c, u)
      /\ Sitting(d, tb) = Sitting(c, tb) \cup {p}
  BY DEF Newcomer, Sitting
<1>2. /\ d.heap[p].table = tb
      /\ d.client[w] = p /\ \A v \in Conn : v # w => d.client[v] = c.client[v]
  <2>1. d.heap[p].table = tb
    BY <1>0, NewcomerIsPerson
  <2>2. d.client[w] = p /\ \A v \in Conn : v # w => d.client[v] = c.client[v]
    BY DEF Whole, IsRegistry, Newcomer
  <2>. QED  BY <2>1, <2>2
<1>3. ASSUME NEW v \in Conn, NEW q \in Object, d.client[v] = q
      PROVE  h[v] = "running" /\ q \in Sitting(d, d.heap[q].table)
  <2>1. CASE v = w
    <3>1. q = p /\ d.heap[q].table = tb
      BY <1>2, <1>3, <2>1
    <3>. QED  BY <1>1, <2>1, <3>1
  <2>2. CASE v # w
    <3>1. c.client[v] = q
      BY <1>2, <1>3, <2>2
    <3>2. h[v] = "running" /\ q \in Sitting(c, c.heap[q].table) /\ c.heap[q] # Free
      BY <3>1 DEF Untouched, Whole, Rooted
    <3>3. c.heap[q].table \in Object /\ d.heap[q] = c.heap[q]
      BY <1>0, <1>1, <3>2, Persons DEF Whole
    <3>. QED  BY <1>1, <3>2, <3>3
  <2>. QED  BY <2>1, <2>2
<1>4. ASSUME NEW q \in Object, tm[q] > 0  PROVE d.heap[q].ws = None
  <2>1. q # p
    BY <1>4
  <2>. QED  BY <1>1, <1>4, <2>1 DEF Untouched
<1>. QED  BY <1>3, <1>4 DEF Untouched

\* Who is removed has no client.
LEMMA RemovedUntouched ==
  ASSUME NEW c, NEW d, NEW h, NEW tm, NEW tn, NEW p \in Object,
         Whole(c), Served(c, tm), Untouched(c, h, tm), tm[p] > 0,
         d.client = c.client, d.heap = c.heap,
         \A u \in Object : Sitting(d, u) = Sitting(c, u) \ {p},
         \A q \in Object : q # p => tn[q] = tm[q]
  PROVE  Untouched(d, h, tn)
<1>1. ASSUME NEW v \in Conn, NEW q \in Object, d.client[v] = q
      PROVE  h[v] = "running" /\ q \in Sitting(d, d.heap[q].table)
  <2>1. c.client[v] = q
    BY <1>1
  <2>2. h[v] = "running" /\ q \in Sitting(c, c.heap[q].table) /\ c.heap[q] # Free
    BY <2>1 DEF Untouched, Whole, Rooted
  <2>3. c.heap[q].table \in Object
    BY <2>2, Persons DEF Whole
  <2>4. c.heap[q].ws = v /\ c.heap[p].ws = None
    BY <2>1 DEF Untouched, Served, Joined
  <2>5. q # p
    BY <2>4, Values
  <2>. QED  BY <2>2, <2>3, <2>5
<1>2. ASSUME NEW q \in Object, tn[q] > 0  PROVE d.heap[q].ws = None
  BY <1>2 DEF Untouched
<1>. QED  BY <1>1, <1>2 DEF Untouched
-----------------------------------------------------------------------------
(* The invariant holds after every step.                                   *)

\* A step in which the registry stays: somebody dies, or nothing happens.
LEMMA SameKeeps ==
  ASSUME IInv, Common', Same(club, club'), UNCHANGED <<timers, cleaner>>,
         events \subseteq events', events' = {} => handler' = handler
  PROVE  IInv'
<1>1. PICK c, d, tm : c = club /\ d = club' /\ tm = timers
  OBVIOUS
<1>2. Same(c, d) /\ Leaving(c, tm) /\ Whole(d)
  BY <1>1 DEF IInv, Common
<1>3. d.heap = c.heap /\ d.seats = c.seats
  BY <1>2 DEF Same
<1>4. Leaving(d, tm)
  BY <1>2, <1>3, SameLeaving
<1>5. Calm(events') => Calm(events)
  BY DEF Calm
<1>6. Calm(events') => cleaner' /\ Served(d, tm)
  BY <1>1, <1>2, <1>5, SameServed DEF IInv
<1>7. ASSUME events' = {}  PROVE Untouched(d, handler', tm)
  <2>1. Untouched(c, handler, tm) /\ handler' = handler
    BY <1>1, <1>7 DEF IInv
  <2>. QED  BY <1>2, <1>3, <2>1 DEF Untouched, Same, Sitting
<1>. QED  BY <1>1, <1>4, <1>6, <1>7 DEF IInv

\* Someone new sits.
LEMMA NewcomerKeepsIInv ==
  ASSUME IInv, Common', NEW w \in Conn, NEW p, NEW tb \in Object, NEW n \in Name,
         Newcomer(club, club', w, p, tb, n), handler[w] = "running",
         \A m \in DOMAIN club.named : m \in DOMAIN club'.named /\ club'.named[m] = club.named[m],
         \A m \in DOMAIN club'.named :
           m \in DOMAIN club.named \/ (m = n /\ club'.named[m] = p /\ tb = p),
         InClub(club', tb),
         events \cup Switching(w, p) \subseteq events', events' = {} => handler' = handler,
         UNCHANGED <<timers, cleaner>>
  PROVE  IInv'
<1>1. PICK c, d, tm : c = club /\ d = club' /\ tm = timers
  OBVIOUS
<1>2. Newcomer(c, d, w, p, tb, n) /\ Leaving(c, tm) /\ Whole(c) /\ Whole(d)
  BY <1>1 DEF IInv, Common
<1>3. Leaving(d, tm)
  BY <1>2, NewcomerLeaving
<1>4. p \in Object /\ tm[p] = 0
  <2>1. p \in Object /\ c.heap[p] = Free
    BY <1>2 DEF Newcomer
  <2>. QED  BY <1>1, <2>1 DEF IInv, Common, Timed, TypeOK
<1>5. "switched" \notin events' => c.client[w] \notin Object
  <2>1. c.client[w] # p
    BY <1>2, <1>4 DEF Newcomer, Whole, Rooted
  <2>. QED  BY <1>1, <2>1 DEF Switching
<1>6. ASSUME Calm(events')  PROVE cleaner' /\ Served(d, tm)
  <2>1. Calm(events) /\ c.client[w] \notin Object
    BY <1>5, <1>6 DEF Calm
  <2>2. cleaner /\ Served(c, tm)
    BY <1>1, <2>1 DEF IInv
  <2>3. /\ \A m \in DOMAIN c.named : m \in DOMAIN d.named /\ d.named[m] = c.named[m]
        /\ \A m \in DOMAIN d.named : m \in DOMAIN c.named \/ (m = n /\ d.named[m] = p /\ tb = p)
        /\ \E m \in DOMAIN d.named : d.named[m] = tb
    BY <1>1 DEF InClub
  <2>4. Served(d, tm)
    BY <1>2, <1>4, <2>1, <2>2, <2>3, NewcomerServed
  <2>. QED  BY <2>2, <2>4
<1>7. ASSUME events' = {}  PROVE Untouched(d, handler', tm)
  <2>1. Untouched(c, handler, tm) /\ handler' = handler /\ c.client[w] \notin Object
    BY <1>1, <1>5, <1>7 DEF IInv
  <2>2. Untouched(d, handler, tm)
    BY <1>2, <1>4, <2>1, NewcomerUntouched
  <2>. QED  BY <2>1, <2>2
<1>. QED  BY <1>1, <1>3, <1>6, <1>7 DEF IInv

LEMMA NewTableKeeps ==
  ASSUME IInv, NEW w \in Conn, NEW n \in Name, NewTable(w, n)
  PROVE  IInv'
<1>1. Common /\ handler[w] = "running" /\ UNCHANGED <<timers, cleaner>>
  BY DEF IInv, NewTable
<1>2. Common'
  BY <1>1, NewTableDoes
<1>3. CASE Same(club, club') /\ events' = events \cup {"died"}
  <2>1. events \subseteq events' /\ (events' = {} => handler' = handler)
    BY <1>3
  <2>. QED  BY <1>1, <1>2, <1>3, <2>1, SameKeeps
<1>4. CASE \E p \in Object :
             /\ Newcomer(club, club', w, p, p, n)
             /\ n \notin DOMAIN club.named
             /\ club'.named = [m \in DOMAIN club.named \cup {n} |->
                                 IF m = n THEN p ELSE club.named[m]]
             /\ events' = events \cup Switching(w, p) /\ handler' = handler
  <2>1. PICK p \in Object :
             /\ Newcomer(club, club', w, p, p, n)
             /\ n \notin DOMAIN club.named
             /\ club'.named = [m \in DOMAIN club.named \cup {n} |->
                                 IF m = n THEN p ELSE club.named[m]]
             /\ events' = events \cup Switching(w, p) /\ handler' = handler
    BY <1>4
  <2>2. PICK tb \in Object : tb = p
    OBVIOUS
  <2>3. /\ \A m \in DOMAIN club.named : m \in DOMAIN club'.named /\ club'.named[m] = club.named[m]
        /\ \A m \in DOMAIN club'.named :
             m \in DOMAIN club.named \/ (m = n /\ club'.named[m] = p /\ tb = p)
        /\ n \in DOMAIN club'.named /\ club'.named[n] = tb
    BY <2>1, <2>2
  <2>4. InClub(club', tb)
    BY <2>3 DEF InClub
  <2>5. /\ Newcomer(club, club', w, p, tb, n)
        /\ events \cup Switching(w, p) \subseteq events' /\ (events' = {} => handler' = handler)
    BY <2>1, <2>2
  <2>. QED  BY <1>1, <1>2, <2>3, <2>4, <2>5, NewcomerKeepsIInv
<1>. QED  BY <1>1, <1>3, <1>4, NewTableDoes

LEMMA JoinAsNewKeeps ==
  ASSUME IInv, NEW w \in Conn, NEW t \in Name, NEW n \in Name, JoinAsNew(w, t, n)
  PROVE  IInv'
<1>1. Common /\ handler[w] = "running" /\ UNCHANGED <<timers, cleaner>>
  BY DEF IInv, JoinAsNew
<1>2. Common' /\ t \in DOMAIN club.named
  BY <1>1, JoinAsNewDoes
<1>3. PICK tb : tb = club.named[t]
  OBVIOUS
<1>4. PICK p \in Object :
             /\ Newcomer(club, club', w, p, tb, n)
             /\ club'.named = club.named
             /\ events' \in {events \cup Switching(w, p),
                             events \cup Switching(w, p) \cup {"died"}}
             /\ events' = {} => handler' = handler
  BY <1>1, <1>3, JoinAsNewDoes
<1>5. tb \in Object
  BY <1>1, <1>2, <1>3 DEF Common, Whole, IsRegistry
<1>6. /\ \A m \in DOMAIN club.named : m \in DOMAIN club'.named /\ club'.named[m] = club.named[m]
      /\ \A m \in DOMAIN club'.named :
           m \in DOMAIN club.named \/ (m = n /\ club'.named[m] = p /\ tb = p)
      /\ InClub(club', tb)
  BY <1>2, <1>3, <1>4 DEF InClub
<1>7. /\ Newcomer(club, club', w, p, tb, n)
      /\ events \cup Switching(w, p) \subseteq events' /\ (events' = {} => handler' = handler)
  BY <1>4
<1>. QED  BY <1>1, <1>2, <1>5, <1>6, <1>7, NewcomerKeepsIInv

LEMMA JoinAgainKeeps ==
  ASSUME IInv, NEW w \in Conn, NEW t \in Name, NEW n \in Name, JoinAgain(w, t, n)
  PROVE  IInv'
<1>1. Common /\ UNCHANGED <<timers, cleaner>>
  BY DEF IInv, JoinAgain
<1>2. Common' /\ t \in DOMAIN club.named
  BY <1>1, JoinAgainDoes
<1>3. PICK c, d, tm : c = club /\ d = club' /\ tm = timers
  OBVIOUS
<1>4. PICK p \in Sitting(c, c.named[t]) :
        /\ Same(c, d) \/ Return(c, d, w, p)
        /\ c.heap[p].ws = None => Return(c, d, w, p)
        /\ d.named = c.named
        /\ events \cup Switching(w, p) \subseteq events'
        /\ (IF c.heap[p].ws = None THEN "rejoined" ELSE "taken") \in events'
  BY <1>1, <1>3, JoinAgainDoes
<1>5. Leaving(c, tm) /\ Whole(c) /\ Whole(d) /\ t \in DOMAIN c.named
  BY <1>1, <1>2, <1>3 DEF IInv, Common
<1>6. Leaving(d, tm)
  <2>1. CASE Same(c, d)
    BY <1>5, <2>1, SameLeaving DEF Same
  <2>2. CASE Return(c, d, w, p)
    BY <1>5, <2>2, ReturnLeaving
  <2>. QED  BY <1>4, <2>1, <2>2
<1>7. ASSUME Calm(events')  PROVE cleaner' /\ Served(d, tm)
  <2>1. Calm(events) /\ Switching(w, p) = {} /\ c.heap[p].ws = None
    BY <1>4, <1>7 DEF Calm, Switching
  <2>2. cleaner /\ Served(c, tm)
    BY <1>3, <2>1 DEF IInv
  <2>3. c.client[w] \notin Object \ {p}
    BY <1>3, <2>1 DEF Switching
  <2>4. p \in Object
    <3>1. c.named[t] \in Object
      BY <1>5 DEF Whole, IsRegistry
    <3>. QED  BY <1>5, <3>1, SittingObjects DEF Whole
  <2>5. Return(c, d, w, p) /\ d.named = c.named /\ p \in Sitting(c, c.named[t])
    BY <1>4, <2>1
  <2>6. Served(d, tm)
    BY <1>5, <2>1, <2>2, <2>3, <2>4, <2>5, ReturnServed
  <2>. QED  BY <1>1, <2>2, <2>6
<1>8. events' # {}
  BY <1>4
<1>. QED  BY <1>1, <1>2, <1>3, <1>6, <1>7, <1>8 DEF IInv
LEMMA DyingKeeps ==
  ASSUME IInv, NEW w \in Conn, CloseTable(w) \/ Play(w)
  PROVE  IInv'
<1>1. Common /\ UNCHANGED <<timers, cleaner>>
  BY DEF IInv, CloseTable, Play
<1>2. Common' /\ Same(club, club') /\ events' = events \cup {"died"}
  BY <1>1, DyingDoes
<1>3. events \subseteq events' /\ (events' = {} => handler' = handler)
  BY <1>2
<1>. QED  BY <1>1, <1>2, <1>3, SameKeeps

LEMMA SendRaisesKeeps ==
  ASSUME IInv, NEW w \in Conn, SendRaises(w)
  PROVE  IInv'
<1>1. Common
  BY DEF IInv
<1>2. Common' /\ club' = club /\ events' = events \cup {"died"} /\ UNCHANGED <<timers, cleaner>>
  BY <1>1, SendRaisesDoes
<1>3. /\ Same(club, club')
      /\ events \subseteq events' /\ (events' = {} => handler' = handler)
  BY <1>2 DEF Same
<1>. QED  BY <1>1, <1>2, <1>3, SameKeeps

LEMMA ConnectKeeps ==
  ASSUME IInv, NEW w \in Conn, Connect(w)
  PROVE  IInv'
<1>1. Common
  BY DEF IInv
<1>2. Common'
  BY <1>1, ConnectDoes
<1>3. PICK c, d, tm : c = club /\ d = club' /\ tm = timers
  OBVIOUS
<1>4. /\ c.client[w] = Absent /\ d.client[w] = None
      /\ \A v \in Conn : v # w => d.client[v] = c.client[v] /\ handler'[v] = handler[v]
      /\ d.heap = c.heap /\ d.seats = c.seats /\ d.named = c.named
      /\ UNCHANGED <<timers, cleaner, events>>
  BY <1>1, <1>3, ConnectDoes
<1>5. Leaving(c, tm) /\ Whole(c) /\ Whole(d)
  BY <1>1, <1>2, <1>3 DEF IInv, Common
<1>6. Leaving(d, tm)
  BY <1>4, <1>5, SameLeaving
<1>7. ASSUME Calm(events')  PROVE cleaner' /\ Served(d, tm)
  <2>1. cleaner /\ Served(c, tm)
    BY <1>3, <1>4, <1>7 DEF IInv
  <2>. QED  BY <1>4, <1>5, <2>1, ConnectServed
<1>8. ASSUME events' = {}  PROVE Untouched(d, handler', tm)
  <2>1. Untouched(c, handler, tm)
    BY <1>3, <1>4, <1>8 DEF IInv
  <2>2. Undisturbed(c, d, handler, handler', tm)
    BY <1>4, <2>1, Values DEF Undisturbed, Untouched
  <2>. QED  BY <2>1, <2>2, UntouchedKeeps
<1>. QED  BY <1>2, <1>3, <1>4, <1>6, <1>7, <1>8 DEF IInv

LEMMA PlayerRemoveKeeps ==
  ASSUME IInv, NEW p \in Object, PlayerRemove(p)
  PROVE  IInv'
<1>1. Common
  BY DEF IInv
<1>2. Common'
  BY <1>1, PlayerRemoveDoes
<1>3. PICK c, d, tm, tn : c = club /\ d = club' /\ tm = timers /\ tn = timers'
  OBVIOUS
<1>4. /\ tm[p] > 0
      /\ d.client = c.client /\ d.heap = c.heap /\ d.named = c.named
      /\ \A u \in Object :
           /\ Sitting(d, u) = Sitting(c, u) \ {p}
           /\ c.seats[u] # <<>> /\ c.seats[u][1] # p
                => d.seats[u] # <<>> /\ d.seats[u][1] = c.seats[u][1]
      /\ tn = [tm EXCEPT ![p] = @ - 1]
      /\ UNCHANGED <<handler, cleaner, events>>
  BY <1>1, <1>3, PlayerRemoveDoes
<1>5. Leaving(c, tm) /\ Whole(c) /\ Whole(d) /\ tm \in [Object -> Nat]
  BY <1>1, <1>2, <1>3 DEF IInv, Common, TypeOK
<1>6. tm[p] # 0 /\ \A q \in Object : q # p => tn[q] = tm[q]
  BY <1>4, <1>5
<1>7. OnlyOne(c, d, tm, tn, p)
  BY <1>4, <1>6 DEF OnlyOne
<1>8. Leaving(d, tn)
  BY <1>5, <1>7, LeavingKeeps
<1>9. Calm(events') => cleaner' /\ Served(c, tm)
  BY <1>3, <1>4 DEF IInv
<1>10. ASSUME Calm(events')  PROVE Served(d, tn)
  <2>1. Served(c, tm)
    BY <1>9, <1>10
  <2>2. /\ d.client = c.client /\ d.heap = c.heap /\ d.named = c.named
        /\ \A u \in Object :
             /\ Sitting(d, u) = Sitting(c, u) \ {p}
             /\ c.seats[u] # <<>> /\ c.seats[u][1] # p
                  => d.seats[u] # <<>> /\ d.seats[u][1] = c.seats[u][1]
    BY <1>4
  <2>. QED  BY ONLY p \in Object, <1>5, <1>6, <2>1, <2>2, RemovedServed
<1>11. ASSUME events' = {}  PROVE Untouched(d, handler', tn)
  <2>1. Served(c, tm) /\ Untouched(c, handler, tm)
    BY <1>3, <1>4, <1>9, <1>11 DEF IInv, Calm
  <2>2. \A u \in Object : Sitting(d, u) = Sitting(c, u) \ {p}
    BY <1>4
  <2>3. Untouched(d, handler, tn)
    BY <1>4, <1>5, <1>6, <2>1, <2>2, RemovedUntouched
  <2>. QED  BY <1>4, <2>3
<1>. QED  BY <1>2, <1>3, <1>8, <1>9, <1>10, <1>11 DEF IInv

\* Closing tables touches nobody who stays.
LEMMA ClosingUndisturbs ==
  ASSUME NEW c, NEW d, NEW h, NEW g, NEW tm, NEW N, NEW P, NEW gone,
         Closing(c, d, N, P, gone), Untouched(c, h, tm),
         \A v \in Conn : v \notin gone => g[v] = h[v]
  PROVE  Untouched(d, g, tm)
<1>1. Undisturbed(c, d, h, g, tm)
  <2>1. ASSUME NEW v \in Conn, d.client[v] \in Object
        PROVE  d.client[v] = c.client[v] /\ g[v] = h[v]
    <3>1. d.client[v] = IF v \in gone THEN Absent
                        ELSE IF \E q \in P : c.heap[q].ws = v THEN None
                        ELSE c.client[v]
      BY DEF Closing
    <3>. QED  BY <2>1, <3>1, Values
  <2>. QED  BY <2>1 DEF Undisturbed, Closing, Untouched
<1>. QED  BY <1>1, UntouchedKeeps

LEMMA PeriodicCleanKeeps ==
  ASSUME IInv, NEW idle \in SUBSET DOMAIN club.named, PeriodicClean(idle)
  PROVE  IInv'
<1>1. Common
  BY DEF IInv
<1>2. Common'
  BY <1>1, PeriodicCleanDoes
<1>3. PICK c, d, tm : c = club /\ d = club' /\ tm = timers
  OBVIOUS
<1>4. /\ d.heap = c.heap /\ d.seats = c.seats /\ UNCHANGED <<handler, timers, events>>
      /\ AllKnown(c, SeatedAt(c, idle)) =>
           cleaner' /\ Closing(c, d, idle, SeatedAt(c, idle), {})
  BY <1>1, <1>3, PeriodicCleanDoes
<1>5. Leaving(c, tm) /\ Whole(c) /\ Whole(d) /\ idle \in SUBSET DOMAIN c.named
  BY <1>1, <1>2, <1>3 DEF IInv, Common
<1>6. Leaving(d, tm)
  BY <1>4, <1>5, SameLeaving
<1>7. ASSUME Calm(events')
      PROVE  Served(c, tm) /\ cleaner' /\ Closing(c, d, idle, SeatedAt(c, idle), {})
  <2>1. Served(c, tm)
    BY <1>3, <1>4, <1>7 DEF IInv
  <2>2. AllKnown(c, SeatedAt(c, idle))
    BY <1>5, <2>1, SeatedAreKnown
  <2>. QED  BY <1>4, <2>1, <2>2
<1>8. ASSUME Calm(events')  PROVE cleaner' /\ Served(d, tm)
  <2>1. PICK P, gone : P = SeatedAt(c, idle) /\ gone = {}
    OBVIOUS
  <2>2. /\ gone \in SUBSET Conn /\ P \subseteq SeatedAt(c, idle)
        /\ \A v \in gone : c.client[v] = None \/ c.client[v] \in SeatedAt(c, idle)
        /\ \A q \in SeatedAt(c, idle) : q \in P \/ \E v \in gone : c.client[v] = q
    BY <2>1
  <2>3. Closing(c, d, idle, P, gone) /\ Served(c, tm)
    BY <1>7, <1>8, <2>1
  <2>4. Served(d, tm)
    BY <1>5, <2>2, <2>3, ClosingServed
  <2>. QED  BY <1>7, <1>8, <2>4
<1>9. ASSUME events' = {}  PROVE Untouched(d, handler', tm)
  <2>1. Calm(events')
    BY <1>9 DEF Calm
  <2>2. Closing(c, d, idle, SeatedAt(c, idle), {}) /\ Untouched(c, handler, tm)
    BY <1>3, <1>4, <1>7, <1>9, <2>1 DEF IInv
  <2>3. \A v \in Conn : v \notin {} => handler'[v] = handler[v]
    BY <1>4
  <2>. QED  BY <2>2, <2>3, ClosingUndisturbs
<1>. QED  BY <1>2, <1>3, <1>4, <1>6, <1>8, <1>9 DEF IInv
\* Where a served owner's connection ends, the table is closed for all.
LEMMA OwnerIsHead ==
  ASSUME NEW c, NEW tm, NEW w \in Conn, NEW p \in Object, NEW t \in Object,
         Whole(c), Served(c, tm), c.client[w] = p, t = c.heap[p].table,
         c.seats[t] # <<>>, c.seats[t][1] = p
  PROVE  /\ c.heap[p].name \in DOMAIN c.named
         /\ SeatedAt(c, {c.heap[p].name}) = Sitting(c, t)
         /\ p \in Sitting(c, t)
         /\ AllKnown(c, Sitting(c, t) \ {p})
<1>1. p \in Sitting(c, t)
  BY SittingObjects DEF Whole
<1>2. PICK m \in DOMAIN c.named : c.named[m] = t
  BY <1>1 DEF Served, Joined, InClub
<1>3. c.heap[p].name = m
  BY <1>2 DEF Served, Heads
<1>4. SeatedAt(c, {m}) = Sitting(c, t)
  BY <1>2 DEF SeatedAt
<1>5. AllKnown(c, SeatedAt(c, {m}))
  <2>1. PICK N \in SUBSET DOMAIN c.named : N = {m}
    OBVIOUS
  <2>2. AllKnown(c, SeatedAt(c, N))
    BY SeatedAreKnown
  <2>. QED  BY <2>1, <2>2
<1>6. AllKnown(c, Sitting(c, t) \ {p})
  BY <1>4, <1>5 DEF AllKnown
<1>. QED  BY <1>1, <1>3, <1>4, <1>6

LEMMA DisconnectKeeps ==
  ASSUME IInv, NEW w \in Conn, Disconnect(w)
  PROVE  IInv'
<1>1. Common
  BY DEF IInv
<1>2. /\ Common' /\ cleaner' = cleaner
      /\ \A v \in Conn : v # w => handler'[v] = handler[v]
  BY <1>1, DisconnectDoes
<1>3. PICK c, d, tm, tn : c = club /\ d = club' /\ tm = timers /\ tn = timers'
  OBVIOUS
<1>4. Leaving(c, tm) /\ Whole(c) /\ Whole(d) /\ tm \in [Object -> Nat]
  BY <1>1, <1>2, <1>3 DEF IInv, Common, TypeOK
<1>5. c.client[w] \in Object \cup {None}
  BY <1>1, <1>3, DisconnectDoes
<1>6. CASE c.client[w] = None
  <2>1. /\ Closing(c, d, {}, {}, {w})
        /\ UNCHANGED <<timers, events>>
    BY <1>1, <1>3, <1>6, DisconnectDoes
  <2>2. Leaving(d, tm)
    BY <1>4, <2>1, SameLeaving DEF Closing
  <2>3. ASSUME Calm(events')  PROVE Served(d, tm)
    <3>1. Served(c, tm)
      BY <1>3, <2>1, <2>3 DEF IInv
    <3>2. PICK N, P, gone : N = {} /\ P = {} /\ gone = {w}
      OBVIOUS
    <3>3. SeatedAt(c, N) = {}
      BY <3>2 DEF SeatedAt
    <3>4. /\ N \in SUBSET DOMAIN c.named /\ gone \in SUBSET Conn /\ P \subseteq SeatedAt(c, N)
          /\ \A v \in gone : c.client[v] = None \/ c.client[v] \in SeatedAt(c, N)
          /\ \A q \in SeatedAt(c, N) : q \in P \/ \E v \in gone : c.client[v] = q
          /\ Closing(c, d, N, P, gone)
      BY <1>6, <2>1, <3>2, <3>3
    <3>. QED  BY <1>4, <3>1, <3>4, ClosingServed
  <2>4. ASSUME events' = {}  PROVE Untouched(d, handler', tm)
    <3>1. Untouched(c, handler, tm)
      BY <1>3, <2>1, <2>4 DEF IInv
    <3>2. \A v \in Conn : v \notin {w} => handler'[v] = handler[v]
      BY <1>2
    <3>. QED  BY <2>1, <3>1, <3>2, ClosingUndisturbs
  <2>. QED  BY <1>2, <1>3, <2>1, <2>2, <2>3, <2>4 DEF IInv
<1>7. CASE c.client[w] # None
  <2>0. PICK p \in Object : p = c.client[w]
    BY <1>5, <1>7
  <2>1. PICK t : p = c.client[w] /\ t = c.heap[p].table
    BY <2>0
  <2>2. c.heap[p] # Free /\ t \in Object
    BY <1>1, <1>3, <1>7, <2>1, DisconnectDoes
  <2>3. CASE c.seats[t] = <<>>
    <3>1. UNCHANGED <<club, timers>> /\ events' = events \cup {"died"}
      BY <1>1, <1>3, <1>7, <2>1, <2>3, DisconnectDoes
    <3>2. /\ Same(club, club')
          /\ events \subseteq events' /\ (events' = {} => handler' = handler)
      BY <3>1 DEF Same
    <3>. QED  BY <1>2, <3>1, <3>2, SameKeeps
  <2>4. CASE c.seats[t] # <<>> /\ c.seats[t][1] = p
    <3>1. /\ d.heap = c.heap /\ d.seats = c.seats /\ UNCHANGED timers
          /\ events' \in {events, events \cup {"died"}}
          /\ AllKnown(c, Sitting(c, t) \ {p}) /\ c.heap[p].name \in DOMAIN c.named =>
               /\ events' = events
               /\ Closing(c, d, {c.heap[p].name}, Sitting(c, t) \ {p}, {w})
      BY <1>1, <1>3, <1>7, <2>1, <2>4, DisconnectDoes
    <3>2. Leaving(d, tm)
      BY <1>4, <3>1, SameLeaving
    <3>3. PICK N, P, gone : N = {c.heap[p].name} /\ P = Sitting(c, t) \ {p} /\ gone = {w}
      OBVIOUS
    <3>4. ASSUME Calm(events')
          PROVE  /\ Served(c, tm) /\ Closing(c, d, N, P, gone)
                 /\ N \in SUBSET DOMAIN c.named /\ SeatedAt(c, N) = Sitting(c, t)
                 /\ p \in Sitting(c, t) /\ cleaner /\ events' = events
      <4>1. Calm(events)
        BY <3>1, <3>4 DEF Calm
      <4>2. cleaner /\ Served(c, tm)
        BY <1>3, <4>1 DEF IInv
      <4>3. /\ c.heap[p].name \in DOMAIN c.named
            /\ SeatedAt(c, {c.heap[p].name}) = Sitting(c, t)
            /\ p \in Sitting(c, t)
            /\ AllKnown(c, Sitting(c, t) \ {p})
        BY <1>4, <2>1, <2>2, <2>4, <4>2, OwnerIsHead
      <4>. QED  BY <3>1, <3>3, <4>2, <4>3
    <3>5. ASSUME Calm(events')  PROVE cleaner /\ Served(d, tm)
      <4>1. /\ gone \in SUBSET Conn /\ P \subseteq SeatedAt(c, N)
            /\ \A v \in gone : c.client[v] = None \/ c.client[v] \in SeatedAt(c, N)
            /\ \A q \in SeatedAt(c, N) : q \in P \/ \E v \in gone : c.client[v] = q
        BY <2>1, <3>3, <3>4, <3>5
      <4>2. Served(c, tm) /\ Closing(c, d, N, P, gone) /\ N \in SUBSET DOMAIN c.named
        BY <3>4, <3>5
      <4>3. Served(d, tm)
        BY <1>4, <4>1, <4>2, ClosingServed
      <4>. QED  BY <3>4, <3>5, <4>3
    <3>6. ASSUME events' = {}  PROVE Untouched(d, handler', tm)
      <4>1. Calm(events')
        BY <3>6 DEF Calm
      <4>2. Closing(c, d, N, P, gone) /\ events = {}
        BY <3>4, <3>6, <4>1
      <4>3. Untouched(c, handler, tm)
        BY <1>3, <4>2 DEF IInv
      <4>4. \A v \in Conn : v \notin gone => handler'[v] = handler[v]
        BY <1>2, <3>3
      <4>. QED  BY <4>2, <4>3, <4>4, ClosingUndisturbs
    <3>. QED  BY <1>2, <1>3, <3>1, <3>2, <3>5, <3>6 DEF IInv
  <2>5. CASE c.seats[t] # <<>> /\ c.seats[t][1] # p
    <3>1. /\ d.seats = c.seats /\ d.named = c.named
          /\ \A v \in Conn : v # w => d.client[v] = c.client[v]
          /\ d.client[w] = Absent
          /\ \A q \in Object : q # p => d.heap[q] = c.heap[q]
          /\ d.heap[p].name = c.heap[p].name
          /\ d.heap[p].table = t /\ d.heap[p].ws = None
          /\ tn = [tm EXCEPT ![p] = @ + 1] /\ events' = events
      BY <1>1, <1>3, <1>7, <2>1, <2>5, DisconnectDoes
    <3>2. tn[p] > 0 /\ \A q \in Object : q # p => tn[q] = tm[q]
      BY <1>4, <3>1
    <3>3. OnlyOne(c, d, tm, tn, p)
      BY <3>1, <3>2 DEF OnlyOne, Sitting
    <3>4. Leaving(d, tn)
      BY <1>4, <3>3, LeavingKeeps
    <3>5. ASSUME Calm(events')  PROVE cleaner /\ Served(d, tn)
      <4>1. cleaner /\ Served(c, tm)
        BY <1>3, <3>1, <3>5 DEF IInv
      <4>2. \A m \in DOMAIN c.named : c.named[m] # p
        <5>. SUFFICES ASSUME NEW m \in DOMAIN c.named, c.named[m] = p  PROVE FALSE
          OBVIOUS
        <5>1. c.heap[c.named[m]].table = c.named[m]
          BY <1>4, <4>1, NamedTables
        <5>2. c.seats[p][1] = p
          BY <4>1 DEF Served, Heads
        <5>. QED  BY <2>1, <2>5, <5>1, <5>2
      <4>3. Whole(c) /\ Whole(d) /\ Served(c, tm) /\ c.client[w] = p
        BY <1>4, <2>1, <4>1
      <4>4. /\ d.seats = c.seats /\ d.named = c.named
            /\ \A v \in Conn : v # w => d.client[v] = c.client[v]
            /\ d.client[w] = Absent
        BY <3>1
      <4>5. /\ \A q \in Object : q # p => d.heap[q] = c.heap[q]
            /\ d.heap[p].name = c.heap[p].name /\ d.heap[p].ws = None
            /\ \A q \in Object : q # p => tn[q] = tm[q]
        BY <3>1, <3>2
      <4>6. Served(d, tn)
        BY ONLY w \in Conn, p \in Object, <4>2, <4>3, <4>4, <4>5, LeftServed
      <4>. QED  BY <4>1, <4>6
    <3>6. ASSUME events' = {}  PROVE Untouched(d, handler', tn)
      <4>1. Untouched(c, handler, tm)
        BY <1>3, <3>1, <3>6 DEF IInv
      <4>2. Undisturbed(c, d, handler, handler', tn)
        BY <1>2, <2>1, <3>1, <3>2, <4>1, Values DEF Undisturbed, Untouched
      <4>. QED  BY <4>1, <4>2, UntouchedKeeps
    <3>. QED  BY <1>2, <1>3, <3>4, <3>5, <3>6 DEF IInv
  <2>. QED  BY <2>3, <2>4, <2>5
<1>. QED  BY <1>6, <1>7
LEMMA NextKeeps == IInv /\ [Next]_vars => IInv'
<1>. SUFFICES ASSUME IInv, [Next]_vars  PROVE IInv'
  OBVIOUS
<1>1. CASE UNCHANGED vars
  <2>1. /\ UNCHANGED club /\ UNCHANGED handler /\ UNCHANGED timers
        /\ UNCHANGED cleaner /\ UNCHANGED events
    BY <1>1 DEF vars
  <2>2. Common'
    BY <2>1 DEF IInv, Common, TypeOK
  <2>3. Same(club, club')
    BY <2>1 DEF Same
  <2>. QED  BY <2>1, <2>2, <2>3, SameKeeps
<1>2. CASE Next
  <2>1. ASSUME NEW w \in Conn, NEW n \in Name, NewTable(w, n)  PROVE IInv'
    BY <2>1, NewTableKeeps
  <2>2. ASSUME NEW w \in Conn, NEW t \in Name, NEW n \in Name, JoinAsNew(w, t, n)  PROVE IInv'
    BY <2>2, JoinAsNewKeeps
  <2>3. ASSUME NEW w \in Conn, NEW t \in Name, NEW n \in Name, JoinAgain(w, t, n)  PROVE IInv'
    BY <2>3, JoinAgainKeeps
  <2>4. ASSUME NEW w \in Conn, CloseTable(w) \/ Play(w)  PROVE IInv'
    BY <2>4, DyingKeeps
  <2>5. ASSUME NEW w \in Conn, Connect(w)  PROVE IInv'
    BY <2>5, ConnectKeeps
  <2>6. ASSUME NEW w \in Conn, Disconnect(w)  PROVE IInv'
    BY <2>6, DisconnectKeeps
  <2>7. ASSUME NEW w \in Conn, SendRaises(w)  PROVE IInv'
    BY <2>7, SendRaisesKeeps
  <2>8. ASSUME NEW p \in Object, PlayerRemove(p)  PROVE IInv'
    BY <2>8, PlayerRemoveKeeps
  <2>9. ASSUME NEW idle \in SUBSET DOMAIN club.named, PeriodicClean(idle)  PROVE IInv'
    BY <2>9, PeriodicCleanKeeps
  <2>. QED  BY <1>2, <2>1, <2>2, <2>3, <2>4, <2>5, <2>6, <2>7, <2>8, <2>9 DEF Next
<1>. QED  BY <1>1, <1>2

LEMMA Invariance == Spec => []IInv
BY InitIInv, NextKeeps, PTL DEF Spec

-----------------------------------------------------------------------------
(* Theorems.                                                               *)

\* The registry, handlers, timers and the cleaning task have their types:
\* a client's player is an object, and none or absent but nothing else; no
\* handler leaves the registry in the middle of an exception.
THEOREM PyTypeCorrect == Spec => []TypeOK
<1>1. IInv => TypeOK
  BY DEF IInv, Common
<1>. QED  BY <1>1, Invariance, PTL

\* However connections are lost, seats taken over and tables closed, a seat
\* without a connection is one whose player_remove is still to come.
THEOREM LeaversGoThm == Spec => []LeaversGo
<1>1. IInv => LeaversGo
  <2>. SUFFICES ASSUME IInv, NEW p \in Object, Seated(p), club.heap[p].ws = None
       PROVE  timers[p] > 0
    BY DEF LeaversGo
  <2>1. club.heap[p] # Free /\ p \in Sitting(club, club.heap[p].table)
    BY DEF Seated, TableOf, Sitting
  <2>2. club.heap[p].table \in Object
    BY <2>1, Persons DEF IInv, Common, Whole
  <2>. QED  BY <2>1, <2>2 DEF IInv, Leaving
<1>. QED  BY <1>1, Invariance, PTL

\* The task periodic_clean dies of an exception only after a seat whose
\* connection was taken over, or a client that changed tables.
THEOREM CleanerSurvivesThm == Spec => []CleanerSurvives
<1>1. IInv => CleanerSurvives
  BY DEF IInv, CleanerSurvives, Calm
<1>. QED  BY <1>1, Invariance, PTL

\* No two at a table have the same name; and as long as nobody was touched,
\* the players of running handlers sit at named tables, and who sits is known
\* to its client.
THEOREM PyRegistryExactThm == Spec => []RegistryExact
<1>1. IInv => RegistryExact
  <2>. SUFFICES ASSUME IInv  PROVE RegistryExact
    OBVIOUS
  <2>1. PICK c : c = club
    OBVIOUS
  <2>2. Whole(c) /\ Handled(c, handler)
    BY <2>1 DEF IInv, Common
  <2>3. ASSUME NEW t \in Object, NEW p \in ToSet(c.seats[t]), NEW q \in ToSet(c.seats[t]),
               c.heap[p].name = c.heap[q].name
        PROVE  p = q
    BY <2>2, <2>3 DEF Whole, NamesApart, Sitting
  <2>4. ASSUME events = {}  PROVE Served(c, timers) /\ Untouched(c, handler, timers)
    BY <2>1, <2>4 DEF IInv, Calm
  <2>5. ASSUME events = {}, NEW w \in Conn, Playing(w)
        PROVE  /\ Seated(c.client[w]) /\ c.heap[c.client[w]].ws = w
               /\ c.heap[c.client[w]].table \in Tables
    <3>1. PICK p \in Object : p = c.client[w]
      BY <2>1, <2>5 DEF Playing
    <3>2. p \in Sitting(c, c.heap[p].table) /\ c.heap[p].ws = w /\ c.heap[p] # Free
      BY <2>2, <2>4, <2>5, <3>1 DEF Untouched, Served, Joined, Whole, Rooted
    <3>3. c.heap[p].table \in Object
      BY <2>2, <3>2, Persons DEF Whole
    <3>4. PICK m \in DOMAIN c.named : c.named[m] = c.heap[p].table
      BY <2>4, <2>5, <3>1, <3>2, <3>3 DEF Served, Joined, InClub
    <3>5. c.heap[p].table \in Tables
      BY <2>1, <3>4 DEF Tables
    <3>6. Seated(p)
      BY <2>1, <3>2 DEF Seated, TableOf, Sitting
    <3>. QED  BY <3>1, <3>2, <3>5, <3>6
  <2>6. ASSUME events = {}, NEW n \in DOMAIN c.named
        PROVE  /\ c.seats[c.named[n]] # <<>> /\ c.heap[c.seats[c.named[n]][1]].name = n
               /\ \A p \in ToSet(c.seats[c.named[n]]) : c.heap[p].ws # None =>
                    Playing(c.heap[p].ws) /\ c.client[c.heap[p].ws] = p
    <3>1. Served(c, timers) /\ Untouched(c, handler, timers)
      BY <2>4, <2>6
    <3>2. c.seats[c.named[n]] # <<>> /\ c.heap[c.seats[c.named[n]][1]].name = n
      BY <3>1 DEF Served, Heads
    <3>3. ASSUME NEW p \in ToSet(c.seats[c.named[n]]), c.heap[p].ws # None
          PROVE  Playing(c.heap[p].ws) /\ c.client[c.heap[p].ws] = p
      <4>1. p \in Sitting(c, c.named[n])
        BY DEF Sitting
      <4>2. p \in Object /\ c.heap[p].ws \in Conn \cup {None}
        BY <2>2, <3>1, <4>1, NamedTables
      <4>3. c.client[c.heap[p].ws] = p
        BY <3>1, <3>3, <4>1 DEF Served, Reached
      <4>4. handler[c.heap[p].ws] = "running"
        BY <3>1, <3>3, <4>2, <4>3 DEF Untouched
      <4>. QED  BY <2>1, <4>2, <4>3, <4>4 DEF Playing
    <3>. QED  BY <3>2, <3>3
  <2>. QED  BY <2>1, <2>3, <2>5, <2>6 DEF RegistryExact
<1>. QED  BY <1>1, Invariance, PTL
=============================================================================
