---------------------------- MODULE Club_proofs ----------------------------
(***************************************************************************)
(* Proofs about the registry of the server, for every set of sessions,     *)
(* names and addresses, and for every limit: however pointers go stale and *)
(* addresses are used again, the tables own exactly the live players.      *)
(***************************************************************************)
EXTENDS Club, Basics_proofs, FiniteSetTheorems

-----------------------------------------------------------------------------
(* The inductive invariant, of any value c of the registry.                *)

\* A value of club, field by field.
IsRegistry(c) ==
  /\ c = [wsPlayer |-> c.wsPlayer, heap |-> c.heap, tables |-> c.tables]
  /\ c.wsPlayer \in [Session -> Addr \cup {Null}]
  /\ c.heap \in [Addr -> Object \cup {Free}]
  /\ DOMAIN c.tables \subseteq Name
  /\ c.tables \in [DOMAIN c.tables -> Seq(Addr)]

\* Every seat of a table holds a live player of that table, and no other seat
\* of the table holds the same one.
Seated(c) ==
  \A t \in DOMAIN c.tables :
    /\ IsInjective(c.tables[t])
    /\ \A a \in SeatsOf(c, t) : c.heap[a] # Free /\ c.heap[a].table = t

\* Every live player sits at its table, and is the one that its session, which
\* is among o, plays as.
Alive(c, o) ==
  \A a \in Addr : c.heap[a] # Free =>
    /\ c.heap[a].table \in DOMAIN c.tables
    /\ a \in SeatsOf(c, c.heap[a].table)
    /\ c.heap[a].ws \in o
    /\ c.wsPlayer[c.heap[a].ws] = a

\* No table is empty or overfull, and there are not too many.
Filled(c) == \A t \in DOMAIN c.tables : Len(c.tables[t]) \in 1..MaxPlayers
Counted(c) ==
  IsFiniteSet(DOMAIN c.tables) /\ Cardinality(DOMAIN c.tables) <= MaxTables

Whole(c, o) == IsRegistry(c) /\ Seated(c) /\ Alive(c, o) /\ Filled(c) /\ Counted(c)

\* Every entry of ws_player_ is the live player of its session.
Exact(c) ==
  \A s \in Session : c.wsPlayer[s] # Null =>
    PlayerOf(c, s) # Free /\ PlayerOf(c, s).ws = s

IInv ==
  /\ TypeOK
  /\ Whole(club, open)
  /\ ~evicted => ~broken /\ Exact(club)

-----------------------------------------------------------------------------
(* The parts of a registry.                                                *)

\* The type invariant says that club is a registry.
LEMMA ClubIsRegistry ==
  (\E T \in SUBSET Name : club \in [wsPlayer : [Session -> Addr \cup {Null}],
                                    heap : [Addr -> Object \cup {Free}],
                                    tables : [T -> Seq(Addr)]])
    <=> IsRegistry(club)
<1>1. ASSUME NEW T \in SUBSET Name, club \in [wsPlayer : [Session -> Addr \cup {Null}],
                                             heap : [Addr -> Object \cup {Free}],
                                             tables : [T -> Seq(Addr)]]
      PROVE  IsRegistry(club)
  <2>1. DOMAIN club.tables = T /\ club.tables \in [T -> Seq(Addr)]
    BY <1>1
  <2>. QED  BY <1>1, <2>1 DEF IsRegistry
<1>2. ASSUME IsRegistry(club)
      PROVE  club \in [wsPlayer : [Session -> Addr \cup {Null}],
                      heap : [Addr -> Object \cup {Free}],
                      tables : [DOMAIN club.tables -> Seq(Addr)]]
  BY <1>2 DEF IsRegistry
<1>3. IsRegistry(club) => DOMAIN club.tables \in SUBSET Name
  BY DEF IsRegistry
<1>. QED  BY <1>1, <1>2, <1>3

\* The tables of a registry, one by one.
LEMMA Tables ==
  ASSUME NEW c, IsRegistry(c), NEW t \in DOMAIN c.tables
  PROVE  /\ t \in Name
         /\ c.tables[t] \in Seq(Addr)
         /\ Len(c.tables[t]) \in Nat
         /\ DOMAIN c.tables[t] = 1..Len(c.tables[t])
         /\ SeatsOf(c, t) \subseteq Addr
         /\ SeatsOf(c, t) = Range(c.tables[t])
<1>1. c.tables[t] \in Seq(Addr) /\ t \in Name
  BY DEF IsRegistry
<1>2. Len(c.tables[t]) \in Nat /\ DOMAIN c.tables[t] = 1..Len(c.tables[t])
  BY <1>1, LenProperties
<1>3. SeatsOf(c, t) = Range(c.tables[t])
  BY DEF SeatsOf, Range
<1>4. SeatsOf(c, t) \subseteq Addr
  BY <1>1, <1>2, ElementOfSeq DEF SeatsOf
<1>. QED  BY <1>1, <1>2, <1>3, <1>4

\* Three fields of the right types are a registry.
LEMMA Build ==
  ASSUME NEW c, NEW w, NEW h, NEW ts, c = [wsPlayer |-> w, heap |-> h, tables |-> ts],
         w \in [Session -> Addr \cup {Null}], h \in [Addr -> Object \cup {Free}],
         DOMAIN ts \subseteq Name, ts \in [DOMAIN ts -> Seq(Addr)]
  PROVE  IsRegistry(c) /\ c.wsPlayer = w /\ c.heap = h /\ c.tables = ts
BY DEF IsRegistry

\* A live player is an object, at an address.
LEMMA LivePlayer ==
  ASSUME NEW c, IsRegistry(c), NEW s \in Session,
         c.wsPlayer[s] # Null, PlayerOf(c, s) # Free
  PROVE  /\ c.wsPlayer[s] \in Addr
         /\ PlayerOf(c, s) = c.heap[c.wsPlayer[s]]
         /\ PlayerOf(c, s) \in Object
         /\ PlayerOf(c, s).table \in Name /\ PlayerOf(c, s).ws \in Session
<1>1. c.wsPlayer[s] \in Addr
  BY DEF IsRegistry
<1>2. PlayerOf(c, s) \in Object
  BY <1>1 DEF IsRegistry, PlayerOf
<1>. QED  BY <1>1, <1>2 DEF PlayerOf, Object

-----------------------------------------------------------------------------
(* What the changes of the registry do to it.                              *)

\* Erasing a table empties the addresses of its seats and leaves the rest.
LEMMA EraseTableEffect ==
  ASSUME NEW c, IsRegistry(c), NEW t \in DOMAIN c.tables
  PROVE  /\ IsRegistry(EraseTable(c, t))
         /\ EraseTable(c, t).wsPlayer = c.wsPlayer
         /\ EraseTable(c, t).heap
              = [a \in Addr |-> IF a \in SeatsOf(c, t) THEN Free ELSE c.heap[a]]
         /\ EraseTable(c, t).tables = [u \in DOMAIN c.tables \ {t} |-> c.tables[u]]
<1>. DEFINE h == [a \in Addr |-> IF a \in SeatsOf(c, t) THEN Free ELSE c.heap[a]]
            ts == [u \in DOMAIN c.tables \ {t} |-> c.tables[u]]
<1>1. /\ c = [wsPlayer |-> c.wsPlayer, heap |-> c.heap, tables |-> c.tables]
      /\ c.wsPlayer \in [Session -> Addr \cup {Null}]
      /\ h \in [Addr -> Object \cup {Free}]
      /\ DOMAIN ts \subseteq Name /\ ts \in [DOMAIN ts -> Seq(Addr)]
  BY DEF IsRegistry
<1>2. EraseTable(c, t) = [c EXCEPT !.tables = ts, !.heap = h]
  BY DEF EraseTable
<1>. HIDE DEF h, ts
<1>3. EraseTable(c, t) = [wsPlayer |-> c.wsPlayer, heap |-> h, tables |-> ts]
  BY <1>1, <1>2
<1>4. /\ IsRegistry(EraseTable(c, t)) /\ EraseTable(c, t).wsPlayer = c.wsPlayer
      /\ EraseTable(c, t).heap = h /\ EraseTable(c, t).tables = ts
  BY <1>1, <1>3, Build
<1>. QED  BY <1>4 DEF h, ts

\* Erasing an entry of ws_player_ changes nothing else.
LEMMA EraseEntryEffect ==
  ASSUME NEW c, IsRegistry(c), NEW s \in Session
  PROVE  /\ IsRegistry(EraseEntry(c, s))
         /\ EraseEntry(c, s).wsPlayer = [c.wsPlayer EXCEPT ![s] = Null]
         /\ EraseEntry(c, s).heap = c.heap
         /\ EraseEntry(c, s).tables = c.tables
<1>. DEFINE w == [c.wsPlayer EXCEPT ![s] = Null]
<1>1. EraseEntry(c, s) = [wsPlayer |-> w, heap |-> c.heap, tables |-> c.tables]
  BY DEF EraseEntry, IsRegistry
<1>2. w \in [Session -> Addr \cup {Null}]
  BY DEF IsRegistry
<1>. HIDE DEF w
<1>3. /\ IsRegistry(EraseEntry(c, s)) /\ EraseEntry(c, s).wsPlayer = w
      /\ EraseEntry(c, s).heap = c.heap /\ EraseEntry(c, s).tables = c.tables
  BY <1>1, <1>2, Build DEF IsRegistry
<1>. QED  BY <1>3 DEF w

\* The player of s is at its table and is the one that Unseat removes from it.
LEMMA UnseatEffect ==
  ASSUME NEW c, NEW o, IsRegistry(c), Seated(c), Alive(c, o), NEW s \in Session,
         c.wsPlayer[s] # Null, PlayerOf(c, s) # Free,
         NEW a, a = c.wsPlayer[s], NEW t, t = PlayerOf(c, s).table
  PROVE  /\ t \in DOMAIN c.tables /\ a \in SeatsOf(c, t)
         /\ IsRegistry(Unseat(c, s))
         /\ Unseat(c, s).wsPlayer = c.wsPlayer
         /\ Unseat(c, s).heap = [c.heap EXCEPT ![a] = Free]
         /\ DOMAIN Unseat(c, s).tables = DOMAIN c.tables
         /\ \A u \in DOMAIN c.tables \ {t} : Unseat(c, s).tables[u] = c.tables[u]
         /\ IsInjective(Unseat(c, s).tables[t])
         /\ Len(Unseat(c, s).tables[t]) = Len(c.tables[t]) - 1
         /\ SeatsOf(Unseat(c, s), t) = SeatsOf(c, t) \ {a}
<1>1. a \in Addr /\ PlayerOf(c, s) = c.heap[a] /\ c.heap[a] # Free
  BY LivePlayer
<1>2. t \in DOMAIN c.tables /\ a \in SeatsOf(c, t) /\ t \in Name
  BY <1>1 DEF Alive, IsRegistry
<1>. DEFINE pi == CHOOSE i \in DOMAIN c.tables[t] : c.tables[t][i] = a
            q == SwapOut(c.tables[t], pi)
            h == [c.heap EXCEPT ![a] = Free]
            ts == [c.tables EXCEPT ![t] = q]
<1>3. /\ c.tables[t] \in Seq(Addr) /\ IsInjective(c.tables[t])
      /\ DOMAIN c.tables[t] = 1..Len(c.tables[t])
      /\ SeatsOf(c, t) = Range(c.tables[t])
  BY <1>2, Tables DEF Seated
<1>4. pi \in 1..Len(c.tables[t]) /\ c.tables[t][pi] = a
  <2>1. \E i \in DOMAIN c.tables[t] : c.tables[t][i] = a
    BY <1>2 DEF SeatsOf
  <2>. QED  BY <1>3, <2>1
<1>5. Unseat(c, s) = [c EXCEPT !.tables[t] = q, !.heap[a] = Free]
  BY DEF Unseat
<1>6. /\ q \in Seq(Addr) /\ Len(q) = Len(c.tables[t]) - 1
      /\ IsInjective(q) /\ Range(q) = Range(c.tables[t]) \ {a}
  <2>1. PICK v \in Seq(Addr) : v = c.tables[t]
    BY <1>3
  <2>2. PICK k \in 1..Len(v) : k = pi
    BY <1>4, <2>1
  <2>3. q = SwapOut(v, k) /\ IsInjective(v) /\ v[k] = a
    BY <1>3, <1>4, <2>1, <2>2
  <2>. HIDE DEF pi, q
  <2>4. SwapOut(v, k) \in Seq(Addr) /\ Len(SwapOut(v, k)) = Len(v) - 1
    BY SwapOutSeq
  <2>5. IsInjective(SwapOut(v, k)) /\ Range(SwapOut(v, k)) = Range(v) \ {v[k]}
    BY <2>3, SwapOutElements
  <2>. QED  BY <2>1, <2>3, <2>4, <2>5
<1>. HIDE DEF q
<1>7. Unseat(c, s) = [wsPlayer |-> c.wsPlayer, heap |-> h, tables |-> ts]
  BY <1>5 DEF IsRegistry
<1>8. /\ h \in [Addr -> Object \cup {Free}] /\ DOMAIN ts = DOMAIN c.tables
      /\ ts \in [DOMAIN ts -> Seq(Addr)] /\ DOMAIN ts \subseteq Name
      /\ ts[t] = q /\ \A u \in DOMAIN c.tables \ {t} : ts[u] = c.tables[u]
  BY <1>1, <1>2, <1>6 DEF IsRegistry
<1>. HIDE DEF h, ts
<1>9. /\ IsRegistry(Unseat(c, s)) /\ Unseat(c, s).wsPlayer = c.wsPlayer
      /\ Unseat(c, s).heap = h /\ Unseat(c, s).tables = ts
  BY <1>7, <1>8, Build DEF IsRegistry
<1>10. SeatsOf(Unseat(c, s), t) = Range(q)
  BY <1>8, <1>9 DEF SeatsOf, Range
<1>. QED  BY <1>2, <1>3, <1>6, <1>8, <1>9, <1>10 DEF h

-----------------------------------------------------------------------------
(* What the changes keep.                                                  *)

\* A registry all of whose tables are filled, except maybe some.
Sound(c, o) == IsRegistry(c) /\ Seated(c) /\ Alive(c, o) /\ Counted(c)

\* Erasing a table, empty or not, frees exactly the players that sit there.
LEMMA EraseTableKeeps ==
  ASSUME NEW c, NEW o, Sound(c, o), NEW t \in DOMAIN c.tables
  PROVE  Sound(EraseTable(c, t), o)
<1>. DEFINE e == EraseTable(c, t)
<1>. IsRegistry(c) /\ Seated(c) /\ Alive(c, o) /\ Counted(c)
  BY DEF Sound
<1>1. /\ IsRegistry(e) /\ e.wsPlayer = c.wsPlayer
      /\ DOMAIN e.tables = DOMAIN c.tables \ {t}
      /\ \A u \in DOMAIN c.tables \ {t} : e.tables[u] = c.tables[u]
      /\ \A a \in Addr : e.heap[a] = IF a \in SeatsOf(c, t) THEN Free ELSE c.heap[a]
  <2>1. /\ IsRegistry(e) /\ e.wsPlayer = c.wsPlayer
        /\ e.heap = [a \in Addr |-> IF a \in SeatsOf(c, t) THEN Free ELSE c.heap[a]]
        /\ e.tables = [u \in DOMAIN c.tables \ {t} |-> c.tables[u]]
    BY EraseTableEffect
  <2>. HIDE DEF e
  <2>2. DOMAIN e.tables = DOMAIN c.tables \ {t}
    BY <2>1
  <2>3. \A u \in DOMAIN c.tables \ {t} : e.tables[u] = c.tables[u]
    BY <2>1
  <2>4. \A a \in Addr : e.heap[a] = IF a \in SeatsOf(c, t) THEN Free ELSE c.heap[a]
    BY <2>1
  <2>. QED  BY <2>1, <2>2, <2>3, <2>4
<1>. HIDE DEF e
<1>2. \A u \in DOMAIN c.tables \ {t} : SeatsOf(e, u) = SeatsOf(c, u)
  BY <1>1 DEF SeatsOf
<1>3. Seated(e)
  <2>. SUFFICES ASSUME NEW u \in DOMAIN c.tables \ {t}
       PROVE  /\ IsInjective(e.tables[u])
              /\ \A a \in SeatsOf(e, u) : e.heap[a] # Free /\ e.heap[a].table = u
    BY <1>1 DEF Seated
  <2>1. IsInjective(e.tables[u])
    BY <1>1 DEF Seated
  <2>2. ASSUME NEW a \in SeatsOf(e, u)
        PROVE  e.heap[a] # Free /\ e.heap[a].table = u
    <3>1. a \in SeatsOf(c, u) /\ a \in Addr
      BY <1>2, <2>2, Tables
    <3>2. c.heap[a] # Free /\ c.heap[a].table = u
      BY <3>1 DEF Seated
    <3>3. a \notin SeatsOf(c, t)
      BY <3>2 DEF Seated
    <3>. QED  BY <1>1, <3>1, <3>2, <3>3
  <2>. QED  BY <2>1, <2>2
<1>4. Alive(e, o)
  <2>. SUFFICES ASSUME NEW a \in Addr, e.heap[a] # Free
       PROVE  /\ e.heap[a].table \in DOMAIN e.tables
              /\ a \in SeatsOf(e, e.heap[a].table)
              /\ e.heap[a].ws \in o
              /\ e.wsPlayer[e.heap[a].ws] = a
    BY DEF Alive
  <2>1. a \notin SeatsOf(c, t) /\ e.heap[a] = c.heap[a] /\ c.heap[a] # Free
    BY <1>1
  <2>2. /\ c.heap[a].table \in DOMAIN c.tables /\ a \in SeatsOf(c, c.heap[a].table)
        /\ c.heap[a].ws \in o /\ c.wsPlayer[c.heap[a].ws] = a
    BY <2>1 DEF Alive
  <2>3. c.heap[a].table \in DOMAIN c.tables \ {t}
    BY <2>1, <2>2
  <2>. QED  BY <1>1, <1>2, <2>1, <2>2, <2>3
<1>5. Counted(e)
  <2>1. /\ IsFiniteSet(DOMAIN c.tables \ {t})
        /\ Cardinality(DOMAIN c.tables \ {t}) = Cardinality(DOMAIN c.tables) - 1
        /\ Cardinality(DOMAIN c.tables) \in Nat
    BY FS_RemoveElement, FS_CardinalityType DEF Counted
  <2>. QED  BY <1>1, <2>1, LimitsAssumption DEF Counted
<1>. QED  BY <1>1, <1>3, <1>4, <1>5 DEF Sound, e

\* An entry that leads to no live player can be erased.
LEMMA EraseEntryKeeps ==
  ASSUME NEW c, NEW o, Sound(c, o), NEW s \in Session,
         c.heap[c.wsPlayer[s]] = Free
  PROVE  /\ Sound(EraseEntry(c, s), o)
         /\ EraseEntry(c, s).wsPlayer = [c.wsPlayer EXCEPT ![s] = Null]
         /\ EraseEntry(c, s).wsPlayer[s] = Null
         /\ EraseEntry(c, s).tables = c.tables
<1>. DEFINE e == EraseEntry(c, s)
<1>. IsRegistry(c) /\ Seated(c) /\ Alive(c, o) /\ Counted(c)
  BY DEF Sound
<1>1. /\ IsRegistry(e) /\ e.wsPlayer = [c.wsPlayer EXCEPT ![s] = Null]
      /\ e.heap = c.heap /\ e.tables = c.tables
  BY EraseEntryEffect
<1>. HIDE DEF e
<1>2. Seated(e) /\ Counted(e) /\ \A u : SeatsOf(e, u) = SeatsOf(c, u)
  BY <1>1 DEF Seated, Counted, SeatsOf
<1>3. ASSUME NEW a \in Addr, c.heap[a] # Free
      PROVE  e.wsPlayer[c.heap[a].ws] = a
  <2>1. c.wsPlayer[c.heap[a].ws] = a
    BY <1>3 DEF Alive
  <2>2. c.heap[a].ws # s
    BY <1>3, <2>1
  <2>3. c.heap[a].ws \in Session
    BY <1>3 DEF IsRegistry, Object
  <2>. QED  BY <1>1, <2>1, <2>2, <2>3 DEF IsRegistry
<1>4. Alive(e, o)
  BY <1>1, <1>2, <1>3 DEF Alive
<1>5. e.wsPlayer[s] = Null
  BY <1>1 DEF IsRegistry
<1>. QED  BY <1>1, <1>2, <1>4, <1>5 DEF Sound, e

\* Unseating a player leaves the others where they are.
LEMMA UnseatKeeps ==
  ASSUME NEW c, NEW o, Sound(c, o), NEW s \in Session,
         c.wsPlayer[s] # Null, PlayerOf(c, s) # Free
  PROVE  Sound(Unseat(c, s), o)
<1>. DEFINE e == Unseat(c, s)
<1>. IsRegistry(c) /\ Seated(c) /\ Alive(c, o) /\ Counted(c)
  BY DEF Sound
<1>0. PICK a, t : a = c.wsPlayer[s] /\ t = PlayerOf(c, s).table
  OBVIOUS
<1>1. /\ t \in DOMAIN c.tables /\ a \in SeatsOf(c, t)
      /\ IsRegistry(e) /\ e.wsPlayer = c.wsPlayer /\ e.heap = [c.heap EXCEPT ![a] = Free]
      /\ DOMAIN e.tables = DOMAIN c.tables
      /\ \A u \in DOMAIN c.tables \ {t} : e.tables[u] = c.tables[u]
      /\ IsInjective(e.tables[t]) /\ SeatsOf(e, t) = SeatsOf(c, t) \ {a}
  BY <1>0, UnseatEffect
<1>. HIDE DEF e
<1>2. a \in Addr /\ c.heap[a].table = t /\ c.heap[a] # Free
  BY <1>0, LivePlayer
<1>3. \A b \in Addr : e.heap[b] = IF b = a THEN Free ELSE c.heap[b]
  BY <1>1 DEF IsRegistry
<1>4. \A u \in DOMAIN c.tables \ {t} : SeatsOf(e, u) = SeatsOf(c, u)
  BY <1>1 DEF SeatsOf
<1>5. \A u \in DOMAIN c.tables : SeatsOf(e, u) = SeatsOf(c, u) \ {a}
  <2>1. ASSUME NEW u \in DOMAIN c.tables \ {t}  PROVE a \notin SeatsOf(c, u)
    BY <1>2 DEF Seated
  <2>. QED  BY <1>1, <1>4, <2>1
<1>6. Seated(e)
  <2>. SUFFICES ASSUME NEW u \in DOMAIN c.tables
       PROVE  /\ IsInjective(e.tables[u])
              /\ \A b \in SeatsOf(e, u) : e.heap[b] # Free /\ e.heap[b].table = u
    BY <1>1 DEF Seated
  <2>1. IsInjective(e.tables[u])
    BY <1>1 DEF Seated
  <2>2. ASSUME NEW b \in SeatsOf(e, u)
        PROVE  e.heap[b] # Free /\ e.heap[b].table = u
    <3>1. b \in SeatsOf(c, u) /\ b # a /\ b \in Addr
      BY <1>5, <2>2, Tables
    <3>. QED  BY <1>3, <3>1 DEF Seated
  <2>. QED  BY <2>1, <2>2
<1>7. Alive(e, o)
  <2>. SUFFICES ASSUME NEW b \in Addr, e.heap[b] # Free
       PROVE  /\ e.heap[b].table \in DOMAIN e.tables
              /\ b \in SeatsOf(e, e.heap[b].table)
              /\ e.heap[b].ws \in o
              /\ e.wsPlayer[e.heap[b].ws] = b
    BY DEF Alive
  <2>1. b # a /\ e.heap[b] = c.heap[b] /\ c.heap[b] # Free
    BY <1>3
  <2>2. /\ c.heap[b].table \in DOMAIN c.tables /\ b \in SeatsOf(c, c.heap[b].table)
        /\ c.heap[b].ws \in o /\ c.wsPlayer[c.heap[b].ws] = b
    BY <2>1 DEF Alive
  <2>. QED  BY <1>1, <1>5, <2>1, <2>2
<1>. QED  BY <1>1, <1>6, <1>7 DEF Sound, Counted, e
\* Once its entry is gone, no live player is that of s any more.
LEMMA AliveWithout ==
  ASSUME NEW c, NEW o, IsRegistry(c), Alive(c, o), NEW s \in Session,
         c.wsPlayer[s] = Null
  PROVE  /\ Alive(c, o \ {s})
         /\ \A a \in Addr : c.heap[a] # Free => c.heap[a].ws # s
<1>1. ASSUME NEW a \in Addr, c.heap[a] # Free
      PROVE  c.heap[a].ws # s
  <2>1. c.wsPlayer[c.heap[a].ws] = a
    BY <1>1 DEF Alive
  <2>. QED  BY <2>1, NullAssumption
<1>. QED  BY <1>1 DEF Alive

\* Server::DeletePlayer: all that is left is whole, and s has no player.
LEMMA LeaveSeatKeeps ==
  ASSUME NEW c, NEW o, Whole(c, o), NEW s \in Session,
         c.wsPlayer[s] # Null => PlayerOf(c, s) # Free
  PROVE  Whole(LeaveSeat(c, s), o) /\ LeaveSeat(c, s).wsPlayer[s] = Null
<1>. IsRegistry(c) /\ Seated(c) /\ Alive(c, o) /\ Filled(c) /\ Sound(c, o)
  BY DEF Whole, Sound
<1>1. CASE c.wsPlayer[s] = Null
  BY <1>1 DEF LeaveSeat
<1>2. CASE c.wsPlayer[s] # Null
  <2>. DEFINE e == LeaveSeat(c, s)
  <2>0. PICK a, t : a = c.wsPlayer[s] /\ t = PlayerOf(c, s).table
    OBVIOUS
  <2>1. /\ a \in Addr /\ c.heap[a] # Free /\ c.heap[a].table = t
        /\ t \in DOMAIN c.tables /\ a \in SeatsOf(c, t)
    BY <1>2, <2>0, LivePlayer, UnseatEffect
  <2>2. CASE IsOwner(c, s)
    <3>. DEFINE d == EraseTable(c, t)
    <3>1. e = EraseEntry(d, s)
      BY <1>2, <2>0, <2>2 DEF LeaveSeat
    <3>. HIDE DEF e
    <3>2. /\ IsRegistry(d) /\ d.wsPlayer = c.wsPlayer
          /\ d.heap = [b \in Addr |-> IF b \in SeatsOf(c, t) THEN Free ELSE c.heap[b]]
          /\ d.tables = [u \in DOMAIN c.tables \ {t} |-> c.tables[u]]
      BY <2>1, EraseTableEffect
    <3>3. Sound(d, o)
      BY <2>1, EraseTableKeeps
    <3>. HIDE DEF d
    <3>4. d.heap[d.wsPlayer[s]] = Free
      BY <2>0, <2>1, <3>2
    <3>5. Sound(e, o) /\ e.wsPlayer[s] = Null /\ e.tables = d.tables
      BY <3>1, <3>3, <3>4, EraseEntryKeeps
    <3>7. Filled(e)
      BY <3>2, <3>5 DEF Filled
    <3>. QED  BY <3>5, <3>7 DEF Whole, Sound, e
  <2>3. CASE ~IsOwner(c, s)
    <3>. DEFINE d == Unseat(c, s)
    <3>1. e = EraseEntry(d, s)
      BY <1>2, <2>3 DEF LeaveSeat
    <3>. HIDE DEF e
    <3>2. /\ IsRegistry(d) /\ d.wsPlayer = c.wsPlayer
          /\ d.heap = [c.heap EXCEPT ![a] = Free]
          /\ DOMAIN d.tables = DOMAIN c.tables
          /\ \A u \in DOMAIN c.tables \ {t} : d.tables[u] = c.tables[u]
          /\ Len(d.tables[t]) = Len(c.tables[t]) - 1
      BY <1>2, <2>0, UnseatEffect
    <3>3. Sound(d, o)
      BY <1>2, UnseatKeeps
    <3>. HIDE DEF d
    <3>4. d.heap[d.wsPlayer[s]] = Free
      BY <2>0, <2>1, <3>2 DEF IsRegistry
    <3>5. Sound(e, o) /\ e.wsPlayer[s] = Null /\ e.tables = d.tables
      BY <3>1, <3>3, <3>4, EraseEntryKeeps
    <3>7. c.tables[t][1] # a
      BY <2>0, <2>3 DEF IsOwner
    <3>8. \E i \in 2..Len(c.tables[t]) : c.tables[t][i] = a
      <4>1. Len(c.tables[t]) \in Nat /\ DOMAIN c.tables[t] = 1..Len(c.tables[t])
        BY <2>1, Tables
      <4>2. PICK i \in DOMAIN c.tables[t] : c.tables[t][i] = a
        BY <2>1 DEF SeatsOf
      <4>3. i # 1
        BY <3>7, <4>2
      <4>. QED  BY <4>1, <4>2, <4>3
    <3>9. Len(c.tables[t]) - 1 \in 1..MaxPlayers
      <4>1. Len(c.tables[t]) \in 1..MaxPlayers
        BY <2>1 DEF Filled
      <4>. QED  BY <3>8, <4>1, LimitsAssumption
    <3>10. Filled(e)
      <4>. SUFFICES ASSUME NEW u \in DOMAIN c.tables
           PROVE  Len(d.tables[u]) \in 1..MaxPlayers
        BY <3>2, <3>5 DEF Filled
      <4>1. CASE u = t
        BY <3>2, <3>9, <4>1
      <4>2. CASE u # t
        BY <3>2, <4>2 DEF Filled
      <4>. QED  BY <4>1, <4>2
    <3>. QED  BY <3>5, <3>10 DEF Whole, Sound, e
  <2>. QED  BY <2>2, <2>3
<1>. QED  BY <1>1, <1>2

\* WsDeleted: the player is unseated, and a table that it leaves empty erased.
LEMMA DeletedKeeps ==
  ASSUME NEW c, NEW o, Whole(c, o), NEW s \in Session,
         c.wsPlayer[s] # Null, PlayerOf(c, s) # Free,
         NEW t, t = PlayerOf(c, s).table,
         NEW d, d = EraseEntry(Unseat(c, s), s)
  PROVE  /\ t \in DOMAIN d.tables
         /\ d.tables[t] # <<>> => Whole(d, o \ {s})
         /\ d.tables[t] = <<>> => Whole(EraseTable(d, t), o \ {s})
<1>. IsRegistry(c) /\ Seated(c) /\ Alive(c, o) /\ Filled(c) /\ Sound(c, o)
  BY DEF Whole, Sound
<1>. DEFINE e == Unseat(c, s)
<1>0. PICK a : a = c.wsPlayer[s]
  OBVIOUS
<1>1. /\ a \in Addr /\ t \in DOMAIN c.tables
      /\ IsRegistry(e) /\ e.wsPlayer = c.wsPlayer
      /\ e.heap = [c.heap EXCEPT ![a] = Free]
      /\ DOMAIN e.tables = DOMAIN c.tables
      /\ \A u \in DOMAIN c.tables \ {t} : e.tables[u] = c.tables[u]
      /\ Len(e.tables[t]) = Len(c.tables[t]) - 1
  BY <1>0, LivePlayer, UnseatEffect
<1>2. Sound(e, o)
  BY UnseatKeeps
<1>3. d = EraseEntry(e, s)
  OBVIOUS
<1>. HIDE DEF e
<1>4. e.heap[e.wsPlayer[s]] = Free
  BY <1>0, <1>1 DEF IsRegistry
<1>5. Sound(d, o) /\ d.wsPlayer[s] = Null /\ d.tables = e.tables
  <2>1. /\ Sound(EraseEntry(e, s), o) /\ EraseEntry(e, s).wsPlayer[s] = Null
        /\ EraseEntry(e, s).tables = e.tables
    BY <1>2, <1>4, EraseEntryKeeps
  <2>. QED  BY <1>3, <2>1
<1>6. IsRegistry(d)
  BY <1>5 DEF Sound
<1>7. \A u \in DOMAIN d.tables \ {t} : Len(d.tables[u]) \in 1..MaxPlayers
  BY <1>1, <1>5 DEF Filled
<1>8. t \in DOMAIN d.tables /\ t \in DOMAIN c.tables
  BY <1>1, <1>5
<1>9. ASSUME d.tables[t] # <<>>
      PROVE  Whole(d, o \ {s})
  <2>1. Len(d.tables[t]) \in 1..MaxPlayers
    <3>1. d.tables[t] \in Seq(Addr) /\ Len(d.tables[t]) \in Nat
      BY <1>6, <1>8, Tables
    <3>2. Len(d.tables[t]) # 0
      BY <1>9, <3>1, EmptySeq
    <3>3. Len(c.tables[t]) \in 1..MaxPlayers
      BY <1>8 DEF Filled
    <3>4. Len(d.tables[t]) = Len(c.tables[t]) - 1
      BY <1>1, <1>5
    <3>5. PICK m \in Nat, n \in 1..MaxPlayers : m = Len(d.tables[t]) /\ n = Len(c.tables[t])
      BY <3>1, <3>3
    <3>6. m # 0 /\ m = n - 1
      BY <3>2, <3>4, <3>5
    <3>7. m \in 1..MaxPlayers
      BY <3>6, LimitsAssumption
    <3>. QED  BY <3>5, <3>7
  <2>2. Filled(d)
    BY <1>7, <2>1 DEF Filled
  <2>. QED  BY <1>5, <2>2, AliveWithout DEF Whole, Sound
<1>10. ASSUME d.tables[t] = <<>>
       PROVE  Whole(EraseTable(d, t), o \ {s})
  <2>. DEFINE f == EraseTable(d, t)
  <2>1. Sound(f, o)
    BY <1>5, <1>8, EraseTableKeeps
  <2>2. /\ IsRegistry(f) /\ f.wsPlayer = d.wsPlayer
        /\ f.heap = [b \in Addr |-> IF b \in SeatsOf(d, t) THEN Free ELSE d.heap[b]]
        /\ f.tables = [u \in DOMAIN d.tables \ {t} |-> d.tables[u]]
    BY <1>6, <1>8, EraseTableEffect
  <2>. HIDE DEF f
  <2>3. f.wsPlayer[s] = Null
    BY <1>5, <2>2
  <2>4. Filled(f)
    BY <1>7, <2>2 DEF Filled
  <2>. QED  BY <2>1, <2>3, <2>4, AliveWithout DEF Whole, Sound, f
<1>. QED  BY <1>8, <1>9, <1>10
-----------------------------------------------------------------------------
(* A new player, at a new table or at one that is there.                   *)

\* The three fields after a new player's object is allocated.
LEMMA AllocateEffect ==
  ASSUME NEW c, IsRegistry(c), NEW a \in Addr, NEW s \in Session, NEW t \in Name, NEW n \in Name
  PROVE  /\ IsRegistry(Allocate(c, a, s, t, n))
         /\ Allocate(c, a, s, t, n).wsPlayer = [c.wsPlayer EXCEPT ![s] = a]
         /\ Allocate(c, a, s, t, n).heap
              = [c.heap EXCEPT ![a] = [name |-> n, table |-> t, ws |-> s]]
         /\ Allocate(c, a, s, t, n).tables = c.tables
<1>. DEFINE p == [name |-> n, table |-> t, ws |-> s]
            w == [c.wsPlayer EXCEPT ![s] = a]
            h == [c.heap EXCEPT ![a] = p]
<1>1. p \in Object
  BY DEF Object
<1>2. Allocate(c, a, s, t, n) = [c EXCEPT !.heap[a] = p, !.wsPlayer[s] = a]
  BY DEF Allocate
<1>. HIDE DEF p
<1>3. Allocate(c, a, s, t, n) = [wsPlayer |-> w, heap |-> h, tables |-> c.tables]
  BY <1>2 DEF IsRegistry
<1>4. w \in [Session -> Addr \cup {Null}] /\ h \in [Addr -> Object \cup {Free}]
  BY <1>1 DEF IsRegistry
<1>. HIDE DEF w, h
<1>5. /\ IsRegistry(Allocate(c, a, s, t, n)) /\ Allocate(c, a, s, t, n).wsPlayer = w
      /\ Allocate(c, a, s, t, n).heap = h /\ Allocate(c, a, s, t, n).tables = c.tables
  BY <1>3, <1>4, Build DEF IsRegistry
<1>. QED  BY <1>5 DEF w, h, p

\* A heap where a player of s at table t is new at address a.
NewPlayer(c, h, a, s, t) ==
  /\ \A b \in Addr : h[b] # Free =>
       \/ b = a /\ h[b].table = t /\ h[b].ws = s
       \/ b # a /\ h[b] = c.heap[b]
  /\ \A b \in Addr : h[b] = Free => b # a /\ c.heap[b] = Free

\* A registry where a new player of s sits at table t, after the others.
Seating(c, d, s, t, a) ==
  /\ IsRegistry(d)
  /\ d.wsPlayer = [c.wsPlayer EXCEPT ![s] = a]
  /\ NewPlayer(c, d.heap, a, s, t)
  /\ DOMAIN d.tables = DOMAIN c.tables \cup {t}
  /\ \A u \in DOMAIN c.tables \ {t} : d.tables[u] = c.tables[u]
  /\ SeatsOf(d, t) = (IF t \in DOMAIN c.tables THEN SeatsOf(c, t) ELSE {}) \cup {a}
  /\ IsInjective(d.tables[t])
  /\ Len(d.tables[t]) \in 1..MaxPlayers

\* The new player has an address of its own: nobody sits there.
LEMMA FreeSeatless ==
  ASSUME NEW c, Seated(c), NEW a, c.heap[a] = Free
  PROVE  \A t \in DOMAIN c.tables : a \notin SeatsOf(c, t)
BY DEF Seated

\* A whole registry stays whole when a session without a player gets one.
LEMMA SeatingKeeps ==
  ASSUME NEW c, NEW o, Whole(c, o), NEW s \in Session, s \in o, c.wsPlayer[s] = Null,
         NEW t \in Name, NEW a \in Addr, c.heap[a] = Free,
         NEW d, Seating(c, d, s, t, a), Counted(d)
  PROVE  Whole(d, o)
<1>. IsRegistry(c) /\ Seated(c) /\ Alive(c, o) /\ Filled(c)
  BY DEF Whole
<1>1. \A u \in DOMAIN c.tables \ {t} :
        SeatsOf(d, u) = SeatsOf(c, u) /\ d.tables[u] = c.tables[u]
  BY DEF Seating, SeatsOf
<1>2. \A u \in DOMAIN d.tables : u = t \/ u \in DOMAIN c.tables \ {t}
  BY DEF Seating
<1>3. Filled(d)
  BY <1>1, <1>2 DEF Filled, Seating
<1>4. \A u \in DOMAIN d.tables : IsInjective(d.tables[u])
  BY <1>1, <1>2 DEF Seated, Seating
<1>5. ASSUME NEW u \in DOMAIN c.tables, NEW b \in SeatsOf(c, u)
      PROVE  d.heap[b] # Free /\ d.heap[b].table = u
  <2>1. b \in Addr /\ b # a
    BY FreeSeatless, Tables
  <2>2. c.heap[b] # Free /\ c.heap[b].table = u
    BY DEF Seated
  <2>3. d.heap[b] # Free
    BY <2>1, <2>2 DEF Seating, NewPlayer
  <2>4. d.heap[b] = c.heap[b]
    BY <2>1, <2>3 DEF Seating, NewPlayer
  <2>. QED  BY <2>2, <2>3, <2>4
<1>6. d.heap[a] # Free /\ d.heap[a].table = t /\ d.heap[a].ws = s
  BY DEF Seating, NewPlayer
<1>7. ASSUME NEW u \in DOMAIN d.tables, NEW b \in SeatsOf(d, u)
      PROVE  d.heap[b] # Free /\ d.heap[b].table = u
  <2>1. CASE u = t
    <3>1. b = a \/ (t \in DOMAIN c.tables /\ b \in SeatsOf(c, t))
      BY <2>1 DEF Seating
    <3>. QED  BY <1>5, <1>6, <2>1, <3>1
  <2>2. CASE u # t
    BY <1>1, <1>2, <1>5, <2>2
  <2>. QED  BY <2>1, <2>2
<1>8. Seated(d)
  BY <1>4, <1>7 DEF Seated
<1>9. ASSUME NEW b \in Addr, d.heap[b] # Free
      PROVE  /\ d.heap[b].table \in DOMAIN d.tables
             /\ b \in SeatsOf(d, d.heap[b].table)
             /\ d.heap[b].ws \in o
             /\ d.wsPlayer[d.heap[b].ws] = b
  <2>1. CASE b = a
    <3>1. t \in DOMAIN d.tables /\ a \in SeatsOf(d, t)
      BY DEF Seating
    <3>2. d.wsPlayer[s] = a
      BY DEF Seating, IsRegistry
    <3>. QED  BY <1>6, <2>1, <3>1, <3>2
  <2>2. CASE b # a
    <3>1. d.heap[b] = c.heap[b] /\ c.heap[b] # Free
      BY <1>9, <2>2 DEF Seating, NewPlayer
    <3>2. PICK u : u = c.heap[b].table
      OBVIOUS
    <3>3. /\ u \in DOMAIN c.tables /\ b \in SeatsOf(c, u)
          /\ c.heap[b].ws \in o /\ c.wsPlayer[c.heap[b].ws] = b
      BY <3>1, <3>2 DEF Alive
    <3>4. u \in DOMAIN d.tables /\ b \in SeatsOf(d, u)
      <4>1. CASE u = t
        BY <3>3, <4>1 DEF Seating
      <4>2. CASE u # t
        BY <1>1, <3>3, <4>2 DEF Seating
      <4>. QED  BY <4>1, <4>2
    <3>5. c.heap[b].ws \in Session /\ c.heap[b].ws # s
      <4>1. c.heap[b].ws # s
        BY <3>1, AliveWithout
      <4>2. c.heap[b] \in Object
        BY <3>1 DEF IsRegistry
      <4>. QED  BY <4>1, <4>2 DEF Object
    <3>6. d.wsPlayer[c.heap[b].ws] = b
      BY <3>3, <3>5 DEF Seating, IsRegistry
    <3>. QED  BY <3>1, <3>2, <3>3, <3>4, <3>6
  <2>. QED  BY <2>1, <2>2
<1>10. Alive(d, o)
  BY <1>9 DEF Alive
<1>. QED  BY <1>3, <1>8, <1>10 DEF Whole, Seating
\* The heap after a new player is allocated at a free address.
LEMMA AllocatedHeap ==
  ASSUME NEW c, IsRegistry(c), NEW a \in Addr, c.heap[a] = Free,
         NEW s \in Session, NEW t \in Name, NEW n \in Name,
         NEW h, h = [c.heap EXCEPT ![a] = [name |-> n, table |-> t, ws |-> s]]
  PROVE  NewPlayer(c, h, a, s, t)
<1>. DEFINE p == [name |-> n, table |-> t, ws |-> s]
<1>1. p.table = t /\ p.ws = s /\ p # Free
  <2>1. p \in [name : Name, table : Name, ws : Session]
    OBVIOUS
  <2>. QED  BY <2>1, FreeAssumption
<1>. HIDE DEF p
<1>2. \A b \in Addr : h[b] = IF b = a THEN p ELSE c.heap[b]
  BY DEF IsRegistry, p
<1>. QED  BY <1>1, <1>2 DEF NewPlayer

\* ntbl: the new table has one seat, that of its owner.
LEMMA NewTableSeats ==
  ASSUME NEW c, NEW o, Whole(c, o), NEW s \in Session, NEW t \in Name, NEW a \in Addr,
         c.heap[a] = Free, t \notin DOMAIN c.tables,
         Cardinality(DOMAIN c.tables) < MaxTables
  PROVE  /\ Seating(c, AddTable(Allocate(c, a, s, t, t), t, a), s, t, a)
         /\ Counted(AddTable(Allocate(c, a, s, t, t), t, a))
<1>. IsRegistry(c) /\ Counted(c)
  BY DEF Whole
<1>. DEFINE e == Allocate(c, a, s, t, t)
            d == AddTable(e, t, a)
            ts == [u \in DOMAIN e.tables \cup {t} |-> IF u = t THEN <<a>> ELSE e.tables[u]]
<1>1. /\ IsRegistry(e) /\ e.wsPlayer = [c.wsPlayer EXCEPT ![s] = a]
      /\ e.heap = [c.heap EXCEPT ![a] = [name |-> t, table |-> t, ws |-> s]]
      /\ e.tables = c.tables
  BY AllocateEffect
<1>2. d = [e EXCEPT !.tables = ts]
  BY DEF AddTable
<1>. HIDE DEF d, e
<1>3. d = [wsPlayer |-> e.wsPlayer, heap |-> e.heap, tables |-> ts]
  <2>. HIDE DEF ts
  <2>. QED  BY <1>1, <1>2 DEF IsRegistry
<1>4. /\ DOMAIN ts = DOMAIN c.tables \cup {t} /\ ts[t] = <<a>>
      /\ \A u \in DOMAIN c.tables : ts[u] = c.tables[u]
  BY <1>1
<1>5. ts \in [DOMAIN ts -> Seq(Addr)] /\ DOMAIN ts \subseteq Name
  <2>1. ASSUME NEW u \in DOMAIN ts  PROVE (IF u = t THEN <<a>> ELSE e.tables[u]) \in Seq(Addr)
    BY <1>1, <1>4 DEF IsRegistry
  <2>2. DOMAIN ts \subseteq Name
    BY <1>4 DEF IsRegistry
  <2>. QED  BY <2>1, <2>2
<1>. HIDE DEF ts
<1>6. IsRegistry(d) /\ d.wsPlayer = e.wsPlayer /\ d.heap = e.heap /\ d.tables = ts
  BY <1>1, <1>3, <1>5, Build DEF IsRegistry
<1>7. IsInjective(<<a>>) /\ Len(<<a>>) \in 1..MaxPlayers /\ Range(<<a>>) = {a}
  BY LimitsAssumption DEF IsInjective, Range
<1>8. SeatsOf(d, t) = {a}
  BY <1>4, <1>6, <1>7 DEF SeatsOf, Range
<1>9. NewPlayer(c, d.heap, a, s, t)
  BY <1>1, <1>6, AllocatedHeap
<1>10. Seating(c, d, s, t, a)
  BY <1>1, <1>4, <1>6, <1>7, <1>8, <1>9 DEF Seating
<1>11. Counted(d)
  <2>1. /\ IsFiniteSet(DOMAIN c.tables \cup {t})
        /\ Cardinality(DOMAIN c.tables \cup {t}) = Cardinality(DOMAIN c.tables) + 1
        /\ Cardinality(DOMAIN c.tables) \in Nat
    BY FS_AddElement, FS_CardinalityType DEF Counted
  <2>. QED  BY <1>4, <1>6, <2>1, LimitsAssumption DEF Counted
<1>. QED  BY <1>10, <1>11 DEF d, e

\* join: the new player sits behind those at the table.
LEMMA JoinSeats ==
  ASSUME NEW c, NEW o, Whole(c, o), NEW s \in Session, NEW t \in Name, NEW n \in Name,
         NEW a \in Addr, c.heap[a] = Free, t \in DOMAIN c.tables,
         Len(c.tables[t]) < MaxPlayers
  PROVE  /\ Seating(c, AddSeat(Allocate(c, a, s, t, n), t, a), s, t, a)
         /\ Counted(AddSeat(Allocate(c, a, s, t, n), t, a))
<1>. IsRegistry(c) /\ Counted(c) /\ Seated(c) /\ Filled(c)
  BY DEF Whole
<1>. DEFINE e == Allocate(c, a, s, t, n)
            d == AddSeat(e, t, a)
            ts == [c.tables EXCEPT ![t] = Append(@, a)]
<1>1. /\ IsRegistry(e) /\ e.wsPlayer = [c.wsPlayer EXCEPT ![s] = a]
      /\ e.heap = [c.heap EXCEPT ![a] = [name |-> n, table |-> t, ws |-> s]]
      /\ e.tables = c.tables
  BY AllocateEffect
<1>2. d = [e EXCEPT !.tables[t] = Append(@, a)]
  BY DEF AddSeat
<1>. HIDE DEF d, e
<1>3. d = [wsPlayer |-> e.wsPlayer, heap |-> e.heap, tables |-> ts]
  BY <1>1, <1>2 DEF IsRegistry
<1>4. PICK q \in Seq(Addr) : q = c.tables[t]
  BY Tables
<1>5. /\ Append(q, a) \in Seq(Addr) /\ Len(Append(q, a)) = Len(q) + 1 /\ Len(q) \in Nat
      /\ DOMAIN q = 1..Len(q) /\ DOMAIN Append(q, a) = 1..(Len(q) + 1)
      /\ Append(q, a)[Len(q) + 1] = a /\ \A i \in 1..Len(q) : Append(q, a)[i] = q[i]
  BY AppendProperties, LenProperties
<1>6. /\ DOMAIN ts = DOMAIN c.tables /\ ts[t] = Append(q, a)
      /\ \A u \in DOMAIN c.tables \ {t} : ts[u] = c.tables[u]
  BY <1>4
<1>7. ts \in [DOMAIN ts -> Seq(Addr)] /\ DOMAIN ts \subseteq Name
  BY <1>4, <1>5 DEF IsRegistry
<1>. HIDE DEF ts
<1>8. IsRegistry(d) /\ d.wsPlayer = e.wsPlayer /\ d.heap = e.heap /\ d.tables = ts
  BY <1>1, <1>3, <1>7, Build DEF IsRegistry
<1>9. Range(q) = SeatsOf(c, t) /\ a \notin Range(q) /\ IsInjective(q)
  BY <1>4, Tables, FreeSeatless DEF Seated
<1>10. \A i \in 1..Len(q) : q[i] # a /\ q[i] \in Range(q)
  BY <1>5, <1>9 DEF Range
<1>11. IsInjective(Append(q, a))
  <2>1. ASSUME NEW i \in 1..(Len(q) + 1), NEW k \in 1..(Len(q) + 1), Append(q, a)[i] = Append(q, a)[k]
        PROVE  i = k
    <3>1. CASE i \in 1..Len(q) /\ k \in 1..Len(q)
      BY <1>5, <1>9, <2>1, <3>1 DEF IsInjective
    <3>2. CASE i = Len(q) + 1 /\ k = Len(q) + 1
      BY <3>2
    <3>3. CASE i = Len(q) + 1 /\ k \in 1..Len(q)
      BY <1>5, <1>10, <2>1, <3>3
    <3>4. CASE i \in 1..Len(q) /\ k = Len(q) + 1
      BY <1>5, <1>10, <2>1, <3>4
    <3>. QED  BY <1>5, <3>1, <3>2, <3>3, <3>4
  <2>. QED  BY <1>5, <2>1 DEF IsInjective
<1>12. Range(Append(q, a)) = Range(q) \cup {a}
  <2>1. ASSUME NEW i \in 1..(Len(q) + 1)  PROVE Append(q, a)[i] \in Range(q) \cup {a}
    BY <1>5, <1>10
  <2>2. ASSUME NEW x \in Range(q)  PROVE \E i \in 1..(Len(q) + 1) : Append(q, a)[i] = x
    BY <1>5 DEF Range
  <2>3. Append(q, a)[Len(q) + 1] = a /\ Len(q) + 1 \in 1..(Len(q) + 1)
    BY <1>5
  <2>. QED  BY <1>5, <2>1, <2>2, <2>3 DEF Range
<1>13. SeatsOf(d, t) = SeatsOf(c, t) \cup {a}
  <2>1. SeatsOf(d, t) = Range(d.tables[t])
    BY DEF SeatsOf, Range
  <2>2. d.tables[t] = Append(q, a)
    BY <1>6, <1>8
  <2>. QED  BY <1>9, <1>12, <2>1, <2>2
<1>14. Len(Append(q, a)) \in 1..MaxPlayers
  BY <1>4, <1>5, LimitsAssumption
<1>15. NewPlayer(c, d.heap, a, s, t)
  BY <1>1, <1>8, AllocatedHeap
<1>16. DOMAIN d.tables = DOMAIN c.tables \cup {t}
  BY <1>6, <1>8
<1>17. Seating(c, d, s, t, a)
  BY <1>1, <1>6, <1>8, <1>11, <1>13, <1>14, <1>15, <1>16 DEF Seating
<1>18. Counted(d)
  BY <1>6, <1>8 DEF Counted
<1>. QED  BY <1>17, <1>18 DEF d, e
-----------------------------------------------------------------------------
(* What keeps the entries of ws_player_ exact.                             *)

\* Erasing the entry of s and its object leaves the other entries exact.
LEMMA ErasedExact ==
  ASSUME NEW c, IsRegistry(c), Exact(c), NEW s \in Session, c.wsPlayer[s] # Null,
         NEW e, e.wsPlayer = [c.wsPlayer EXCEPT ![s] = Null],
         \A b \in Addr \ {c.wsPlayer[s]} : e.heap[b] = c.heap[b]
  PROVE  Exact(e)
<1>. SUFFICES ASSUME NEW q \in Session, e.wsPlayer[q] # Null
     PROVE  PlayerOf(e, q) # Free /\ PlayerOf(e, q).ws = q
  BY DEF Exact
<1>1. q # s /\ e.wsPlayer[q] = c.wsPlayer[q] /\ c.wsPlayer[q] # Null
  BY DEF IsRegistry
<1>2. PlayerOf(c, q) # Free /\ PlayerOf(c, q).ws = q /\ PlayerOf(c, s).ws = s
  BY <1>1 DEF Exact
<1>3. c.wsPlayer[q] \in Addr /\ c.wsPlayer[q] # c.wsPlayer[s]
  BY <1>1, <1>2 DEF IsRegistry, PlayerOf
<1>. QED  BY <1>1, <1>2, <1>3 DEF PlayerOf

\* A seat that is left without closing the table for others keeps them exact.
LEMMA LeaveSeatExact ==
  ASSUME NEW c, NEW o, Whole(c, o), Exact(c), NEW s \in Session, ClosedBy(c, s) = {}
  PROVE  Exact(LeaveSeat(c, s))
<1>. IsRegistry(c) /\ Seated(c) /\ Alive(c, o)
  BY DEF Whole
<1>1. CASE c.wsPlayer[s] = Null
  BY <1>1 DEF LeaveSeat
<1>2. CASE c.wsPlayer[s] # Null
  <2>0. PICK a, t : a = c.wsPlayer[s] /\ t = PlayerOf(c, s).table
    OBVIOUS
  <2>1. PlayerOf(c, s) # Free
    BY <1>2 DEF Exact
  <2>2. a \in Addr /\ t \in DOMAIN c.tables /\ a \in SeatsOf(c, t)
    BY <1>2, <2>0, <2>1, LivePlayer, UnseatEffect
  <2>3. CASE IsOwner(c, s)
    <3>. DEFINE d == EraseTable(c, t)
                e == EraseEntry(d, s)
    <3>1. LeaveSeat(c, s) = e
      BY <1>2, <2>0, <2>3 DEF LeaveSeat
    <3>2. SeatsOf(c, t) \subseteq {a}
      <4>1. {c.heap[b].ws : b \in SeatsOf(c, t) \ {a}} = {}
        BY <1>2, <2>0, <2>3 DEF ClosedBy
      <4>. QED  BY <4>1
    <3>3. /\ IsRegistry(d) /\ d.wsPlayer = c.wsPlayer
          /\ d.heap = [b \in Addr |-> IF b \in SeatsOf(c, t) THEN Free ELSE c.heap[b]]
          /\ d.tables = [u \in DOMAIN c.tables \ {t} |-> c.tables[u]]
      BY <2>2, EraseTableEffect
    <3>. HIDE DEF d
    <3>4. /\ IsRegistry(e) /\ e.wsPlayer = [d.wsPlayer EXCEPT ![s] = Null]
          /\ e.heap = d.heap /\ e.tables = d.tables
      BY <3>3, EraseEntryEffect
    <3>. HIDE DEF e
    <3>5. \A b \in Addr \ {a} : e.heap[b] = c.heap[b]
      BY <3>2, <3>3, <3>4
    <3>6. Exact(e)
      BY <1>2, <2>0, <3>3, <3>4, <3>5, ErasedExact
    <3>. QED  BY <3>1, <3>6
  <2>4. CASE ~IsOwner(c, s)
    <3>. DEFINE d == Unseat(c, s)
                e == EraseEntry(d, s)
    <3>1. LeaveSeat(c, s) = e
      BY <1>2, <2>4 DEF LeaveSeat
    <3>2. IsRegistry(d) /\ d.wsPlayer = c.wsPlayer /\ d.heap = [c.heap EXCEPT ![a] = Free]
      BY <1>2, <2>0, <2>1, UnseatEffect
    <3>. HIDE DEF d
    <3>3. /\ IsRegistry(e) /\ e.wsPlayer = [d.wsPlayer EXCEPT ![s] = Null]
          /\ e.heap = d.heap /\ e.tables = d.tables
      BY <3>2, EraseEntryEffect
    <3>. HIDE DEF e
    <3>4. \A b \in Addr \ {a} : e.heap[b] = c.heap[b]
      BY <3>2, <3>3 DEF IsRegistry
    <3>5. e.wsPlayer = [c.wsPlayer EXCEPT ![s] = Null]
      BY <3>2, <3>3
    <3>6. \A b \in Addr \ {c.wsPlayer[s]} : e.heap[b] = c.heap[b]
      BY <2>0, <3>4
    <3>7. Exact(e)
      BY <1>2, <3>5, <3>6, ErasedExact
    <3>. QED  BY <3>1, <3>7
  <2>. QED  BY <2>3, <2>4
<1>. QED  BY <1>1, <1>2

\* The end of a session keeps the entries of the others exact.
LEMMA DeletedExact ==
  ASSUME NEW c, NEW o, Whole(c, o), Exact(c), NEW s \in Session,
         c.wsPlayer[s] # Null,
         NEW t, t = PlayerOf(c, s).table,
         NEW d, d = EraseEntry(Unseat(c, s), s)
  PROVE  /\ Exact(d)
         /\ d.tables[t] = <<>> => Exact(EraseTable(d, t))
<1>. IsRegistry(c) /\ Seated(c) /\ Alive(c, o)
  BY DEF Whole
<1>. DEFINE e == Unseat(c, s)
<1>0. PICK a : a = c.wsPlayer[s]
  OBVIOUS
<1>1. PlayerOf(c, s) # Free
  BY DEF Exact
<1>2. /\ t \in DOMAIN c.tables
      /\ IsRegistry(e) /\ e.wsPlayer = c.wsPlayer /\ e.heap = [c.heap EXCEPT ![a] = Free]
      /\ DOMAIN e.tables = DOMAIN c.tables
  BY <1>0, <1>1, UnseatEffect
<1>3. d = EraseEntry(e, s)
  OBVIOUS
<1>. HIDE DEF e
<1>4. /\ IsRegistry(d) /\ d.wsPlayer = [e.wsPlayer EXCEPT ![s] = Null]
      /\ d.heap = e.heap /\ d.tables = e.tables
  <2>1. /\ IsRegistry(EraseEntry(e, s))
        /\ EraseEntry(e, s).wsPlayer = [e.wsPlayer EXCEPT ![s] = Null]
        /\ EraseEntry(e, s).heap = e.heap /\ EraseEntry(e, s).tables = e.tables
    BY <1>2, EraseEntryEffect
  <2>. QED  BY <1>3, <2>1
<1>5. \A b \in Addr \ {a} : d.heap[b] = c.heap[b]
  BY <1>2, <1>4 DEF IsRegistry
<1>6. d.wsPlayer = [c.wsPlayer EXCEPT ![s] = Null]
  BY <1>2, <1>4
<1>7. Exact(d)
  BY <1>0, <1>5, <1>6, ErasedExact
<1>8. ASSUME d.tables[t] = <<>>
      PROVE  Exact(EraseTable(d, t))
  <2>. DEFINE f == EraseTable(d, t)
  <2>1. /\ IsRegistry(f) /\ f.wsPlayer = d.wsPlayer
        /\ f.heap = [b \in Addr |-> IF b \in SeatsOf(d, t) THEN Free ELSE d.heap[b]]
        /\ f.tables = [u \in DOMAIN d.tables \ {t} |-> d.tables[u]]
    <3>1. IsRegistry(d) /\ t \in DOMAIN d.tables
      BY <1>2, <1>4
    <3>. QED  BY <3>1, EraseTableEffect
  <2>. HIDE DEF f
  <2>2. SeatsOf(d, t) = {}
    BY <1>8 DEF SeatsOf
  <2>3. \A b \in Addr : f.heap[b] = d.heap[b]
    BY <2>1, <2>2
  <2>4. Exact(f)
    <3>. SUFFICES ASSUME NEW q \in Session, f.wsPlayer[q] # Null
         PROVE  PlayerOf(f, q) # Free /\ PlayerOf(f, q).ws = q
      BY DEF Exact
    <3>1. d.wsPlayer[q] \in Addr
      BY <1>4, <2>1 DEF IsRegistry
    <3>2. PlayerOf(f, q) = PlayerOf(d, q)
      BY <2>1, <2>3, <3>1 DEF PlayerOf
    <3>. QED  BY <1>7, <2>1, <3>2 DEF Exact
  <2>. QED  BY <2>4 DEF f
<1>. QED  BY <1>7, <1>8

\* A new player is the one its session plays as, and nobody else's.
LEMMA SeatingExact ==
  ASSUME NEW c, IsRegistry(c), Exact(c), NEW s \in Session, c.wsPlayer[s] = Null,
         NEW t, NEW a \in Addr, c.heap[a] = Free, NEW d, Seating(c, d, s, t, a)
  PROVE  Exact(d)
<1>. SUFFICES ASSUME NEW q \in Session, d.wsPlayer[q] # Null
     PROVE  PlayerOf(d, q) # Free /\ PlayerOf(d, q).ws = q
  BY DEF Exact
<1>1. d.wsPlayer = [c.wsPlayer EXCEPT ![s] = a] /\ NewPlayer(c, d.heap, a, s, t)
  BY DEF Seating
<1>2. CASE q = s
  <2>1. d.wsPlayer[q] = a
    BY <1>1, <1>2 DEF IsRegistry
  <2>. QED  BY <1>1, <1>2, <2>1 DEF NewPlayer, PlayerOf
<1>3. CASE q # s
  <2>1. d.wsPlayer[q] = c.wsPlayer[q]
    BY <1>1, <1>3 DEF IsRegistry
  <2>2. c.wsPlayer[q] \in Addr
    BY <2>1 DEF IsRegistry
  <2>3. c.heap[c.wsPlayer[q]] # Free /\ c.heap[c.wsPlayer[q]].ws = q
    BY <2>1 DEF Exact, PlayerOf
  <2>4. c.wsPlayer[q] # a
    BY <2>3
  <2>5. d.heap[c.wsPlayer[q]] = c.heap[c.wsPlayer[q]]
    BY <1>1, <2>2, <2>3, <2>4 DEF NewPlayer
  <2>. QED  BY <2>1, <2>3, <2>5 DEF PlayerOf
<1>. QED  BY <1>2, <1>3
-----------------------------------------------------------------------------
(* The invariant.                                                          *)

\* Before any session sends anything the invariant holds.
LEMMA ClubInit == Init => IInv
<1>. SUFFICES ASSUME Init PROVE IInv
  OBVIOUS
<1>1. /\ club.wsPlayer = [s \in Session |-> Null] /\ club.heap = [a \in Addr |-> Free]
      /\ club.tables = [t \in {} |-> <<>>]
      /\ club = [wsPlayer |-> club.wsPlayer, heap |-> club.heap, tables |-> club.tables]
  BY DEF Init
<1>2. DOMAIN club.tables = {} /\ club.tables \in [DOMAIN club.tables -> Seq(Addr)]
  BY <1>1
<1>3. IsRegistry(club)
  BY <1>1, <1>2 DEF IsRegistry
<1>4. Seated(club) /\ Alive(club, open) /\ Filled(club)
  BY <1>1, <1>2 DEF Seated, Alive, Filled
<1>5. Counted(club)
  BY <1>2, FS_EmptySet, LimitsAssumption DEF Counted
<1>6. Exact(club)
  BY <1>1 DEF Exact
<1>7. TypeOK
  BY <1>3, ClubIsRegistry DEF TypeOK, Init
<1>. QED  BY <1>3, <1>4, <1>5, <1>6, <1>7 DEF IInv, Whole, Init

\* A registry in the next state.
LEMMA ClubIsRegistryNext == (TypeOK)' <=>
  (open \subseteq Session /\ IsRegistry(club) /\
   told \in [Session -> {"club", "owner", "player", "closed"}] /\
   evicted \in BOOLEAN /\ broken \in BOOLEAN)'
<1>1. TypeOK <=>
  (open \subseteq Session /\ IsRegistry(club) /\
   told \in [Session -> {"club", "owner", "player", "closed"}] /\
   evicted \in BOOLEAN /\ broken \in BOOLEAN)
  BY ClubIsRegistry DEF TypeOK
<1>. QED  BY <1>1, PTL

\* What TABLE_CLOSED and the answers tell is one of four things.
LEMMA TellType ==
  ASSUME TypeOK, NEW s \in Session, NEW what \in {"club", "owner", "player", "closed"},
         Tell(s, what)
  PROVE  told' \in [Session -> {"club", "owner", "player", "closed"}]
BY DEF TypeOK, Tell

\* A command that gives s a seat, or none, and what it does to the registry.
LEMMA SeatStep ==
  ASSUME IInv, NEW s \in Session, Served(s), NEW t \in Name,
         club' = LeaveSeat(club, s)
           \/ \E a \in Addr : /\ LeaveSeat(club, s).heap[a] = Free
                              /\ Seating(LeaveSeat(club, s), club', s, t, a)
                              /\ Counted(club'),
         NEW what \in {"club", "owner", "player", "closed"}, Tell(s, what),
         evicted' = (evicted \/ ClosedBy(club, s) # {}), UNCHANGED <<open, broken>>
  PROVE  IInv'
<1>. TypeOK /\ Whole(club, open) /\ IsRegistry(club)
  BY DEF IInv, Whole
<1>. DEFINE c == LeaveSeat(club, s)
<1>1. Whole(c, open) /\ c.wsPlayer[s] = Null /\ s \in open
  BY LeaveSeatKeeps DEF Served
<1>2. IsRegistry(c)
  BY <1>1 DEF Whole
<1>3. ASSUME ~evicted' PROVE Exact(c) /\ ~broken
  <2>1. ~evicted /\ ClosedBy(club, s) = {}
    BY <1>3
  <2>2. Exact(club) /\ ~broken
    BY <2>1 DEF IInv
  <2>. QED  BY <2>1, <2>2, LeaveSeatExact
<1>. PICK d : d = club'
  OBVIOUS
<1>. HIDE DEF c
<1>4. Whole(d, open) /\ (~evicted' => Exact(d))
  <2>1. CASE d = c
    BY <1>1, <1>3, <2>1
  <2>2. CASE \E a \in Addr : c.heap[a] = Free /\ Seating(c, d, s, t, a) /\ Counted(d)
    <3>1. PICK a \in Addr : c.heap[a] = Free /\ Seating(c, d, s, t, a) /\ Counted(d)
      BY <2>2
    <3>2. Whole(d, open)
      BY <1>1, <3>1, SeatingKeeps
    <3>3. ~evicted' => Exact(d)
      BY <1>1, <1>2, <1>3, <3>1, SeatingExact
    <3>. QED  BY <3>2, <3>3
  <2>. QED  BY <2>1, <2>2 DEF c
<1>5. Whole(club, open)' /\ (~evicted' => Exact(club)')
  BY <1>4
<1>6. TypeOK'
  <2>1. told' \in [Session -> {"club", "owner", "player", "closed"}]
    BY TellType
  <2>2. IsRegistry(club)'
    BY <1>5 DEF Whole
  <2>3. (open \subseteq Session)' /\ evicted' \in BOOLEAN /\ broken' \in BOOLEAN
    BY DEF TypeOK
  <2>. QED  BY <2>1, <2>2, <2>3, ClubIsRegistryNext
<1>. QED  BY <1>3, <1>5, <1>6 DEF IInv

\* Every command, and every end of a session, keeps the invariant.
LEMMA ClubNext == IInv /\ [Next]_vars => IInv'
<1>. SUFFICES ASSUME IInv, [Next]_vars PROVE IInv'
  OBVIOUS
<1>. TypeOK /\ Whole(club, open) /\ IsRegistry(club)
  BY DEF IInv, Whole
<1>1. ASSUME NEW s \in Session, NEW t \in Name, NEW fine \in BOOLEAN, NewTable(s, t, fine)
      PROVE  IInv'
  <2>. DEFINE c == LeaveSeat(club, s)
              accepted == /\ t \notin DOMAIN c.tables
                          /\ Cardinality(DOMAIN c.tables) < MaxTables
                          /\ fine
  <2>1. /\ Served(s) /\ evicted' = (evicted \/ ClosedBy(club, s) # {})
        /\ UNCHANGED <<open, broken>>
    BY <1>1 DEF NewTable
  <2>2. Whole(c, open)
    BY <2>1, LeaveSeatKeeps DEF Served
  <2>3. CASE accepted
    <3>1. PICK a \in {b \in Addr : c.heap[b] = Free} :
            club' = AddTable(Allocate(c, a, s, t, t), t, a)
      BY <1>1, <2>3 DEF NewTable
    <3>2. Tell(s, "owner")
      BY <1>1, <2>3 DEF NewTable
    <3>. HIDE DEF c
    <3>3. Seating(c, club', s, t, a) /\ Counted(club')
      BY <2>2, <2>3, <3>1, NewTableSeats
    <3>. QED  BY <2>1, <3>1, <3>2, <3>3, SeatStep DEF c
  <2>4. CASE ~accepted
    <3>1. club' = LeaveSeat(club, s) /\ Tell(s, told[s])
      BY <1>1, <2>4 DEF NewTable
    <3>2. told[s] \in {"club", "owner", "player", "closed"}
      BY DEF TypeOK
    <3>. QED  BY <2>1, <3>1, <3>2, SeatStep
  <2>. QED  BY <2>3, <2>4
<1>2. ASSUME NEW s \in Session, NEW t \in Name, NEW n \in Name, NEW fine \in BOOLEAN,
             Join(s, t, n, fine)
      PROVE  IInv'
  <2>. DEFINE c == LeaveSeat(club, s)
              accepted == /\ fine
                          /\ t \in DOMAIN c.tables
                          /\ Len(c.tables[t]) < MaxPlayers
  <2>1. /\ Served(s) /\ evicted' = (evicted \/ ClosedBy(club, s) # {})
        /\ UNCHANGED <<open, broken>>
    BY <1>2 DEF Join
  <2>2. Whole(c, open)
    BY <2>1, LeaveSeatKeeps DEF Served
  <2>3. CASE accepted
    <3>1. PICK a \in {b \in Addr : c.heap[b] = Free} :
            club' = AddSeat(Allocate(c, a, s, t, n), t, a)
      BY <1>2, <2>3 DEF Join
    <3>2. Tell(s, "player")
      BY <1>2, <2>3 DEF Join
    <3>. HIDE DEF c
    <3>3. Seating(c, club', s, t, a) /\ Counted(club')
      BY <2>2, <2>3, <3>1, JoinSeats
    <3>. QED  BY <2>1, <3>1, <3>2, <3>3, SeatStep DEF c
  <2>4. CASE ~accepted
    <3>1. club' = LeaveSeat(club, s) /\ Tell(s, told[s])
      BY <1>2, <2>4 DEF Join
    <3>2. told[s] \in {"club", "owner", "player", "closed"}
      BY DEF TypeOK
    <3>. QED  BY <2>1, <3>1, <3>2, SeatStep
  <2>. QED  BY <2>3, <2>4
<1>3. ASSUME NEW s \in Session, WsDeleted(s)
      PROVE  IInv'
  <2>1. Served(s) /\ open' = open \ {s} /\ UNCHANGED <<told, evicted, broken>>
    BY <1>3 DEF WsDeleted
  <2>2. Whole(club', open') /\ (~evicted' => ~broken' /\ Exact(club'))
    <3>1. CASE club.wsPlayer[s] = Null
      <4>1. club' = club
        BY <1>3, <3>1 DEF WsDeleted
      <4>2. Whole(club, open \ {s})
        BY <3>1, AliveWithout DEF Whole
      <4>. QED  BY <2>1, <4>1, <4>2 DEF IInv
    <3>2. CASE club.wsPlayer[s] # Null
      <4>. DEFINE t == PlayerOf(club, s).table
                  d == EraseEntry(Unseat(club, s), s)
      <4>1. club' = IF d.tables[t] = <<>> THEN EraseTable(d, t) ELSE d
        BY <1>3, <3>2 DEF WsDeleted
      <4>2. PlayerOf(club, s) # Free
        BY <2>1, <3>2 DEF Served
      <4>3. /\ d.tables[t] # <<>> => Whole(d, open \ {s})
            /\ d.tables[t] = <<>> => Whole(EraseTable(d, t), open \ {s})
        BY <3>2, <4>2, DeletedKeeps
      <4>4. Exact(club) => Exact(d) /\ (d.tables[t] = <<>> => Exact(EraseTable(d, t)))
        BY <3>2, DeletedExact
      <4>. HIDE DEF t, d
      <4>5. ~evicted => ~broken /\ Exact(club)
        BY DEF IInv
      <4>. QED  BY <2>1, <4>1, <4>3, <4>4, <4>5
    <3>. QED  BY <3>1, <3>2
  <2>3. TypeOK'
    <3>1. IsRegistry(club)'
      BY <2>2 DEF Whole
    <3>2. (open \subseteq Session)' /\ told' \in [Session -> {"club", "owner", "player", "closed"}]
          /\ evicted' \in BOOLEAN /\ broken' \in BOOLEAN
      BY <2>1 DEF TypeOK
    <3>. QED  BY <3>1, <3>2, ClubIsRegistryNext
  <2>. QED  BY <2>2, <2>3 DEF IInv
<1>4. ASSUME NEW s \in Session, UseFreed(s)
      PROVE  IInv'
  <2>1. /\ broken' = TRUE /\ UNCHANGED <<open, club, told, evicted>>
        /\ club.wsPlayer[s] # Null /\ PlayerOf(club, s) = Free
    BY <1>4 DEF UseFreed
  <2>2. evicted
    BY <2>1 DEF IInv, Exact
  <2>3. TypeOK'
    BY <2>1 DEF TypeOK
  <2>4. Whole(club, open)'
    BY <2>1
  <2>. QED  BY <2>1, <2>2, <2>3, <2>4 DEF IInv
<1>5. CASE UNCHANGED vars
  <2>1. TypeOK'
    BY <1>5 DEF TypeOK, vars
  <2>2. Whole(club, open)' /\ (~evicted' => ~broken' /\ Exact(club)')
    BY <1>5 DEF IInv, vars
  <2>. QED  BY <2>1, <2>2 DEF IInv
<1>. QED  BY <1>1, <1>2, <1>3, <1>4, <1>5 DEF Next

\* The invariant holds in every reachable state.
LEMMA AlwaysIInv == Spec => []IInv
BY ClubInit, ClubNext, PTL DEF Spec
-----------------------------------------------------------------------------
(* Theorems.                                                               *)

\* The registry keeps its type: the pointers that are kept in ws_player_ point
\* at addresses, and tables own lists of them.
THEOREM ClubTypeCorrect == Spec => []TypeOK
<1>1. IInv => TypeOK
  BY DEF IInv
<1>. QED  BY AlwaysIInv, <1>1, PTL

\* Tables own exactly the live players, and each live player is the one its
\* own, open session plays as, even after addresses were freed and used again
\* while ws_player_ still pointed at them.
THEOREM SeatsHoldLivePlayersThm == Spec => []SeatsHoldLivePlayers
<1>1. IInv => SeatsHoldLivePlayers
  <2>. SUFFICES ASSUME IInv PROVE SeatsHoldLivePlayers
    OBVIOUS
  <2>. Seated(club) /\ Alive(club, open) /\ IsRegistry(club)
    BY DEF IInv, Whole
  <2>1. ASSUME NEW t \in DOMAIN club.tables, NEW i \in DOMAIN club.tables[t]
        PROVE  /\ club.heap[club.tables[t][i]] # Free
               /\ club.heap[club.tables[t][i]].table = t
               /\ \A k \in DOMAIN club.tables[t] :
                    club.tables[t][k] = club.tables[t][i] => k = i
    BY DEF Seated, SeatsOf, IsInjective
  <2>. QED  BY <2>1 DEF SeatsHoldLivePlayers, Alive
<1>. QED  BY AlwaysIInv, <1>1, PTL

\* No table is left without players, and --maxtables and --maxplayers hold.
THEOREM ClubWithinLimitsThm == Spec => []ClubWithinLimits
<1>1. IInv => ClubWithinLimits
  BY DEF IInv, Whole, Filled, Counted, ClubWithinLimits
<1>. QED  BY AlwaysIInv, <1>1, PTL

\* Only an owner who leaves a table at which others sit makes entries stale:
\* until then no freed player is used and nobody acts for anybody else.
THEOREM RegistryExactThm == Spec => []RegistryExactUntilEviction
<1>1. IInv => RegistryExactUntilEviction
  BY DEF IInv, Exact, RegistryExactUntilEviction
<1>. QED  BY AlwaysIInv, <1>1, PTL
=============================================================================
