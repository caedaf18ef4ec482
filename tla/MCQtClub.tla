------------------------------ MODULE MCQtClub ------------------------------
(***************************************************************************)
(* Bounds for QtClub.  Sessions, names and addresses are alike.            *)
(***************************************************************************)
EXTENDS QtClub

CONSTANTS
  MaxAsk,       \* bound on the new tables and joins that a client asks for
  MaxDown,      \* bound on the messages to one client, before a handler
  MaxGState,    \* bound on the sum of gstate over the tables
  Typed         \* the names typed as a player's

VARIABLE asked  \* how often a client asked

Symmetry == Permutations(Session) \cup Permutations(Addr) \cup Permutations(Name)

\* One request and one command of the game in flight from each client.
Room(s, ops) == \A n \in DOMAIN up[s] : up[s][n].op \notin ops

\* Passwords are typed for the first table only, and none for the players.
Request1(s) ==
  /\ asked[s] < MaxAsk /\ Room(s, {"ntbl", "join"})
  /\ asked' = [asked EXCEPT ![s] = @ + 1]
  /\ \E t \in Name, p \in Password :
       \/ (made = 0 \/ p = "") /\ AcceptNewTable(s, t, p, "")
       \/ (made = 1 \/ p = "") /\ \E n \in Typed : AcceptJoinTable(s, t, n, p, "")

Bounded ==
  MapThenSumSet(LAMBDA t : rooms'[t].gstate, DOMAIN rooms') <= MaxGState

\* Where it stops: others sat at a table that was closed (Club goes on).
MCNext ==
  /\ ~evicted
  /\ \E s \in Session :
       \/ Request1(s)
       \/ /\ UNCHANGED asked
          /\ \/ up[s] = <<>> /\ ui[s].at = NoName /\ ui[s].listed # DOMAIN rooms /\ ClubRefresh(s)
             \/ \E t \in Name : asked[s] = 0 /\ ui[s].first = NoName /\ CancelJoinTable(s, t)
             \/ Room(s, {"gnew", "move"}) /\ (NewGame(s) \/ Move(s))
             \/ OnReceived(s)
             \/ (\A q \in Session : Len(down[q]) < MaxDown) /\ Serve(s) /\ Bounded
             \/ Lost(s)

MCInit == QtInit /\ asked = [s \in Session |-> 0]
MCSpec == MCInit /\ [][MCNext]_<<qtVars, asked>>
=============================================================================
