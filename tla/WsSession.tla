----------------------------- MODULE WsSession -----------------------------
(***************************************************************************)
(* The connections of the C++ server: NetServer (server/server.cc) accepts *)
(* them, an HttpSession answers plain requests or upgrades to a            *)
(* WebSocketSession, which reads the client's messages and writes a queue  *)
(* of its own.  The registry above (module Club) is here the set of        *)
(* sessions that hold a player, the only ones others send to.              *)
(* A session object is never deleted, only unregistered.                   *)
(***************************************************************************)
EXTENDS Integers, Sequences, FiniteSets

CONSTANTS
  Session,      \* HttpSession objects, each with its WebSocketSession
  MaxPut        \* bound: messages sent to one session

ASSUME MaxPutAssumption == MaxPut \in Nat

VARIABLES
  phase,        \* what an HttpSession and its WebSocketSession wait for
  registered,   \* sessions with a WebSocketSession in hs_to_ws_
  members,      \* sessions with a player in ws_player_
  reading,      \* sessions with an outstanding async_read of a web socket
  sock,         \* queue_ and the outstanding async_writes of each session
  wire,         \* written and not yet received by the client
  got,          \* history: messages the client received
  broken,       \* sessions whose connection is lost
  failed        \* sessions of which a write failed

netVars == <<phase, registered, members>>
ioVars == <<reading, sock, wire, got>>
faultVars == <<broken, failed>>
vars == <<phase, registered, members, reading, sock, wire, got, broken, failed>>

\* A message is the number of its send; put counts them.
Sockets == [queue : Seq(1..MaxPut), writing : 0..1, put : 0..MaxPut]
Socket(queue, writing, put) == [queue |-> queue, writing |-> writing, put |-> put]

TypeOK ==
  /\ phase \in [Session -> {"none", "http", "answer", "accept", "ws", "over"}]
  /\ registered \subseteq Session
  /\ members \subseteq Session
  /\ reading \subseteq Session
  /\ sock \in [Session -> Sockets]
  /\ wire \in [Session -> Seq(1..MaxPut)]
  /\ got \in [Session -> 0..MaxPut]
  /\ broken \subseteq Session
  /\ failed \subseteq Session

-----------------------------------------------------------------------------
(* The socket, as functions of its value c.                                *)

WriteNext(c) == Socket(c.queue, c.writing + 1, c.put)

\* Mutant: every message is written at once.
SendAtOnce(c) ==
  WriteNext(Socket(Append(c.queue, c.put + 1), c.writing, c.put + 1))

\* WebSocketSession::send: start to write only if the queue was empty.
Send(c) ==
  LET pushed == Socket(Append(c.queue, c.put + 1), c.writing, c.put + 1)
  IN IF Len(pushed.queue) = 1 THEN WriteNext(pushed) ELSE pushed

\* A handler sends one session at most a reply and a GSTATE.
SendTimes(c, n) == CASE n = 0 -> c [] n = 1 -> Send(c) [] n = 2 -> Send(Send(c))

\* What one handler sends: at most a reply and a GSTATE to each session.
SendEach(n) ==
  /\ \A s \in Session : sock[s].put + n[s] <= MaxPut
  /\ sock' = [s \in Session |-> SendTimes(sock[s], n[s])]

-----------------------------------------------------------------------------
(* Accepting, plain requests, upgrade.                                     *)

Init ==
  /\ phase = [s \in Session |-> "none"]
  /\ registered = {} /\ members = {} /\ reading = {}
  /\ sock = [s \in Session |-> Socket(<<>>, 0, 0)]
  /\ wire = [s \in Session |-> <<>>]
  /\ got = [s \in Session |-> 0]
  /\ broken = {} /\ failed = {}

Becomes(s, from, to) == phase[s] = from /\ phase' = [phase EXCEPT ![s] = to]

\* NetServer::on_accept: a new HttpSession that reads a request.
Connect(s) ==
  /\ Becomes(s, "none", "http")
  /\ UNCHANGED <<registered, members>> /\ UNCHANGED ioVars /\ UNCHANGED faultVars

\* A plain request is answered; a failed read ends the chain of callbacks.
Request(s) ==
  /\ \/ Becomes(s, "http", "answer")
     \/ s \in broken /\ Becomes(s, "http", "over")
  /\ UNCHANGED <<registered, members>> /\ UNCHANGED ioVars /\ UNCHANGED faultVars

\* The answer is written: read the next request, unless it was the last.
Answered(s) ==
  /\ Becomes(s, "answer", "http") \/ Becomes(s, "answer", "over")
  /\ UNCHANGED <<registered, members>> /\ UNCHANGED ioVars /\ UNCHANGED faultVars

\* The request is an upgrade: register the new WebSocketSession, handshake.
Upgrade(s) ==
  /\ Becomes(s, "http", "accept")
  /\ registered' = registered \cup {s}
  /\ UNCHANGED members /\ UNCHANGED ioVars /\ UNCHANGED faultVars

\* The handshake: a failed one leaves the session registered for ever.
OnAccept(s) ==
  /\ \/ Becomes(s, "accept", "ws") /\ reading' = reading \cup {s}
     \/ s \in broken /\ Becomes(s, "accept", "over") /\ UNCHANGED reading
  /\ UNCHANGED <<registered, members, sock, wire, got>> /\ UNCHANGED faultVars

-----------------------------------------------------------------------------
(* The web socket.                                                         *)

\* Mutant: the handler is run, the next read is forgotten.
ReadNextNot(s) == reading' = reading \ {s}

ReadNext(s) == reading' = reading \cup {s}

\* A message is handled: its session may get or lose its player, and
\* messages go to it and to any sessions that hold players.
OnRead(s) ==
  /\ s \in reading
  /\ members' \in {members \cup {s}, members \ {s}}
  /\ \E n \in [Session -> 0..2] :
       /\ \A q \in Session \ (members \cup {s}) : n[q] = 0
       /\ SendEach(n)
  /\ ReadNext(s)
  /\ UNCHANGED <<phase, registered, wire, got>> /\ UNCHANGED faultVars

\* Mutant: the error is logged and nobody is told.
OnReadErrorLog(s) ==
  /\ s \in reading \cap broken
  /\ reading' = reading \ {s}
  /\ UNCHANGED <<phase, registered, members, sock, wire, got>> /\ UNCHANGED faultVars

\* delete_me_: the session is unregistered, its player removed, and the
\* players of its table are told.
OnReadError(s) ==
  /\ s \in reading \cap broken
  /\ reading' = reading \ {s}
  /\ registered' = registered \ {s}
  /\ members' = members \ {s}
  /\ phase' = [phase EXCEPT ![s] = "over"]
  /\ \E n \in [Session -> 0..1] :
       /\ \A q \in Session \ members' : n[q] = 0
       /\ SendEach(n)
  /\ UNCHANGED <<wire, got>> /\ UNCHANGED faultVars

\* Mutant: the next message waits for the next send.
PoppedIdle(c) == Socket(Tail(c.queue), c.writing - 1, c.put)

\* on_write without error: pop, and write the next message if there is one.
Popped(c) ==
  LET d == Socket(Tail(c.queue), c.writing - 1, c.put)
  IN IF d.queue # <<>> THEN WriteNext(d) ELSE d

\* A connection that is lost may take a message and never deliver it.
OnWrite(s) ==
  /\ sock[s].writing > 0
  /\ wire' = [wire EXCEPT ![s] = Append(@, Head(sock[s].queue))]
  /\ sock' = [sock EXCEPT ![s] = Popped(@)]
  /\ UNCHANGED <<reading, got>> /\ UNCHANGED netVars /\ UNCHANGED faultVars

\* Mutant: the message that could not be written is dropped.
NotWrittenPop(c) == Socket(Tail(c.queue), c.writing - 1, c.put)

\* on_write with an error only logs: the message stays in front.
NotWritten(c) == Socket(c.queue, c.writing - 1, c.put)

OnWriteError(s) ==
  /\ sock[s].writing > 0 /\ s \in broken
  /\ sock' = [sock EXCEPT ![s] = NotWritten(@)]
  /\ failed' = failed \cup {s}
  /\ UNCHANGED <<reading, wire, got, broken>> /\ UNCHANGED netVars

-----------------------------------------------------------------------------
(* The network.                                                            *)

Deliver(s) ==
  /\ wire[s] # <<>> /\ s \notin broken
  /\ got' = [got EXCEPT ![s] = Head(wire[s])]
  /\ wire' = [wire EXCEPT ![s] = Tail(@)]
  /\ UNCHANGED <<reading, sock>> /\ UNCHANGED netVars /\ UNCHANGED faultVars

\* The client closes the connection, or the connection is lost.
Lose(s) ==
  /\ phase[s] # "none"
  /\ s \notin broken /\ broken' = broken \cup {s}
  /\ UNCHANGED failed /\ UNCHANGED netVars /\ UNCHANGED ioVars

Next == \E s \in Session :
  \/ Connect(s) \/ Request(s) \/ Answered(s) \/ Upgrade(s) \/ OnAccept(s)
  \/ OnRead(s) \/ OnReadError(s) \/ OnWrite(s) \/ OnWriteError(s)
  \/ Deliver(s) \/ Lose(s)

Spec == Init /\ [][Next]_vars

\* The event loop completes every outstanding operation, an open connection
\* delivers, and a read of a lost one fails.
FairSpec ==
  /\ Spec
  /\ \A s \in Session : /\ WF_vars(OnWrite(s) \/ OnWriteError(s))
                        /\ WF_vars(OnReadError(s))
                        /\ WF_vars(Deliver(s))

-----------------------------------------------------------------------------
(* Properties.                                                             *)

\* A session writes exactly while it has something to write, one message at
\* a time, until a write fails: an outstanding write has its buffer in the
\* queue, and no message waits for a write that nobody starts.
WriterNeverIdle ==
  \A s \in Session :
    sock[s].writing = IF sock[s].queue = <<>> \/ s \in failed THEN 0 ELSE 1

\* Whoever holds a player is registered, through its handshake and waits for
\* a message: the end of its connection will be noticed.
LossesAreNoticed ==
  \A s \in members : s \in registered \cap reading /\ phase[s] = "ws"

\* The queue of a session and the network behind it are a FIFO channel.
Channels == INSTANCE Links WITH
  up <- registered,
  link <- [s \in Session |->
             IF s \in registered THEN wire[s] \o sock[s].queue ELSE <<>>],
  received <- got

ActsAsLinks == Channels!LinksSpec

\* A message that was sent arrives, or its session gives up its player and
\* is unregistered: also the queue that stays after a failed write ends.
EverythingArrives ==
  \A s \in Session : \A n \in 1..MaxPut :
    sock[s].put >= n ~> got[s] >= n \/ s \notin registered
=============================================================================
