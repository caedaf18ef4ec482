------------------------- MODULE WsSession_proofs --------------------------
(***************************************************************************)
(* Proofs about the web socket sessions, for any set of sessions and any   *)
(* bound MaxPut.                                                           *)
(***************************************************************************)
EXTENDS WsSession, SequenceTheorems, TLAPS

\* The socket c of a session, f if a write of it failed.
Sound(c, f) ==
  /\ c \in Sockets
  /\ c.writing = IF c.queue = <<>> \/ f THEN 0 ELSE 1
  /\ f => c.queue # <<>>

AllSound == \A s \in Session : Sound(sock[s], s \in failed)

\* Who reads is registered and through its handshake.
ReadersRegistered ==
  /\ \A s \in Session : phase[s] = "accept" => s \in registered
  /\ members \subseteq reading
  /\ \A s \in reading : s \in registered /\ phase[s] = "ws"

\* Who is not upgraded yet has never been sent anything.
FreshEmpty ==
  \A s \in Session :
    phase[s] \in {"none", "http", "answer"} =>
      s \notin registered /\ wire[s] = <<>> /\ sock[s].queue = <<>>

\* What is left over of an unregistered session will not be delivered.
LeftoversLost ==
  \A s \in Session \ registered :
    s \in broken \/ (wire[s] = <<>> /\ sock[s].queue = <<>>)

\* The inductive invariant.
IInv == TypeOK /\ AllSound /\ ReadersRegistered /\ FreshEmpty /\ LeftoversLost

-----------------------------------------------------------------------------
(* The socket.                                                             *)

\* One send appends one message and keeps the socket sound.
LEMMA SendSound ==
  ASSUME NEW c, NEW f \in BOOLEAN, Sound(c, f), c.put + 1 <= MaxPut
  PROVE  /\ Sound(Send(c), f)
         /\ Send(c).put = c.put + 1
         /\ Send(c).queue = Append(c.queue, c.put + 1)
<1> DEFINE q == Append(c.queue, c.put + 1)
<1>1. /\ c.put + 1 \in 1..MaxPut /\ c.put + 1 \in 0..MaxPut
      /\ c.queue \in Seq(1..MaxPut) /\ c.writing \in 0..1
  BY MaxPutAssumption DEF Sound, Sockets
<1>2. q \in Seq(1..MaxPut) /\ q # <<>> /\ Len(q) = Len(c.queue) + 1
  BY <1>1, AppendProperties
<1>3. CASE c.queue = <<>>
  <2>1. ~f /\ c.writing = 0 /\ Len(q) = 1
    BY <1>2, <1>3 DEF Sound
  <2>2. Send(c) = [queue |-> q, writing |-> 1, put |-> c.put + 1]
    BY <2>1 DEF Send, WriteNext, Socket
  <2> QED  BY <1>1, <1>2, <2>1, <2>2 DEF Sound, Sockets
<1>4. CASE c.queue # <<>>
  <2>1. Len(q) # 1
    BY <1>1, <1>2, <1>4, EmptySeq
  <2>2. Send(c) = [queue |-> q, writing |-> c.writing, put |-> c.put + 1]
    BY <2>1 DEF Send, Socket
  <2> QED  BY <1>1, <1>2, <1>4, <2>2 DEF Sound, Sockets
<1> QED  BY <1>3, <1>4

\* b is a with something appended.
Longer(a, b) ==
  /\ a \in Seq(1..MaxPut) /\ b \in Seq(1..MaxPut)
  /\ Len(a) <= Len(b)
  /\ \A i \in 1..Len(a) : b[i] = a[i]

\* Up to two sends append some messages and keep the socket sound.
LEMMA SendTimesSound ==
  ASSUME NEW c, NEW f \in BOOLEAN, Sound(c, f),
         NEW n \in 0..2, c.put + n <= MaxPut
  PROVE  /\ Sound(SendTimes(c, n), f)
         /\ n = 0 => SendTimes(c, n) = c
         /\ Longer(c.queue, SendTimes(c, n).queue)
<1>0. c.put \in Int /\ c.queue \in Seq(1..MaxPut)
  BY MaxPutAssumption DEF Sound, Sockets
<1>1. ASSUME NEW e, Sound(e, f), e.put + 1 <= MaxPut
      PROVE  Longer(e.queue, Send(e).queue)
  <2>1. /\ Send(e).queue = Append(e.queue, e.put + 1)
        /\ Send(e).queue \in Seq(1..MaxPut)
    BY <1>1, SendSound DEF Sound, Sockets
  <2>2. e.queue \in Seq(1..MaxPut) /\ e.put + 1 \in 1..MaxPut
    BY <1>1, MaxPutAssumption DEF Sound, Sockets
  <2>3. /\ Len(Send(e).queue) = Len(e.queue) + 1
        /\ \A i \in 1..Len(e.queue) : Send(e).queue[i] = e.queue[i]
    BY <2>1, <2>2, AppendProperties
  <2>4. Len(e.queue) \in Nat
    BY <2>2, LenProperties
  <2> QED  BY <2>1, <2>2, <2>3, <2>4 DEF Longer
<1>2. CASE n = 0
  <2>1. SendTimes(c, n) = c
    BY <1>2 DEF SendTimes
  <2> QED  BY <1>0, <2>1, LenProperties DEF Longer
<1>3. CASE n = 1
  <2>1. SendTimes(c, n) = Send(c) /\ c.put + 1 <= MaxPut
    BY <1>3 DEF SendTimes
  <2> QED  BY <1>1, <1>3, <2>1, SendSound
<1>4. CASE n = 2
  <2>1. SendTimes(c, n) = Send(Send(c)) /\ c.put + 1 <= MaxPut
    BY <1>0, <1>4, MaxPutAssumption DEF SendTimes
  <2>2. Sound(Send(c), f) /\ Send(c).put = c.put + 1
    BY <2>1, SendSound
  <2>3. Send(c).put + 1 <= MaxPut
    BY <1>0, <1>4, <2>2, MaxPutAssumption
  <2>4. Sound(Send(Send(c)), f)
    BY <2>2, <2>3, SendSound
  <2>5. Longer(c.queue, Send(c).queue)
    BY <1>1, <2>1
  <2>6. Longer(Send(c).queue, Send(Send(c)).queue)
    BY <1>1, <2>2, <2>3
  <2>7. Longer(c.queue, Send(Send(c)).queue)
    BY <2>5, <2>6, LenProperties DEF Longer
  <2> QED  BY <1>4, <2>1, <2>4, <2>7
<1> QED  BY <1>2, <1>3, <1>4

\* A whole round of sends: every socket stays sound and loses nothing; who
\* is sent nothing is left alone.
LEMMA SendEachSound ==
  ASSUME IInv, NEW k \in 1..2, NEW n \in [Session -> 0..k], SendEach(n)
  PROVE  /\ sock' \in [Session -> Sockets]
         /\ \A s \in Session : /\ Sound(sock'[s], s \in failed)
                               /\ Longer(sock[s].queue, sock'[s].queue)
                               /\ n[s] = 0 => sock'[s] = sock[s]
<1>1. ASSUME NEW s \in Session
      PROVE  /\ sock'[s] = SendTimes(sock[s], n[s])
             /\ Sound(sock[s], s \in failed)
             /\ n[s] \in 0..2 /\ sock[s].put + n[s] <= MaxPut
  BY <1>1 DEF SendEach, IInv, AllSound
<1>2. ASSUME NEW s \in Session
      PROVE  /\ Sound(sock'[s], s \in failed)
             /\ Longer(sock[s].queue, sock'[s].queue)
             /\ n[s] = 0 => sock'[s] = sock[s]
  <2> DEFINE f == s \in failed
  <2>1. f \in BOOLEAN /\ Sound(sock[s], f)
    BY <1>1
  <2> HIDE DEF f
  <2>2. /\ Sound(SendTimes(sock[s], n[s]), f)
        /\ n[s] = 0 => SendTimes(sock[s], n[s]) = sock[s]
        /\ Longer(sock[s].queue, SendTimes(sock[s], n[s]).queue)
    BY <1>1, <2>1, SendTimesSound
  <2> QED  BY <1>1, <2>2 DEF f
<1>3. sock' = [s \in Session |-> SendTimes(sock[s], n[s])]
  BY DEF SendEach
<1> QED  BY <1>2, <1>3 DEF Sound

\* A finished write: the message is popped and the next one started.
LEMMA PoppedSound ==
  ASSUME NEW c, NEW f \in BOOLEAN, Sound(c, f), c.writing > 0
  PROVE  /\ c.queue # <<>> /\ ~f
         /\ Sound(Popped(c), f)
         /\ Popped(c).queue = Tail(c.queue)
<1>1. c.writing = 1 /\ c.queue # <<>> /\ ~f
  BY DEF Sound, Sockets
<1>2. c.queue \in Seq(1..MaxPut) /\ c.put \in 0..MaxPut
  BY DEF Sound, Sockets
<1>3. Tail(c.queue) \in Seq(1..MaxPut)
  BY <1>1, <1>2, HeadTailProperties
<1>4. CASE Tail(c.queue) = <<>>
  <2>1. Popped(c) = [queue |-> Tail(c.queue), writing |-> 0, put |-> c.put]
    BY <1>1, <1>4 DEF Popped, Socket
  <2> QED  BY <1>1, <1>2, <1>3, <1>4, <2>1 DEF Sound, Sockets
<1>5. CASE Tail(c.queue) # <<>>
  <2>1. Popped(c) = [queue |-> Tail(c.queue), writing |-> 1, put |-> c.put]
    BY <1>1, <1>5 DEF Popped, Socket, WriteNext
  <2> QED  BY <1>1, <1>2, <1>3, <1>5, <2>1 DEF Sound, Sockets
<1> QED  BY <1>4, <1>5

\* A failed write: the message stays, and so the writer is off for ever.
LEMMA NotWrittenSound ==
  ASSUME NEW c, NEW f \in BOOLEAN, Sound(c, f), c.writing > 0
  PROVE  Sound(NotWritten(c), TRUE) /\ NotWritten(c).queue = c.queue
<1>1. c.writing = 1 /\ c.queue # <<>>
  BY DEF Sound, Sockets
<1>2. NotWritten(c) = [queue |-> c.queue, writing |-> 0, put |-> c.put]
  BY <1>1 DEF NotWritten, Socket
<1> QED  BY <1>1, <1>2 DEF Sound, Sockets

-----------------------------------------------------------------------------
(* The invariant.                                                          *)

\* A session that was just made satisfies the invariant.
LEMMA InitIInv == Init => IInv
<1> SUFFICES ASSUME Init PROVE IInv
  OBVIOUS
<1>1. Socket(<<>>, 0, 0) = [queue |-> <<>>, writing |-> 0, put |-> 0]
  BY DEF Socket
<1>2. Socket(<<>>, 0, 0) \in Sockets
  <2>1. <<>> \in Seq(1..MaxPut) /\ 0 \in 0..1 /\ 0 \in 0..MaxPut
    BY MaxPutAssumption, EmptySeq
  <2> QED  BY <2>1 DEF Sockets, Socket
<1>3. TypeOK
  BY <1>2, MaxPutAssumption, EmptySeq DEF Init, TypeOK
<1>4. AllSound
  BY <1>1, <1>2 DEF Init, AllSound, Sound
<1>5. ReadersRegistered /\ FreshEmpty /\ LeftoversLost
  BY <1>1 DEF Init, ReadersRegistered, FreshEmpty, LeftoversLost
<1> QED  BY <1>3, <1>4, <1>5 DEF IInv

\* Every callback and every post keeps the invariant.
LEMMA StepIInv == IInv /\ [Next]_vars => IInv'
<1> SUFFICES ASSUME IInv, [Next]_vars PROVE IInv'
  OBVIOUS
<1> USE DEF ioVars, faultVars, netVars
<1>1. ASSUME NEW s \in Session, Connect(s) \/ Request(s) \/ Answered(s)
      PROVE  IInv'
  <2>1. /\ s \notin reading
        /\ phase[s] \in {"none", "http", "answer"}
        /\ phase' \in [Session -> {"none", "http", "answer", "accept", "ws", "over"}]
        /\ phase'[s] \in {"http", "answer", "over"}
        /\ \A q \in Session : q # s => phase'[q] = phase[q]
        /\ UNCHANGED <<registered, members, reading, sock, wire, got, broken, failed>>
    BY <1>1 DEF Connect, Request, Answered, Becomes, IInv, TypeOK, ReadersRegistered
  <2>2. TypeOK'
    BY <2>1 DEF IInv, TypeOK
  <2>3. AllSound'
    BY <2>1 DEF IInv, AllSound
  <2> QED  BY <2>1, <2>2, <2>3 DEF IInv, TypeOK, ReadersRegistered, FreshEmpty, LeftoversLost
<1>2. ASSUME NEW s \in Session, Upgrade(s)  PROVE IInv'
  <2>1. TypeOK'
    BY <1>2 DEF IInv, TypeOK, Upgrade, Becomes
  <2>2. AllSound'
    BY <1>2 DEF IInv, AllSound, Upgrade
  <2> QED
    BY <1>2, <2>1, <2>2 DEF IInv, TypeOK, Upgrade, Becomes,
              ReadersRegistered, FreshEmpty, LeftoversLost
<1>3. ASSUME NEW s \in Session, OnAccept(s)  PROVE IInv'
  <2>1. TypeOK'
    BY <1>3 DEF IInv, TypeOK, OnAccept, Becomes
  <2>2. AllSound'
    BY <1>3 DEF IInv, AllSound, OnAccept
  <2> QED
    BY <1>3, <2>1, <2>2 DEF IInv, TypeOK, OnAccept, Becomes,
              ReadersRegistered, FreshEmpty, LeftoversLost
<1>4. ASSUME NEW s \in Session, OnRead(s)  PROVE IInv'
  <2>1. PICK n \in [Session -> 0..2] :
          /\ \A q \in Session \ (members \cup {s}) : n[q] = 0
          /\ SendEach(n)
    BY <1>4 DEF OnRead
  <2>2. /\ sock' \in [Session -> Sockets]
        /\ \A q \in Session : /\ Sound(sock'[q], q \in failed)
                              /\ n[q] = 0 => sock'[q] = sock[q]
    BY <2>1, SendEachSound
  <2>3. TypeOK'
    BY <1>4, <2>2 DEF IInv, TypeOK, OnRead, ReadNext
  <2>4. AllSound'
    BY <1>4, <2>2 DEF AllSound, OnRead, ReadNext
  <2>5. ReadersRegistered'
    BY <1>4 DEF IInv, TypeOK, ReadersRegistered, OnRead, ReadNext
  <2>6. FreshEmpty'
    <3> SUFFICES ASSUME NEW q \in Session, phase'[q] \in {"none", "http", "answer"}
                 PROVE  q \notin registered' /\ wire'[q] = <<>> /\ sock'[q].queue = <<>>
      BY DEF FreshEmpty
    <3>1. phase[q] = phase'[q] /\ q # s /\ q \notin members
      BY <1>4 DEF IInv, TypeOK, ReadersRegistered, OnRead, ReadNext
    <3>2. sock'[q] = sock[q]
      BY <1>4, <2>1, <2>2, <3>1 DEF OnRead, ReadNext
    <3> QED  BY <1>4, <3>1, <3>2 DEF IInv, FreshEmpty, OnRead, ReadNext
  <2>7. LeftoversLost'
    <3> SUFFICES ASSUME NEW q \in Session \ registered', q \notin broken
                 PROVE  wire'[q] = <<>> /\ sock'[q].queue = <<>>
      BY <1>4 DEF LeftoversLost, OnRead, ReadNext
    <3>1. q \notin registered /\ n[q] = 0
      BY <1>4, <2>1 DEF IInv, TypeOK, ReadersRegistered, OnRead, ReadNext
    <3> QED  BY <1>4, <2>2, <3>1 DEF IInv, LeftoversLost, OnRead, ReadNext
  <2> QED  BY <2>3, <2>4, <2>5, <2>6, <2>7 DEF IInv
<1>5. ASSUME NEW s \in Session, OnReadError(s)  PROVE IInv'
  <2>1. PICK n \in [Session -> 0..1] :
          /\ \A q \in Session \ members' : n[q] = 0
          /\ SendEach(n)
    BY <1>5 DEF OnReadError
  <2>2. /\ sock' \in [Session -> Sockets]
        /\ \A q \in Session : /\ Sound(sock'[q], q \in failed)
                              /\ n[q] = 0 => sock'[q] = sock[q]
    BY <2>1, SendEachSound
  <2>3. TypeOK'
    BY <1>5, <2>2 DEF IInv, TypeOK, OnReadError
  <2>4. AllSound'
    BY <1>5, <2>2 DEF AllSound, OnReadError
  <2>5. ReadersRegistered'
    BY <1>5 DEF IInv, TypeOK, ReadersRegistered, OnReadError
  <2>6. FreshEmpty'
    <3> SUFFICES ASSUME NEW q \in Session, phase'[q] \in {"none", "http", "answer"}
                 PROVE  q \notin registered' /\ wire'[q] = <<>> /\ sock'[q].queue = <<>>
      BY DEF FreshEmpty
    <3>1. phase[q] = phase'[q] /\ q # s /\ q \notin members
      BY <1>5 DEF IInv, TypeOK, ReadersRegistered, OnReadError
    <3>2. sock'[q] = sock[q]
      BY <1>5, <2>1, <2>2, <3>1 DEF OnReadError
    <3> QED  BY <1>5, <3>1, <3>2 DEF IInv, FreshEmpty, OnReadError
  <2>7. LeftoversLost'
    <3> SUFFICES ASSUME NEW q \in Session \ registered', q \notin broken
                 PROVE  wire'[q] = <<>> /\ sock'[q].queue = <<>>
      BY <1>5 DEF LeftoversLost, OnReadError
    <3>1. q \notin registered /\ n[q] = 0
      BY <1>5, <2>1 DEF IInv, TypeOK, ReadersRegistered, OnReadError
    <3> QED  BY <1>5, <2>2, <3>1 DEF IInv, LeftoversLost, OnReadError
  <2> QED  BY <2>3, <2>4, <2>5, <2>6, <2>7 DEF IInv
<1>6. ASSUME NEW s \in Session, OnWrite(s)  PROVE IInv'
  <2> DEFINE f == s \in failed
  <2>1. f \in BOOLEAN /\ Sound(sock[s], f) /\ sock[s].writing > 0
    BY <1>6 DEF IInv, AllSound, OnWrite
  <2> HIDE DEF f
  <2>2. /\ sock[s].queue # <<>>
        /\ Sound(Popped(sock[s]), f)
    BY <2>1, PoppedSound
  <2>3. sock[s].queue \in Seq(1..MaxPut) /\ wire[s] \in Seq(1..MaxPut)
    BY DEF IInv, TypeOK, Sockets
  <2>4. Append(wire[s], Head(sock[s].queue)) \in Seq(1..MaxPut)
    BY <2>2, <2>3, HeadTailProperties, AppendProperties
  <2>5. /\ sock' = [sock EXCEPT ![s] = Popped(sock[s])]
        /\ wire' = [wire EXCEPT ![s] = Append(wire[s], Head(sock[s].queue))]
        /\ UNCHANGED <<phase, registered, members, reading, got, broken, failed>>
    BY <1>6 DEF OnWrite
  <2>6. TypeOK'
    BY <2>2, <2>4, <2>5 DEF IInv, TypeOK, Sound
  <2>7. AllSound'
    BY <2>2, <2>5 DEF IInv, TypeOK, AllSound, f
  <2>8. ReadersRegistered'
    BY <2>5 DEF IInv, ReadersRegistered
  <2>9. phase[s] \notin {"none", "http", "answer"}
    BY <2>2 DEF IInv, FreshEmpty
  <2>10. FreshEmpty'
    BY <2>5, <2>9 DEF IInv, TypeOK, FreshEmpty
  <2>11. LeftoversLost'
    BY <2>2, <2>5 DEF IInv, TypeOK, LeftoversLost
  <2> QED  BY <2>6, <2>7, <2>8, <2>10, <2>11 DEF IInv
<1>7. ASSUME NEW s \in Session, OnWriteError(s)  PROVE IInv'
  <2> DEFINE f == s \in failed
  <2>1. f \in BOOLEAN /\ Sound(sock[s], f) /\ sock[s].writing > 0
    BY <1>7 DEF IInv, AllSound, OnWriteError
  <2> HIDE DEF f
  <2>2. Sound(NotWritten(sock[s]), TRUE) /\ NotWritten(sock[s]).queue = sock[s].queue
    BY <2>1, NotWrittenSound
  <2>3. /\ sock' = [sock EXCEPT ![s] = NotWritten(sock[s])]
        /\ failed' = failed \cup {s}
        /\ UNCHANGED <<phase, registered, members, reading, wire, got, broken>>
    BY <1>7 DEF OnWriteError
  <2>4. TypeOK'
    BY <2>2, <2>3 DEF IInv, TypeOK, Sound
  <2>5. AllSound'
    <3> SUFFICES ASSUME NEW q \in Session PROVE Sound(sock'[q], q \in failed')
      BY DEF AllSound
    <3>1. CASE q = s
      <4>1. sock'[q] = NotWritten(sock[s]) /\ q \in failed'
        BY <2>3, <3>1 DEF IInv, TypeOK
      <4> QED  BY <2>2, <4>1 DEF Sound
    <3>2. CASE q # s
      <4>1. sock'[q] = sock[q] /\ (q \in failed' <=> q \in failed)
        BY <2>3, <3>2 DEF IInv, TypeOK
      <4>2. Sound(sock[q], q \in failed)
        BY DEF IInv, AllSound
      <4> QED  BY <4>1, <4>2 DEF Sound
    <3> QED  BY <3>1, <3>2
  <2>6. ReadersRegistered'
    BY <2>3 DEF IInv, ReadersRegistered
  <2>7. FreshEmpty'
    BY <2>2, <2>3 DEF IInv, TypeOK, FreshEmpty
  <2>8. LeftoversLost'
    BY <2>2, <2>3 DEF IInv, TypeOK, LeftoversLost
  <2> QED  BY <2>4, <2>5, <2>6, <2>7, <2>8 DEF IInv
<1>8. ASSUME NEW s \in Session, Deliver(s)  PROVE IInv'
  <2>1. /\ wire[s] \in Seq(1..MaxPut) /\ wire[s] # <<>>
    BY <1>8 DEF IInv, TypeOK, Deliver
  <2>2. Head(wire[s]) \in 1..MaxPut /\ Tail(wire[s]) \in Seq(1..MaxPut)
    BY <2>1, HeadTailProperties
  <2>3. TypeOK'
    BY <1>8, <2>2, MaxPutAssumption DEF IInv, TypeOK, Deliver
  <2> QED
    BY <1>8, <2>3 DEF IInv, TypeOK, Deliver, AllSound, ReadersRegistered, FreshEmpty, LeftoversLost
<1>9. ASSUME NEW s \in Session, Lose(s)  PROVE IInv'
  BY <1>9 DEF IInv, TypeOK, Lose, AllSound, ReadersRegistered, FreshEmpty, LeftoversLost
<1>10. ASSUME UNCHANGED vars  PROVE IInv'
  BY <1>10 DEF IInv, TypeOK, vars, AllSound, ReadersRegistered, FreshEmpty, LeftoversLost
<1> QED
  BY <1>1, <1>2, <1>3, <1>4, <1>5, <1>6, <1>7, <1>8, <1>9, <1>10 DEF Next

\* IInv holds of every reachable state.
LEMMA AlwaysIInv == Spec => []IInv
  BY InitIInv, StepIInv, PTL DEF Spec

\* The queues, counters and phases of all sessions stay within their types.
THEOREM SessionTypeCorrect == Spec => []TypeOK
<1>1. IInv => TypeOK
  BY DEF IInv
<1> QED  BY <1>1, AlwaysIInv, PTL

\* Every session writes one message at a time, out of its queue, and is
\* idle only if there is nothing to write or a write failed (send, on_write).
THEOREM WriterNeverIdleThm == Spec => []WriterNeverIdle
<1>1. IInv => WriterNeverIdle
  BY DEF IInv, AllSound, WriterNeverIdle, Sound
<1> QED  BY <1>1, AlwaysIInv, PTL

\* Whoever holds a player waits for a message, so that the loss of its
\* connection reaches WsDeleted (on_read, delete_me_).
THEOREM LossesAreNoticedThm == Spec => []LossesAreNoticed
<1>1. IInv => LossesAreNoticed
  BY DEF IInv, TypeOK, ReadersRegistered, LossesAreNoticed
<1> QED  BY <1>1, AlwaysIInv, PTL

-----------------------------------------------------------------------------
(* The refinement of Links.                                                *)

\* What session s holds for its client, as Channels maps it.
Held(s) == IF s \in registered THEN wire[s] \o sock[s].queue ELSE <<>>
Holding == [s \in Session |-> Held(s)]

\* Appending to the queue appends to what is on its way.
LEMMA LongerIsPrefix ==
  ASSUME NEW w \in Seq(1..MaxPut), NEW a, NEW b, Longer(a, b)
  PROVE  Channels!IsPrefix(w \o a, w \o b)
<1> DEFINE S == 1..MaxPut
           x == w \o a
           y == w \o b
<1>1. a \in Seq(S) /\ b \in Seq(S)
  BY DEF Longer
<1> HIDE DEF S
<1>2. /\ x \in Seq(S) /\ Len(x) = Len(w) + Len(a)
      /\ \A i \in 1..Len(w) + Len(a) : x[i] = IF i <= Len(w) THEN w[i] ELSE a[i - Len(w)]
  BY <1>1, ConcatProperties DEF S
<1>3. /\ y \in Seq(S) /\ Len(y) = Len(w) + Len(b)
      /\ \A i \in 1..Len(w) + Len(b) : y[i] = IF i <= Len(w) THEN w[i] ELSE b[i - Len(w)]
  BY <1>1, ConcatProperties DEF S
<1>4. Len(w) \in Nat /\ Len(a) \in Nat /\ Len(b) \in Nat /\ Len(a) <= Len(b)
  BY <1>1, LenProperties DEF Longer, S
<1>5. \A i \in 1..Len(x) : y[i] = x[i] /\ x[i] \in S
  <2> SUFFICES ASSUME NEW i \in 1..Len(x)  PROVE y[i] = x[i] /\ x[i] \in S
    OBVIOUS
  <2>1. i \in 1..Len(w) + Len(a) /\ i \in 1..Len(w) + Len(b)
    BY <1>2, <1>4
  <2>2. CASE i <= Len(w)
    BY <1>2, <1>3, <2>1, <2>2, ElementOfSeq
  <2>3. CASE ~(i <= Len(w))
    <3>1. i - Len(w) \in 1..Len(a)
      BY <1>4, <2>1, <2>3
    <3> QED  BY <1>2, <1>3, <2>1, <2>3, <3>1, ElementOfSeq DEF Longer
  <2> QED  BY <2>2, <2>3
<1> HIDE DEF x, y
<1>6. /\ SubSeq(y, 1, Len(x)) \in Seq(S)
      /\ Len(SubSeq(y, 1, Len(x))) = Len(x)
      /\ \A i \in 1..Len(x) : SubSeq(y, 1, Len(x))[i] = y[i]
  <2>1. Len(x) \in Nat /\ \A i \in 1..Len(x) : y[i] \in S
    BY <1>2, <1>4, <1>5
  <2>2. /\ SubSeq(y, 1, Len(x)) \in Seq(S)
        /\ Len(SubSeq(y, 1, Len(x))) = IF 1 <= Len(x) THEN Len(x) - 1 + 1 ELSE 0
        /\ \A i \in 1..Len(x) - 1 + 1 : SubSeq(y, 1, Len(x))[i] = y[1 + i - 1]
    BY <2>1, SubSeqProperties
  <2> QED  BY <2>1, <2>2
<1>7. SubSeq(y, 1, Len(x)) = x
  BY <1>2, <1>5, <1>6, SeqEqual
<1>8. SubSeq(x, 1, Len(x)) = x
  BY <1>2, SubSeqFull
<1>9. Len(x) <= Len(y)
  BY <1>2, <1>3, <1>4
<1> QED  BY <1>7, <1>8, <1>9 DEF Channels!IsPrefix, x, y

\* Writing moves a message from the queue to the network, in its place.
LEMMA MoveOne ==
  ASSUME NEW S, NEW w \in Seq(S), NEW q \in Seq(S), q # <<>>
  PROVE  Append(w, Head(q)) \o Tail(q) = w \o q
<1> DEFINE v == Append(w, Head(q))
           t == Tail(q)
<1>1. /\ Head(q) \in S /\ t \in Seq(S) /\ Len(t) = Len(q) - 1
      /\ \A i \in 1..Len(t) : t[i] = q[i + 1]
      /\ Head(q) = q[1]
  BY HeadTailProperties
<1>2. /\ v \in Seq(S) /\ Len(v) = Len(w) + 1
      /\ \A i \in 1..Len(w) : v[i] = w[i]
      /\ v[Len(w) + 1] = q[1]
  BY <1>1, AppendProperties
<1>3. Len(w) \in Nat /\ Len(q) \in Nat \ {0}
  BY LenProperties, EmptySeq
<1> HIDE DEF v, t
<1>4. /\ v \o t \in Seq(S) /\ Len(v \o t) = Len(v) + Len(t)
      /\ \A i \in 1..Len(v) + Len(t) :
           (v \o t)[i] = IF i <= Len(v) THEN v[i] ELSE t[i - Len(v)]
  BY <1>1, <1>2, ConcatProperties
<1>5. /\ w \o q \in Seq(S) /\ Len(w \o q) = Len(w) + Len(q)
      /\ \A i \in 1..Len(w) + Len(q) :
           (w \o q)[i] = IF i <= Len(w) THEN w[i] ELSE q[i - Len(w)]
  BY ConcatProperties
<1>6. ASSUME NEW i \in 1..Len(w) + Len(q)
      PROVE  (v \o t)[i] = (w \o q)[i]
  <2>1. CASE i <= Len(w)
    BY <1>1, <1>2, <1>3, <1>4, <1>5, <2>1
  <2>2. CASE i = Len(w) + 1
    <3>1. (v \o t)[i] = q[1]
      BY <1>1, <1>2, <1>3, <1>4, <2>2
    <3>2. (w \o q)[i] = q[1]
      BY <1>3, <1>5, <2>2
    <3> QED  BY <3>1, <3>2
  <2>3. CASE i > Len(w) + 1
    <3>1. i - Len(v) \in 1..Len(t) /\ i - Len(v) + 1 = i - Len(w)
      BY <1>1, <1>2, <1>3, <2>3
    <3>2. (v \o t)[i] = t[i - Len(v)]
      BY <1>1, <1>2, <1>3, <1>4, <2>3
    <3>3. (w \o q)[i] = q[i - Len(w)]
      BY <1>3, <1>5, <2>3
    <3> QED  BY <1>1, <3>1, <3>2, <3>3
  <2>4. i \in Nat /\ Len(w) \in Nat
    BY <1>3
  <2>5. i <= Len(w) \/ i = Len(w) + 1 \/ i > Len(w) + 1
    BY <2>4
  <2> QED  BY <2>1, <2>2, <2>3, <2>5
<1>7. v \o t = w \o q
  <2>1. Len(v \o t) = Len(w) + Len(q)
    BY <1>1, <1>2, <1>3, <1>4
  <2> QED  BY <1>4, <1>5, <1>6, <2>1, SeqEqual
<1> QED  BY <1>7 DEF v, t

\* The client receives the first of all messages on their way.
LEMMA TakeFirst ==
  ASSUME NEW S, NEW w \in Seq(S), NEW q \in Seq(S), w # <<>>
  PROVE  /\ w \o q # <<>>
         /\ Head(w \o q) = Head(w)
         /\ Tail(w \o q) = Tail(w) \o q
<1> DEFINE x == w \o q
           t == Tail(w)
<1>1. /\ t \in Seq(S) /\ Len(t) = Len(w) - 1
      /\ \A i \in 1..Len(t) : t[i] = w[i + 1]
      /\ Head(w) = w[1]
  BY HeadTailProperties
<1>2. Len(w) \in Nat \ {0} /\ Len(q) \in Nat
  BY LenProperties, EmptySeq
<1>3. /\ x \in Seq(S) /\ Len(x) = Len(w) + Len(q)
      /\ \A i \in 1..Len(w) + Len(q) :
           x[i] = IF i <= Len(w) THEN w[i] ELSE q[i - Len(w)]
  BY ConcatProperties
<1>4. /\ t \o q \in Seq(S) /\ Len(t \o q) = Len(t) + Len(q)
      /\ \A i \in 1..Len(t) + Len(q) :
           (t \o q)[i] = IF i <= Len(t) THEN t[i] ELSE q[i - Len(t)]
  BY <1>1, ConcatProperties
<1> HIDE DEF x, t
<1>5. x # <<>>
  BY <1>2, <1>3, EmptySeq
<1>6. /\ Head(x) = x[1] /\ Tail(x) \in Seq(S) /\ Len(Tail(x)) = Len(x) - 1
      /\ \A i \in 1..Len(Tail(x)) : Tail(x)[i] = x[i + 1]
  BY <1>3, <1>5, HeadTailProperties
<1>7. Head(x) = Head(w)
  BY <1>1, <1>2, <1>3, <1>6
<1>8. ASSUME NEW i \in 1..Len(Tail(x))
      PROVE  Tail(x)[i] = (t \o q)[i]
  <2>1. i + 1 \in 1..Len(w) + Len(q) /\ i \in 1..Len(t) + Len(q)
    BY <1>1, <1>2, <1>3, <1>6
  <2>2. CASE i <= Len(t)
    <3>1. Tail(x)[i] = w[i + 1]
      BY <1>1, <1>2, <1>3, <1>6, <2>1, <2>2
    <3> QED  BY <1>1, <1>4, <2>1, <2>2, <3>1
  <2>3. CASE ~(i <= Len(t))
    <3>1. Tail(x)[i] = q[i + 1 - Len(w)]
      BY <1>1, <1>2, <1>3, <1>6, <2>1, <2>3
    <3>2. i + 1 - Len(w) = i - Len(t)
      BY <1>1, <1>2
    <3> QED  BY <1>4, <2>1, <2>3, <3>1, <3>2
  <2> QED  BY <2>2, <2>3
<1>9. Tail(x) = t \o q
  BY <1>1, <1>2, <1>3, <1>4, <1>6, <1>8, SeqEqual
<1> QED  BY <1>5, <1>7, <1>9, Zenon DEF x, t

\* A step of the sockets is a step of the channels or changes none.
LEMMA StepRefines ==
  IInv /\ [Next]_vars => [Channels!LinksNext]_(Channels!linkVars)
<1> SUFFICES ASSUME IInv, [Next]_vars
             PROVE  Channels!LinksNext \/ UNCHANGED <<registered, Holding, got>>
  BY DEF Channels!linkVars, Holding, Held
<1> USE DEF ioVars, faultVars, netVars
<1>0. \A q \in Session : /\ wire[q] \in Seq(1..MaxPut)
                         /\ sock[q].queue \in Seq(1..MaxPut)
  BY DEF IInv, TypeOK, Sockets
<1>1. ASSUME UNCHANGED <<registered, wire, sock, got>>
      PROVE  UNCHANGED <<registered, Holding, got>>
  BY <1>1 DEF Holding, Held
<1>2. ASSUME NEW s \in Session, Connect(s) \/ Request(s) \/ Answered(s) \/ OnAccept(s) \/ Lose(s)
      PROVE  UNCHANGED <<registered, Holding, got>>
  BY <1>1, <1>2 DEF Connect, Request, Answered, OnAccept, Lose
<1>3. ASSUME NEW s \in Session, Upgrade(s)  PROVE Channels!LinksNext
  <2>1. /\ s \notin registered /\ registered' = registered \cup {s}
        /\ wire[s] = <<>> /\ sock[s].queue = <<>>
        /\ UNCHANGED <<wire, sock, got>>
    BY <1>3 DEF Upgrade, Becomes, IInv, FreshEmpty
  <2>2. \A q \in Session : Held(q)' = Held(q)
    BY <2>1, ConcatEmptySeq, EmptySeq DEF Held
  <2>3. Holding' = Holding
    BY <2>2 DEF Holding
  <2>4. Channels!Open(s)
    BY <2>1, <2>3 DEF Channels!Open, Holding, Held
  <2> QED  BY <2>4 DEF Channels!LinksNext
<1>4. ASSUME NEW s \in Session, OnRead(s)  PROVE Channels!LinksNext
  <2>1. PICK n \in [Session -> 0..2] :
          /\ \A q \in Session \ (members \cup {s}) : n[q] = 0
          /\ SendEach(n)
    BY <1>4 DEF OnRead
  <2>2. \A q \in Session : Longer(sock[q].queue, sock'[q].queue)
    BY <2>1, SendEachSound
  <2>3. UNCHANGED <<registered, wire, got>>
    BY <1>4 DEF OnRead
  <2>4. \A q \in Session : q \in registered =>
          Channels!IsPrefix(wire[q] \o sock[q].queue, wire[q] \o sock'[q].queue)
    BY <1>0, <2>2, LongerIsPrefix
  <2>5. Channels!Appended(registered)
    BY <2>3, <2>4 DEF Channels!Appended, IInv, TypeOK
  <2> QED  BY <2>3, <2>5 DEF Channels!Exchange, Channels!LinksNext
<1>5. ASSUME NEW s \in Session, OnReadError(s)  PROVE Channels!LinksNext
  <2>1. PICK n \in [Session -> 0..1] :
          /\ \A q \in Session \ members' : n[q] = 0
          /\ SendEach(n)
    BY <1>5 DEF OnReadError
  <2>2. \A q \in Session : Longer(sock[q].queue, sock'[q].queue)
    BY <2>1, SendEachSound
  <2>3. /\ s \in registered /\ registered' = registered \ {s}
        /\ UNCHANGED <<wire, got>>
    BY <1>5 DEF OnReadError, IInv, ReadersRegistered
  <2>4. \A q \in Session : q \in registered =>
          Channels!IsPrefix(wire[q] \o sock[q].queue, wire[q] \o sock'[q].queue)
    BY <1>0, <2>2, LongerIsPrefix
  <2>5. Channels!Appended(registered')
    BY <2>3, <2>4 DEF Channels!Appended, IInv, TypeOK
  <2> QED  BY <2>3, <2>5 DEF Channels!Close, Channels!LinksNext
<1>6. ASSUME NEW s \in Session, OnWrite(s)  PROVE UNCHANGED <<registered, Holding, got>>
  <2> DEFINE f == s \in failed
  <2>1. f \in BOOLEAN /\ Sound(sock[s], f) /\ sock[s].writing > 0
    BY <1>6 DEF IInv, AllSound, OnWrite
  <2> HIDE DEF f
  <2>2. sock[s].queue # <<>> /\ Popped(sock[s]).queue = Tail(sock[s].queue)
    BY <2>1, PoppedSound
  <2>3. /\ sock' = [sock EXCEPT ![s] = Popped(sock[s])]
        /\ wire' = [wire EXCEPT ![s] = Append(wire[s], Head(sock[s].queue))]
        /\ UNCHANGED <<registered, got>>
    BY <1>6 DEF OnWrite
  <2>4. Append(wire[s], Head(sock[s].queue)) \o Tail(sock[s].queue)
          = wire[s] \o sock[s].queue
    BY <1>0, <2>2, MoveOne
  <2>5. \A q \in Session : Held(q)' = Held(q)
    BY <2>2, <2>3, <2>4 DEF Held, IInv, TypeOK
  <2> QED  BY <2>3, <2>5 DEF Holding
<1>7. ASSUME NEW s \in Session, OnWriteError(s)
      PROVE  UNCHANGED <<registered, Holding, got>>
  <2> DEFINE f == s \in failed
  <2>1. f \in BOOLEAN /\ Sound(sock[s], f) /\ sock[s].writing > 0
    BY <1>7 DEF IInv, AllSound, OnWriteError
  <2> HIDE DEF f
  <2>2. NotWritten(sock[s]).queue = sock[s].queue
    BY <2>1, NotWrittenSound
  <2>3. /\ sock' = [sock EXCEPT ![s] = NotWritten(sock[s])]
        /\ UNCHANGED <<registered, wire, got>>
    BY <1>7 DEF OnWriteError
  <2>4. \A q \in Session : Held(q)' = Held(q)
    BY <2>2, <2>3 DEF Held, IInv, TypeOK
  <2> QED  BY <2>3, <2>4 DEF Holding
<1>8. ASSUME NEW s \in Session, Deliver(s)  PROVE Channels!LinksNext
  <2>1. /\ wire[s] # <<>> /\ s \in registered
        /\ got' = [got EXCEPT ![s] = Head(wire[s])]
        /\ wire' = [wire EXCEPT ![s] = Tail(wire[s])]
        /\ UNCHANGED <<registered, sock>>
    BY <1>8 DEF Deliver, IInv, LeftoversLost
  <2>2. /\ wire[s] \o sock[s].queue # <<>>
        /\ Head(wire[s] \o sock[s].queue) = Head(wire[s])
        /\ Tail(wire[s] \o sock[s].queue) = Tail(wire[s]) \o sock[s].queue
    BY <1>0, <2>1, TakeFirst
  <2>3. Holding[s] = wire[s] \o sock[s].queue
    BY <2>1 DEF Holding, Held
  <2>4. Holding' = [Holding EXCEPT ![s] = Tail(Holding[s])]
    <3>1. \A q \in Session : Held(q)' = IF q = s THEN Tail(Holding[s]) ELSE Held(q)
      BY <2>1, <2>2, <2>3 DEF Held, IInv, TypeOK
    <3> QED  BY <3>1 DEF Holding
  <2>5. /\ s \in registered /\ Holding[s] # <<>>
        /\ got' = [got EXCEPT ![s] = Head(Holding[s])]
        /\ Holding' = [Holding EXCEPT ![s] = Tail(Holding[s])]
        /\ UNCHANGED registered
    BY <2>1, <2>2, <2>3, <2>4
  <2>6. Channels!Receive(s)
    BY <2>5 DEF Channels!Receive, Holding, Held
  <2> QED  BY <2>6 DEF Channels!LinksNext
<1>9. ASSUME UNCHANGED vars  PROVE UNCHANGED <<registered, Holding, got>>
  BY <1>1, <1>9 DEF vars
<1> QED
  BY <1>2, <1>3, <1>4, <1>5, <1>6, <1>7, <1>8, <1>9 DEF Next

\* The sockets, queues and the network are FIFO channels: whatever the order
\* of handlers, writes and failures, a client gets each message once and in
\* the order of the sends (send, write_next, on_write).
THEOREM ActsAsLinksThm == Spec => ActsAsLinks
<1>1. Init => Channels!LinksInit
  <2> SUFFICES ASSUME Init PROVE Channels!LinksInit
    OBVIOUS
  <2>1. registered = {} /\ got = [s \in Session |-> 0]
    BY DEF Init
  <2> QED  BY <2>1 DEF Channels!LinksInit
<1> QED  BY <1>1, AlwaysIInv, StepRefines, PTL DEF Spec, ActsAsLinks, Channels!LinksSpec
====
