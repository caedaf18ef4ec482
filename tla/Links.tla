------------------------------- MODULE Links -------------------------------
(***************************************************************************)
(* What the web socket sessions promise to the server above them: each     *)
(* registered session is a FIFO channel to its client, which gets every    *)
(* message once and in the order of the sends.  One step of the server may *)
(* put messages on many channels; a channel that is closed loses what it   *)
(* holds.  TableSync takes this for granted.                               *)
(***************************************************************************)
EXTENDS Naturals, SequencesExt

CONSTANT Session

VARIABLES
  up,           \* the sessions that are registered
  link,         \* the messages sent and not yet received
  received      \* the last message each client received

linkVars == <<up, link, received>>

LinksInit ==
  /\ up = {}
  /\ link = [s \in Session |-> <<>>]
  /\ received = [s \in Session |-> 0]

Open(s) ==
  /\ s \notin up /\ up' = up \cup {s}
  /\ UNCHANGED <<link, received>>

\* Messages are appended to channels that are open, and to no other.
Appended(S) ==
  /\ \A s \in S : IsPrefix(link[s], link'[s])
  /\ \A s \in Session \ S : link'[s] = IF s \in up' THEN link[s] ELSE <<>>

Exchange == Appended(up) /\ UNCHANGED <<up, received>>

Close(s) ==
  /\ s \in up /\ up' = up \ {s}
  /\ Appended(up')
  /\ UNCHANGED received

Receive(s) ==
  /\ s \in up /\ link[s] # <<>>
  /\ received' = [received EXCEPT ![s] = Head(link[s])]
  /\ link' = [link EXCEPT ![s] = Tail(@)]
  /\ UNCHANGED up

LinksNext ==
  \/ Exchange
  \/ \E s \in Session : Open(s) \/ Close(s) \/ Receive(s)

LinksSpec == LinksInit /\ [][LinksNext]_linkVars
=============================================================================
