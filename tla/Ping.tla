-------------------------------- MODULE Ping --------------------------------
(***************************************************************************)
(* lesson1/ping: send_ping() sends echo requests for ever, and after each  *)
(* reads one packet from the raw socket, whatever it is: a late answer, or *)
(* one to somebody else.  sendto() and recvfrom() return -1 for an error,  *)
(* which is compared as an unsigned number and so never is too few bytes.  *)
(***************************************************************************)
EXTENDS Integers, Sequences, FiniteSets

CONSTANTS
  Wrap,    \* sequence numbers there are; 2^16 in the code
  Room     \* bound: packets the socket holds; more are lost

VARIABLES
  phase,     \* where the loop is
  sequence,  \* sequence_number_, of the next request
  underWay,  \* requests on their way, or their answers
  inbox      \* what the packets in the raw socket are

vars == <<phase, sequence, underWay, inbox>>

Numbers == 0 .. Wrap - 1

\* A packet fills the buffer, as each answer to a request does, or not.
Packets == {"full", "short"}

Init ==
  /\ phase = "send"
  /\ sequence = 0
  /\ underWay = {}
  /\ inbox = <<>>

\* create_request() and sendto(); an error goes unnoticed.
Send ==
  /\ phase = "send"
  /\ sequence' = (sequence + 1) % Wrap
  /\ underWay' \in {underWay, underWay \cup {sequence}}
  /\ phase' = "receive"
  /\ UNCHANGED inbox

Arrive(packet) == Len(inbox) < Room /\ inbox' = Append(inbox, packet)

\* An answer arrives at any time after its request, or is lost.
Answer(n) ==
  /\ n \in underWay
  /\ underWay' = underWay \ {n}
  /\ Arrive("full") \/ UNCHANGED inbox
  /\ UNCHANGED <<phase, sequence>>

\* What the host gets for others: the raw socket gets it too.
ForeignPacket ==
  /\ \E packet \in Packets : Arrive(packet)
  /\ UNCHANGED <<phase, sequence, underWay>>

\* recvfrom() returns the first packet, of which neither the number nor the id
\* is looked at.  After a short one the next request is sent at once.
Receive ==
  /\ phase = "receive"
  /\ inbox # <<>>
  /\ inbox' = Tail(inbox)
  /\ phase' = IF Head(inbox) = "short" THEN "send" ELSE "sleep"
  /\ UNCHANGED <<sequence, underWay>>

\* Mutant: setsockopt(SO_RCVTIMEO) is left out.
TimeoutNever == FALSE /\ UNCHANGED vars

\* recvfrom() returns -1: the buffer of zeros is taken for an answer and shown,
\* and the loop sleeps as after any other.
Timeout ==
  /\ phase = "receive"
  /\ inbox = <<>>
  /\ phase' = "sleep"
  /\ UNCHANGED <<sequence, underWay, inbox>>

WakeUp ==
  /\ phase = "sleep"
  /\ phase' = "send"
  /\ UNCHANGED <<sequence, underWay, inbox>>

Loop == Send \/ Receive \/ Timeout \/ WakeUp

Next == Loop \/ ForeignPacket \/ \E n \in Numbers : Answer(n)

-----------------------------------------------------------------------------
\* Whatever is lost, and whatever others send, the numbers of the requests go
\* round and round, and a full socket is read.
KeepsPinging ==
  /\ sequence = 0 ~> sequence = Wrap - 1
  /\ sequence = Wrap - 1 ~> sequence = 0
  /\ Len(inbox) = Room ~> Len(inbox) < Room
=============================================================================
