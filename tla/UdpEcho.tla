------------------------------ MODULE UdpEcho ------------------------------
(***************************************************************************)
(* lesson1/udp_server: an echo server with a buffer of 256 bytes.  The     *)
(* zero behind what was received is written behind the buffer if that is   *)
(* full; what is there then (nothing, the address of the client or its     *)
(* length) is the compiler's choice.                                       *)
(***************************************************************************)
EXTENDS Integers, Sequences

CONSTANTS
  Clients,   \* who sends datagrams
  Nobody,    \* an address that is none of theirs
  Room       \* bound: datagrams the socket holds

VARIABLES
  socket,    \* datagrams in the socket, [from, size]
  address,   \* client_address
  length,    \* client_address_len: of an address, or 0
  received,  \* the datagram in the buffer; its size is 0 if there is none
  overrun,   \* the zero has been written behind the buffer
  echo       \* the last sendto(): [to, of, size]

vars == <<socket, address, length, received, overrun, echo>>

Buffer == 256
AddressLength == 16

\* Sizes that differ for the code.
Sizes == {0, 1, Buffer - 1, Buffer, Buffer + 1}

Init ==
  /\ socket = <<>>
  /\ address = Nobody
  /\ length = AddressLength
  /\ received = [from |-> Nobody, size |-> 0]
  /\ overrun = FALSE
  /\ echo = [to |-> Nobody, of |-> Nobody, size |-> 0]

Arrive(c) ==
  /\ Len(socket) < Room
  /\ \E n \in Sizes : socket' = Append(socket, [from |-> c, size |-> n])
  /\ UNCHANGED <<address, length, received, overrun, echo>>

Cut(datagram) == [datagram EXCEPT !.size = IF @ > Buffer THEN Buffer ELSE @]

\* Mutant: the address is asked for only once.
RecvOnce ==
  /\ received.size = 0
  /\ socket # <<>>
  /\ socket' = Tail(socket)
  /\ received' = Cut(Head(socket))
  /\ address' = IF address = Nobody THEN Head(socket).from ELSE address
  /\ length' = AddressLength
  /\ UNCHANGED <<overrun, echo>>

\* recvfrom(): the address is stored if there is room for it, and its length is
\* returned either way.  An empty datagram is not echoed.
Recv ==
  /\ received.size = 0
  /\ socket # <<>>
  /\ socket' = Tail(socket)
  /\ received' = Cut(Head(socket))
  /\ address' = IF length = AddressLength THEN Head(socket).from ELSE address
  /\ length' = AddressLength
  /\ UNCHANGED <<overrun, echo>>

\* buffer[recv_len] = '\0'.
Terminate ==
  /\ IF received.size < Buffer THEN UNCHANGED <<address, length, overrun>>
     ELSE /\ overrun' = TRUE
          /\ \/ UNCHANGED <<address, length>>
             \/ length' = 0 /\ UNCHANGED address
             \/ address' = Nobody /\ UNCHANGED length

\* The zero, and sendto(), which refuses an address without a length.
Echo ==
  /\ received.size > 0
  /\ Terminate
  /\ echo' = IF length' = 0 THEN echo
             ELSE [to |-> address', of |-> received.from, size |-> received.size]
  /\ received' = [received EXCEPT !.size = 0]
  /\ UNCHANGED socket

Next == Recv \/ Echo \/ \E c \in Clients : Arrive(c)

-----------------------------------------------------------------------------
\* What a client sent goes back to it and to nobody else, although the address
\* and its length are kept from one datagram to the next.  The first datagram
\* that fills the buffer ends this: it may stay without an answer, and the
\* answer to the next go to the client before.
EchoToSender == ~overrun => echo.to = echo.of
=============================================================================
