---------------------------- MODULE HttplibSocket ----------------------------
(***************************************************************************)
(* lesson7, httplib.h: create_socket(), which tries the addresses of a     *)
(* name in turn until one can be connected to (create_client_socket(), as  *)
(* ClientImpl::create_and_connect_socket() calls it) or listened at        *)
(* (Server::create_server_socket()).  On Linux: the kernel gives out the    *)
(* lowest free descriptor.  Socket options whose errors nobody reads are   *)
(* left out.                                                               *)
(***************************************************************************)
EXTENDS Naturals, FiniteSetsExt

CONSTANTS
  MaxAddresses,  \* bound: addresses of a name
  FdSetSize      \* descriptors from there on do not fit in an fd_set

NoSocket == 0        \* INVALID_SOCKET; descriptors are counted from 1

VARIABLES
  purpose,   \* "connect", "connect from" an interface, or "listen"
  step,      \* the next call
  count,     \* addresses that getaddrinfo() has found
  address,   \* the one that is tried
  sock,      \* its descriptor
  list,      \* they are "held" or "freed"
  opened,    \* descriptors
  leaked,    \* those that were given up without close()
  net,       \* of sock: "idle", "connecting", "connected", "refused", "listening"
  blocking,  \* sock is in blocking mode
  timeouts,  \* sock has the timeouts for reading and writing
  error,
  result     \* what create_socket() returns

vars == <<purpose, step, count, address, sock, list, opened, leaked, net, blocking, timeouts,
          error, result>>
handle == <<net, blocking, timeouts>>
found == <<purpose, count, address, list>>

Init ==
  /\ purpose \in {"connect", "connect from", "listen"}
  /\ step = "lookup" /\ count = 0 /\ address = 0 /\ sock = NoSocket /\ list = "none"
  /\ opened = {} /\ leaked = {}
  /\ net = "idle" /\ blocking = TRUE /\ timeouts = FALSE
  /\ error = "Success" /\ result = NoSocket

-----------------------------------------------------------------------------
\* create_socket().

Lookup ==
  /\ step = "lookup"
  /\ \/ step' = "done" /\ UNCHANGED <<count, address, list>>
     \/ /\ count' \in 1 .. MaxAddresses
        /\ address' = 1 /\ list' = "held" /\ step' = "socket"
  /\ UNCHANGED <<purpose, sock, opened, leaked, handle, error, result>>

\* The loop's continue, and its end.
Continue ==
  IF address < count
  THEN step' = "socket" /\ address' = address + 1 /\ UNCHANGED list
  ELSE step' = "done" /\ list' = "freed" /\ UNCHANGED address

Socket ==
  /\ step = "socket"
  /\ \/ /\ sock' = Min(1 .. MaxAddresses \ opened)
        /\ opened' = opened \cup {sock'}
        /\ net' = "idle" /\ blocking' = TRUE /\ timeouts' = FALSE
        /\ step' = "cloexec"
        /\ UNCHANGED <<address, list>>
     \/ Continue /\ UNCHANGED <<sock, opened, handle>>
  /\ UNCHANGED <<purpose, count, leaked, error, result>>

\* A descriptor of which the flag cannot be set is given up, and not closed.
CloseOnExec ==
  /\ step = "cloexec"
  /\ \/ /\ step' = IF purpose = "connect from" THEN "bind" ELSE purpose
        /\ UNCHANGED <<address, list, leaked>>
     \/ leaked' = leaked \cup {sock} /\ Continue
  /\ UNCHANGED <<purpose, count, sock, opened, handle, error, result>>

\* bind_or_connect() was not successful.
CloseSocket ==
  /\ step = "close"
  /\ opened' = opened \ {sock}
  /\ Continue
  /\ UNCHANGED <<purpose, count, sock, leaked, handle, error, result>>

Return ==
  /\ step' = "done" /\ result' = sock /\ list' = "freed"
  /\ UNCHANGED <<purpose, count, address, sock, opened, leaked>>

-----------------------------------------------------------------------------
\* create_client_socket(): the call for each address.

\* The address of the interface, if2ip(), or the name taken for one.
BindIpAddress ==
  /\ step = "bind"
  /\ \/ step' = "connect" /\ UNCHANGED error
     \/ step' = "close" /\ error' = "BindIPAddress"
  /\ UNCHANGED <<found, sock, opened, leaked, handle, result>>

Connect ==
  /\ step = "connect"
  /\ blocking' = FALSE
  /\ \/ net' = "connected" /\ step' = "settle" /\ UNCHANGED error
     \/ net' = "refused" /\ step' = "close" /\ error' = "Connection"
     \/ net' = "connecting" /\ step' = "wait" /\ UNCHANGED error
  /\ UNCHANGED <<found, sock, opened, leaked, timeouts, result>>

\* The other end, or a router, answers.
PeerAnswers ==
  /\ net = "connecting"
  /\ net' \in {"connected", "refused"}
  /\ UNCHANGED <<step, found, sock, opened, leaked, blocking, timeouts, error, result>>

\* What select() and SO_ERROR say; both answers make a socket ready.
Ready == net \in {"connected", "refused"}

\* Mutant: a socket that is ready is connected.
SocketErrorUnread == IF Ready THEN "Success" ELSE "ConnectionTimeout"

SocketError ==
  IF sock < FdSetSize /\ net = "connected" THEN "Success"
  ELSE IF sock < FdSetSize /\ ~Ready THEN "ConnectionTimeout" ELSE "Connection"

WaitUntilSocketIsReady ==
  /\ step = "wait"
  /\ error' = SocketError
  /\ step' = IF error' = "Success" THEN "settle" ELSE "close"
  /\ UNCHANGED <<found, sock, opened, leaked, handle, result>>

Settle ==
  /\ step = "settle"
  /\ blocking' = TRUE /\ timeouts' = TRUE /\ error' = "Success"
  /\ Return
  /\ UNCHANGED net

-----------------------------------------------------------------------------
\* Server::create_server_socket(): bind() and listen().
Listen ==
  /\ step = "listen"
  /\ \/ net' = "listening" /\ Return
     \/ step' = "close" /\ UNCHANGED <<found, sock, opened, leaked, net, result>>
  /\ UNCHANGED <<blocking, timeouts, error>>

\* Mutant: an error that nobody has set is none.
FinishUnset ==
  /\ step = "done"
  /\ error' = IF result # NoSocket THEN "Success" ELSE error
  /\ step' = "returned"
  /\ UNCHANGED <<found, sock, opened, leaked, handle, result>>

\* create_client_socket() after create_socket(); the server has no error.
Finish ==
  /\ step = "done"
  /\ error' = IF result # NoSocket THEN "Success"
              ELSE IF error = "Success" THEN "Connection" ELSE error
  /\ step' = "returned"
  /\ UNCHANGED <<found, sock, opened, leaked, handle, result>>

Next ==
  \/ Lookup \/ Socket \/ CloseOnExec \/ CloseSocket
  \/ BindIpAddress \/ Connect \/ PeerAnswers \/ WaitUntilSocketIsReady \/ Settle
  \/ Listen \/ Finish

Spec == Init /\ [][Next]_vars

-----------------------------------------------------------------------------
\* Whichever of the addresses fail at whichever call, the descriptor that is
\* returned is the only one left open, but those given up by CloseOnExec; the
\* list was freed; a client's socket is connected, as ready for blocking reads
\* and writes with timeouts as one that connected at once; and the error says
\* whether there is a socket, whatever an earlier address has left in it.
SocketIsSound ==
  step = "returned" =>
    /\ opened = leaked \cup ({result} \ {NoSocket})
    /\ list # "held"
    /\ result # NoSocket =>
         /\ result \notin leaked
         /\ IF purpose = "listen" THEN net = "listening"
            ELSE net = "connected" /\ blocking /\ timeouts
    /\ error = "Success" <=> result # NoSocket
=============================================================================
