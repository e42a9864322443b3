---------------------------- MODULE HttplibClient ----------------------------
(***************************************************************************)
(* The client of lesson7/server/httplib.h: an SSLClient that several       *)
(* threads use, to send() requests and to stop().  request_mutex_ is       *)
(* recursive and held by the thread whose request it is, so only that      *)
(* thread, the owner, is inside send(); a redirect or a digest challenge   *)
(* makes it call send() again from handle_request().  socket_mutex_ is not *)
(* recursive; it guards the socket and what the client knows of it, but is *)
(* released while a request is on its way.                                 *)
(*                                                                         *)
(* A step is one critical section of socket_mutex_, or what happens        *)
(* outside of it; only connecting holds the mutex for several steps.       *)
(* Redirects to another host use a client of their own and are part of a   *)
(* plain answer here.                                                      *)
(***************************************************************************)
EXTENDS Integers, FiniteSets

CONSTANTS
  Threads,      \* who may use the client
  None,         \* no thread
  Proxies,      \* which proxies may be set, see proxy
  MaxNested     \* bound of redirect_count_ and authorization_count_

ASSUME ClientAssumption ==
  /\ None \notin Threads
  /\ Proxies \subseteq {"none", "anonymous", "known"}
  /\ MaxNested \in Nat

VARIABLES
  proxy,      \* proxy_host_: not set, or set without or with credentials for it
  keepAlive,  \* keep_alive_
  owner,      \* the thread that holds request_mutex_
  pc,         \* where it is in send()
  nested,     \* how many calls of send() are below this one
  ret,        \* what the last call or part of it returned
  locked,     \* the owner holds socket_mutex_ (others do within one step)
  inFlight,   \* socket_requests_in_flight_
  from,       \* socket_requests_are_from_thread_
  closeLater, \* socket_should_be_closed_when_request_is_done_
  sock,       \* socket_: "closed", open as "plain", or with "ssl"
  alive       \* nobody has shut the connection down

vars == <<proxy, keepAlive, owner, pc, nested, ret, locked, inFlight,
          from, closeLater, sock, alive>>

config == <<proxy, keepAlive>>
frame == <<owner, nested>>
counts == <<inFlight, from>>

Pcs == {"idle", "begin", "connect", "tunnel", "tunnel2", "relock", "handshake",
        "process", "close", "handled", "end", "return", "aborted"}

Init ==
  /\ proxy \in Proxies
  /\ keepAlive \in BOOLEAN
  /\ owner = None
  /\ pc = "idle"
  /\ nested = 0
  /\ ret = TRUE
  /\ locked = FALSE
  /\ inFlight = 0
  /\ from = None
  /\ closeLater = FALSE
  /\ sock = "closed"
  /\ alive = FALSE

\* shutdown_ssl(), shutdown_socket() and close_socket().
CloseSocket == sock' = "closed" /\ alive' = FALSE

\* From here on only the owner may close the socket.
CountRequest == inFlight' = inFlight + 1 /\ from' = owner

Request(t) ==
  /\ owner = None
  /\ owner' = t
  /\ pc' = "begin"
  /\ ret' = TRUE
  /\ UNCHANGED <<config, nested, locked, counts, closeLater, sock, alive>>

\* A connection that is still alive is used again, whatever it is.
Reuse ==
  /\ pc = "begin"
  /\ sock # "closed" /\ alive
  /\ closeLater' = FALSE
  /\ CountRequest
  /\ pc' = "process"
  /\ UNCHANGED <<config, frame, ret, locked, sock, alive>>

\* Otherwise it is closed, and the mutex is kept while a new one is made.
Renew ==
  /\ pc = "begin"
  /\ sock = "closed" \/ ~alive
  /\ closeLater' = FALSE
  /\ sock' = "closed" /\ alive' = FALSE
  /\ locked' = TRUE
  /\ pc' = "connect"
  /\ UNCHANGED <<config, frame, ret, counts>>

\* send() returns before the request is counted.
GiveUp(success) ==
  /\ ret' = success
  /\ locked' = FALSE
  /\ pc' = "return"
  /\ UNCHANGED <<config, frame, counts, closeLater>>

Connect ==
  /\ pc = "connect"
  /\ \/ /\ sock' = "plain" /\ alive' = TRUE
        /\ pc' = IF proxy = "none" THEN "handshake" ELSE "tunnel"
        /\ UNCHANGED <<config, frame, ret, locked, counts, closeLater>>
     \/ GiveUp(FALSE) /\ UNCHANGED <<sock, alive>>

\* connect_with_proxy(): CONNECT, and again with credentials if the proxy
\* asks for them.  What process_request() does with an answer that ends the
\* connection is the same here as in a request: it locks socket_mutex_.
Tunnel ==
  /\ pc \in {"tunnel", "tunnel2"}
  /\ \/ /\ pc' = "handshake"                        \* an answer, whatever it says
        /\ UNCHANGED <<config, frame, ret, locked, counts, closeLater, sock, alive>>
     \/ /\ pc = "tunnel" /\ proxy = "known"                   \* 407
        /\ pc' = "tunnel2"
        /\ UNCHANGED <<config, frame, ret, locked, counts, closeLater, sock, alive>>
     \/ /\ pc = "tunnel" /\ proxy = "anonymous"                  \* 407, for the user to see
        /\ GiveUp(TRUE)
        /\ UNCHANGED <<sock, alive>>
     \/ /\ GiveUp(FALSE)                            \* no answer
        /\ CloseSocket
     \/ /\ pc' = "relock"                           \* Connection: close
        /\ UNCHANGED <<config, frame, ret, locked, counts, closeLater, sock, alive>>

\* Mutant: a handshake that fails leaves the connection open.
HandshakeLeavesOpen ==
  /\ pc = "handshake"
  /\ \/ /\ alive
        /\ sock' = "ssl"
        /\ locked' = FALSE
        /\ CountRequest
        /\ pc' = "process"
        /\ UNCHANGED <<config, frame, ret, closeLater, alive>>
     \/ GiveUp(FALSE) /\ UNCHANGED <<sock, alive>>

\* initialize_ssl(): certificates, SSL_connect(), verification.
Handshake ==
  /\ pc = "handshake"
  /\ \/ /\ alive
        /\ sock' = "ssl"
        /\ locked' = FALSE
        /\ CountRequest
        /\ pc' = "process"
        /\ UNCHANGED <<config, frame, ret, closeLater, alive>>
     \/ GiveUp(FALSE) /\ CloseSocket

\* process_socket() asserts that there is an SSL; the request is written, and
\* the answer read, unless the connection was shut down.
Process ==
  /\ pc = "process"
  /\ \/ /\ sock # "ssl" /\ pc' = "aborted" /\ UNCHANGED ret
     \/ /\ sock = "ssl" /\ alive
        /\ pc' \in {"close", "handled"}             \* with Connection: close, or not
        /\ ret' = TRUE
     \/ /\ sock = "ssl" /\ pc' = "end" /\ ret' = FALSE
  /\ UNCHANGED <<config, frame, locked, counts, closeLater, sock, alive>>

\* The end of process_request().
CloseAsTold ==
  /\ pc = "close"
  /\ CloseSocket
  /\ pc' = "handled"
  /\ UNCHANGED <<config, frame, ret, locked, counts, closeLater>>

\* handle_request() is done, or sends the request again.
Handled ==
  /\ pc = "handled"
  /\ \/ pc' = "end" /\ UNCHANGED nested
     \/ nested < MaxNested /\ nested' = nested + 1 /\ pc' = "begin"
  /\ UNCHANGED <<config, owner, ret, locked, counts, closeLater, sock, alive>>

\* Mutant: the end of send() looks only at keep_alive_ and at the result.
MustCloseForgets == ~keepAlive \/ ~ret

MustClose == closeLater \/ ~keepAlive \/ ~ret

\* The end of send().
EndRequest ==
  /\ pc = "end"
  /\ inFlight' = inFlight - 1
  /\ from' = IF inFlight = 1 THEN None ELSE from
  /\ IF MustClose THEN CloseSocket ELSE UNCHANGED <<sock, alive>>
  /\ pc' = "return"
  /\ UNCHANGED <<config, frame, ret, locked, closeLater>>

\* Mutant: a request that failed is sent again.
ReturnRetries ==
  /\ pc = "return"
  /\ IF nested = 0
     THEN IF ret THEN owner' = None /\ pc' = "idle" /\ UNCHANGED nested
          ELSE pc' = "begin" /\ UNCHANGED frame
     ELSE nested' = nested - 1 /\ pc' = "end" /\ UNCHANGED owner
  /\ UNCHANGED <<config, ret, locked, counts, closeLater, sock, alive>>

\* To the caller, or to handle_request() of the call below.
Return ==
  /\ pc = "return"
  /\ IF nested = 0
     THEN owner' = None /\ pc' = "idle" /\ UNCHANGED nested
     ELSE nested' = nested - 1 /\ pc' = "end" /\ UNCHANGED owner
  /\ UNCHANGED <<config, ret, locked, counts, closeLater, sock, alive>>

Send ==
  \/ Reuse \/ Renew \/ Connect \/ Tunnel \/ Handshake \/ Process \/ CloseAsTold
  \/ Handled \/ EndRequest \/ Return

\* Mutant: stop() closes the socket whether it is in use or not.
StopCloses ==
  /\ ~locked
  /\ CloseSocket
  /\ UNCHANGED <<config, frame, pc, ret, locked, counts, closeLater>>

\* stop(), by any thread: the mutex is all it waits for.
Stop ==
  /\ ~locked
  /\ IF inFlight > 0
     THEN alive' = FALSE /\ closeLater' = TRUE /\ UNCHANGED sock
     ELSE CloseSocket /\ UNCHANGED closeLater
  /\ UNCHANGED <<config, frame, pc, ret, locked, counts>>

PeerCloses ==
  /\ alive
  /\ alive' = FALSE
  /\ UNCHANGED <<config, frame, pc, ret, locked, counts, closeLater, sock>>

Next == (\E t \in Threads : Request(t)) \/ Send \/ Stop \/ PeerCloses

Spec == Init /\ [][Next]_vars

-----------------------------------------------------------------------------
TypeOK ==
  /\ proxy \in {"none", "anonymous", "known"}
  /\ owner \in Threads \cup {None}
  /\ pc \in Pcs
  /\ nested \in 0 .. MaxNested
  /\ inFlight \in Nat
  /\ from \in Threads \cup {None}
  /\ sock \in {"closed", "plain", "ssl"}

Connecting == {"connect", "tunnel", "tunnel2", "relock", "handshake"}
Counted == {"process", "aborted", "close", "handled", "end"}

\* inFlight is the number of calls of send() that counted themselves, all of
\* them the owner's; a connection without SSL is being made, or a proxy
\* without credentials left it.
ClientInv ==
  /\ TypeOK
  /\ inFlight = nested + (IF pc \in Counted THEN 1 ELSE 0)
  /\ inFlight > 0 => from = owner
  /\ owner = None <=> pc = "idle"
  /\ pc = "idle" => nested = 0
  /\ sock = "plain" => pc \in Connecting \/ proxy = "anonymous"
  /\ pc = "process" => sock # "closed"
  /\ pc = "connect" => sock = "closed"
  /\ pc \in {"tunnel", "tunnel2"} => proxy # "none"

\* close_socket() and shutdown_ssl() assert it (httplib.h:5868, 5884): while a
\* request is in flight, the socket is closed only by the thread that sent it.
ClosesOwn ==
  [][sock # "closed" /\ sock' = "closed" /\ inFlight > 0
       => from = owner /\ owner # None /\ pc' # pc]_vars

\* A request is sent only over a connection whose handshake is done, also when
\* the connection is left from an earlier request, unless a proxy has asked
\* for credentials that the client does not have.
SslInUse == pc = "process" => sock = "ssl" \/ proxy = "anonymous"

\* Every send() returns, also if the client is stopped meanwhile, unless the
\* proxy ends its connection with the answer; and a connection that was stopped
\* during a request is closed, if only to be replaced by that request itself.
SendReturns ==
  /\ owner # None ~> owner = None \/ pc \in {"aborted", "relock"}
  /\ closeLater /\ inFlight > 0 ~> sock = "closed" \/ pc \in {"aborted", "relock"}
==============================================================================
