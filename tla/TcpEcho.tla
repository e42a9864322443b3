------------------------------ MODULE TcpEcho ------------------------------
(***************************************************************************)
(* lesson3: tcp-client sends the lines it reads to tcp-server, which sends *)
(* back what each recv() returns.  The client's socket is non-blocking and *)
(* the server's blocks.  The client reads the answer once, 2 ms after it   *)
(* sent a request; what comes later is read after the next request.        *)
(*                                                                         *)
(* A byte is its position in what the client sends.  The server hands what *)
(* it received on as a C string, so a zero byte ends what it sends back.   *)
(***************************************************************************)
EXTENDS Integers, Sequences, SequencesExt

CONSTANTS
  Total,       \* bytes the user types (bound)
  Zeros,       \* those of them that are zero
  UpRoom,      \* bytes that fit between client and server
  DownRoom,    \* and between server and client
  ServerBuf,   \* MAX_BUFFER_SIZE - 1
  ClientBuf    \* MAX_RECV_BUFFER_SIZE - 1

VARIABLES
  typed,    \* number of bytes in the requests so far
  toSend,   \* what is left of the request in send_request
  up,       \* bytes on their way to the server
  held,     \* what is left of the message in send_message
  down,     \* bytes on their way to the client
  got,      \* bytes the client received
  client,   \* where the client is
  server    \* where the server is

vars == <<typed, toSend, up, held, down, got, client, server>>

\* The first n bytes, and what remains.
Taken(s, n) == SubSeq(s, 1, n)
Rest(s, n) == SubSeq(s, n + 1, Len(s))

\* std::string(buffer.data()): up to the first zero byte.
CString(s) ==
  IF \E i \in DOMAIN s : s[i] \in Zeros
    THEN Taken(s, (CHOOSE i \in DOMAIN s : s[i] \in Zeros /\
                     \A j \in 1 .. i - 1 : s[j] \notin Zeros) - 1)
    ELSE s

\* The client has closed its socket.
Gone == {"closed", "reset"}

Init ==
  /\ typed = 0
  /\ toSend = <<>> /\ up = <<>> /\ held = <<>> /\ down = <<>> /\ got = <<>>
  /\ client = "prompt"
  /\ server = "recv"

-----------------------------------------------------------------------------
\* The user types a line; request += "\r\n", so that it ends in two bytes that
\* are not zero.
Request ==
  /\ client = "prompt"
  /\ \E n \in 2 .. Total - typed :
       /\ Zeros \cap {typed + n - 1, typed + n} = {}
       /\ toSend' = [i \in 1 .. n |-> typed + i]
       /\ typed' = typed + n
  /\ client' = "sending"
  /\ UNCHANGED <<up, held, down, got, server>>

\* The end of the input: main() returns and closes the socket.  If answers are
\* unread, the connection is reset.
Quit ==
  /\ client = "prompt"
  /\ client' = IF down = <<>> THEN "closed" ELSE "reset"
  /\ down' = <<>>
  /\ UNCHANGED <<typed, toSend, up, held, got, server>>

\* Mutant: a send() that is tried only when all of the request fits.
ClientSendWhole ==
  /\ client = "sending"
  /\ Len(toSend) <= UpRoom - Len(up)
  /\ up' = up \o toSend
  /\ toSend' = <<>>
  /\ client' = "reading"
  /\ UNCHANGED <<typed, held, down, got, server>>

\* send() takes what fits, and EAGAIN is tried again without a pause.
ClientSend ==
  /\ client = "sending"
  /\ \E n \in 1 .. Len(toSend) :
       /\ n <= UpRoom - Len(up)
       /\ up' = up \o Taken(toSend, n)
       /\ toSend' = Rest(toSend, n)
  /\ client' = IF toSend' = <<>> THEN "reading" ELSE "sending"
  /\ UNCHANGED <<typed, held, down, got, server>>

\* recv_answer: what has arrived, until there is nothing.
ClientRecv ==
  /\ client = "reading"
  /\ down # <<>>
  /\ \E n \in 1 .. Len(down) :
       /\ n <= ClientBuf
       /\ got' = got \o Taken(down, n)
       /\ down' = Rest(down, n)
  /\ UNCHANGED <<typed, toSend, up, held, client, server>>

\* recv() returns -1 with EAGAIN (the answer is late or complete).
ClientRecvNothing ==
  /\ client = "reading"
  /\ down = <<>>
  /\ client' = "prompt"
  /\ UNCHANGED <<typed, toSend, up, held, down, got, server>>

\* recv() in communicate(), and the string for send_message().
ServerRecv ==
  /\ server = "recv"
  /\ up # <<>>
  /\ \E n \in 1 .. Len(up) :
       /\ n <= ServerBuf
       /\ held' = CString(Taken(up, n))
       /\ up' = Rest(up, n)
  /\ server' = IF held' = <<>> THEN "recv" ELSE "sending"
  /\ UNCHANGED <<typed, toSend, down, got, client>>

\* Mutant: send(sock, req_buffer, ...) without + req_pos.
ServerSendAgain ==
  /\ server = "sending"
  /\ client \notin Gone
  /\ \E n \in 1 .. Len(held) :
       /\ n <= DownRoom - Len(down)
       /\ down' = down \o Taken(held, n)
       /\ held' = Taken(held, Len(held) - n)
  /\ server' = IF held' = <<>> THEN "recv" ELSE "sending"
  /\ UNCHANGED <<typed, toSend, up, got, client>>

\* send() in send_message(): it blocks until something fits.
ServerSend ==
  /\ server = "sending"
  /\ client \notin Gone
  /\ \E n \in 1 .. Len(held) :
       /\ n <= DownRoom - Len(down)
       /\ down' = down \o Taken(held, n)
       /\ held' = Rest(held, n)
  /\ server' = IF held' = <<>> THEN "recv" ELSE "sending"
  /\ UNCHANGED <<typed, toSend, up, got, client>>

\* The client is gone but not known to be: send() succeeds once, and what it
\* sends is answered by a reset.
ServerSendLost ==
  /\ server = "sending"
  /\ client = "closed"
  /\ client' = "reset"
  /\ \E n \in 1 .. Len(held) : held' = Rest(held, n)
  /\ server' = IF held' = <<>> THEN "recv" ELSE "sending"
  /\ UNCHANGED <<typed, toSend, up, down, got>>

\* send() fails and is tried again, whatever the error: the second SIGPIPE ends
\* the server, or (where there is none) it goes round and round.
ServerSendFails ==
  /\ server = "sending"
  /\ client = "reset"
  /\ server' \in {"killed", "spinning"}
  /\ UNCHANGED <<typed, toSend, up, held, down, got, client>>

\* recv() returns 0, or -1 after a reset: communicate() returns true and main()
\* ends.
ServerEnds ==
  /\ server = "recv"
  /\ client = "reset" \/ (client = "closed" /\ up = <<>>)
  /\ server' = "ended"
  /\ UNCHANGED <<typed, toSend, up, held, down, got, client>>

ClientSteps == Request \/ Quit \/ ClientSend \/ ClientRecv \/ ClientRecvNothing
ServerSteps ==
  ServerRecv \/ ServerSend \/ ServerSendLost \/ ServerSendFails \/ ServerEnds

Next == ClientSteps \/ ServerSteps

\* Both programs and the network go on; the user need not.
ClientGoesOn == ClientSend \/ ClientRecv \/ ClientRecvNothing

-----------------------------------------------------------------------------
Bytes == 1 .. Total

\* The values of the variables; what each program holds fits its state.
TypeOK ==
  /\ typed \in 0 .. Total
  /\ {toSend, up, held, down, got} \subseteq Seq(Bytes)
  /\ client \in {"prompt", "sending", "reading"} \cup Gone
  /\ server \in {"recv", "sending", "killed", "spinning", "ended"}
  /\ client = "sending" <=> toSend # <<>>
  /\ Len(up) <= UpRoom /\ Len(down) <= DownRoom /\ Len(held) <= ServerBuf

\* All there is, in the order in which the client will see it.
Pipeline == got \o down \o held \o up \o toSend

\* How many bytes were typed before the first zero byte.
BeforeZero ==
  IF \E z \in Zeros : z <= typed
    THEN (CHOOSE z \in Zeros : \A y \in Zeros : z <= y) - 1
    ELSE typed

\* The echo: while the client is there, every byte that was typed before the
\* first zero byte is somewhere on its way, however the partial send()s and
\* recv()s of the two programs cut the stream.  Zero bytes lose bytes (the rest
\* of what that recv() returned), but nothing is ever reordered or repeated.
EchoInOrder ==
  /\ TypeOK
  /\ \A i, j \in DOMAIN Pipeline : i < j => Pipeline[i] < Pipeline[j]
  /\ client \notin Gone
       => /\ Len(Pipeline) >= BeforeZero
          /\ \A i \in 1 .. BeforeZero : Pipeline[i] = i

\* The client sends without reading and the server receives only when it has
\* sent: they wait for each other when both directions are full.  It takes more
\* than both directions hold, plus the byte each has in hand: a request that
\* leaves less than that under way is always sent off.  The server outlives no
\* client: once the client is gone, it ends or fails.
EchoGoesOn ==
  /\ client = "sending" /\ Len(Pipeline) - Len(got) < UpRoom + DownRoom + 2
       ~> client # "sending"
  /\ client \in Gone ~> server \in {"ended", "killed", "spinning"}

=============================================================================
