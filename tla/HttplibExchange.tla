--------------------------- MODULE HttplibExchange ----------------------------
(***************************************************************************)
(* Requests and answers between a client and the server of                 *)
(* lesson7/server/httplib.h: send() and process_request() of the client,   *)
(* process_server_socket_core() and process_request() of the server, and   *)
(* what is on the way between them.  The client sends one request after    *)
(* the other, on the connection it has if that is still alive; each side   *)
(* has timeouts, each may close the connection, and a handler may stop()   *)
(* the server.                                                             *)
(*                                                                         *)
(* What is written at once is one unit: the head of a request (its line    *)
(* and headers) or its body, the head of an answer or a piece of its       *)
(* content, which says which piece of what content it is (the client does  *)
(* not look at that).  A head always finds room on its way, a piece of     *)
(* content may be written too late, and one that is written in part counts *)
(* as not written.  The connection made for request i is connection i.     *)
(***************************************************************************)
EXTENDS Integers, Sequences

CONSTANTS
  MaxRequests,   \* bound: requests the client sends
  Kinds,         \* the kinds of request, see HasBody and Route
  Forms,         \* what handlers answer with, see Pieces
  KeepAliveMax   \* keep_alive_max_count_

VARIABLES
  keepAlive,  \* keep_alive_ of the client
  cpc,        \* where the client is: "idle", "head", "body", "read", "content"
  n,          \* the number of its request
  kind,       \* the kind of each request
  conn,       \* its connection, 0 for none
  got,        \* the head of the answer it reads
  pieces,     \* the pieces of the content it has read
  foreign,    \* it has read something else as part of that content
  torn,       \* of the unit that comes next, the beginning was read so
  result,     \* what send() returned for each request
  up,         \* the units on the way to the server, for each connection
  down,       \* and to the client
  cOpen,      \* the client has not closed it
  sEnd,       \* the server's end: "open", or closed, "graceful" or "abrupt"
  spc,        \* where the server's worker is
  left,       \* count of process_server_socket_core
  ret,        \* ret in there
  cur,        \* the request it serves, 0 for a line that is none
  form,       \* the form of the answer
  wrote,      \* the pieces written
  stopped,    \* svr_sock_ is INVALID_SOCKET
  handled,    \* how often the handler ran for each request
  unread,     \* an answer was written before the body of the request was read
  cut         \* content on this connection was ended before all was written

\* The client sends some number of requests, and every kind of request and of
\* answer is one of those that are modelled here.
ASSUME ExchangeAssumption ==
  /\ MaxRequests \in Nat
  /\ KeepAliveMax \in Nat
  /\ Kinds \subseteq {"get", "head", "post", "expect", "badrange", "getbody", "exit"}
  /\ Forms \subseteq {"empty", "plain", "length", "chunked", "stream"}

vars == <<keepAlive, cpc, n, kind, conn, got, pieces, foreign, torn, result, up, down, cOpen,
          sEnd, spc, left, ret, cur, form, wrote, stopped, handled, unread, cut>>

client == <<keepAlive, cpc, n, kind, conn, got, pieces, foreign, torn, result, cOpen>>
worker == <<sEnd, spc, left, ret, cur, form, wrote>>
history == <<stopped, handled, unread, cut>>

Requests == 1 .. MaxRequests

\* A POST, one with Expect: 100-continue, and one with a Range that is not
\* valid have a body that the server reads, reads, and does not read; a GET
\* may have one, which it does not read either.
HasBody(k) == k \in {"post", "expect", "badrange", "getbody"}

Pieces(f) == CASE f = "empty" -> 0 [] f = "plain" -> 1 [] OTHER -> 2

NoAnswer == [req |-> 0, form |-> "empty", close |-> FALSE]

Init ==
  /\ keepAlive \in BOOLEAN
  /\ cpc = "idle"
  /\ n = 0
  /\ kind = [i \in Requests |-> "none"]
  /\ conn = 0
  /\ got = NoAnswer
  /\ pieces = 0
  /\ foreign = FALSE
  /\ torn = FALSE
  /\ result = [i \in Requests |-> [is |-> "none"]]
  /\ up = [c \in Requests |-> <<>>]
  /\ down = [c \in Requests |-> <<>>]
  /\ cOpen = [c \in Requests |-> FALSE]
  /\ sEnd = [c \in Requests |-> "open"]
  /\ spc = [c \in Requests |-> "none"]
  /\ left = [c \in Requests |-> KeepAliveMax]
  /\ ret = [c \in Requests |-> FALSE]
  /\ cur = [c \in Requests |-> 0]
  /\ form = [c \in Requests |-> "empty"]
  /\ wrote = [c \in Requests |-> 0]
  /\ stopped = FALSE
  /\ handled = [i \in Requests |-> 0]
  /\ unread = [c \in Requests |-> FALSE]
  /\ cut = [c \in Requests |-> FALSE]

(***************************************************************************)
(* The client.                                                             *)
(***************************************************************************)
\* is_socket_alive(): there is something to read, or nothing, but no end.
Alive == conn # 0 /\ ~(sEnd[conn] # "open" /\ down[conn] = <<>>)

\* send() begins, with the connection it has or a new one.
Ask ==
  /\ cpc = "idle"
  /\ n < MaxRequests
  /\ n' = n + 1
  /\ \E k \in Kinds : kind' = [kind EXCEPT ![n'] = k]
  /\ \/ /\ Alive
        /\ cpc' = "head"
        /\ UNCHANGED <<conn, cOpen, torn, spc, result>>
     \/ /\ ~Alive /\ ~stopped
        /\ conn' = n'
        /\ cOpen' = [c \in Requests |-> c = n']
        /\ torn' = FALSE
        /\ spc' = [spc EXCEPT ![n'] = "loop"]
        /\ cpc' = "head"
        /\ UNCHANGED result
     \/ /\ ~Alive /\ stopped                       \* nobody listens any more
        /\ conn' = 0
        /\ cOpen' = [c \in Requests |-> FALSE]
        /\ torn' = FALSE
        /\ result' = [result EXCEPT ![n'] = [is |-> "error"]]
        /\ UNCHANGED <<cpc, spc>>
  /\ UNCHANGED <<keepAlive, got, pieces, foreign, up, down, sEnd, left, ret, cur, form, wrote,
                 history>>

\* A unit that is written is on the way, or lost if the server has closed its
\* end; that may also cost the client what it has not read yet.
Write(unit, next) ==
  /\ cpc' = next
  /\ \/ sEnd[conn] = "open" /\ up' = [up EXCEPT ![conn] = Append(@, unit)] /\ UNCHANGED <<down, sEnd>>
     \/ sEnd[conn] # "open" /\ UNCHANGED <<up, down, sEnd>>
     \/ /\ sEnd[conn] # "open"
        /\ down' = [down EXCEPT ![conn] = <<>>]
        /\ sEnd' = [sEnd EXCEPT ![conn] = "abrupt"]
        /\ UNCHANGED up
  /\ UNCHANGED <<keepAlive, n, kind, conn, got, pieces, foreign, torn, result, cOpen, spc, left,
                 ret, cur, form, wrote, history>>

WriteRequest ==
  \/ cpc = "head" /\ Write([unit |-> "head", req |-> n], IF HasBody(kind[n]) THEN "body" ELSE "read")
  \/ cpc = "body" /\ Write([unit |-> "body", req |-> n], "read")

Take == down' = [down EXCEPT ![conn] = Tail(@)]

Close == conn' = 0 /\ cOpen' = [cOpen EXCEPT ![conn] = FALSE] /\ torn' = FALSE

\* Mutant: the client reads again when there is nothing to read.
FailingNever ==
  \/ cpc \in {"head", "body"} /\ sEnd[conn] # "open"
  \/ cpc = "read" /\ down[conn] # <<>> /\ (torn \/ Head(down[conn]).unit \notin {"100", "head"})
  \/ /\ cpc = "content" /\ got.form = "chunked"
     /\ down[conn] # <<>> /\ Head(down[conn]).unit \notin {"piece", "end"}

\* A write fails, or what is read is the end, not what is expected, or not
\* there in time.  In content that is not chunked everything is expected.
Failing ==
  \/ cpc \in {"head", "body"} /\ sEnd[conn] # "open"
  \/ /\ cpc = "read"
     /\ down[conn] # <<>> => torn \/ Head(down[conn]).unit \notin {"100", "head"}
  \/ /\ cpc = "content" /\ ~torn
     /\ IF down[conn] # <<>>
        THEN got.form = "chunked" /\ Head(down[conn]).unit \notin {"piece", "end"}
        ELSE ~(got.form = "stream" /\ sEnd[conn] = "graceful")

\* Mutant: a request that failed does not close the connection.
FailKeeps ==
  /\ Failing
  /\ result' = [result EXCEPT ![n] = [is |-> "error"]]
  /\ cpc' = "idle"
  /\ foreign' = FALSE
  /\ UNCHANGED <<keepAlive, n, kind, got, pieces, torn, conn, cOpen, up, down, worker, history>>

\* send() returns an error, and closes the connection.
Fail ==
  /\ Failing
  /\ result' = [result EXCEPT ![n] = [is |-> "error"]]
  /\ cpc' = "idle"
  /\ got' = NoAnswer /\ pieces' = 0 /\ foreign' = FALSE
  /\ Close
  /\ UNCHANGED <<keepAlive, n, kind, up, down, worker, history>>

ReadHead ==
  /\ cpc = "read"
  /\ down[conn] # <<>> /\ ~torn
  /\ Take
  /\ \/ Head(down[conn]).unit = "100" /\ UNCHANGED <<cpc, got>>
     \/ /\ Head(down[conn]).unit = "head"
        /\ got' = Head(down[conn]).answer
        /\ cpc' = "content"
  /\ UNCHANGED <<keepAlive, n, kind, conn, pieces, foreign, torn, result, up, cOpen, worker,
                 history>>

ReadPiece ==
  /\ cpc = "content"
  /\ down[conn] # <<>>
  /\ Head(down[conn]).unit = "piece"
  /\ pieces < Pieces(got.form) /\ kind[n] # "head" /\ ~foreign
  /\ Take
  /\ pieces' = pieces + 1
  /\ UNCHANGED <<keepAlive, cpc, n, kind, conn, got, foreign, torn, result, up, cOpen, worker,
                 history>>

\* Content with a length is so many bytes, content without one all there is:
\* another answer that comes before the end is read as content as well.  What
\* a length leaves of it is lost with the buffer, or is what comes next.
ReadForeign ==
  /\ cpc = "content"
  /\ down[conn] # <<>> /\ ~torn
  /\ kind[n] # "head"
  /\ got.form = "stream" \/ (got.form \in {"plain", "length"} /\ pieces < Pieces(got.form))
  /\ foreign \/ Head(down[conn]).unit # "piece"
  /\ foreign' = TRUE
  /\ \/ Take /\ UNCHANGED torn
     \/ got.form # "stream" /\ torn' = TRUE /\ UNCHANGED down
  /\ UNCHANGED <<keepAlive, cpc, n, kind, conn, got, pieces, result, up, cOpen, worker, history>>

\* All the content is read: as many bytes as the length says, the chunks and
\* their end, or all there is before the connection ends.
AllRead ==
  \/ kind[n] = "head" \/ got.form = "empty"
  \/ got.form \in {"plain", "length"} /\ (pieces = Pieces(got.form) \/ foreign)
  \/ got.form = "chunked" /\ down[conn] # <<>> /\ Head(down[conn]).unit = "end"
  \/ got.form = "stream" /\ down[conn] = <<>> /\ sEnd[conn] = "graceful"

Finish ==
  /\ cpc = "content"
  /\ AllRead
  /\ IF got.form = "chunked" /\ kind[n] # "head" THEN Take ELSE UNCHANGED down
  /\ result' = [result EXCEPT ![n] =
       [is |-> "answer", to |-> got.req, via |-> conn, form |-> got.form, pieces |-> pieces,
        foreign |-> foreign]]
  /\ cpc' = "idle"
  /\ got' = NoAnswer /\ pieces' = 0 /\ foreign' = FALSE
  /\ IF got.close \/ ~keepAlive THEN Close ELSE UNCHANGED <<conn, cOpen, torn>>
  /\ UNCHANGED <<keepAlive, n, kind, up, worker, history>>

Client == Ask \/ WriteRequest \/ Fail \/ ReadHead \/ ReadPiece \/ ReadForeign \/ Finish

(***************************************************************************)
(* The worker of connection c.                                             *)
(***************************************************************************)
At(c, here, there) == spc[c] = here /\ spc' = [spc EXCEPT ![c] = there]

Loop(c) ==
  /\ spc[c] = "loop"
  /\ spc' = [spc EXCEPT ![c] = IF stopped \/ left[c] = 0 THEN "close" ELSE "wait"]
  /\ UNCHANGED <<client, up, down, sEnd, left, ret, cur, form, wrote, history>>

\* Mutant: the time in which the next request has to begin is not bounded.
KeepAliveForever(c) ==
  /\ At(c, "wait", "line")
  /\ up[c] # <<>> \/ ~cOpen[c]
  /\ UNCHANGED <<client, up, down, sEnd, left, ret, cur, form, wrote, history>>

\* keep_alive(): something can be read, were it the end; or the time is over.
KeepAlive(c) ==
  /\ \/ At(c, "wait", "line") /\ (up[c] # <<>> \/ ~cOpen[c])
     \/ At(c, "wait", "close")
  /\ UNCHANGED <<client, up, down, sEnd, left, ret, cur, form, wrote, history>>

Send(c, units) ==
  down' = [down EXCEPT ![c] = IF cOpen[c] THEN @ \o units ELSE @]

\* The head of a request is read; a Range that cannot be parsed is answered.
ReadLine(c) ==
  /\ up[c] # <<>>
  /\ Head(up[c]).unit = "head"
  /\ LET i == Head(up[c]).req
     IN  /\ cur' = [cur EXCEPT ![c] = i]
         /\ IF kind[i] = "badrange" THEN At(c, "line", "answer") ELSE At(c, "line", "route")
         /\ Send(c, IF kind[i] = "expect" THEN <<[unit |-> "100"]>> ELSE <<>>)
  /\ up' = [up EXCEPT ![c] = Tail(@)]
  /\ UNCHANGED <<client, sEnd, left, ret, form, wrote, history>>

\* A body that nobody has read is taken for a line, which is answered with 400
\* if it has an end, and waited for in vain otherwise.
ReadJunk(c) ==
  /\ up[c] # <<>>
  /\ Head(up[c]).unit = "body"
  /\ \/ At(c, "line", "answer") /\ UNCHANGED ret
     \/ At(c, "line", "close") /\ ret' = [ret EXCEPT ![c] = FALSE]
  /\ up' = [up EXCEPT ![c] = Tail(@)]
  /\ UNCHANGED <<client, down, sEnd, left, cur, form, wrote, history>>

ReadEnd(c) ==
  /\ At(c, "line", "close")
  /\ up[c] = <<>>
  /\ ret' = [ret EXCEPT ![c] = FALSE]
  /\ UNCHANGED <<client, up, down, sEnd, left, cur, form, wrote, history>>

\* routing() reads the content of a POST; if it does not come, that is 400.
ReadBody(c) ==
  /\ spc[c] = "route" /\ kind[cur[c]] \in {"post", "expect"}
  /\ \/ /\ At(c, "route", "handle")
        /\ up[c] # <<>> /\ Head(up[c]).unit = "body"
        /\ up' = [up EXCEPT ![c] = Tail(@)]
     \/ /\ At(c, "route", "answer")
        /\ up[c] = <<>>
        /\ UNCHANGED up
  /\ UNCHANGED <<client, down, sEnd, left, ret, cur, form, wrote, history>>

NoBody(c) ==
  /\ At(c, "route", "handle")
  /\ kind[cur[c]] \notin {"post", "expect"}
  /\ UNCHANGED <<client, up, down, sEnd, left, ret, cur, form, wrote, history>>

\* The handler; that of "exit" is the one that stops the server.
Handle(c) ==
  /\ At(c, "handle", "answer")
  /\ handled' = [handled EXCEPT ![cur[c]] = @ + 1]
  /\ stopped' = (stopped \/ kind[cur[c]] = "exit")
  /\ \E f \in Forms : form' = [form EXCEPT ![c] = f]
  /\ UNCHANGED <<client, up, down, sEnd, left, ret, cur, wrote, unread, cut>>

\* What is no request is answered like a GET.
KindOf(i) == IF i = 0 THEN "get" ELSE kind[i]

Kind(c) == KindOf(cur[c])

\* connection_closed: the request said Connection: close.
Bye(c) == cur[c] # 0 /\ ~keepAlive

BodyIsRead(c) ==
  \/ ~HasBody(Kind(c))
  \/ Kind(c) \in {"post", "expect"} /\ handled[cur[c]] > 0

WriteHead(c) ==
  /\ At(c, "answer", IF Kind(c) = "head" THEN "done" ELSE "content")
  /\ Send(c, <<[unit |-> "head", answer |-> [req |-> cur[c], form |-> form[c],
                                            close |-> left[c] = 1 \/ Bye(c)]]>>)
  /\ ret' = [ret EXCEPT ![c] = TRUE]
  /\ unread' = [unread EXCEPT ![c] = @ \/ ~BodyIsRead(c)]
  /\ UNCHANGED <<client, up, sEnd, left, cur, form, wrote, stopped, handled, cut>>

Provided(c) == form[c] \in {"length", "chunked", "stream"}

WritePiece(c) ==
  /\ spc[c] = "content"
  /\ wrote[c] < Pieces(form[c])
  /\ Provided(c) => ~stopped
  /\ Send(c, <<[unit |-> "piece", form |-> form[c], no |-> wrote[c] + 1]>>)
  /\ wrote' = [wrote EXCEPT ![c] = @ + 1]
  /\ UNCHANGED <<client, up, sEnd, spc, left, ret, cur, form, history>>

\* The content ends here, be it all of it or not.
CutIfShort(c) == cut' = [cut EXCEPT ![c] = @ \/ wrote[c] < Pieces(form[c])]

\* A piece cannot be written, or not in time, or the provider gives up, before
\* it is done(); the result of writing the body of a plain answer is not looked
\* at.
WriteFails(c) ==
  /\ At(c, "content", "done")
  /\ wrote[c] < Pieces(form[c]) \/ form[c] \in {"chunked", "stream"}
  /\ IF Provided(c) THEN ret' = [ret EXCEPT ![c] = FALSE] ELSE UNCHANGED ret
  /\ CutIfShort(c)
  /\ UNCHANGED <<client, up, down, sEnd, left, cur, form, wrote, stopped, handled, unread>>

\* Mutant: content that is cut short by stop() is ended like one that is not.
EndContentAlways(c) ==
  /\ At(c, "content", "done")
  /\ wrote[c] = Pieces(form[c]) \/ (Provided(c) /\ stopped)
  /\ Send(c, IF form[c] = "chunked" THEN <<[unit |-> "end"]>> ELSE <<>>)
  /\ CutIfShort(c)
  /\ UNCHANGED <<client, up, sEnd, left, ret, cur, form, wrote, stopped, handled, unread>>

\* All is written, and done() called; or is_shutting_down() ends it before.
EndContent(c) ==
  /\ At(c, "content", "done")
  /\ wrote[c] = Pieces(form[c]) \/ (Provided(c) /\ stopped)
  /\ Send(c, IF form[c] = "chunked" /\ ~stopped THEN <<[unit |-> "end"]>> ELSE <<>>)
  /\ CutIfShort(c)
  /\ UNCHANGED <<client, up, sEnd, left, ret, cur, form, wrote, stopped, handled, unread>>

Again(c) ==
  /\ At(c, "done", IF ~ret[c] \/ Bye(c) THEN "close" ELSE "loop")
  /\ left' = [left EXCEPT ![c] = @ - 1]
  /\ cur' = [cur EXCEPT ![c] = 0]
  /\ form' = [form EXCEPT ![c] = "empty"]
  /\ wrote' = [wrote EXCEPT ![c] = 0]
  /\ UNCHANGED <<client, up, down, sEnd, ret, history>>

\* The connection is shut down and closed, however the last request went; if
\* there is something to read on it, the client may lose what it has not read.
CloseSocket(c) ==
  /\ At(c, "close", "closed")
  /\ \/ sEnd' = [sEnd EXCEPT ![c] = "graceful"] /\ UNCHANGED down
     \/ /\ up[c] # <<>>
        /\ sEnd' = [sEnd EXCEPT ![c] = "abrupt"]
        /\ down' = [down EXCEPT ![c] = <<>>]
  /\ up' = [up EXCEPT ![c] = <<>>]
  /\ left' = [left EXCEPT ![c] = 0]
  /\ ret' = [ret EXCEPT ![c] = FALSE]
  /\ cur' = [cur EXCEPT ![c] = 0]
  /\ form' = [form EXCEPT ![c] = "empty"]
  /\ wrote' = [wrote EXCEPT ![c] = 0]
  /\ UNCHANGED <<client, history>>

Worker(c) ==
  \/ Loop(c) \/ KeepAlive(c) \/ ReadLine(c) \/ ReadJunk(c) \/ ReadEnd(c) \/ ReadBody(c)
  \/ NoBody(c) \/ Handle(c) \/ WriteHead(c) \/ WritePiece(c) \/ WriteFails(c)
  \/ EndContent(c) \/ Again(c) \/ CloseSocket(c)

Next == Client \/ \E c \in Requests : Worker(c)

Spec == Init /\ [][Next]_vars

\* Reads, writes and keep_alive() have timeouts: both sides go on.
FairSpec ==
  /\ Spec
  /\ WF_vars(Client)
  /\ \A c \in Requests : WF_vars(Worker(c))

-----------------------------------------------------------------------------
Answered(i) == result[i].is = "answer"

\* What send() returns is the answer to its own request, not the late answer to
\* one that was given up, and the handler has run once for it at most; unless
\* an answer was written on this connection before the request was read.
AnswerIsOwn ==
  \A i \in Requests :
    /\ handled[i] <= 1
    /\ Answered(i) /\ ~unread[result[i].via] => result[i].to = i
    /\ Answered(i) /\ result[i].to = i /\ result[i].form # "empty" => handled[i] = 1

\* Content that is returned is whole, and nothing else is in it: content with a
\* length or in chunks that was cut short is an error for the client.  That of
\* an answer without a length is not, its end is that of the connection.  And
\* where an answer was written before its request had been read, the one after
\* it may be read as part of content that has no length or was cut short.
\* Neither a HEAD nor the answer to one has content.
ContentIsWhole ==
  \A i \in Requests :
    LET r == result[i]
    IN  Answered(i) /\ "head" \notin {kind[i], KindOf(r.to)} =>
          \/ r.pieces = Pieces(r.form) /\ ~r.foreign
          \/ r.form = "stream" /\ cut[r.via] /\ ~r.foreign
          \/ r.form = "stream" /\ r.pieces = Pieces(r.form) /\ unread[r.via]
          \/ r.form = "plain" /\ cut[r.via] /\ unread[r.via]

\* Every send() returns, whatever the server does with the request, and no
\* client keeps a worker for ever: neither end waits for the other longer than
\* its timeouts and its count of requests say.
BothGoOn ==
  /\ cpc # "idle" ~> cpc = "idle"
  /\ \A c \in Requests : spc[c] = "loop" ~> spc[c] = "closed"
==============================================================================
