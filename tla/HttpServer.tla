----------------------------- MODULE HttpServer -----------------------------
(***************************************************************************)
(* lesson5/http-server: the main thread accepts connections and gives each *)
(* to a QThreadPool as a SocketRunnable, which reads one line, replies and *)
(* disconnects.  POST /server/control/exit makes the ServerControl of the  *)
(* connection emit stop_server in the worker thread; the signal reaches    *)
(* HttpServer::stop_server through the event loop of the main thread, if   *)
(* incomingConnection has connected it by then.                            *)
(*                                                                         *)
(* A request line may arrive in pieces, and run() reads what is there when *)
(* the first piece arrives.  Replies fit the send buffer of a socket, so   *)
(* bytesToWrite() is 0 when run() asks.                                    *)
(***************************************************************************)
EXTENDS Integers, Sequences, SequencesExt

CONSTANTS
  Clients,     \* who may connect, once each
  Threads,     \* the 20 threads of the pool
  FirstPieces, \* how much of a request line may arrive first
  None         \* no client

VARIABLES
  listening,   \* the QTcpServer listens
  backlog,     \* connections the kernel holds for it
  main,        \* the client incomingConnection is about to connect, or None
  linked,      \* clients whose ServerControl is connected to stop_server
  events,      \* stop_server calls posted to the main thread
  jobs,        \* runnables that wait for a thread of the pool
  work,        \* the client a thread serves, or None
  pc,          \* where its run() is
  line,        \* what run() made of the line it read
  client,      \* the state of each client
  req,         \* what it asks for
  arrived,     \* how much of its request line has arrived
  reply,       \* what it was answered
  emitted,     \* clients whose ServerControl emitted, and if it was linked
  crashed      \* line[1] was read beyond the end, and the process died of it

vars == <<listening, backlog, main, linked, events, jobs, work, pc, line,
          client, req, arrived, reply, emitted, crashed>>

Pool == <<jobs, work, pc, line>>

\* GET /info, GET of another page, POST /server/control/exit, another POST.
Requests == {"info", "page", "exit", "post"}
Gets == {"info", "page"}

\* Nothing, a part of the verb, the verb alone, a part of the path, all of it; a
\* part that is the path of the info page or of the exit page, be it that or the
\* beginning of a longer path, and all of a line of which that part came first.
Pieces == {"nothing", "torn", "verb", "cut", "whole", "name", "named"}

\* Mutant: the path is compared by its beginning.
ParsedPrefix(c) ==
  CASE arrived[c] \in {"cut", "whole", "named"} -> req[c]
    [] arrived[c] = "name" -> IF req[c] \in Gets THEN "info" ELSE "exit"
    [] arrived[c] = "verb" -> IF req[c] \in Gets THEN "bareGet" ELSE "barePost"
    [] OTHER               -> "unknown"

\* What split() makes of as much of the line as has arrived: a longer path that
\* is cut at the name of a page is taken for that page.
Parsed(c) ==
  CASE arrived[c] \in {"whole", "named"} -> req[c]
    [] arrived[c] = "name"  -> IF req[c] \in Gets THEN "info" ELSE "exit"
    [] arrived[c] = "cut"   -> IF req[c] \in Gets THEN "page" ELSE "post"
    [] arrived[c] = "verb"  -> IF req[c] \in Gets THEN "bareGet" ELSE "barePost"
    [] OTHER                -> "unknown"

Init ==
  /\ listening = TRUE
  /\ backlog = <<>>
  /\ main = None
  /\ linked = {}
  /\ events = 0
  /\ jobs = <<>>
  /\ work = [t \in Threads |-> None]
  /\ pc = [t \in Threads |-> "idle"]
  /\ line = [t \in Threads |-> "unknown"]
  /\ client = [c \in Clients |-> "new"]
  /\ req = [c \in Clients |-> "info"]
  /\ arrived = [c \in Clients |-> "nothing"]
  /\ reply = [c \in Clients |-> "none"]
  /\ emitted = [c \in Clients |-> "no"]
  /\ crashed = FALSE

-----------------------------------------------------------------------------
\* The clients.

Connect(c) ==
  /\ client[c] = "new"
  /\ listening
  /\ \E r \in Requests : req' = [req EXCEPT ![c] = r]
  /\ client' = [client EXCEPT ![c] = "connected"]
  /\ backlog' = Append(backlog, c)
  /\ UNCHANGED <<listening, main, linked, events, Pool, arrived, reply,
                 emitted, crashed>>

\* The first piece of the line arrives, or what was missing of it.
Send(c) ==
  /\ client[c] = "connected"
  /\ arrived[c] \notin {"whole", "named"}
  /\ \E a \in CASE arrived[c] = "nothing" -> FirstPieces
              [] arrived[c] = "name"    -> {"named"}
              [] OTHER                  -> {"whole"} :
       arrived' = [arrived EXCEPT ![c] = a]
  /\ UNCHANGED <<listening, backlog, main, linked, events, Pool, client, req,
                 reply, emitted, crashed>>

-----------------------------------------------------------------------------
\* The main thread.

\* QThreadPool::start: a thread that is idle takes the runnable at once.
PoolStart(c) ==
  IF \E t \in Threads : work[t] = None
    THEN LET t == CHOOSE t \in Threads : work[t] = None
         IN /\ work' = [work EXCEPT ![t] = c]
            /\ pc' = [pc EXCEPT ![t] = "waiting"]
            /\ UNCHANGED jobs
    ELSE /\ jobs' = Append(jobs, c)
         /\ UNCHANGED <<work, pc>>

\* incomingConnection up to threads_->start(socket).
IncomingConnection ==
  /\ main = None
  /\ listening
  /\ backlog # <<>>
  /\ main' = Head(backlog)
  /\ backlog' = Tail(backlog)
  /\ PoolStart(Head(backlog))
  /\ UNCHANGED <<listening, linked, events, line, client, req, arrived, reply,
                 emitted, crashed>>

\* The rest of incomingConnection: connect(controller, ..., stop_server).
ConnectController ==
  /\ main # None
  /\ linked' = linked \cup {main}
  /\ main' = None
  /\ UNCHANGED <<listening, backlog, events, Pool, client, req, arrived, reply,
                 emitted, crashed>>

\* stop_server: close().  The kernel resets the connections not accepted yet.
StopServer ==
  /\ main = None
  /\ events > 0
  /\ events' = events - 1
  /\ listening' = FALSE
  /\ backlog' = <<>>
  /\ client' = [c \in Clients |-> IF Contains(backlog, c) THEN "reset"
                                  ELSE client[c]]
  /\ UNCHANGED <<main, linked, Pool, req, arrived, reply, emitted, crashed>>

-----------------------------------------------------------------------------
\* SocketRunnable::run in a thread of the pool.

\* waitForReadyRead() and readLine(): what has arrived, be it after 30 s.
ReadLine(t) ==
  /\ pc[t] = "waiting"
  /\ line' = [line EXCEPT ![t] = Parsed(work[t])]
  /\ pc' = [pc EXCEPT ![t] = "read"]
  /\ UNCHANGED <<listening, backlog, main, linked, events, jobs, work, client,
                 req, arrived, reply, emitted, crashed>>

\* POST /server/control/exit: the signal is posted to the receivers it has.
EmitStop(t) ==
  /\ pc[t] = "read"
  /\ line[t] = "exit"
  /\ IF work[t] \in linked
       THEN /\ events' = events + 1
            /\ emitted' = [emitted EXCEPT ![work[t]] = "posted"]
       ELSE /\ emitted' = [emitted EXCEPT ![work[t]] = "lost"]
            /\ UNCHANGED events
  /\ pc' = [pc EXCEPT ![t] = "done"]
  /\ UNCHANGED <<listening, backlog, main, linked, jobs, work, line, client,
                 req, arrived, reply, crashed>>

\* GET: the info page or the error page.  line[1] of a bare GET is beyond the
\* end: what is read there is no page.
Reply(t) ==
  /\ pc[t] = "read"
  /\ line[t] \in {"info", "page", "bareGet"}
  /\ reply' = [reply EXCEPT ![work[t]] =
                 IF line[t] = "info" THEN "ok" ELSE "not found"]
  /\ pc' = [pc EXCEPT ![t] = "done"]
  /\ UNCHANGED <<listening, backlog, main, linked, events, jobs, work, line,
                 client, req, arrived, emitted, crashed>>

\* Mutant: a line that is neither GET nor POST is waited for once more.
NoReplyWaits(t) ==
  /\ pc[t] = "read"
  /\ line[t] \in {"post", "barePost", "unknown"}
  /\ pc' = [pc EXCEPT ![t] = IF line[t] = "unknown" THEN "waiting" ELSE "done"]
  /\ UNCHANGED <<listening, backlog, main, linked, events, jobs, work, line,
                 client, req, arrived, reply, emitted, crashed>>

\* Another POST, and what is neither GET nor POST, get no reply.
NoReply(t) ==
  /\ pc[t] = "read"
  /\ line[t] \in {"post", "barePost", "unknown"}
  /\ pc' = [pc EXCEPT ![t] = "done"]
  /\ UNCHANGED <<listening, backlog, main, linked, events, jobs, work, line,
                 client, req, arrived, reply, emitted, crashed>>

\* line[1] of a line with one word: an assertion or an access violation.
ReadBeyondLine(t) ==
  /\ pc[t] = "read"
  /\ line[t] \in {"bareGet", "barePost"}
  /\ crashed' = TRUE
  /\ UNCHANGED <<listening, backlog, main, linked, events, Pool, client, req,
                 arrived, reply, emitted>>

\* Mutant: the runnable stays in the queue of the pool.
DisconnectWithoutPop(t) ==
  /\ pc[t] = "done"
  /\ client' = [client EXCEPT ![work[t]] = "closed"]
  /\ line' = [line EXCEPT ![t] = "unknown"]
  /\ IF jobs # <<>>
       THEN /\ work' = [work EXCEPT ![t] = Head(jobs)]
            /\ pc' = [pc EXCEPT ![t] = "waiting"]
       ELSE /\ work' = [work EXCEPT ![t] = None]
            /\ pc' = [pc EXCEPT ![t] = "idle"]
  /\ UNCHANGED <<listening, backlog, main, linked, events, jobs, req, arrived,
                 reply, emitted, crashed>>

\* disconnect(socket), run() returns, and the thread takes the next runnable.
Disconnect(t) ==
  /\ pc[t] = "done"
  /\ client' = [client EXCEPT ![work[t]] = "closed"]
  /\ line' = [line EXCEPT ![t] = "unknown"]
  /\ IF jobs # <<>>
       THEN /\ work' = [work EXCEPT ![t] = Head(jobs)]
            /\ jobs' = Tail(jobs)
            /\ pc' = [pc EXCEPT ![t] = "waiting"]
       ELSE /\ work' = [work EXCEPT ![t] = None]
            /\ pc' = [pc EXCEPT ![t] = "idle"]
            /\ UNCHANGED jobs
  /\ UNCHANGED <<listening, backlog, main, linked, events, req, arrived,
                 reply, emitted, crashed>>

MainThread == IncomingConnection \/ ConnectController \/ StopServer

Run(t) ==
  \/ ReadLine(t) \/ EmitStop(t) \/ Reply(t) \/ NoReply(t)
  \/ ReadBeyondLine(t) \/ Disconnect(t)

Next ==
  /\ ~crashed
  /\ \/ \E c \in Clients : Connect(c) \/ Send(c)
     \/ MainThread
     \/ \E t \in Threads : Run(t)

Spec == Init /\ [][Next]_vars

\* The event loop and the threads go on; waitForReadyRead() returns after 30 s
\* at the latest.  Clients may never connect or never send.
FairSpec ==
  /\ Spec
  /\ WF_vars(~crashed /\ (IncomingConnection \/ ConnectController))
  /\ WF_vars(~crashed /\ StopServer)
  /\ \A t \in Threads : WF_vars(~crashed /\ Run(t))

-----------------------------------------------------------------------------
Lines == Requests \cup {"bareGet", "barePost", "unknown"}

\* The values of the variables.
TypeOK ==
  /\ listening \in BOOLEAN /\ crashed \in BOOLEAN
  /\ backlog \in Seq(Clients) /\ jobs \in Seq(Clients)
  /\ main \in Clients \cup {None}
  /\ linked \subseteq Clients
  /\ events \in Nat
  /\ work \in [Threads -> Clients \cup {None}]
  /\ pc \in [Threads -> {"idle", "waiting", "read", "done"}]
  /\ line \in [Threads -> Lines]
  /\ client \in [Clients -> {"new", "connected", "closed", "reset"}]
  /\ req \in [Clients -> Requests]
  /\ arrived \in [Clients -> Pieces]
  /\ reply \in [Clients -> {"none", "ok", "not found"}]
  /\ emitted \in [Clients -> {"no", "posted", "lost"}]

\* Where the connection of a client may be.
Places(c) ==
  (IF Contains(backlog, c) THEN {"backlog"} ELSE {})
    \cup (IF Contains(jobs, c) THEN {"jobs"} ELSE {})
    \cup {t \in Threads : work[t] = c}

\* Every open connection is in exactly one place: none is dropped between the
\* accept, the pool queue and a thread, and none is served twice.
OnePlace ==
  /\ TypeOK
  /\ \A c \in Clients :
       IF client[c] = "connected" THEN \E x \in Places(c) : Places(c) = {x}
                                  ELSE Places(c) = {}

\* The client asked for the exit page, or for a page whose path begins with that
\* of the exit page and came in pieces, the first of which ended just there.
AskedToStop(c) ==
  \/ req[c] = "exit" /\ arrived[c] \in {"whole", "name", "named"}
  \/ req[c] = "post" /\ arrived[c] \in {"name", "named"}

\* The server stops only for a client that asked it to, as far as run() can tell:
\* of the lines that arrive in pieces only those are taken for a request to stop
\* that are cut at the end of the name of the exit page.
StopsOnlyOnRequest ==
  ~listening => \E c \in Clients : emitted[c] = "posted" /\ AskedToStop(c)

\* Each client that connects is served or reset, even if clients that send
\* nothing hold all the threads, and even after the server was stopped; and a
\* posted stop request stops the server, whoever still waits.
ConnectionEnds ==
  /\ \A c \in Clients :
       client[c] = "connected" ~> client[c] \in {"closed", "reset"} \/ crashed
  /\ (\E c \in Clients : emitted[c] = "posted") ~> ~listening \/ crashed

\* "Available pages: /server/control/exit": a POST of that page, read as a
\* whole, stops the server.
ExitStops ==
  (\E t \in Threads : pc[t] = "read" /\ line[t] = "exit") ~> ~listening \/ crashed

=============================================================================
