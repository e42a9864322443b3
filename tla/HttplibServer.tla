---------------------------- MODULE HttplibServer ----------------------------
(***************************************************************************)
(* lesson7: the server of cpp-httplib-server.cpp, which is an SSLServer of *)
(* lesson7/server/httplib.h.  The main thread accepts connections in       *)
(* listen_internal() and enqueues each as a job of the ThreadPool; a       *)
(* worker does the TLS handshake, answers up to KeepAliveMax requests and  *)
(* closes the connection.  The handler of POST /server/control/exit calls  *)
(* stop() in its worker, which closes the listening socket under the main  *)
(* thread; that leaves its loop, and shuts the pool down.                  *)
(*                                                                         *)
(* A step is what one thread does between two accesses to what it shares   *)
(* with others: svr_sock_ and is_running_ (atomics), the kernel's socket,  *)
(* and the pool's queue (under its mutex).                                 *)
(***************************************************************************)
EXTENDS Integers, Sequences

CONSTANTS
  Workers,        \* the threads of the pool
  Conns,          \* connections, each of which is made once
  KeepAliveMax,   \* keep_alive_max_count_
  None            \* no connection

ASSUME ServerAssumption ==
  /\ Workers # {}
  /\ None \notin Conns
  /\ KeepAliveMax \in Nat \ {0}

VARIABLES
  svrSock,   \* svr_sock_: "listener" or "invalid"
  socket,    \* the kernel's listening socket: "open", "shut" down, "closed"
  running,   \* is_running_
  lst,       \* where the thread in listen() is
  jobs,      \* jobs_ of the pool
  shut,      \* shutdown_ of the pool
  pc,        \* where each worker is
  job,       \* the connection it serves
  left,      \* count of process_server_socket_core
  held,      \* what stop() exchanged for INVALID_SOCKET
  conn,      \* "new", in the "backlog", or "accepted"
  input,     \* what the connection has for the server: "nothing", "hi", "exit", "end"
  closes,    \* how often it was closed
  aborted    \* an assertion failed, in a build that has them

vars == <<svrSock, socket, running, lst, jobs, shut, pc, job, left, held, conn,
          input, closes, aborted>>

listener == <<svrSock, socket, running, lst>>
pool == <<jobs, shut, pc, job, left>>
clients == <<conn, input, closes>>

ListenPcs == {"bind", "check", "call", "accept", "failed", "closing",
              "shutdown", "notify", "join", "returned"}
Serving == {"handshake", "loop", "keep_alive", "request", "exit", "assert",
            "exchange", "shutdown", "close_listener", "answer", "close"}
WorkerPcs == Serving \cup {"idle", "waiting", "exited"}

Init ==
  /\ svrSock = "invalid"
  /\ socket = "closed"
  /\ running = FALSE
  /\ lst = "bind"
  /\ jobs = <<>>
  /\ shut = FALSE
  /\ pc = [t \in Workers |-> "idle"]
  /\ job = [t \in Workers |-> None]
  /\ left = [t \in Workers |-> 0]
  /\ held = [t \in Workers |-> "invalid"]
  /\ conn = [c \in Conns |-> "new"]
  /\ input = [c \in Conns |-> "nothing"]
  /\ closes = [c \in Conns |-> 0]
  /\ aborted = FALSE

(***************************************************************************)
(* The thread in listen().                                                 *)
(***************************************************************************)
BindInternal ==
  /\ lst = "bind"
  /\ \/ /\ svrSock' = "listener"
        /\ socket' = "open"
        /\ running' = TRUE
        /\ lst' = "check"
     \/ /\ lst' = "returned"       \* is_valid(), or create_socket(), says no
        /\ UNCHANGED <<svrSock, socket, running>>
  /\ UNCHANGED <<pool, held, clients, aborted>>

\* The condition of the loop reads svr_sock_, and the call of accept() again.
CheckSocket ==
  /\ lst = "check"
  /\ lst' = IF svrSock = "listener" THEN "call" ELSE "shutdown"
  /\ UNCHANGED <<svrSock, socket, running, pool, held, clients, aborted>>

CallAccept ==
  /\ lst = "call"
  /\ lst' = IF svrSock = "listener" THEN "accept" ELSE "failed"
  /\ UNCHANGED <<svrSock, socket, running, pool, held, clients, aborted>>

\* notify_one() wakes a worker that waits, if there is one.
NotifyOne ==
  LET waiting == {t \in Workers : pc[t] = "waiting"}
  IN  IF waiting = {} THEN pc' = pc
      ELSE \E t \in waiting : pc' = [pc EXCEPT ![t] = "idle"]

Accept(c) ==
  /\ lst = "accept"
  /\ socket = "open"
  /\ conn[c] = "backlog"
  /\ conn' = [conn EXCEPT ![c] = "accepted"]
  /\ jobs' = Append(jobs, c)
  /\ NotifyOne
  /\ lst' = "check"
  /\ UNCHANGED <<svrSock, socket, running, shut, job, left, held, input, closes,
                 aborted>>

\* shutdown() of a listening socket ends the accept() that waits on it.
AcceptEnds ==
  /\ lst = "accept"
  /\ socket \in {"shut", "closed"}
  /\ lst' = "failed"
  /\ UNCHANGED <<svrSock, socket, running, pool, held, clients, aborted>>

\* EMFILE is tried again after 1 ms; any other error ends the loop.
AcceptFails ==
  /\ lst = "accept"
  /\ socket = "open"
  /\ lst' \in {"check", "failed"}
  /\ UNCHANGED <<svrSock, socket, running, pool, held, clients, aborted>>

AfterError ==
  /\ lst = "failed"
  /\ lst' = IF svrSock = "listener" THEN "closing" ELSE "shutdown"
  /\ UNCHANGED <<svrSock, socket, running, pool, held, clients, aborted>>

\* svr_sock_ is closed but keeps its value, unless stop() has just taken it.
CloseAfterError ==
  /\ lst = "closing"
  /\ socket' = IF svrSock = "listener" THEN "closed" ELSE socket
  /\ lst' = "shutdown"
  /\ UNCHANGED <<svrSock, running, pool, held, clients, aborted>>

ShutdownPool ==
  /\ lst = "shutdown"
  /\ shut' = TRUE
  /\ lst' = "notify"
  /\ UNCHANGED <<svrSock, socket, running, jobs, pc, job, left, held, clients,
                 aborted>>

NotifyAll ==
  /\ lst = "notify"
  /\ pc' = [t \in Workers |-> IF pc[t] = "waiting" THEN "idle" ELSE pc[t]]
  /\ lst' = "join"
  /\ UNCHANGED <<svrSock, socket, running, jobs, shut, job, left, held, clients,
                 aborted>>

Join ==
  /\ lst = "join"
  /\ \A t \in Workers : pc[t] = "exited"
  /\ running' = FALSE
  /\ lst' = "returned"
  /\ UNCHANGED <<svrSock, socket, pool, held, clients, aborted>>

Listen ==
  /\ ~aborted
  /\ \/ BindInternal \/ CheckSocket \/ CallAccept \/ AcceptEnds \/ AcceptFails
     \/ AfterError \/ CloseAfterError \/ ShutdownPool \/ NotifyAll \/ Join
     \/ \E c \in Conns : Accept(c)

(***************************************************************************)
(* A worker of the pool.                                                   *)
(***************************************************************************)
Goto(t, p) == pc' = [pc EXCEPT ![t] = p]

\* Mutant: the job is copied from the front of the queue and left there.
TakeJobTwice(t) ==
  /\ pc[t] = "idle"
  /\ jobs # <<>>
  /\ job' = [job EXCEPT ![t] = Head(jobs)]
  /\ Goto(t, "handshake")
  /\ UNCHANGED <<listener, jobs, shut, left, held, clients, aborted>>

TakeJob(t) ==
  /\ pc[t] = "idle"
  /\ jobs # <<>>
  /\ job' = [job EXCEPT ![t] = Head(jobs)]
  /\ jobs' = Tail(jobs)
  /\ Goto(t, "handshake")
  /\ UNCHANGED <<listener, shut, left, held, clients, aborted>>

\* Mutant: shutdown() drops the jobs that no worker has taken yet.
MayExitAtOnce == shut

MayExit == shut /\ jobs = <<>>

\* A worker with nothing to do waits for the condition, or is told to end.
WaitOrExit(t) ==
  /\ pc[t] = "idle"
  /\ \/ MayExit /\ Goto(t, "exited")
     \/ ~shut /\ jobs = <<>> /\ Goto(t, "waiting")
  /\ UNCHANGED <<listener, jobs, shut, job, left, held, clients, aborted>>

\* ssl_new() gives up when the client fails the handshake or is too slow.
Handshake(t) ==
  /\ pc[t] = "handshake"
  /\ \/ /\ left' = [left EXCEPT ![t] = KeepAliveMax]
        /\ Goto(t, "loop")
     \/ /\ Goto(t, "close")
        /\ UNCHANGED left
  /\ UNCHANGED <<listener, jobs, shut, job, held, clients, aborted>>

NextRequest(t) ==
  /\ pc[t] = "loop"
  /\ Goto(t, IF svrSock = "listener" /\ left[t] > 0 THEN "keep_alive" ELSE "close")
  /\ UNCHANGED <<listener, jobs, shut, job, left, held, clients, aborted>>

\* keep_alive() waits for input, or for its timeout.
KeepAlive(t) ==
  /\ pc[t] = "keep_alive"
  /\ Goto(t, IF input[job[t]] = "nothing" THEN "close" ELSE "request")
  /\ UNCHANGED <<listener, jobs, shut, job, left, held, clients, aborted>>

\* What process_request() reads decides what it does.
ReadRequest(t) ==
  /\ pc[t] = "request"
  /\ Goto(t, CASE input[job[t]] = "hi"   -> "answer"
               [] input[job[t]] = "exit" -> "exit"
               [] OTHER                  -> "close")
  /\ input' = [input EXCEPT ![job[t]] = IF @ = "end" THEN @ ELSE "nothing"]
  /\ UNCHANGED <<listener, jobs, shut, job, left, held, conn, closes, aborted>>

StopIfRunning(t) ==
  /\ pc[t] = "exit"
  /\ Goto(t, IF running THEN "assert" ELSE "answer")
  /\ UNCHANGED <<listener, jobs, shut, job, left, held, clients, aborted>>

\* A build with NDEBUG goes on.
StopAsserts(t) ==
  /\ pc[t] = "assert"
  /\ Goto(t, "exchange")
  /\ aborted' \in {FALSE} \cup (IF svrSock = "invalid" THEN {TRUE} ELSE {})
  /\ UNCHANGED <<listener, jobs, shut, job, left, held, clients>>

StopExchanges(t) ==
  /\ pc[t] = "exchange"
  /\ held' = [held EXCEPT ![t] = svrSock]
  /\ svrSock' = "invalid"
  /\ Goto(t, "shutdown")
  /\ UNCHANGED <<socket, running, lst, jobs, shut, job, left, clients, aborted>>

\* Mutant: the socket is only closed, which does not end an accept() on it.
StopShutsDownNothing(t) ==
  /\ pc[t] = "shutdown"
  /\ Goto(t, "close_listener")
  /\ UNCHANGED <<listener, jobs, shut, job, left, held, clients, aborted>>

StopShutsDown(t) ==
  /\ pc[t] = "shutdown"
  /\ socket' = IF held[t] = "listener" /\ socket = "open" THEN "shut" ELSE socket
  /\ Goto(t, "close_listener")
  /\ UNCHANGED <<svrSock, running, lst, jobs, shut, job, left, held, clients, aborted>>

\* close() alone leaves an accept() that waits in place: the socket stays open.
StopCloses(t) ==
  /\ pc[t] = "close_listener"
  /\ socket' = IF held[t] = "listener" /\ socket = "shut" THEN "closed" ELSE socket
  /\ held' = [held EXCEPT ![t] = "invalid"]
  /\ Goto(t, "answer")
  /\ UNCHANGED <<svrSock, running, lst, jobs, shut, job, left, clients, aborted>>

\* Mutant: the requests of a connection are not counted.
AnswerUncounted(t) ==
  /\ pc[t] = "answer"
  /\ \E ok \in BOOLEAN : Goto(t, IF ok THEN "loop" ELSE "close")
  /\ UNCHANGED <<listener, jobs, shut, job, left, held, clients, aborted>>

\* The write fails, or the client asked to close: the loop is left.
Answer(t) ==
  /\ pc[t] = "answer"
  /\ \/ /\ left' = [left EXCEPT ![t] = @ - 1]
        /\ Goto(t, "loop")
     \/ /\ Goto(t, "close")
        /\ UNCHANGED left
  /\ UNCHANGED <<listener, jobs, shut, job, held, clients, aborted>>

CloseConn(t) ==
  /\ pc[t] = "close"
  /\ closes' = [closes EXCEPT ![job[t]] = @ + 1]
  /\ job' = [job EXCEPT ![t] = None]
  /\ Goto(t, "idle")
  /\ UNCHANGED <<listener, jobs, shut, left, held, conn, input, aborted>>

Work(t) ==
  /\ ~aborted
  /\ \/ TakeJob(t) \/ WaitOrExit(t) \/ Handshake(t) \/ NextRequest(t)
     \/ KeepAlive(t) \/ ReadRequest(t) \/ StopIfRunning(t) \/ StopAsserts(t)
     \/ StopExchanges(t) \/ StopShutsDown(t) \/ StopCloses(t) \/ Answer(t)
     \/ CloseConn(t)

(***************************************************************************)
(* The clients.                                                            *)
(***************************************************************************)
Connect(c) ==
  /\ socket = "open"
  /\ conn[c] = "new"
  /\ conn' = [conn EXCEPT ![c] = "backlog"]
  /\ UNCHANGED <<listener, pool, held, input, closes, aborted>>

\* A request of at least one byte, or the end of the connection.
Send(c) ==
  /\ conn[c] # "new"
  /\ closes[c] = 0
  /\ \/ input[c] = "nothing" /\ input' \in {[input EXCEPT ![c] = r] : r \in {"hi", "exit"}}
     \/ input[c] # "end" /\ input' = [input EXCEPT ![c] = "end"]
  /\ UNCHANGED <<listener, pool, held, conn, closes, aborted>>

Next ==
  \/ Listen
  \/ \E t \in Workers : Work(t)
  \/ \E c \in Conns : Connect(c) \/ Send(c)

Spec == Init /\ [][Next]_vars

\* Nothing blocks a thread for good: reads and writes have timeouts.  A
\* client that is in the backlog is accepted unless accept() fails.
FairSpec ==
  /\ Spec
  /\ WF_vars(Listen /\ ~AcceptFails)
  /\ \A t \in Workers : WF_vars(Work(t))

-----------------------------------------------------------------------------
TypeOK ==
  /\ jobs \in Seq(Conns)
  /\ pc \in [Workers -> WorkerPcs]
  /\ job \in [Workers -> Conns \cup {None}]
  /\ conn \in [Conns -> {"new", "backlog", "accepted"}]
  /\ closes \in [Conns -> {0, 1}]
  /\ lst \in ListenPcs

Queued(c) == \E i \in 1 .. Len(jobs) : jobs[i] = c

Served(c) == \E t \in Workers : pc[t] \in Serving /\ job[t] = c

\* A connection in the queue, or at a worker, was accepted and is not closed.
Open(c) == c \in Conns /\ conn[c] = "accepted" /\ closes[c] = 0

QueueInv ==
  /\ \A i \in 1 .. Len(jobs) : Open(jobs[i])
  /\ \A i, k \in 1 .. Len(jobs) : jobs[i] = jobs[k] => i = k

ServedInv ==
  /\ \A t \in Workers : pc[t] \in Serving => Open(job[t]) /\ ~Queued(job[t])
  /\ \A t, u \in Workers :
       pc[t] \in Serving /\ pc[u] \in Serving /\ job[t] = job[u] => t = u

NobodyLost == \A c \in Conns : Open(c) => Queued(c) \/ Served(c)

ClosedWasAccepted == \A c \in Conns : closes[c] # 0 => conn[c] = "accepted"

\* Workers end when the queue is empty and nothing will be added to it.
ShutInv ==
  /\ shut => lst \in {"notify", "join", "returned"}
  /\ \A t \in Workers : pc[t] = "exited" => shut /\ jobs = <<>>
  /\ lst = "bind" => \A c \in Conns : conn[c] # "accepted"
  /\ lst = "returned" => \A c \in Conns : conn[c] = "accepted" => closes[c] = 1

\* The queue and the workers share the open connections without overlap, none
\* is forgotten, and a worker ends only when there is nothing left for it.
PoolInv == TypeOK /\ QueueInv /\ ServedInv /\ NobodyLost /\ ShutInv
           /\ ClosedWasAccepted

\* The pool and the loop of listen_internal() keep the promise of TaskQueue:
\* every connection that was accepted is served and closed exactly once,
\* whatever stop() does meanwhile, and before listen() returns.
Contract == INSTANCE TaskQueueContract WITH
  Jobs <- Conns,
  given <- {c \in Conns : conn[c] = "accepted"},
  runs <- closes,
  over <- lst = "returned"

ContractStep == [][Contract!Next \/ UNCHANGED Contract!vars]_vars

\* A client that asks for /server/control/exit ends the server: once stop()
\* has taken the socket, listen() returns, although it was in accept().
StopEndsListen ==
  running /\ svrSock = "invalid" ~> lst = "returned" \/ aborted

\* Nobody keeps a worker for ever, and no wake-up of a worker is lost: every
\* connection that was accepted is closed.
AcceptedIsClosed ==
  \A c \in Conns : conn[c] = "accepted" ~> closes[c] > 0 \/ aborted

\* stop() asserts that nobody has stopped the server before
\* (httplib.h:4960): two exit requests may be served at the same time.
StopAssertion == \A t \in Workers : pc[t] = "assert" => svrSock = "listener"
==============================================================================
