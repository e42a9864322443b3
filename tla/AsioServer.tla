----------------------------- MODULE AsioServer -----------------------------
(***************************************************************************)
(* The connections of lesson4/tcp-asio-server: TcpServer keeps one accept  *)
(* operation outstanding, every TcpConnection goes from one asynchronous   *)
(* operation to the next, and the threads that run io_context execute the  *)
(* completion handlers in the order in which the operations completed.     *)
(* There is no strand and no lock around chunk_ and message_.              *)
(*                                                                         *)
(* An operation is a slot of op: it is pending in the network layer, then  *)
(* ready in the queue of io_context, then its handler runs: "body" up to   *)
(* the call that starts the next operation, "rearm" between start() and    *)
(* start_accept(), "returning" afterwards.  The slot holds a shared_ptr to *)
(* its connection until the handler is destroyed.  How a file is cut into  *)
(* sends is the subject of FileTransfer; here a transfer is a number.      *)
(***************************************************************************)
EXTENDS Integers, Sequences

CONSTANTS
  Threads,    \* the threads of start_listen()
  Slots,      \* operations that may hold a connection at a time (bound)
  Conns,      \* TcpConnection objects that may exist at a time (bound)
  Requests,   \* what clients ask for: some of RequestKinds
  MaxSends,   \* sends of the longest transfer (bound)
  NoOp        \* what a thread without a handler executes

ASSUME ServerAssumption ==
  /\ Slots # {} /\ Conns # {}
  /\ NoOp \notin Conns \X Slots
  /\ Requests \subseteq {"file", "missing", "unusable"}
  /\ MaxSends \in Nat \ {0}

VARIABLES
  obj,      \* state of each connection object and of its client
  mail,     \* the request waiting in the socket of a connection
  left,     \* the sends that are left of its transfer
  op,       \* the asynchronous operations
  queue,    \* the operations whose handlers wait for a thread
  thr,      \* the operation whose handler a thread executes
  running   \* no exception left a handler: the process is there

vars == <<obj, mail, left, op, queue, thr, running>>

\* An operation: the connection whose shared_ptr it holds, and its slot.
Ops == Conns \X Slots

\* The name of a file that is there, of none, and one that get_filename()
\* cannot look up.
RequestKinds == {"file", "missing", "unusable"}

\* An operation without a result.
Op(st, k) == [st |-> st, kind |-> k, err |-> FALSE, req |-> "none"]

FreeOp == Op("free", "read")
NewOp(k) == Op("pending", k)

\* What the constructor of TcpServer allocates first.
FirstConn == CHOOSE c \in Conns : TRUE
FirstSlot == CHOOSE i \in Slots : TRUE

\* Where the next operation and the next connection object are allocated.
FreshConn == CHOOSE c \in Conns : obj[c] = "free"
FreshSlot(c) == CHOOSE i \in Slots : op[<<c, i>>].st = "free"

SpareConn == \E c \in Conns : obj[c] = "free"
SpareSlot(c) == \E i \in Slots : op[<<c, i>>].st = "free"

\* A handler goes on as st, done with the result of its operation.
After(o, st) == Op(st, op[o].kind)

\* The handler of o starts an operation of kind k on c, and goes on as st.
Issue(o, st, c, k) ==
  /\ SpareSlot(c)
  /\ op' = [op EXCEPT ![o] = After(o, st), ![<<c, FreshSlot(c)>>] = NewOp(k)]

Result(o, err, req) ==
  [st |-> "ready", kind |-> op[o].kind, err |-> err, req |-> req]

\* Mutant: the handler that became ready last runs first.
CompleteLifo(o, err, req) ==
  /\ op' = [op EXCEPT ![o] = Result(o, err, req)]
  /\ queue' = <<o>> \o queue

\* The network layer completes o, and io_context queues its handler.
Complete(o, err, req) ==
  /\ op' = [op EXCEPT ![o] = Result(o, err, req)]
  /\ queue' = Append(queue, o)

\* Thread t executes the handler of an operation of kind k.
Executes(t, k) ==
  /\ thr[t] \in Ops
  /\ op[thr[t]].st = "body"
  /\ op[thr[t]].kind = k

\* TcpServer's constructor called start_accept().
Init ==
  /\ obj = [c \in Conns |-> IF c = FirstConn THEN "accepting" ELSE "free"]
  /\ op = [o \in Ops |-> IF o = <<FirstConn, FirstSlot>>
                         THEN NewOp("accept") ELSE FreeOp]
  /\ mail = [c \in Conns |-> "none"]
  /\ left = [c \in Conns |-> 0]
  /\ queue = <<>>
  /\ thr = [t \in Threads |-> NoOp]
  /\ running = TRUE

-----------------------------------------------------------------------------
\* The clients and the network layer.

\* A client connects (when another object is left for start_accept).
ClientConnects(o) ==
  /\ op[o].st = "pending" /\ op[o].kind = "accept"
  /\ SpareConn
  /\ Complete(o, FALSE, "none")
  /\ obj' = [obj EXCEPT ![o[1]] = "up"]
  /\ UNCHANGED <<mail, left, thr, running>>

\* async_accept fails.
AcceptFails(o) ==
  /\ op[o].st = "pending" /\ op[o].kind = "accept"
  /\ SpareConn
  /\ Complete(o, TRUE, "none")
  /\ UNCHANGED <<obj, mail, left, thr, running>>

ClientRequests(c) ==
  /\ obj[c] = "up"
  /\ mail[c] = "none"
  /\ \E r \in Requests : mail' = [mail EXCEPT ![c] = r]
  /\ UNCHANGED <<obj, left, op, queue, thr, running>>

ClientLeaves(c) ==
  /\ obj[c] = "up"
  /\ obj' = [obj EXCEPT ![c] = "down"]
  /\ UNCHANGED <<mail, left, op, queue, thr, running>>

\* What the client asked for arrives.
ReadCompletes(o) ==
  /\ op[o].st = "pending" /\ op[o].kind = "read"
  /\ mail[o[1]] # "none"
  /\ Complete(o, FALSE, mail[o[1]])
  /\ mail' = [mail EXCEPT ![o[1]] = "none"]
  /\ UNCHANGED <<obj, left, thr, running>>

\* There is nothing to read and no client any more.
ReadFails(o) ==
  /\ op[o].st = "pending" /\ op[o].kind = "read"
  /\ mail[o[1]] = "none"
  /\ obj[o[1]] = "down"
  /\ Complete(o, TRUE, "none")
  /\ UNCHANGED <<obj, mail, left, thr, running>>

\* A send of a file or of the "File not found!" reply ends, with an error if
\* the client is gone.
WriteCompletes(o) ==
  /\ op[o].st = "pending" /\ op[o].kind \in {"send", "reply"}
  /\ Complete(o, obj[o[1]] = "down", "none")
  /\ UNCHANGED <<obj, mail, left, thr, running>>

-----------------------------------------------------------------------------
\* The threads of io_context.

\* run() takes the handler that has waited longest.
Take(t) ==
  /\ thr[t] = NoOp
  /\ queue # <<>>
  /\ op[Head(queue)].st = "ready"
  /\ thr' = [thr EXCEPT ![t] = Head(queue)]
  /\ op' = [op EXCEPT ![Head(queue)].st = "body"]
  /\ queue' = Tail(queue)
  /\ UNCHANGED <<obj, mail, left, running>>

\* handle_accept: new_connection->start().
HandleAccept(t) ==
  /\ Executes(t, "accept")
  /\ ~op[thr[t]].err
  /\ Issue(thr[t], "rearm", thr[t][1], "read")
  /\ UNCHANGED <<obj, mail, left, queue, thr, running>>

\* handle_accept with an error starts nothing.
HandleAcceptError(t) ==
  /\ Executes(t, "accept")
  /\ op[thr[t]].err
  /\ op' = [op EXCEPT ![thr[t]] = After(thr[t], "rearm")]
  /\ UNCHANGED <<obj, mail, left, queue, thr, running>>

\* start_accept(): a new object, a new accept operation.
StartAccept(t) ==
  /\ thr[t] \in Ops
  /\ op[thr[t]].st = "rearm"
  /\ SpareConn
  /\ Issue(thr[t], "returning", FreshConn, "accept")
  /\ obj' = [obj EXCEPT ![FreshConn] = "accepting"]
  /\ UNCHANGED <<mail, left, queue, thr, running>>

\* handle_read and write(): the file is there and not empty.
HandleReadFile(t) ==
  /\ Executes(t, "read")
  /\ ~op[thr[t]].err /\ op[thr[t]].req = "file"
  /\ \E n \in 1 .. MaxSends : left' = [left EXCEPT ![thr[t][1]] = n]
  /\ Issue(thr[t], "returning", thr[t][1], "send")
  /\ UNCHANGED <<obj, mail, queue, thr, running>>

\* Mutant: write() reads the next request at once, while it replies.
HandleReadMissingReads(t) ==
  /\ Executes(t, "read")
  /\ ~op[thr[t]].err /\ op[thr[t]].req = "missing"
  /\ Issue(thr[t], "body", thr[t][1], "read")
  /\ UNCHANGED <<obj, mail, left, queue, thr, running>>

\* handle_read and write(): "File not found!".
HandleReadMissing(t) ==
  /\ Executes(t, "read")
  /\ ~op[thr[t]].err /\ op[thr[t]].req = "missing"
  /\ Issue(thr[t], "returning", thr[t][1], "reply")
  /\ UNCHANGED <<obj, mail, left, queue, thr, running>>

\* get_filename() throws: weakly_canonical cannot look the name up.  No one
\* catches the exception in a thread of the pool, and the process ends.
HandleReadThrows(t) ==
  /\ Executes(t, "read")
  /\ ~op[thr[t]].err /\ op[thr[t]].req = "unusable"
  /\ running' = FALSE
  /\ UNCHANGED <<obj, mail, left, op, queue, thr>>

\* Mutant: the next read, error or not.
HandleReadErrorReads(t) ==
  /\ Executes(t, "read")
  /\ op[thr[t]].err
  /\ Issue(thr[t], "returning", thr[t][1], "read")
  /\ UNCHANGED <<obj, mail, left, queue, thr, running>>

\* handle_read with an error starts nothing: the connection is over.
HandleReadError(t) ==
  /\ Executes(t, "read")
  /\ op[thr[t]].err
  /\ op' = [op EXCEPT ![thr[t]] = After(thr[t], "returning")]
  /\ UNCHANGED <<obj, mail, left, queue, thr, running>>

\* handle_send_file, more to send: what failed was not sent.
HandleSendMore(t) ==
  /\ Executes(t, "send")
  /\ op[thr[t]].err \/ left[thr[t][1]] > 1
  /\ left' = IF op[thr[t]].err THEN left
             ELSE [left EXCEPT ![thr[t][1]] = @ - 1]
  /\ Issue(thr[t], "returning", thr[t][1], "send")
  /\ UNCHANGED <<obj, mail, queue, thr, running>>

\* handle_send_file, "File was successfully sent!".
HandleSendLast(t) ==
  /\ Executes(t, "send")
  /\ ~op[thr[t]].err /\ left[thr[t][1]] <= 1
  /\ left' = [left EXCEPT ![thr[t][1]] = 0]
  /\ Issue(thr[t], "returning", thr[t][1], "read")
  /\ UNCHANGED <<obj, mail, queue, thr, running>>

\* handle_write: whatever became of the reply, the next request.
HandleReply(t) ==
  /\ Executes(t, "reply")
  /\ Issue(thr[t], "returning", thr[t][1], "read")
  /\ UNCHANGED <<obj, mail, left, queue, thr, running>>

\* Mutant: the end of a handler destroys the connection, without shared_ptr.
ReturnDestroys(t) ==
  /\ thr[t] \in Ops
  /\ op[thr[t]].st = "returning"
  /\ thr' = [thr EXCEPT ![t] = NoOp]
  /\ op' = [op EXCEPT ![thr[t]] = FreeOp]
  /\ obj' = [obj EXCEPT ![thr[t][1]] = "free"]
  /\ mail' = [mail EXCEPT ![thr[t][1]] = "none"]
  /\ left' = [left EXCEPT ![thr[t][1]] = 0]
  /\ UNCHANGED <<queue, running>>

\* The handler is destroyed, and with its last shared_ptr the connection.
Return(t) ==
  /\ thr[t] \in Ops
  /\ op[thr[t]].st = "returning"
  /\ thr' = [thr EXCEPT ![t] = NoOp]
  /\ op' = [op EXCEPT ![thr[t]] = FreeOp]
  /\ IF \E p \in Ops \ {thr[t]} :
          op[p].st # "free" /\ p[1] = thr[t][1]
       THEN UNCHANGED <<obj, mail, left>>
       ELSE /\ obj' = [obj EXCEPT ![thr[t][1]] = "free"]
            /\ mail' = [mail EXCEPT ![thr[t][1]] = "none"]
            /\ left' = [left EXCEPT ![thr[t][1]] = 0]
  /\ UNCHANGED <<queue, running>>

Network(o) ==
  \/ ClientConnects(o) \/ AcceptFails(o)
  \/ ReadCompletes(o) \/ ReadFails(o) \/ WriteCompletes(o)

Client(c) == ClientRequests(c) \/ ClientLeaves(c)

Thread(t) ==
  \/ Take(t) \/ HandleAccept(t) \/ HandleAcceptError(t) \/ StartAccept(t)
  \/ HandleReadFile(t) \/ HandleReadMissing(t) \/ HandleReadThrows(t)
  \/ HandleReadError(t) \/ HandleSendMore(t) \/ HandleSendLast(t)
  \/ HandleReply(t) \/ Return(t)

\* After std::terminate nothing happens.
Gone == ~running /\ UNCHANGED vars

Next ==
  \/ running /\ \E o \in Ops : Network(o)
  \/ running /\ \E c \in Conns : Client(c)
  \/ running /\ \E t \in Threads : Thread(t)
  \/ Gone

Spec == Init /\ [][Next]_vars

\* Reads, sends and replies end, and every thread goes on with its handler.
\* Clients need not connect, ask or leave.
FairSpec ==
  /\ Spec
  /\ \A o \in Ops :
       WF_vars(running /\ (ReadCompletes(o) \/ ReadFails(o) \/ WriteCompletes(o)))
  /\ \A t \in Threads : WF_vars(running /\ Thread(t))

-----------------------------------------------------------------------------
OpType ==
  [st : {"free", "pending", "ready", "body", "rearm", "returning"},
   kind : {"accept", "read", "send", "reply"},
   err : BOOLEAN,
   req : Requests \cup {"none"}]

\* The values of the variables.
TypeOK ==
  /\ obj \in [Conns -> {"free", "accepting", "up", "down"}]
  /\ mail \in [Conns -> Requests \cup {"none"}]
  /\ left \in [Conns -> 0 .. MaxSends]
  /\ op \in [Ops -> OpType]
  /\ queue \in Seq(Ops)
  /\ thr \in [Threads -> Ops \cup {NoOp}]
  /\ running \in BOOLEAN

\* The operation uses the members of its connection, or will.
Active(o) == op[o].st \in {"pending", "ready", "body"}

\* The implicit strand: a connection is used by one operation at a time,
\* although a handler goes on after it started the next operation, and
\* handle_accept even holds its connection while another thread serves it.
\* So chunk_ and message_ need no lock.
OneOperation ==
  \A o, p \in Ops :
    Active(o) /\ Active(p) /\ o[1] = p[1] => o = p

\* A connection object exists as long as an operation or a handler has it,
\* and no object is handed out again before.
NoUseAfterFree ==
  \A o \in Ops : op[o].st # "free" => obj[o[1]] # "free"

\* The accept operation, up to the start_accept() that replaces it.
Accepting(o) ==
  op[o].kind = "accept" /\ op[o].st \in {"pending", "ready", "body", "rearm"}

\* The server accepts for ever, errors or not, and one client at a time: there
\* is exactly one accept operation, so run() never runs out of work.
OneAccept ==
  \E o \in Ops : Accepting(o) /\ \A p \in Ops : Accepting(p) => p = o

\* A client that asks and stays is read, however many transfers to clients that
\* left keep the threads busy: handle_send_file starts a failed send again, but
\* at the end of the queue.
RequestIsRead ==
  \A c \in Conns :
    obj[c] = "up" /\ mail[c] # "none"
      ~> mail[c] = "none" \/ obj[c] # "up" \/ ~running

Reading(c) ==
  \E o \in Ops : o[1] = c /\ op[o].kind = "read" /\ op[o].st = "pending"

\* The object of a client that leaves while the server waits for a request is
\* freed: handle_read starts nothing, and drops the last shared_ptr.
LeaverIsFreed ==
  \A c \in Conns :
    obj[c] = "down" /\ mail[c] = "none" /\ Reading(c)
      ~> obj[c] = "free" \/ ~running

=============================================================================
