-------------------------- MODULE AsioServerProofs --------------------------
(***************************************************************************)
(* Proofs about AsioServer for any number of threads and connections.      *)
(* That a connection is used by one operation at a time (OneOperation) is  *)
(* inductive only together with the lifetime of the objects                *)
(* (NoUseAfterFree: a recycled object has no operation left) and the chain *)
(* of accept operations (OneAccept).                                       *)
(***************************************************************************)
EXTENDS AsioServer, TLAPS

\* Only handle_accept calls start_accept() before it returns.
RearmIsAccept == \A o \in Ops : op[o].st = "rearm" => op[o].kind = "accept"

OpsTyped == op \in [Ops -> OpType]

\* What the invariant says of the operations alone.
OpsInv == OpsTyped /\ RearmIsAccept /\ OneOperation /\ OneAccept

IInv == TypeOK /\ RearmIsAccept /\ OneOperation /\ OneAccept /\ NoUseAfterFree

\* A slot that was chosen is a free slot of that connection.
LEMMA FreshSlotIsFree ==
  ASSUME NEW c, SpareSlot(c)
  PROVE  FreshSlot(c) \in Slots /\ op[<<c, FreshSlot(c)>>].st = "free"
  BY Zenon DEF SpareSlot, FreshSlot

\* The same for a connection object.
LEMMA FreshConnIsFree ==
  SpareConn => FreshConn \in Conns /\ obj[FreshConn] = "free"
  BY Zenon DEF SpareConn, FreshConn

\* The values of an operation that has no result.
LEMMA OpIsTyped ==
  ASSUME NEW st \in {"free", "pending", "ready", "body", "rearm", "returning"},
         NEW k \in {"accept", "read", "send", "reply"}
  PROVE  Op(st, k) \in OpType /\ Op(st, k).st = st /\ Op(st, k).kind = k
<1>1. FALSE \in BOOLEAN /\ "none" \in Requests \cup {"none"}
  OBVIOUS
<1> QED BY <1>1, SMT DEF Op, OpType

\* A handler that starts the next operation of its own connection hands the
\* connection over: it is not active any more.
LEMMA IssueOwn ==
  ASSUME OpsInv, NEW o \in Ops, op[o].st = "body",
         NEW st \in {"rearm", "returning"}, op[o].kind = "accept" <=> st = "rearm",
         NEW k \in {"read", "send", "reply"}, Issue(o, st, o[1], k)
  PROVE  OpsInv' /\ \A p \in Ops : op'[p].st # "free" =>
                      op[p].st # "free" \/ p[1] = o[1]
<1> DEFINE n == <<o[1], FreshSlot(o[1])>>
<1>1. n \in Ops /\ n[1] = o[1] /\ op[n].st = "free" /\ n # o
  BY FreshSlotIsFree DEF Issue, Ops
<1>2. op' = [op EXCEPT ![o] = After(o, st), ![n] = NewOp(k)]
  BY DEF Issue
<1>3. /\ After(o, st).st = st /\ After(o, st).kind = op[o].kind
      /\ After(o, st) \in OpType
      /\ NewOp(k).st = "pending" /\ NewOp(k).kind = k
      /\ NewOp(k) \in OpType
  <2>1. op[o].kind \in {"accept", "read", "send", "reply"}
    BY SMT DEF OpsInv, OpsTyped, OpType
  <2> QED BY <2>1, OpIsTyped DEF After, NewOp
<1> HIDE DEF n
<1>4. /\ op'[o].st = st /\ op'[o].kind = op[o].kind
      /\ op'[n].st = "pending" /\ op'[n].kind = k
      /\ \A p \in Ops : p # o /\ p # n => op'[p] = op[p]
      /\ op' \in [Ops -> OpType]
  BY <1>1, <1>2, <1>3, SMT DEF OpsInv, OpsTyped
<1>5. RearmIsAccept'
  BY <1>1, <1>4, SMT DEF RearmIsAccept, OpsInv
<1>6. OneOperation'
  BY <1>1, <1>4, SMT DEF OneOperation, Active, OpsInv
<1>7. OneAccept'
  BY <1>1, <1>4, SMT DEF OneAccept, Accepting, OpsInv
<1> QED BY <1>1, <1>4, <1>5, <1>6, <1>7 DEF OpsInv, OpsTyped

\* A step that changes nothing of an operation but its state, and keeps it on
\* the same side of Active and of Accepting, keeps what is said of operations.
LEMMA ChangeState ==
  ASSUME OpsInv, NEW o \in Ops, op' \in [Ops -> OpType],
         \A p \in Ops : p # o => op'[p] = op[p],
         op'[o].kind = op[o].kind,
         op'[o].st \in {"pending", "ready", "body"} => Active(o),
         op'[o].st = "rearm" => op[o].kind = "accept",
         op[o].kind = "accept" =>
           (op'[o].st \in {"pending", "ready", "body", "rearm"}
              <=> op[o].st \in {"pending", "ready", "body", "rearm"})
  PROVE  OpsInv'
<1>1. RearmIsAccept'
  BY SMT DEF RearmIsAccept, OpsInv
<1>2. OneOperation'
  BY SMT DEF OneOperation, Active, OpsInv
<1>3. OneAccept'
  BY SMT DEF OneAccept, Accepting, OpsInv
<1> QED BY <1>1, <1>2, <1>3 DEF OpsInv, OpsTyped

\* The end of an operation in the network layer.
LEMMA CompleteOps ==
  ASSUME OpsInv, NEW o \in Ops, op[o].st = "pending",
         NEW err \in BOOLEAN, NEW req \in Requests \cup {"none"},
         Complete(o, err, req)
  PROVE  OpsInv' /\ \A p \in Ops : op'[p].st # "free" => op[p].st # "free"
<1> DEFINE r == Result(o, err, req)
<1>1. op' = [op EXCEPT ![o] = r]
  BY Zenon DEF Complete
<1>2. op[o].kind \in {"accept", "read", "send", "reply"}
  BY SMT DEF OpsInv, OpsTyped, OpType
<1>3. r \in OpType /\ r.st = "ready" /\ r.kind = op[o].kind
  BY <1>2, SMT DEF OpType, Result
<1> HIDE DEF r
<1>4. /\ op' \in [Ops -> OpType] /\ op'[o] = r
      /\ \A p \in Ops : p # o => op'[p] = op[p]
  BY <1>1, <1>3, SMT DEF OpsInv, OpsTyped
<1>5. OpsInv'
  BY <1>3, <1>4, ChangeState, SMT DEF Active
<1> QED BY <1>3, <1>4, <1>5, SMT

\* A thread takes the handler of o.
LEMMA TakeOps ==
  ASSUME OpsInv, NEW o \in Ops, op[o].st = "ready",
         op' = [op EXCEPT ![o].st = "body"]
  PROVE  OpsInv' /\ \A p \in Ops : op'[p].st # "free" => op[p].st # "free"
<1>1. op[o] \in OpType
  BY SMT DEF OpsInv, OpsTyped
<1>2. /\ op' \in [Ops -> OpType] /\ op'[o].st = "body" /\ op'[o].kind = op[o].kind
      /\ \A p \in Ops : p # o => op'[p] = op[p]
  BY <1>1, SMT DEF OpsInv, OpsTyped, OpType
<1>3. OpsInv'
  BY <1>2, ChangeState, SMT DEF Active
<1> QED BY <1>2, <1>3, SMT

\* A handler that starts nothing.
LEMMA AfterOps ==
  ASSUME OpsInv, NEW o \in Ops, op[o].st = "body",
         NEW st \in {"rearm", "returning"}, op[o].kind = "accept" <=> st = "rearm",
         op' = [op EXCEPT ![o] = After(o, st)]
  PROVE  OpsInv' /\ \A p \in Ops : op'[p].st # "free" => op[p].st # "free"
<1>1. op[o].kind \in {"accept", "read", "send", "reply"}
  BY SMT DEF OpsInv, OpsTyped, OpType
<1>2. /\ After(o, st) \in OpType
      /\ After(o, st).st = st /\ After(o, st).kind = op[o].kind
  BY <1>1, OpIsTyped DEF After
<1>3. /\ op' \in [Ops -> OpType] /\ op'[o].st = st /\ op'[o].kind = op[o].kind
      /\ \A p \in Ops : p # o => op'[p] = op[p]
  BY <1>2, SMT DEF OpsInv, OpsTyped
<1>4. OpsInv'
  BY <1>3, ChangeState, SMT
<1> QED BY <1>3, <1>4, SMT

\* start_accept(): the accept operation is handed on to a new object, which no
\* operation uses.
LEMMA StartAcceptOps ==
  ASSUME OpsInv, NoUseAfterFree, NEW o \in Ops, op[o].st = "rearm", SpareConn,
         Issue(o, "returning", FreshConn, "accept")
  PROVE  OpsInv' /\ \A p \in Ops : op'[p].st # "free" =>
                      op[p].st # "free" \/ p[1] = FreshConn
<1> DEFINE c == FreshConn
           n == <<c, FreshSlot(c)>>
<1>1. c \in Conns /\ obj[c] = "free"
  BY FreshConnIsFree
<1>2. n \in Ops /\ n[1] = c /\ op[n].st = "free" /\ n # o
  BY <1>1, FreshSlotIsFree DEF Issue, Ops
<1>3. op' = [op EXCEPT ![o] = After(o, "returning"), ![n] = NewOp("accept")]
  BY DEF Issue
<1>4. op[o].kind = "accept"
  BY DEF OpsInv, RearmIsAccept
<1>5. /\ After(o, "returning").st = "returning"
      /\ After(o, "returning").kind = "accept"
      /\ After(o, "returning") \in OpType
      /\ NewOp("accept").st = "pending" /\ NewOp("accept").kind = "accept"
      /\ NewOp("accept") \in OpType
  BY <1>4, OpIsTyped DEF After, NewOp
<1> HIDE DEF n
<1>6. /\ op'[o].st = "returning" /\ op'[o].kind = "accept"
      /\ op'[n].st = "pending" /\ op'[n].kind = "accept"
      /\ \A p \in Ops : p # o /\ p # n => op'[p] = op[p]
      /\ op' \in [Ops -> OpType]
  BY <1>2, <1>3, <1>5, SMT DEF OpsInv, OpsTyped
<1> HIDE DEF c
<1>7. \A p \in Ops : p[1] = c => op[p].st = "free"
  BY <1>1, SMT DEF NoUseAfterFree
<1>8. RearmIsAccept'
  BY <1>2, <1>6, SMT DEF RearmIsAccept, OpsInv
<1>9. OneOperation'
  BY <1>2, <1>6, <1>7, SMT DEF OneOperation, Active, OpsInv
<1>10. OneAccept'
  BY <1>2, <1>4, <1>6, SMT DEF OneAccept, Accepting, OpsInv
<1>11. \A p \in Ops : op'[p].st # "free" => op[p].st # "free" \/ p[1] = c
  BY <1>2, <1>6, SMT
<1> QED BY <1>6, <1>8, <1>9, <1>10, <1>11 DEF OpsInv, OpsTyped, c

\* The end of a handler.
LEMMA ReturnOps ==
  ASSUME OpsInv, NEW o \in Ops, op[o].st = "returning",
         op' = [op EXCEPT ![o] = FreeOp]
  PROVE  /\ OpsInv'
         /\ op'[o].st = "free"
         /\ \A p \in Ops \ {o} : op'[p] = op[p]
<1>1. FreeOp \in OpType /\ FreeOp.st = "free" /\ FreeOp.kind = "read"
  BY OpIsTyped DEF FreeOp
<1>2. /\ op' \in [Ops -> OpType] /\ op'[o].st = "free"
      /\ op'[o].kind = "read"
      /\ \A p \in Ops : p # o => op'[p] = op[p]
  BY <1>1, SMT DEF OpsInv, OpsTyped
<1>3. RearmIsAccept'
  BY <1>2, SMT DEF RearmIsAccept, OpsInv
<1>4. OneOperation'
  BY <1>2, SMT DEF OneOperation, Active, OpsInv
<1>5. OneAccept'
  BY <1>2, SMT DEF OneAccept, Accepting, OpsInv
<1> QED BY <1>2, <1>3, <1>4, <1>5 DEF OpsInv, OpsTyped

-----------------------------------------------------------------------------
\* The queue and the other variables.
OthersTyped ==
  /\ obj \in [Conns -> {"free", "accepting", "up", "down"}]
  /\ mail \in [Conns -> Requests \cup {"none"}]
  /\ left \in [Conns -> 0 .. MaxSends]
  /\ queue \in Seq(Ops)
  /\ thr \in [Threads -> Ops \cup {NoOp}]
  /\ running \in BOOLEAN

LEMMA SplitIInv == IInv <=> OpsInv /\ OthersTyped /\ NoUseAfterFree
  BY Zenon DEF IInv, OpsInv, OpsTyped, OthersTyped, TypeOK

LEMMA SplitIInvNext == IInv' <=> OpsInv' /\ OthersTyped' /\ NoUseAfterFree'
  BY Zenon DEF IInv, OpsInv, OpsTyped, OthersTyped, TypeOK

\* The constructor of TcpServer establishes the invariant.
LEMMA InitIInv == Init => IInv
<1> SUFFICES ASSUME Init PROVE IInv
  OBVIOUS
<1> DEFINE first == <<FirstConn, FirstSlot>>
<1>1. first \in Ops /\ first[1] = FirstConn
  <2>1. FirstConn \in Conns /\ FirstSlot \in Slots
    BY ServerAssumption, Zenon DEF FirstConn, FirstSlot
  <2> QED BY <2>1, SMT DEF Ops
<1>2. /\ FreeOp \in OpType /\ FreeOp.st = "free" /\ FreeOp.kind = "read"
      /\ NewOp("accept") \in OpType /\ NewOp("accept").st = "pending"
      /\ NewOp("accept").kind = "accept"
  BY OpIsTyped DEF FreeOp, NewOp
<1>3. op = [o \in Ops |-> IF o = first THEN NewOp("accept") ELSE FreeOp]
  BY Zenon DEF Init
<1> HIDE DEF first
<1>4. /\ op \in [Ops -> OpType]
      /\ op[first].st = "pending" /\ op[first].kind = "accept"
      /\ \A o \in Ops : o # first => op[o].st = "free" /\ op[o].kind = "read"
  BY <1>1, <1>2, <1>3, SMT
<1>5. RearmIsAccept /\ OneOperation
  BY <1>1, <1>4, SMT DEF RearmIsAccept, OneOperation, Active
<1>6. OneAccept
  BY <1>1, <1>4, SMT DEF OneAccept, Accepting
<1>7. OthersTyped
  <2>1. 0 \in 0 .. MaxSends /\ queue \in Seq(Ops)
    BY ServerAssumption, SMT DEF Init
  <2>2. /\ obj \in [Conns -> {"free", "accepting", "up", "down"}]
        /\ mail \in [Conns -> Requests \cup {"none"}]
        /\ thr \in [Threads -> Ops \cup {NoOp}]
    BY SMT DEF Init
  <2>3. left \in [Conns -> 0 .. MaxSends] /\ running \in BOOLEAN
    BY <2>1, Zenon DEF Init
  <2> QED BY <2>1, <2>2, <2>3 DEF OthersTyped
<1>8. NoUseAfterFree
  <2>1. obj[FirstConn] = "accepting"
    BY ServerAssumption, Zenon DEF Init, FirstConn
  <2> QED BY <1>1, <1>4, <2>1, SMT DEF NoUseAfterFree
<1> QED BY <1>4, <1>5, <1>6, <1>7, <1>8, SplitIInv DEF OpsInv, OpsTyped

\* A connection that becomes something else than free.
LEMMA SetObj ==
  ASSUME obj \in [Conns -> {"free", "accepting", "up", "down"}], NEW c \in Conns,
         NEW v \in {"accepting", "up", "down"}, obj' = [obj EXCEPT ![c] = v]
  PROVE  /\ obj' \in [Conns -> {"free", "accepting", "up", "down"}]
         /\ obj'[c] # "free"
         /\ \A d \in Conns : obj[d] # "free" => obj'[d] # "free"
  BY SMT

\* Nothing the network layer does with an operation disturbs the invariant.
LEMMA NetworkIInv ==
  ASSUME IInv, NEW o \in Ops, Network(o) PROVE IInv'
<1> USE SplitIInv
<1>0. o[1] \in Conns
  BY SMT DEF Ops
<1>1. CASE ClientConnects(o) \/ AcceptFails(o) \/ ReadFails(o) \/ WriteCompletes(o)
  <2>1. PICK err \in BOOLEAN : op[o].st = "pending" /\ Complete(o, err, "none")
    BY <1>1, Zenon DEF ClientConnects, AcceptFails, ReadFails, WriteCompletes
  <2>2. OpsInv' /\ \A p \in Ops : op'[p].st # "free" => op[p].st # "free"
    BY <2>1, CompleteOps, Zenon
  <2>3. queue' \in Seq(Ops)
    BY <2>1, SMT DEF Complete, OthersTyped
  <2>4. /\ mail' = mail /\ left' = left /\ thr' = thr /\ running' = running
        /\ obj' = obj \/ obj' = [obj EXCEPT ![o[1]] = "up"]
    BY <1>1, Zenon DEF ClientConnects, AcceptFails, ReadFails, WriteCompletes
  <2>5. /\ obj' \in [Conns -> {"free", "accepting", "up", "down"}]
        /\ \A d \in Conns : obj[d] # "free" => obj'[d] # "free"
    BY <1>0, <2>4, SetObj, Zenon DEF OthersTyped
  <2>6. OthersTyped'
    BY <2>3, <2>4, <2>5, Zenon DEF OthersTyped
  <2>7. NoUseAfterFree'
    <3>1. \A p \in Ops : p[1] \in Conns
      BY SMT DEF Ops
    <3> QED BY <2>2, <2>5, <3>1, Zenon DEF NoUseAfterFree
  <2> QED BY <2>2, <2>6, <2>7, SplitIInvNext
<1>2. CASE ReadCompletes(o)
  <2>1. /\ op[o].st = "pending" /\ Complete(o, FALSE, mail[o[1]])
        /\ mail' = [mail EXCEPT ![o[1]] = "none"]
        /\ obj' = obj /\ left' = left /\ thr' = thr /\ running' = running
    BY <1>2, Zenon DEF ReadCompletes
  <2>2. mail[o[1]] \in Requests \cup {"none"} /\ FALSE \in BOOLEAN
    BY <1>0, Zenon DEF OthersTyped
  <2>3. OpsInv' /\ \A p \in Ops : op'[p].st # "free" => op[p].st # "free"
    BY <2>1, <2>2, CompleteOps, Zenon
  <2>4. queue' \in Seq(Ops)
    BY <2>1, SMT DEF Complete, OthersTyped
  <2>5. OthersTyped'
    BY <1>0, <2>1, <2>4, SMT DEF OthersTyped
  <2>6. NoUseAfterFree'
    BY <2>1, <2>3, Zenon DEF NoUseAfterFree
  <2> QED BY <2>3, <2>5, <2>6, SplitIInvNext
<1> QED BY <1>1, <1>2 DEF Network

\* Nothing a client does disturbs the invariant.
LEMMA ClientIInv ==
  ASSUME IInv, NEW c \in Conns, Client(c) PROVE IInv'
<1> USE SplitIInv
<1>1. /\ op' = op /\ left' = left /\ queue' = queue /\ thr' = thr
      /\ running' = running
  BY Zenon DEF Client, ClientRequests, ClientLeaves
<1>2. OpsInv'
  BY <1>1, Zenon
  DEF OpsInv, OpsTyped, RearmIsAccept, OneOperation, Active, OneAccept, Accepting
<1>3. /\ obj' = obj \/ obj' = [obj EXCEPT ![c] = "down"]
      /\ mail' = mail \/ \E r \in Requests : mail' = [mail EXCEPT ![c] = r]
  BY Zenon DEF Client, ClientRequests, ClientLeaves
<1>4. OthersTyped'
  BY <1>1, <1>3, SMTT(30) DEF OthersTyped
<1>5. NoUseAfterFree'
  <2>1. \A o \in Ops : o[1] \in Conns
    BY SMT DEF Ops
  <2> QED BY <1>1, <1>3, <2>1, SMT DEF NoUseAfterFree, OthersTyped
<1> QED BY <1>2, <1>4, <1>5, SplitIInvNext

\* Neither the handlers nor what runs them disturb the invariant.
LEMMA ThreadIInv ==
  ASSUME IInv, NEW t \in Threads, Thread(t) PROVE IInv'
<1> USE SplitIInv
<1> DEFINE o == thr[t]
           c == o[1]
<1>0. \A p \in Ops : p[1] \in Conns
  BY SMT DEF Ops
<1>1. CASE Take(t)
  <2>1. Head(queue) \in Ops /\ Tail(queue) \in Seq(Ops)
    BY <1>1, SMT DEF Take, OthersTyped
  <2>2. OpsInv' /\ \A p \in Ops : op'[p].st # "free" => op[p].st # "free"
    BY <1>1, <2>1, TakeOps, Zenon DEF Take
  <2>3. thr' \in [Threads -> Ops \cup {NoOp}]
    BY <1>1, <2>1, SMT DEF Take, OthersTyped
  <2>4. /\ obj' = obj /\ mail' = mail /\ left' = left /\ queue' = Tail(queue)
        /\ running' = running
    BY <1>1, Zenon DEF Take
  <2>5. OthersTyped' /\ NoUseAfterFree'
    BY <2>1, <2>2, <2>3, <2>4, Zenon DEF OthersTyped, NoUseAfterFree
  <2> QED BY <2>2, <2>5, SplitIInvNext
<1>2. ASSUME NEW st \in {"rearm", "returning"}, NEW k \in {"read", "send", "reply"},
             o \in Ops, op[o].st = "body", op[o].kind = "accept" <=> st = "rearm",
             Issue(o, st, o[1], k), left' \in [Conns -> 0 .. MaxSends],
             obj' = obj, mail' = mail, queue' = queue, thr' = thr,
             running' = running
      PROVE  IInv'
  <2>1. OpsInv' /\ \A p \in Ops : op'[p].st # "free" =>
                      op[p].st # "free" \/ p[1] = o[1]
    BY <1>2, IssueOwn, Zenon
  <2>2. OthersTyped'
    BY <1>2, Zenon DEF OthersTyped
  <2>3. obj[o[1]] # "free"
    BY <1>2, Zenon DEF NoUseAfterFree
  <2>4. NoUseAfterFree'
    BY <1>2, <2>1, <2>3, Zenon DEF NoUseAfterFree
  <2> QED BY <2>1, <2>2, <2>4, SplitIInvNext
<1>3. CASE HandleAccept(t)
  <2>1. left' \in [Conns -> 0 .. MaxSends]
    BY <1>3, Zenon DEF HandleAccept, OthersTyped
  <2> QED BY <1>2, <1>3, <2>1, Zenon DEF HandleAccept, Executes
<1>4. CASE HandleReadFile(t)
  <2>1. PICK n \in 1 .. MaxSends : left' = [left EXCEPT ![c] = n]
    BY <1>4, Zenon DEF HandleReadFile
  <2>2. n \in 0 .. MaxSends
    BY ServerAssumption, SMT
  <2>3. left' \in [Conns -> 0 .. MaxSends]
    BY <2>1, <2>2, Zenon DEF OthersTyped
  <2> QED BY <1>2, <1>4, <2>3, Zenon DEF HandleReadFile, Executes
<1>5. CASE HandleReadMissing(t) \/ HandleReply(t)
  <2>1. left' \in [Conns -> 0 .. MaxSends]
    BY <1>5, Zenon DEF HandleReadMissing, HandleReply, OthersTyped
  <2> QED BY <1>2, <1>5, <2>1, Zenon DEF HandleReadMissing, HandleReply, Executes
<1>6. CASE HandleSendMore(t)
  <2>1. o \in Ops /\ c \in Conns
    BY <1>0, <1>6, Zenon DEF HandleSendMore, Executes
  <2>2. CASE op[o].err
    BY <1>2, <1>6, <2>2, Zenon DEF HandleSendMore, Executes, OthersTyped
  <2>3. CASE ~op[o].err
    <3>1. left[c] > 1 /\ left' = [left EXCEPT ![c] = left[c] - 1]
      BY <1>6, <2>3, Zenon DEF HandleSendMore
    <3>2. left[c] \in 0 .. MaxSends
      BY <2>1, Zenon DEF OthersTyped
    <3>3. left[c] - 1 \in 0 .. MaxSends
      BY <3>1, <3>2, ServerAssumption, SMT
    <3>4. left' \in [Conns -> 0 .. MaxSends]
      BY <3>1, <3>3, Zenon DEF OthersTyped
    <3> QED BY <1>2, <1>6, <3>4, Zenon DEF HandleSendMore, Executes
  <2> QED BY <2>2, <2>3
<1>7. CASE HandleSendLast(t)
  <2>1. left' = [left EXCEPT ![c] = 0] /\ 0 \in 0 .. MaxSends
    BY <1>7, ServerAssumption, SMT DEF HandleSendLast
  <2>2. left' \in [Conns -> 0 .. MaxSends]
    BY <2>1, Zenon DEF OthersTyped
  <2> QED BY <1>2, <1>7, <2>2, Zenon DEF HandleSendLast, Executes
<1>8. CASE HandleAcceptError(t) \/ HandleReadError(t)
  <2>1. PICK st \in {"rearm", "returning"} :
          /\ o \in Ops /\ op[o].st = "body" /\ (op[o].kind = "accept" <=> st = "rearm")
          /\ op' = [op EXCEPT ![o] = After(o, st)]
    BY <1>8, Zenon DEF HandleAcceptError, HandleReadError, Executes
  <2>2. OpsInv' /\ \A p \in Ops : op'[p].st # "free" => op[p].st # "free"
    BY <2>1, AfterOps, Zenon
  <2>3. OthersTyped' /\ NoUseAfterFree'
    BY <1>8, <2>2, Zenon
    DEF HandleAcceptError, HandleReadError, OthersTyped, NoUseAfterFree
  <2> QED BY <2>2, <2>3, SplitIInvNext
<1>9. CASE StartAccept(t)
  <2>1. OpsInv' /\ \A p \in Ops : op'[p].st # "free" =>
                      op[p].st # "free" \/ p[1] = FreshConn
    BY <1>9, StartAcceptOps, Zenon DEF StartAccept
  <2>2. FreshConn \in Conns /\ obj' = [obj EXCEPT ![FreshConn] = "accepting"]
    BY <1>9, FreshConnIsFree, Zenon DEF StartAccept
  <2>3. /\ obj' \in [Conns -> {"free", "accepting", "up", "down"}]
        /\ obj'[FreshConn] # "free"
        /\ \A d \in Conns : obj[d] # "free" => obj'[d] # "free"
    BY <2>2, SetObj, Zenon DEF OthersTyped
  <2>4. OthersTyped'
    BY <1>9, <2>3, Zenon DEF StartAccept, OthersTyped
  <2>5. NoUseAfterFree'
    BY <1>0, <2>1, <2>3, Zenon DEF NoUseAfterFree
  <2> QED BY <2>1, <2>4, <2>5, SplitIInvNext
<1>10. CASE HandleReadThrows(t)
  <2>1. OpsInv' /\ NoUseAfterFree'
    BY <1>10, Zenon
    DEF HandleReadThrows, OpsInv, OpsTyped, RearmIsAccept, OneOperation, Active,
        OneAccept, Accepting, NoUseAfterFree
  <2>2. OthersTyped'
    BY <1>10, Zenon DEF HandleReadThrows, OthersTyped
  <2> QED BY <2>1, <2>2, SplitIInvNext
<1>11. CASE Return(t)
  <2>1. o \in Ops /\ op[o].st = "returning" /\ op' = [op EXCEPT ![o] = FreeOp]
    BY <1>11 DEF Return
  <2>2. /\ OpsInv' /\ op'[o].st = "free"
        /\ \A p \in Ops \ {o} : op'[p] = op[p]
    BY <2>1, ReturnOps, Zenon
  <2>3. c \in Conns
    BY <1>0, <2>1
  <2>4. thr' \in [Threads -> Ops \cup {NoOp}]
    BY <1>11, SMT DEF Return, OthersTyped
  <2>5. CASE \E p \in Ops \ {o} : op[p].st # "free" /\ p[1] = c
    <3>1. obj' = obj /\ mail' = mail /\ left' = left
      BY <1>11, <2>5, Zenon DEF Return
    <3>2. NoUseAfterFree'
      BY <2>2, <3>1, Zenon DEF NoUseAfterFree
    <3>3. OthersTyped'
      BY <1>11, <2>4, <3>1, Zenon DEF Return, OthersTyped
    <3> QED BY <2>2, <3>2, <3>3, SplitIInvNext
  <2>6. CASE ~ \E p \in Ops \ {o} : op[p].st # "free" /\ p[1] = c
    <3>1. /\ obj' = [obj EXCEPT ![c] = "free"]
          /\ mail' = [mail EXCEPT ![c] = "none"]
          /\ left' = [left EXCEPT ![c] = 0]
      BY <1>11, <2>6, Zenon DEF Return
    <3> HIDE DEF c
    <3>2. /\ obj' \in [Conns -> {"free", "accepting", "up", "down"}]
          /\ \A d \in Conns : d # c => obj'[d] = obj[d]
      BY <2>3, <3>1, SMT DEF OthersTyped
    <3>3. mail' \in [Conns -> Requests \cup {"none"}]
      BY <2>3, <3>1, SMT DEF OthersTyped
    <3>4. 0 \in 0 .. MaxSends
      BY ServerAssumption, SMT
    <3>5. left' \in [Conns -> 0 .. MaxSends]
      BY <2>3, <3>1, <3>4, Zenon DEF OthersTyped
    <3>6. NoUseAfterFree'
      <4> SUFFICES ASSUME NEW p \in Ops, op'[p].st # "free"
                   PROVE  obj'[p[1]] # "free"
        BY DEF NoUseAfterFree
      <4>1. p # o /\ op[p].st # "free"
        BY <2>1, <2>2
      <4>2. p[1] # c /\ p[1] \in Conns
        BY <1>0, <2>6, <4>1
      <4>3. obj[p[1]] # "free"
        BY <4>1 DEF NoUseAfterFree
      <4> QED BY <3>2, <4>2, <4>3
    <3>7. OthersTyped'
      BY <1>11, <2>4, <3>2, <3>3, <3>5, Zenon DEF Return, OthersTyped
    <3> QED BY <2>2, <3>6, <3>7, SplitIInvNext
  <2> QED BY <2>5, <2>6
<1> QED
  BY <1>1, <1>3, <1>4, <1>5, <1>6, <1>7, <1>8, <1>9, <1>10, <1>11 DEF Thread

\* The inductive invariant holds of every reachable state.
THEOREM InductiveInvariant == Spec => []IInv
<1>1. IInv /\ [Next]_vars => IInv'
  <2> SUFFICES ASSUME IInv, [Next]_vars PROVE IInv'
    OBVIOUS
  <2>1. CASE UNCHANGED vars
    BY <2>1, Zenon
    DEF vars, IInv, TypeOK, RearmIsAccept, OneOperation, Active, OneAccept,
        Accepting, NoUseAfterFree
  <2>2. CASE Next
    BY <2>1, <2>2, NetworkIInv, ClientIInv, ThreadIInv, Zenon DEF Next, Gone
  <2> QED BY <2>1, <2>2
<1> QED BY <1>1, InitIInv, PTL DEF Spec

\* The variables of the server keep their types.
THEOREM TypeCorrect == Spec => []TypeOK
  BY InductiveInvariant, PTL DEF IInv

\* The implicit strand: chunk_ and message_ of a connection are used by one
\* operation at a time, with any number of threads.
THEOREM ImplicitStrand == Spec => []OneOperation
  BY InductiveInvariant, PTL DEF IInv

\* No operation or handler ever uses a connection object that was freed.
THEOREM ObjectsLiveLongEnough == Spec => []NoUseAfterFree
  BY InductiveInvariant, PTL DEF IInv

\* There is always exactly one accept operation.
THEOREM AlwaysAccepting == Spec => []OneAccept
  BY InductiveInvariant, PTL DEF IInv

=============================================================================
