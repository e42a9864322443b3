-------------------------- MODULE HttplibServerProofs --------------------------
(***************************************************************************)
(* Proofs about HttplibServer for any number of workers and connections,   *)
(* however many requests stop the server and whenever accept() fails: each *)
(* connection is run by one worker, once, and listen() returns when all    *)
(* have been (TaskQueueContract).                                          *)
(***************************************************************************)
EXTENDS HttplibServer, TLAPS

\* What the invariant is about.
poolVars == <<jobs, shut, pc, job, conn, closes, lst>>

\* A step of a worker that stays with its connection.
Stays(t) ==
  /\ pc[t] \in Serving
  /\ \E p \in Serving : Goto(t, p)
  /\ UNCHANGED <<jobs, shut, job, conn, closes, lst>>

LEMMA StaysKeeps ==
  ASSUME PoolInv, NEW t \in Workers, Stays(t)
  PROVE  PoolInv'
<1>1. PICK p \in Serving : pc' = [pc EXCEPT ![t] = p]
  BY DEF Stays, Goto
<1>2. /\ pc' \in [Workers -> WorkerPcs]
      /\ \A u \in Workers : (pc'[u] \in Serving <=> pc[u] \in Serving)
                         /\ (pc'[u] = "exited" <=> pc[u] = "exited")
  BY <1>1, SMT DEF PoolInv, TypeOK, WorkerPcs, Serving, Stays
<1>3. TypeOK'
  BY <1>2, SMT DEF PoolInv, TypeOK, Stays
<1>4. \A c : (Queued(c)' <=> Queued(c)) /\ (Open(c)' <=> Open(c)) /\ (Served(c)' <=> Served(c))
  BY <1>2, SMT DEF Stays, Queued, Open, Served
<1>5. QueueInv'
  BY <1>4, SMT DEF PoolInv, QueueInv, Stays
<1>6. ServedInv'
  BY <1>2, <1>4, SMT DEF PoolInv, ServedInv, Stays
<1>7. NobodyLost'
  BY <1>4, SMT DEF PoolInv, NobodyLost
<1>8. ShutInv' /\ ClosedWasAccepted'
  BY <1>2, SMT DEF PoolInv, ShutInv, ClosedWasAccepted, Stays
<1> QED BY <1>3, <1>5, <1>6, <1>7, <1>8 DEF PoolInv

\* Which steps those are.
LEMMA ServingSteps ==
  ASSUME PoolInv, NEW t \in Workers,
         \/ Handshake(t) \/ NextRequest(t) \/ KeepAlive(t) \/ ReadRequest(t)
         \/ StopIfRunning(t) \/ StopAsserts(t) \/ StopExchanges(t)
         \/ StopShutsDown(t) \/ StopCloses(t) \/ Answer(t)
  PROVE  Stays(t)
<1> USE DEF listener, clients, Goto, Serving, Stays
<1>1. CASE Handshake(t) \/ Answer(t)
  BY <1>1 DEF Handshake, Answer
<1>2. CASE NextRequest(t) \/ KeepAlive(t) \/ StopIfRunning(t)
  BY <1>2 DEF NextRequest, KeepAlive, StopIfRunning
<1>3. CASE ReadRequest(t)
  BY <1>3 DEF ReadRequest
<1>4. CASE StopAsserts(t) \/ StopExchanges(t) \/ StopShutsDown(t) \/ StopCloses(t)
  BY <1>4 DEF StopAsserts, StopExchanges, StopShutsDown, StopCloses
<1> QED BY <1>1, <1>2, <1>3, <1>4

\* The steps of the listening thread that leave the queue and the workers to
\* themselves, and the steps of the clients.
LEMMA QuietKeeps ==
  ASSUME PoolInv, UNCHANGED <<jobs, job, closes, pc>>,
         conn' \in [Conns -> {"new", "backlog", "accepted"}],
         \A c \in Conns : conn'[c] = "accepted" <=> conn[c] = "accepted",
         lst' \in ListenPcs, ShutInv'
  PROVE  PoolInv'
<1>1. TypeOK'
  BY DEF PoolInv, TypeOK
<1>2. \A c : (Queued(c)' <=> Queued(c)) /\ (Open(c)' <=> Open(c)) /\ (Served(c)' <=> Served(c))
  BY SMT DEF Queued, Open, Served
<1>3. QueueInv'
  BY <1>2, SMT DEF PoolInv, QueueInv
<1>4. ServedInv'
  BY <1>2, SMT DEF PoolInv, ServedInv
<1>5. NobodyLost' /\ ClosedWasAccepted'
  BY <1>2, SMT DEF PoolInv, NobodyLost, ClosedWasAccepted
<1> QED BY <1>1, <1>3, <1>4, <1>5 DEF PoolInv

LEMMA ListenerKeeps ==
  ASSUME PoolInv,
         \/ BindInternal \/ CheckSocket \/ CallAccept \/ AcceptEnds \/ AcceptFails
         \/ AfterError \/ CloseAfterError \/ ShutdownPool
  PROVE  PoolInv'
<1> USE DEF pool, clients
<1>1. UNCHANGED <<jobs, job, closes, pc, conn>>
  BY SMT DEF BindInternal, CheckSocket, CallAccept, AcceptEnds, AcceptFails, AfterError,
    CloseAfterError, ShutdownPool
<1>2. lst' \in ListenPcs
  BY SMT DEF BindInternal, CheckSocket, CallAccept, AcceptEnds, AcceptFails, AfterError,
    CloseAfterError, ShutdownPool, ListenPcs
<1>3. ShutInv'
  <2>1. CASE BindInternal
    BY <1>1, <2>1, SMT DEF BindInternal, PoolInv, ShutInv, TypeOK
  <2>2. CASE ShutdownPool
    BY <1>1, <2>2, SMT DEF ShutdownPool, PoolInv, ShutInv
  <2>3. CASE CheckSocket \/ CallAccept \/ AcceptEnds \/ AcceptFails \/ AfterError \/ CloseAfterError
    BY <1>1, <2>3, SMT DEF CheckSocket, CallAccept, AcceptEnds, AcceptFails, AfterError,
      CloseAfterError, PoolInv, ShutInv
  <2> QED BY <2>1, <2>2, <2>3
<1>4. conn' \in [Conns -> {"new", "backlog", "accepted"}]
  BY <1>1 DEF PoolInv, TypeOK
<1> QED BY <1>1, <1>2, <1>3, <1>4, QuietKeeps

\* When every worker has ended, nothing is left.
LEMMA JoinKeeps == ASSUME PoolInv, Join PROVE PoolInv' /\ \A c \in Conns : ~Open(c)
<1>1. UNCHANGED <<jobs, job, closes, pc, conn, shut>> /\ lst' = "returned"
  BY DEF Join, pool, clients
<1>2. jobs = <<>>
  BY ServerAssumption DEF Join, PoolInv, ShutInv
<1>3. \A c \in Conns : ~Queued(c) /\ ~Served(c)
  BY <1>2, SMT DEF Queued, Served, Join, Serving
<1>4. \A c \in Conns : ~Open(c)
  BY <1>3 DEF PoolInv, NobodyLost
<1>5. ShutInv'
  BY <1>1, <1>4, SMT DEF ShutInv, PoolInv, Open, TypeOK
<1>6. conn' \in [Conns -> {"new", "backlog", "accepted"}] /\ lst' \in ListenPcs
  BY <1>1 DEF PoolInv, TypeOK, ListenPcs
<1> QED BY <1>1, <1>4, <1>5, <1>6, QuietKeeps

LEMMA ClientKeeps ==
  ASSUME PoolInv, NEW c \in Conns, Connect(c) \/ Send(c)
  PROVE  PoolInv'
<1>1. UNCHANGED <<jobs, job, closes, pc, shut, lst>>
  BY DEF Connect, Send, listener, pool
<1>2. /\ conn' \in [Conns -> {"new", "backlog", "accepted"}]
      /\ \A d \in Conns : conn'[d] = "accepted" <=> conn[d] = "accepted"
  BY SMT DEF Connect, Send, PoolInv, TypeOK
<1>3. ShutInv'
  BY <1>1, <1>2, SMT DEF ShutInv, PoolInv
<1>4. lst' \in ListenPcs
  BY <1>1 DEF PoolInv, TypeOK
<1> QED BY <1>1, <1>2, <1>3, <1>4, QuietKeeps

\* Waking workers, and workers that wait or end, touch no connection.
LEMMA IdleKeeps ==
  ASSUME PoolInv, UNCHANGED <<jobs, job, closes, conn, shut>>,
         lst' = lst \/ (lst = "notify" /\ lst' = "join"),
         pc' \in [Workers -> WorkerPcs],
         \A t \in Workers : pc'[t] # pc[t] =>
            /\ pc[t] \in {"idle", "waiting"}
            /\ pc'[t] \in {"idle", "waiting", "exited"}
            /\ pc'[t] = "exited" => shut /\ jobs = <<>>
  PROVE  PoolInv'
<1>1. \A t \in Workers : (pc'[t] \in Serving <=> pc[t] \in Serving)
  BY DEF Serving
<1>2. TypeOK'
  BY SMT DEF PoolInv, TypeOK, ListenPcs
<1>3. \A c : (Queued(c)' <=> Queued(c)) /\ (Open(c)' <=> Open(c)) /\ (Served(c)' <=> Served(c))
  BY <1>1, SMT DEF Queued, Open, Served
<1>4. QueueInv'
  BY <1>3, SMT DEF PoolInv, QueueInv
<1>5. ServedInv'
  BY <1>1, <1>3, SMT DEF PoolInv, ServedInv
<1>6. NobodyLost'
  BY <1>3, SMT DEF PoolInv, NobodyLost
<1>7. ShutInv' /\ ClosedWasAccepted'
  BY SMT DEF PoolInv, ShutInv, ClosedWasAccepted
<1> QED BY <1>2, <1>4, <1>5, <1>6, <1>7 DEF PoolInv

\* What NotifyOne may do to the workers.
LEMMA NotifyOneWakes ==
  ASSUME PoolInv, NotifyOne
  PROVE  /\ pc' \in [Workers -> WorkerPcs]
         /\ \A t \in Workers : pc'[t] # pc[t] => pc[t] = "waiting" /\ pc'[t] = "idle"
BY SMT DEF NotifyOne, PoolInv, TypeOK, WorkerPcs

LEMMA AcceptKeeps == ASSUME PoolInv, NEW c \in Conns, Accept(c) PROVE PoolInv'
<1>1. /\ jobs' = Append(jobs, c) /\ lst = "accept" /\ lst' = "check"
      /\ conn' = [conn EXCEPT ![c] = "accepted"] /\ conn[c] = "backlog"
      /\ UNCHANGED <<shut, job, closes>>
  BY DEF Accept
<1>2. /\ pc' \in [Workers -> WorkerPcs]
      /\ \A t \in Workers : /\ pc'[t] \in Serving <=> pc[t] \in Serving
                            /\ pc'[t] = "exited" <=> pc[t] = "exited"
  BY NotifyOneWakes, SMT DEF Accept, Serving
<1>3. ~shut /\ \A t \in Workers : pc[t] # "exited"
  BY <1>1 DEF PoolInv, ShutInv
<1>4. closes[c] = 0 /\ ~Queued(c) /\ ~Served(c)
  <2>1. ~Open(c)
    BY <1>1 DEF Open
  <2>2. ~Queued(c) /\ ~Served(c)
    BY <2>1, SMT DEF PoolInv, QueueInv, ServedInv, Queued, Served
  <2>3. closes[c] = 0
    BY <1>1 DEF PoolInv, ClosedWasAccepted
  <2> QED BY <2>2, <2>3
<1>5. TypeOK'
  BY <1>1, <1>2, SMT DEF PoolInv, TypeOK, ListenPcs
<1>6. /\ Len(jobs') = Len(jobs) + 1 /\ jobs'[Len(jobs) + 1] = c
      /\ \A i \in 1 .. Len(jobs) : jobs'[i] = jobs[i]
      /\ Len(jobs) \in Nat
  BY <1>1, SMT DEF PoolInv, TypeOK
<1>7. \A d : (Open(d)' <=> Open(d) \/ d = c) /\ (Queued(d)' <=> Queued(d) \/ d = c)
             /\ (Served(d)' <=> Served(d))
  <2>1. \A d : Open(d)' <=> Open(d) \/ d = c
    BY <1>1, <1>4, SMT DEF Open, PoolInv, TypeOK
  <2>2. \A d : Queued(d)' <=> Queued(d) \/ d = c
    BY <1>6, SMT DEF Queued
  <2>3. \A d : Served(d)' <=> Served(d)
    BY <1>1, <1>2, SMT DEF Served
  <2> QED BY <2>1, <2>2, <2>3
<1>8. QueueInv'
  <2>1. \A i \in 1 .. Len(jobs) : jobs[i] # c
    BY <1>4 DEF Queued
  <2> QED BY <1>6, <1>7, <2>1, SMT DEF PoolInv, QueueInv
<1>9. ServedInv'
  BY <1>1, <1>2, <1>4, <1>7, SMT DEF PoolInv, ServedInv, Served
<1>10. NobodyLost'
  BY <1>7, SMT DEF PoolInv, NobodyLost
<1>11. ShutInv'
  BY <1>1, <1>2, <1>3, SMT DEF ShutInv
<1>12. ClosedWasAccepted'
  BY <1>1, SMT DEF PoolInv, ClosedWasAccepted, TypeOK
<1> QED BY <1>5, <1>8, <1>9, <1>10, <1>11, <1>12 DEF PoolInv

LEMMA TakeJobKeeps == ASSUME PoolInv, NEW t \in Workers, TakeJob(t) PROVE PoolInv'
<1> DEFINE c == Head(jobs)
<1>1. /\ pc[t] = "idle" /\ jobs # <<>> /\ jobs' = Tail(jobs)
      /\ job' = [job EXCEPT ![t] = c] /\ pc' = [pc EXCEPT ![t] = "handshake"]
      /\ UNCHANGED <<shut, conn, closes, lst>>
  BY DEF TakeJob, Goto, clients, listener
<1>2. /\ Len(jobs) \in Nat /\ Len(jobs) > 0 /\ c = jobs[1]
      /\ Len(jobs') = Len(jobs) - 1
      /\ \A i \in 1 .. Len(jobs') : jobs'[i] = jobs[i + 1]
      /\ jobs' \in Seq(Conns)
  BY <1>1, SMT DEF PoolInv, TypeOK
<1>3. Open(c) /\ Queued(c)
  BY <1>2, SMT DEF PoolInv, QueueInv, Queued
<1> HIDE DEF c
<1>4. c \in Conns /\ ~Served(c)
  BY <1>3 DEF Open, PoolInv, ServedInv, Served
<1>5. /\ \A u \in Workers : u # t => pc'[u] = pc[u] /\ job'[u] = job[u]
      /\ pc'[t] = "handshake" /\ job'[t] = c
      /\ pc' \in [Workers -> WorkerPcs] /\ job' \in [Workers -> Conns \cup {None}]
  BY <1>1, <1>4, SMT DEF PoolInv, TypeOK, WorkerPcs, Serving
<1>6. TypeOK'
  BY <1>1, <1>2, <1>5 DEF PoolInv, TypeOK
<1>7. \A d : (Open(d)' <=> Open(d)) /\ (Queued(d)' <=> Queued(d) /\ d # c)
             /\ (Served(d)' <=> Served(d) \/ d = c)
  <2>1. \A d : Open(d)' <=> Open(d)
    BY <1>1 DEF Open
  <2>2. ASSUME NEW d PROVE Queued(d)' <=> Queued(d) /\ d # c
    <3>1. ASSUME Queued(d)' PROVE Queued(d) /\ d # c
      <4>1. PICK i \in 1 .. Len(jobs') : jobs'[i] = d
        BY <3>1 DEF Queued
      <4>2. i + 1 \in 1 .. Len(jobs) /\ jobs[i + 1] = d /\ i + 1 # 1 /\ 1 \in 1 .. Len(jobs)
        BY <1>2, <4>1, SMT
      <4> QED BY <1>2, <4>2 DEF Queued, PoolInv, QueueInv
    <3>2. ASSUME Queued(d), d # c PROVE Queued(d)'
      <4>1. PICK i \in 1 .. Len(jobs) : jobs[i] = d
        BY <3>2 DEF Queued
      <4>2. i - 1 \in 1 .. Len(jobs') /\ jobs'[i - 1] = d
        BY <1>2, <3>2, <4>1, SMT
      <4> QED BY <4>2 DEF Queued
    <3> QED BY <3>1, <3>2
  <2>3. \A d : Served(d)' <=> Served(d) \/ d = c
    BY <1>1, <1>5, SMT DEF Served, Serving
  <2> QED BY <2>1, <2>2, <2>3
<1>8. QueueInv'
  BY <1>2, <1>7, SMTT(30) DEF PoolInv, QueueInv
<1>9. ServedInv'
  BY <1>1, <1>3, <1>4, <1>5, <1>7, SMT DEF PoolInv, ServedInv, Served
<1>10. NobodyLost'
  BY <1>7, SMT DEF PoolInv, NobodyLost
<1>11. ShutInv'
  BY <1>1, <1>5, SMT DEF PoolInv, ShutInv
<1>12. ClosedWasAccepted'
  BY <1>1, SMT DEF PoolInv, ClosedWasAccepted
<1> QED BY <1>6, <1>8, <1>9, <1>10, <1>11, <1>12 DEF PoolInv

LEMMA CloseConnKeeps ==
  ASSUME PoolInv, NEW t \in Workers, CloseConn(t)
  PROVE  PoolInv' /\ Open(job[t]) /\ closes' = [closes EXCEPT ![job[t]] = 1]
<1> DEFINE c == job[t]
<1>1. /\ pc[t] = "close" /\ UNCHANGED <<jobs, shut, conn, lst>>
      /\ job' = [job EXCEPT ![t] = None] /\ pc' = [pc EXCEPT ![t] = "idle"]
      /\ closes' = [closes EXCEPT ![c] = @ + 1]
  BY DEF CloseConn, Goto, listener
<1>2. Open(c) /\ ~Queued(c)
  BY <1>1 DEF PoolInv, ServedInv, Serving
<1> HIDE DEF c
<1>3. /\ closes' = [closes EXCEPT ![c] = 1] /\ closes' \in [Conns -> {0, 1}]
      /\ closes'[c] = 1 /\ \A d \in Conns : d # c => closes'[d] = closes[d]
  BY <1>1, <1>2, SMT DEF Open, PoolInv, TypeOK
<1>4. /\ \A u \in Workers : u # t => pc'[u] = pc[u] /\ job'[u] = job[u]
      /\ pc'[t] = "idle"
      /\ pc' \in [Workers -> WorkerPcs] /\ job' \in [Workers -> Conns \cup {None}]
  BY <1>1, SMT DEF PoolInv, TypeOK, WorkerPcs
<1>5. TypeOK'
  BY <1>1, <1>3, <1>4 DEF PoolInv, TypeOK
<1>6. \A u \in Workers : u # t /\ pc[u] \in Serving => job[u] # c
  BY <1>1 DEF PoolInv, ServedInv, Serving, c
<1>7. \A d : (Open(d)' <=> Open(d) /\ d # c) /\ (Queued(d)' <=> Queued(d))
             /\ (Served(d)' <=> Served(d) /\ d # c)
  <2>1. \A d : Open(d)' <=> Open(d) /\ d # c
    BY <1>1, <1>3, SMT DEF Open
  <2>2. \A d : Queued(d)' <=> Queued(d)
    BY <1>1 DEF Queued
  <2>3. \A d : Served(d)' <=> Served(d) /\ d # c
    BY <1>1, <1>4, <1>6, SMT DEF Served, Serving, c
  <2> QED BY <2>1, <2>2, <2>3
<1>8. QueueInv'
  BY <1>1, <1>2, <1>7, SMT DEF PoolInv, QueueInv, Queued
<1>9. ServedInv'
  BY <1>1, <1>4, <1>6, <1>7, SMT DEF PoolInv, ServedInv, Serving
<1>10. NobodyLost'
  BY <1>7, SMT DEF PoolInv, NobodyLost
<1>11. ShutInv'
  BY <1>1, <1>3, <1>4, SMT DEF PoolInv, ShutInv
<1>12. ClosedWasAccepted'
  BY <1>1, <1>2, <1>3, SMT DEF PoolInv, ClosedWasAccepted, Open
<1> QED BY <1>2, <1>3, <1>5, <1>8, <1>9, <1>10, <1>11, <1>12 DEF PoolInv, c

-----------------------------------------------------------------------------
LEMMA InitInv == Init => PoolInv
<1> SUFFICES ASSUME Init PROVE PoolInv
  OBVIOUS
<1>1. jobs = <<>> /\ \A t \in Workers : pc[t] = "idle"
  BY DEF Init
<1>2. \A c : ~Open(c)
  BY DEF Init, Open
<1>3. TypeOK
  BY SMT DEF Init, TypeOK, ListenPcs, WorkerPcs
<1>4. QueueInv /\ ServedInv
  BY <1>1, SMT DEF QueueInv, ServedInv, Serving
<1>5. NobodyLost /\ ShutInv /\ ClosedWasAccepted
  BY <1>1, <1>2, SMT DEF Init, NobodyLost, ShutInv, ClosedWasAccepted
<1> QED BY <1>3, <1>4, <1>5 DEF PoolInv

\* Each step keeps the invariant, and is a step of the contract or a stutter.
LEMMA Step ==
  ASSUME PoolInv, [Next]_vars
  PROVE  PoolInv' /\ (Contract!Next \/ UNCHANGED Contract!vars)
<1> USE DEF Contract!vars
<1>1. CASE UNCHANGED vars
  <2>1. UNCHANGED <<jobs, job, closes, pc, conn, shut, lst>>
    BY <1>1 DEF vars
  <2>2. ShutInv' /\ lst' \in ListenPcs /\ conn' \in [Conns -> {"new", "backlog", "accepted"}]
    BY <2>1 DEF PoolInv, ShutInv, TypeOK
  <2> QED BY <2>1, <2>2, QuietKeeps
<1>2. CASE Listen
  <2>1. CASE BindInternal
    <3>1. PoolInv' /\ UNCHANGED <<conn, closes>> /\ lst = "bind"
      BY <2>1, ListenerKeeps DEF BindInternal, clients
    <3>2. \A c \in Conns : conn[c] # "accepted"
      BY <3>1 DEF PoolInv, ShutInv
    <3>3. lst' = "returned" => Contract!ShutdownReturns
      BY <3>1, <3>2 DEF Contract!ShutdownReturns
    <3> QED BY <3>1, <3>3 DEF Contract!Next
  <2>2. CASE CheckSocket \/ CallAccept \/ AcceptEnds \/ AcceptFails \/ AfterError
             \/ CloseAfterError \/ ShutdownPool
    <3>1. UNCHANGED <<conn, closes>> /\ lst # "returned" /\ lst' # "returned"
      BY <2>2, SMT DEF CheckSocket, CallAccept, AcceptEnds, AcceptFails, AfterError,
        CloseAfterError, ShutdownPool, clients
    <3> QED BY <2>2, <3>1, ListenerKeeps
  <2>3. CASE NotifyAll
    <3>1. /\ UNCHANGED <<jobs, job, closes, conn, shut>>
          /\ lst = "notify" /\ lst' = "join"
          /\ \A t \in Workers : pc'[t] # pc[t] => pc[t] = "waiting" /\ pc'[t] = "idle"
      BY <2>3 DEF NotifyAll, clients
    <3>2. pc' \in [Workers -> WorkerPcs]
      BY <2>3, SMT DEF NotifyAll, PoolInv, TypeOK, WorkerPcs
    <3>3. PoolInv'
      BY <3>1, <3>2, IdleKeeps
    <3> QED BY <3>1, <3>3
  <2>4. CASE Join
    <3>1. PoolInv' /\ \A c \in Conns : ~Open(c)
      BY <2>4, JoinKeeps
    <3>2. UNCHANGED <<conn, closes>> /\ lst' = "returned"
      BY <2>4 DEF Join, clients
    <3>3. \A c \in Conns : conn[c] = "accepted" => closes[c] = 1
      BY <3>1, SMT DEF Open, PoolInv, TypeOK
    <3> QED BY <3>1, <3>2, <3>3 DEF Contract!Next, Contract!ShutdownReturns
  <2>5. ASSUME NEW c \in Conns, Accept(c)
        PROVE  PoolInv' /\ (Contract!Next \/ UNCHANGED Contract!vars)
    <3>1. PoolInv'
      BY <2>5, AcceptKeeps
    <3>2. /\ conn' = [conn EXCEPT ![c] = "accepted"] /\ conn[c] = "backlog"
          /\ closes' = closes /\ lst # "returned" /\ lst' # "returned"
          /\ DOMAIN conn = Conns
      BY <2>5 DEF Accept, PoolInv, TypeOK
    <3>3. {d \in Conns : conn'[d] = "accepted"} = {d \in Conns : conn[d] = "accepted"} \cup {c}
      BY <3>2
    <3>4. c \notin {d \in Conns : conn[d] = "accepted"}
      BY <3>2
    <3> QED BY <3>1, <3>2, <3>3, <3>4 DEF Contract!Next, Contract!Enqueue
  <2> QED BY <1>2, <2>1, <2>2, <2>3, <2>4, <2>5 DEF Listen
<1>3. ASSUME NEW t \in Workers, Work(t)
      PROVE  PoolInv' /\ (Contract!Next \/ UNCHANGED Contract!vars)
  <2>1. CASE TakeJob(t)
    <3>1. UNCHANGED <<conn, closes, lst>>
      BY <2>1 DEF TakeJob, clients, listener
    <3> QED BY <2>1, <3>1, TakeJobKeeps
  <2>2. CASE WaitOrExit(t)
    <3>1. UNCHANGED <<jobs, job, closes, conn, shut, lst>>
      BY <2>2 DEF WaitOrExit, clients, listener
    <3>2. /\ pc' \in [Workers -> WorkerPcs]
          /\ \A u \in Workers : pc'[u] # pc[u] =>
               /\ pc[u] = "idle" /\ pc'[u] \in {"waiting", "exited"}
               /\ pc'[u] = "exited" => shut /\ jobs = <<>>
      BY <2>2, SMT DEF WaitOrExit, Goto, MayExit, PoolInv, TypeOK, WorkerPcs
    <3>3. PoolInv'
      BY <3>1, <3>2, IdleKeeps
    <3> QED BY <3>1, <3>3
  <2>3. CASE CloseConn(t)
    <3>1. PoolInv' /\ Open(job[t]) /\ closes' = [closes EXCEPT ![job[t]] = 1]
      BY <2>3, CloseConnKeeps
    <3>2. UNCHANGED <<conn, lst>>
      BY <2>3 DEF CloseConn, listener
    <3>3. lst # "returned"
      BY <3>1 DEF PoolInv, ShutInv, Open
    <3> QED BY <3>1, <3>2, <3>3 DEF Contract!Next, Contract!Finish, Open
  <2>4. CASE \/ Handshake(t) \/ NextRequest(t) \/ KeepAlive(t) \/ ReadRequest(t)
             \/ StopIfRunning(t) \/ StopAsserts(t) \/ StopExchanges(t)
             \/ StopShutsDown(t) \/ StopCloses(t) \/ Answer(t)
    <3>1. Stays(t)
      BY <2>4, ServingSteps
    <3> QED BY <3>1, StaysKeeps DEF Stays
  <2> QED BY <1>3, <2>1, <2>2, <2>3, <2>4 DEF Work
<1>4. ASSUME NEW c \in Conns, Connect(c) \/ Send(c)
      PROVE  PoolInv' /\ (Contract!Next \/ UNCHANGED Contract!vars)
  <2>1. PoolInv'
    BY <1>4, ClientKeeps
  <2>2. UNCHANGED <<closes, lst>> /\ \A d \in Conns : conn'[d] = "accepted" <=> conn[d] = "accepted"
    BY <1>4, SMT DEF Connect, Send, listener, PoolInv, TypeOK
  <2> QED BY <2>1, <2>2
<1> QED BY <1>1, <1>2, <1>3, <1>4 DEF Next

\* The queue and the workers share the open connections at all times.
THEOREM PoolIsSafe == Spec => []PoolInv
<1>1. PoolInv /\ [Next]_vars => PoolInv'
  BY Step
<1> QED BY InitInv, <1>1, PTL DEF Spec

\* Every connection that listen() accepted is served and closed exactly once,
\* and before listen() returns.
THEOREM EachJobOnce == Spec => ContractStep
<1>1. PoolInv /\ [Next]_vars => [Contract!Next \/ UNCHANGED Contract!vars]_vars
  BY Step
<1> QED BY PoolIsSafe, <1>1, PTL DEF Spec, ContractStep
================================================================================
