----------------------------- MODULE LessonsProofs -----------------------------
(***************************************************************************)
(* Proofs about the small programs of Lessons, each for any size of what   *)
(* it is given: the bridge, the chat, the UDP echo, the interceptor, the   *)
(* http-server and the TCP echo.                                           *)
(***************************************************************************)
EXTENDS Lessons, FiniteSetTheorems, SequenceTheorems, WellFoundedInduction, TLAPS

\* One program moves, and the others stay where they are.
LEMMA OneMoves ==
  ASSUME [AllNext]_all
  PROVE  /\ [Next]_vars
         /\ [Bridge!Next]_(Bridge!vars)
         /\ [Udp!Next]_(Udp!vars)
         /\ [Interceptor!Next]_(Interceptor!vars)
         /\ [Web!Next]_(Web!vars)
         /\ [Echo!Next]_(Echo!vars)
<1> USE DEF all, ofEcho, vars, ofPings, ofUdp, ofInterceptor, ofCapture, ofBridge, ofWeb,
      Bridge!vars, Udp!vars, Interceptor!vars, Web!vars, Echo!vars
<1>1. CASE UNCHANGED all
  BY <1>1
<1>2. CASE AllNext
  BY <1>2, Zenon
  DEF AllNext, EchoOnly, ChatOnly, PingsOnly, UdpOnly, InterceptorOnly, CaptureOnly, BridgeOnly, WebOnly
<1> QED
  BY <1>1, <1>2

-----------------------------------------------------------------------------
(***************************************************************************)
(* UserBridge.                                                             *)
(***************************************************************************)
\* BridgeIsSafe is not inductive: main() closes the adapters only while one
\* thread at most was created, and it is the places of the threads that tell
\* how far main() has come.  What follows the end of the process is nothing.
BridgeStarted ==
  /\ bridging = "first" => place[0] = "none" /\ place[1] = "none"
  /\ bridging = "second" => place[1] = "none"
  /\ process = "up" => adapters = "open"
  /\ process = "up" => handler \in {"idle", "waits"}
  /\ process = "up" => \A t \in Bridge!Threads : place[t] # "terminated"
  /\ \A t \in Bridge!Threads : place[t] = "none" => taken[t] = 0

BridgeInv == Bridge!TypeOK /\ BridgeStarted /\ Bridge!BridgeIsSafe

LEMMA BridgeInit ==
  ASSUME Bridge!BridgeAssumption, Bridge!Init
  PROVE  BridgeInv
<1>1. 0 \in Bridge!Threads /\ 1 \in Bridge!Threads
  BY DEF Bridge!Threads
<1>2. Bridge!TypeOK
  <2>1. place \in [Bridge!Threads -> Bridge!Places]
    BY DEF Bridge!Init, Bridge!Places
  <2>2. /\ taken \in [Bridge!Threads -> Nat]
        /\ n_fwd \in [Bridge!Threads -> Nat]
        /\ refused \in [Bridge!Threads -> Nat]
    BY DEF Bridge!Init
  <2> QED BY <2>1, <2>2 DEF Bridge!Init, Bridge!TypeOK
<1>3. BridgeStarted
  BY <1>1, SMT DEF Bridge!Init, BridgeStarted
<1>4. Bridge!AdaptersAreOpen /\ Bridge!LinesAreWhole
  <2>1. Bridge!AdaptersAreOpen
    BY DEF Bridge!Init, Bridge!AdaptersAreOpen
  <2>2. \A t \in Bridge!Threads : printing # t /\ place[t] = "none"
    BY DEF Bridge!Init, Bridge!BridgeAssumption
  <2> QED BY <2>1, <2>2 DEF Bridge!LinesAreWhole
<1>5. Bridge!NothingIsLost /\ Bridge!PatientMeansDone
  BY SMT DEF Bridge!Init, Bridge!NothingIsLost, Bridge!PatientMeansDone
<1> QED BY <1>2, <1>3, <1>4, <1>5 DEF BridgeInv, Bridge!BridgeIsSafe

\* Steps of main().
LEMMA BridgeMain ==
  ASSUME Bridge!BridgeAssumption, BridgeInv, process = "up", Bridge!Main
  PROVE  BridgeInv'
<1> USE DEF Bridge!BridgeAssumption, BridgeInv, Bridge!TypeOK, Bridge!Places, BridgeStarted, Bridge!BridgeIsSafe,
      Bridge!AdaptersAreOpen, Bridge!LinesAreWhole, Bridge!NothingIsLost, Bridge!PatientMeansDone, Bridge!Threads,
      Bridge!GiveUp, Bridge!ofThreads
<1>1. CASE Bridge!CreateThread(0, "first", "second")
  <2>1. Bridge!TypeOK'
    BY <1>1, SMT DEF Bridge!CreateThread
  <2>2. BridgeStarted'
    BY <1>1, SMT DEF Bridge!CreateThread
  <2>3. Bridge!AdaptersAreOpen' /\ Bridge!LinesAreWhole'
    BY <1>1, SMT DEF Bridge!CreateThread
  <2>4. Bridge!NothingIsLost' /\ Bridge!PatientMeansDone'
    BY <1>1, SMT DEF Bridge!CreateThread
  <2> QED BY <2>1, <2>2, <2>3, <2>4
<1>2. CASE Bridge!CreateThread(1, "second", "signal")
  BY <1>2, SMT DEF Bridge!CreateThread
<1>3. CASE Bridge!NoFirstThread
  BY <1>3, SMT DEF Bridge!NoFirstThread
<1>4. CASE Bridge!NoSecondThread
  BY <1>4, SMT DEF Bridge!NoSecondThread
<1>5. CASE Bridge!InstallHandler
  BY <1>5, SMT DEF Bridge!InstallHandler
<1>6. CASE Bridge!PrintStart
  BY <1>6, SMT DEF Bridge!PrintStart
<1> QED BY <1>1, <1>2, <1>3, <1>4, <1>5, <1>6 DEF Bridge!Main

\* Steps of a thread.
LEMMA BridgeForward ==
  ASSUME Bridge!BridgeAssumption, BridgeInv, process = "up", NEW t \in Bridge!Threads, Bridge!Forward(t)
  PROVE  BridgeInv'
<1> USE DEF Bridge!BridgeAssumption, BridgeInv, Bridge!TypeOK, Bridge!Places, BridgeStarted, Bridge!BridgeIsSafe,
      Bridge!AdaptersAreOpen, Bridge!LinesAreWhole, Bridge!NothingIsLost, Bridge!PatientMeansDone, Bridge!Threads,
      Bridge!Go, Bridge!Rest
<1>1. CASE Bridge!TestKill(t)
  BY <1>1, SMT DEF Bridge!TestKill
<1>2. CASE Bridge!NextEx(t)
  BY <1>2, SMT DEF Bridge!NextEx
<1>3. CASE Bridge!Enter(t)
  BY <1>3, SMT DEF Bridge!Enter, Bridge!EnterAtOnce
<1>4. CASE Bridge!Leave(t)
  BY <1>4, SMT DEF Bridge!Leave
<1>5. CASE Bridge!SendPacket(t)
  BY <1>5, SMT DEF Bridge!SendPacket
<1> QED BY <1>1, <1>2, <1>3, <1>4, <1>5 DEF Bridge!Forward

\* Steps of the handler.
LEMMA BridgeHandler ==
  ASSUME Bridge!BridgeAssumption, BridgeInv, process = "up", Bridge!CtrlC \/ Bridge!ExitProcess
  PROVE  BridgeInv'
<1> USE DEF BridgeInv, Bridge!TypeOK, Bridge!ofThreads, Bridge!CtrlC, Bridge!ExitProcess
<1>1. Bridge!TypeOK'
  <2>1. CASE Bridge!CtrlC
    BY <2>1, Zenon
  <2>2. CASE Bridge!ExitProcess
    BY <2>2, Zenon DEF Bridge!Wait
  <2> QED BY <2>1, <2>2
<1>2. BridgeStarted'
  BY SMT DEF BridgeStarted
<1>3. Bridge!AdaptersAreOpen' /\ Bridge!LinesAreWhole' /\ Bridge!NothingIsLost'
  BY DEF Bridge!BridgeIsSafe, Bridge!AdaptersAreOpen, Bridge!LinesAreWhole, Bridge!NothingIsLost
<1>4. Bridge!PatientMeansDone'
  <2>1. CASE Bridge!CtrlC
    BY <2>1 DEF Bridge!BridgeIsSafe, Bridge!PatientMeansDone
  <2>2. CASE Bridge!ExitProcess /\ Bridge!AllEnded
    BY <2>2, SMT DEF Bridge!BridgeIsSafe, Bridge!NothingIsLost, Bridge!AllEnded, Bridge!PatientMeansDone
  <2>3. CASE Bridge!ExitProcess /\ ~Bridge!AllEnded
    BY <2>3 DEF Bridge!Wait, Bridge!PatientMeansDone
  <2> QED BY <2>1, <2>2, <2>3
<1> QED BY <1>1, <1>2, <1>3, <1>4 DEF Bridge!BridgeIsSafe

LEMMA BridgeMoves ==
  ASSUME Bridge!BridgeAssumption, BridgeInv, [Bridge!Next]_Bridge!vars
  PROVE  BridgeInv'
<1>1. CASE Bridge!Next
  BY <1>1, BridgeMain, BridgeForward, BridgeHandler DEF Bridge!Next
<1>2. CASE UNCHANGED Bridge!vars
  BY <1>2 DEF Bridge!vars, BridgeInv, Bridge!TypeOK, BridgeStarted, Bridge!BridgeIsSafe, Bridge!AdaptersAreOpen,
    Bridge!LinesAreWhole, Bridge!NothingIsLost, Bridge!PatientMeansDone
<1> QED BY <1>1, <1>2

\* UserBridge.c: whatever fails or hangs, a thread never uses an adapter that
\* main() has closed, prints only while it holds print_cs, and accounts for
\* each packet it has read.
THEOREM BridgeStaysSafe == AllSpec => []BridgeIsSafe
<1>1. AllInit => BridgeInv
  BY LessonsAssumption, BridgeInit DEF LessonsAssumption, AllInit
<1>2. BridgeInv /\ [AllNext]_all => BridgeInv'
  BY LessonsAssumption, OneMoves, BridgeMoves DEF LessonsAssumption
<1>3. BridgeInv => BridgeIsSafe
  BY DEF BridgeInv, BridgeIsSafe
<1> QED BY <1>1, <1>2, <1>3, PTL DEF AllSpec

-----------------------------------------------------------------------------
(***************************************************************************)
(* Messenger.                                                              *)
(***************************************************************************)
Reading(t) == at[t] \in {"first", "getline"}

\* OneChainEach is not inductive: what begins a chain must not have been done
\* before, so as long as a thread has not started, its chain is not there.
\* Readers are counted one by one.
Chains ==
  /\ at["A"] = "start" => receives = 0
  /\ at["B"] = "start" => message = "none" /\ ~Reading("A")
  /\ \A t, u \in Threads : Reading(t) /\ Reading(u) => t = u
  /\ message # "none" => \A t \in Threads : ~Reading(t)
  /\ receives \in {0, 1}

PeerInv == TypeOK /\ Chains

\* What the socket holds stays a sequence of datagrams that fit.
LEMMA ArrivalsFit ==
  ASSUME RoomAssumption, TypeOK, NEW d \in Datagrams, NEW s \in Arrivals(d)
  PROVE  s \in Seq(Datagrams) /\ Len(s) <= Room
<1>1. CASE s = incoming
  BY <1>1 DEF TypeOK
<1>2. CASE Len(incoming) < Room /\ s = Append(incoming, d)
  BY <1>2, SMT DEF TypeOK, RoomAssumption
<1> QED BY <1>1, <1>2 DEF Arrivals

LEMMA ChatInit ==
  ASSUME RoomAssumption, Init
  PROVE  PeerInv
<1>1. "A" \in Threads /\ "B" \in Threads
  BY DEF Threads
<1>2. incoming \in Seq(Datagrams) /\ Len(incoming) <= Room
  <2>1. CASE incoming = <<>>
    BY <2>1, SMT DEF RoomAssumption
  <2>2. CASE incoming = <<"text">>
    BY <2>2, SMT DEF RoomAssumption, Datagrams
  <2> QED BY <2>1, <2>2 DEF Init
<1>3. TypeOK
  BY <1>1, <1>2 DEF Init, TypeOK, SendStates
<1>4. Chains
  BY <1>1 DEF Init, Chains, Reading
<1> QED BY <1>3, <1>4 DEF PeerInv

\* The steps that begin a chain.
LEMMA ChatStart ==
  ASSUME RoomAssumption, PeerInv, StartReceiving \/ StartSending
  PROVE  PeerInv'
<1> USE DEF PeerInv, TypeOK, Chains, Reading, Threads
<1>1. CASE StartReceiving
  BY <1>1, SMT DEF StartReceiving, Runs
<1>2. CASE StartSending
  BY <1>2, SMT DEF StartSending
<1> QED BY <1>1, <1>2

\* The line that was read is sent: the reader hands the chain on to the message.
LEMMA ChatReads ==
  ASSUME RoomAssumption, PeerInv, NEW t \in Threads, ReadLine(t)
  PROVE  PeerInv'
<1>1. incoming' \in Seq(Datagrams) /\ Len(incoming') <= Room
  BY ArrivalsFit DEF ReadLine, AsyncSendTo, PeerInv, TypeOK, Datagrams
<1>2. message' \in {"sent", "blocked"}
  BY DEF ReadLine, AsyncSendTo
<1> QED BY <1>1, <1>2, SMT DEF ReadLine, PeerInv, TypeOK, Chains, Reading, Threads, Runs,
      SendStates

\* The handlers, of which that of a message hands the chain on to its thread.
LEMMA ChatHandles ==
  ASSUME RoomAssumption, PeerInv, NEW t \in Threads, Step(t)
  PROVE  PeerInv'
<1>1. incoming # <<>> => Tail(incoming) \in Seq(Datagrams) /\ Len(Tail(incoming)) <= Room
  BY SMT DEF PeerInv, TypeOK, RoomAssumption
<1> USE DEF PeerInv, TypeOK, Chains, Reading, Threads, SendStates
<1>2. CASE HandleWelcome(t)
  BY <1>2, SMT DEF HandleWelcome
<1>3. CASE HandleSend(t)
  BY <1>3, SMT DEF HandleSend
<1>4. CASE HandleReceive(t)
  BY <1>1, <1>4, Zenon DEF HandleReceive
<1>5. CASE HandleReceiveEnd(t)
  <2>1. incoming' \in Seq(Datagrams) /\ Len(incoming') <= Room
    BY <1>1, <1>5, Zenon DEF HandleReceiveEnd
  <2>2. receives' = 0
    BY <1>5, SMT DEF HandleReceiveEnd
  <2> QED BY <1>5, <2>1, <2>2, SMT DEF HandleReceiveEnd
<1>6. CASE RunOutOfWork(t)
  BY <1>6, SMT DEF RunOutOfWork
<1> QED BY <1>2, <1>3, <1>4, <1>5, <1>6 DEF Step

\* What the network does: a send that was blocked is still the same send.
LEMMA ChatNetwork ==
  ASSUME RoomAssumption, PeerInv, Unblock \/ Arrive
  PROVE  PeerInv'
<1>1. incoming' \in Seq(Datagrams) /\ Len(incoming') <= Room
  BY ArrivalsFit DEF Unblock, Arrive, PeerInv, Datagrams
<1>2. CASE Unblock
  BY <1>1, <1>2, Zenon DEF Unblock, PeerInv, TypeOK, Chains, Reading, SendStates
<1>3. CASE Arrive
  BY <1>1, <1>3, Zenon DEF Arrive, PeerInv, TypeOK, Chains, Reading
<1> QED BY <1>2, <1>3

LEMMA ChatMoves ==
  ASSUME RoomAssumption, PeerInv, [Next]_vars
  PROVE  PeerInv'
<1>1. CASE Next
  BY <1>1, ChatStart, ChatReads, ChatHandles, ChatNetwork DEF Next
<1>2. CASE UNCHANGED vars
  BY <1>2 DEF vars, PeerInv, TypeOK, Chains, Reading
<1> QED BY <1>1, <1>2

\* One reader is one element of Readers.
LEMMA OneOfEach ==
  ASSUME PeerInv
  PROVE  OneChainEach
<1>1. Readers = {} \/ (message = "none" /\ \E t \in Threads : Readers = {t})
  BY DEF Readers, PeerInv, Chains, Reading
<1>2. Cardinality({}) = 0 /\ \A t \in Threads : Cardinality({t}) = 1
  BY FS_EmptySet, FS_Singleton
<1>3. Cardinality(Readers) + (IF message = "none" THEN 0 ELSE 1) <= 1
  <2>1. CASE Readers = {}
    BY <1>2, <2>1, SMT
  <2>2. CASE Readers # {}
    BY <1>1, <1>2, <2>2, SMT
  <2> QED BY <2>1, <2>2
<1> QED BY <1>3, SMT DEF OneChainEach, PeerInv, Chains

\* messenger.cpp and main.cpp: the handlers of the two threads share the socket,
\* the buffer and the input without a lock, and need none.  One thread at most
\* reads lines, only while no message is on its way, and one receive is pending.
THEOREM ChainsStaySingle == AllSpec => []OneChainEach
<1>1. AllInit => PeerInv
  BY LessonsAssumption, ChatInit DEF LessonsAssumption, AllInit
<1>2. PeerInv /\ [AllNext]_all => PeerInv'
  BY LessonsAssumption, OneMoves, ChatMoves DEF LessonsAssumption
<1>3. PeerInv => OneChainEach
  BY OneOfEach
<1> QED BY <1>1, <1>2, <1>3, PTL DEF AllSpec

-----------------------------------------------------------------------------
(***************************************************************************)
(* UdpEcho.                                                                *)
(***************************************************************************)
UdpDatagrams == [from : Clients, size : Nat]

\* As long as nothing was written behind the buffer, the length is that of an
\* address, and the address is that of the datagram in the buffer.
UdpInv ==
  /\ socket \in Seq(UdpDatagrams)
  /\ received \in [from : Clients \cup {Nobody}, size : Nat]
  /\ ~overrun => length = Udp!AddressLength
  /\ ~overrun /\ received.size > 0 => address = received.from
  /\ ~overrun => echo.to = echo.of

LEMMA UdpInit ==
  ASSUME Udp!Init
  PROVE  UdpInv
BY SMT DEF Udp!Init, UdpInv, UdpDatagrams

LEMMA UdpMoves ==
  ASSUME UdpInv, [Udp!Next]_(Udp!vars)
  PROVE  UdpInv'
<1>1. ASSUME NEW c \in Clients, Udp!Arrive(c)
      PROVE  UdpInv'
  <2>1. PICK d \in UdpDatagrams : socket' = Append(socket, d)
    BY <1>1 DEF Udp!Arrive, Udp!Sizes, Udp!Buffer, UdpDatagrams
  <2> HIDE DEF UdpDatagrams
  <2>2. socket' \in Seq(UdpDatagrams)
    BY <2>1 DEF UdpInv
  <2> QED
    BY <1>1, <2>2 DEF Udp!Arrive, UdpInv
<1>2. CASE Udp!Recv
  <2>1. PICK d \in UdpDatagrams : d = Head(socket) /\ Tail(socket) \in Seq(UdpDatagrams)
    BY <1>2 DEF Udp!Recv, UdpInv
  <2>2. Udp!Cut(d) \in UdpDatagrams /\ Udp!Cut(d).from = d.from
    BY <2>1 DEF Udp!Cut, Udp!Buffer, UdpDatagrams
  <2>3. /\ received' = Udp!Cut(d) /\ socket' = Tail(socket) /\ length' = Udp!AddressLength
        /\ address' = IF length = Udp!AddressLength THEN d.from ELSE address
        /\ UNCHANGED <<overrun, echo>>
    BY <1>2, <2>1 DEF Udp!Recv
  <2>4. received' \in [from : Clients \cup {Nobody}, size : Nat]
    BY <2>2, <2>3 DEF UdpDatagrams
  <2> QED
    BY <2>1, <2>2, <2>3, <2>4 DEF UdpInv
<1>3. CASE Udp!Echo
  <2>1. /\ received' = [received EXCEPT !.size = 0] /\ UNCHANGED socket
        /\ received' \in [from : Clients \cup {Nobody}, size : Nat] /\ received'.size = 0
    BY <1>3 DEF Udp!Echo, UdpInv
  <2>2. CASE received.size < Udp!Buffer
    BY <1>3, <2>1, <2>2 DEF Udp!Echo, Udp!Terminate, UdpInv, Udp!AddressLength
  <2>3. CASE ~(received.size < Udp!Buffer)
    BY <1>3, <2>1, <2>3 DEF Udp!Echo, Udp!Terminate, UdpInv
  <2> QED
    BY <2>2, <2>3
<1>4. CASE UNCHANGED Udp!vars
  BY <1>4 DEF Udp!vars, UdpInv
<1> QED
  BY <1>1, <1>2, <1>3, <1>4 DEF Udp!Next

\* udp_server: recvfrom() and sendto() share one address from one datagram to the
\* next, and an echo still goes to the client it came from, for any number of
\* clients and of datagrams in the socket, up to the first one that fills the
\* buffer.
THEOREM EchoesGoBack == AllSpec => []EchoToSender
<1>1. AllInit => UdpInv
  BY UdpInit DEF AllInit
<1>2. UdpInv /\ [AllNext]_all => UdpInv'
  BY OneMoves, UdpMoves
<1>3. UdpInv => EchoToSender
  BY DEF UdpInv, EchoToSender, Udp!EchoToSender
<1> QED BY <1>1, <1>2, <1>3, PTL DEF AllSpec

-----------------------------------------------------------------------------
(***************************************************************************)
(* CallInterceptor.                                                        *)
(***************************************************************************)
\* While the program is tame, its only socket is the one that is recorded, if
\* the file has not failed, and the file is closed when there is none.
TameInv ==
  /\ open \in [Fds -> {"free", "socket", "file"}]
  /\ isOpen \in BOOLEAN /\ good \in BOOLEAN /\ spoilt \in BOOLEAN
  /\ tame \in BOOLEAN /\ missed \in BOOLEAN
  /\ tame => ~missed
  /\ tame /\ Interceptor!Sockets = {} => socketFd = -1 /\ ~isOpen
  /\ tame => \A fd \in Interceptor!Sockets : fd = socketFd /\ (spoilt \/ (isOpen /\ good))

LEMMA TameInit ==
  ASSUME Interceptor!Init
  PROVE  TameInv
BY DEF Interceptor!Init, TameInv, Interceptor!Sockets

LEMMA TameMoves ==
  ASSUME LessonsAssumption, TameInv, [Interceptor!Next]_(Interceptor!vars)
  PROVE  TameInv'
<1> USE DEF TameInv, Interceptor!Sockets
<1>0. -1 \notin Fds
  BY DEF LessonsAssumption
<1>1. CASE Interceptor!Socket(-1)
  BY <1>0, <1>1 DEF Interceptor!Socket
<1>2. ASSUME NEW fd \in Fds, Interceptor!Socket(fd)
      PROVE  TameInv'
  BY <1>0, <1>2 DEF Interceptor!Socket
<1>3. ASSUME NEW fd \in Fds, Interceptor!OpenFile(fd)
      PROVE  TameInv'
  BY <1>3 DEF Interceptor!OpenFile
<1>4. ASSUME NEW fd \in Fds, Interceptor!Close(fd)
      PROVE  TameInv'
  BY <1>0, <1>4 DEF Interceptor!Close
<1>5. ASSUME NEW fd \in Fds, Interceptor!Write(fd)
      PROVE  TameInv'
  BY <1>5 DEF Interceptor!Write, Interceptor!Recording
<1>6. CASE UNCHANGED Interceptor!vars
  BY <1>6 DEF Interceptor!vars
<1> QED
  BY <1>1, <1>2, <1>3, <1>4, <1>5, <1>6 DEF Interceptor!Next

\* call-interceptor: a program that has one socket after another is recorded in
\* full, whatever files it opens and closes between them, for any descriptors;
\* except what a socket's file fails to take, and that is all a failure costs.
THEOREM TameStaysRecorded == AllSpec => []TameIsRecorded
<1>1. AllInit => TameInv
  BY TameInit DEF AllInit
<1>2. TameInv /\ [AllNext]_all => TameInv'
  BY LessonsAssumption, OneMoves, TameMoves
<1>3. TameInv => TameIsRecorded
  BY DEF TameInv, TameIsRecorded, Interceptor!TameIsRecorded
<1> QED BY <1>1, <1>2, <1>3, PTL DEF AllSpec

-----------------------------------------------------------------------------
(***************************************************************************)
(* HttpServer.                                                             *)
(***************************************************************************)
In(s, c) == Web!Contains(s, c)

Distinct(s) == \A i, j \in 1 .. Len(s) : s[i] = s[j] => i = j

\* A client that is connected waits in the backlog or in the pool, or is served.
PlaceAt(c) ==
  /\ browser[c] = "connected" => In(backlog, c) \/ In(jobs, c) \/ \E t \in PoolThreads : work[t] = c
  /\ In(backlog, c) => browser[c] = "connected" /\ ~In(jobs, c) /\ \A t \in PoolThreads : work[t] # c
  /\ In(jobs, c) => browser[c] = "connected" /\ \A t \in PoolThreads : work[t] # c
  /\ \A t \in PoolThreads :
       work[t] = c => browser[c] = "connected" /\ \A u \in PoolThreads : work[u] = c => u = t

\* OnePlace is not inductive: a client that is twice in a queue is in one place
\* until the first of the two is taken out.
WebShape ==
  /\ Distinct(backlog) /\ Distinct(jobs)
  /\ \A t \in PoolThreads : work[t] = Nobody <=> run[t] = "idle"
  /\ \A c \in Clients : PlaceAt(c)

Asked(c) == emitted[c] = "posted" /\ Web!AskedToStop(c)

\* What was posted was asked for by a client that is linked, and cannot be taken
\* back; a line that was read is what that client has sent.
WebAsked ==
  /\ events > 0 \/ ~listening => \E c \in Clients : Asked(c)
  /\ \A c \in Clients : emitted[c] = "posted" => c \in linked /\ browser[c] # "new"
  /\ \A t \in PoolThreads : run[t] = "read" /\ line[t] = "exit" => Web!AskedToStop(work[t])

WebInv == Web!TypeOK /\ WebShape /\ WebAsked

\* The first of a queue goes.
LEMMA HeadGoes ==
  ASSUME NEW S, NEW s \in Seq(S), s # <<>>, Distinct(s)
  PROVE  /\ Head(s) \in S /\ In(s, Head(s))
         /\ Tail(s) \in Seq(S) /\ Distinct(Tail(s))
         /\ \A c : In(Tail(s), c) <=> In(s, c) /\ c # Head(s)
<1>1. /\ Tail(s) \in Seq(S) /\ Len(Tail(s)) = Len(s) - 1 /\ Len(s) \in Nat /\ Len(s) > 0
      /\ Head(s) = s[1] /\ Head(s) \in S
      /\ \A k \in 1 .. Len(s) - 1 : Tail(s)[k] = s[k + 1]
  BY SMT
<1>2. Distinct(Tail(s))
  <2> SUFFICES ASSUME NEW i \in 1 .. Len(Tail(s)), NEW j \in 1 .. Len(Tail(s)), Tail(s)[i] = Tail(s)[j]
               PROVE  i = j
    BY DEF Distinct
  <2>1. i + 1 \in 1 .. Len(s) /\ j + 1 \in 1 .. Len(s) /\ s[i + 1] = s[j + 1]
    BY <1>1
  <2>2. i + 1 = j + 1
    BY <2>1 DEF Distinct
  <2> QED
    BY <1>1, <2>2
<1>3. ASSUME NEW c, In(Tail(s), c)
      PROVE  In(s, c) /\ c # Head(s)
  <2> PICK i \in 1 .. Len(Tail(s)) : Tail(s)[i] = c
    BY <1>3 DEF In, Web!Contains
  <2>1. i + 1 \in 1 .. Len(s) /\ s[i + 1] = c /\ i + 1 # 1 /\ 1 \in 1 .. Len(s)
    BY <1>1
  <2> QED
    BY <1>1, <2>1 DEF In, Web!Contains, Distinct
<1>4. ASSUME NEW c, In(s, c), c # Head(s)
      PROVE  In(Tail(s), c)
  <2> PICK i \in 1 .. Len(s) : s[i] = c
    BY <1>4 DEF In, Web!Contains
  <2>1. i - 1 \in 1 .. Len(Tail(s)) /\ Tail(s)[i - 1] = s[(i - 1) + 1] /\ (i - 1) + 1 = i
    BY <1>1, <1>4
  <2> QED
    BY <2>1 DEF In, Web!Contains
<1>5. In(s, Head(s))
  BY <1>1 DEF In, Web!Contains
<1> QED
  BY <1>1, <1>2, <1>3, <1>4, <1>5

\* A client that was not in a queue comes last.
LEMMA LastComes ==
  ASSUME NEW S, NEW s \in Seq(S), NEW c \in S, Distinct(s), ~In(s, c)
  PROVE  /\ Append(s, c) \in Seq(S) /\ Distinct(Append(s, c))
         /\ \A d : In(Append(s, c), d) <=> In(s, d) \/ d = c
<1>1. /\ Append(s, c) \in Seq(S) /\ Len(Append(s, c)) = Len(s) + 1 /\ Len(s) \in Nat
      /\ Append(s, c)[Len(s) + 1] = c
      /\ \A k \in 1 .. Len(s) : Append(s, c)[k] = s[k]
  BY SMT
<1>2. ASSUME NEW i \in 1 .. Len(s) + 1, NEW j \in 1 .. Len(s) + 1, Append(s, c)[i] = Append(s, c)[j]
      PROVE  i = j
  <2>1. CASE i \in 1 .. Len(s) /\ j \in 1 .. Len(s)
    BY <1>1, <1>2, <2>1 DEF Distinct
  <2>2. CASE i = Len(s) + 1 /\ j \in 1 .. Len(s)
    BY <1>1, <1>2, <2>2 DEF In, Web!Contains
  <2>3. CASE j = Len(s) + 1 /\ i \in 1 .. Len(s)
    BY <1>1, <1>2, <2>3 DEF In, Web!Contains
  <2>4. CASE i = Len(s) + 1 /\ j = Len(s) + 1
    BY <2>4
  <2> QED
    BY <1>1, <2>1, <2>2, <2>3, <2>4
<1>3. ASSUME NEW d
      PROVE  In(Append(s, c), d) <=> In(s, d) \/ d = c
  BY <1>1 DEF In, Web!Contains
<1> QED
  BY <1>1, <1>2, <1>3 DEF Distinct

LEMMA WebInit ==
  ASSUME LessonsAssumption, Web!Init
  PROVE  WebInv
<1>1. /\ backlog = <<>> /\ jobs = <<>> /\ <<>> \in Seq(Clients)
      /\ Distinct(<<>>) /\ \A c : ~In(<<>>, c)
  BY SMT DEF Web!Init, Distinct, In, Web!Contains
<1>2. Web!TypeOK
  BY <1>1 DEF Web!Init, Web!TypeOK, Web!Lines, Web!Requests, Web!Pieces
<1>3. WebShape
  BY <1>1 DEF Web!Init, WebShape, PlaceAt, LessonsAssumption
<1>4. WebAsked
  BY DEF Web!Init, WebAsked, Asked
<1> QED
  BY <1>2, <1>3, <1>4 DEF WebInv

\* The types the steps need.
LEMMA WebTypes ==
  ASSUME Web!TypeOK
  PROVE  /\ backlog \in Seq(Clients) /\ jobs \in Seq(Clients) /\ events \in Nat
         /\ work \in [PoolThreads -> Clients \cup {Nobody}]
         /\ run \in [PoolThreads -> {"idle", "waiting", "read", "done"}]
         /\ line \in [PoolThreads -> Web!Lines]
         /\ browser \in [Clients -> {"new", "connected", "closed", "reset"}]
         /\ req \in [Clients -> Web!Requests] /\ arrived \in [Clients -> Web!Pieces]
         /\ emitted \in [Clients -> {"no", "posted", "lost"}]
BY DEF Web!TypeOK

\* The client's steps.
LEMMA WebClient ==
  ASSUME LessonsAssumption, WebInv, NEW c \in Clients, Web!Connect(c) \/ Web!Send(c)
  PROVE  WebInv'
<1>i. Web!TypeOK /\ WebShape /\ WebAsked
  BY DEF WebInv
<1> SUFFICES Web!TypeOK' /\ WebShape' /\ WebAsked'
  BY DEF WebInv
<1>1. CASE Web!Connect(c)
  <2>1. /\ browser[c] = "new" /\ browser' = [browser EXCEPT ![c] = "connected"]
        /\ backlog' = Append(backlog, c) /\ UNCHANGED <<jobs, work, run, line, linked, emitted, arrived, events,
                                                        listening, main, crashed, reply>>
        /\ \E r \in Web!Requests : req' = [req EXCEPT ![c] = r]
    BY <1>i, <1>1 DEF Web!Connect, Web!Pool
  <2>2. ~In(backlog, c) /\ ~In(jobs, c) /\ \A t \in PoolThreads : work[t] # c
    BY <1>i, <2>1 DEF WebShape, PlaceAt
  <2>3. /\ backlog' \in Seq(Clients) /\ Distinct(backlog')
        /\ \A d : In(backlog', d) <=> In(backlog, d) \/ d = c
    BY <1>i, <2>1, <2>2, LastComes, WebTypes DEF WebShape
  <2>4. Web!TypeOK'
    BY <1>i, <2>1, <2>3 DEF Web!TypeOK
  <2>5. \A d \in Clients : PlaceAt(d)'
    BY <1>i, <2>1, <2>2, <2>3, WebTypes DEF WebShape, PlaceAt
  <2>6. WebShape'
    BY <1>i, <2>1, <2>3, <2>5 DEF WebShape
  <2>7. WebAsked'
    BY <1>i, <2>1, <2>2, WebTypes DEF WebAsked, Asked, Web!AskedToStop
  <2> QED
    BY <2>4, <2>6, <2>7
<1>2. CASE Web!Send(c)
  <2>1. /\ arrived[c] \notin {"whole", "named"}
        /\ UNCHANGED <<backlog, jobs, work, run, line, linked, emitted, browser, req, events,
                       listening, main, crashed, reply>>
        /\ \E a \in Web!Pieces : arrived' = [arrived EXCEPT ![c] = a] /\ (arrived[c] = "name" => a = "named")
    BY <1>i, <1>2 DEF Web!Send, Web!Pool, Web!Pieces, LessonsAssumption
  <2>2. Web!TypeOK'
    BY <1>i, <2>1, ZenonT(60) DEF Web!TypeOK
  <2>3. WebShape'
    BY <1>i, <2>1 DEF WebShape, PlaceAt, In, Web!Contains
  <2>4. WebAsked'
    BY <1>i, <2>1, WebTypes DEF WebAsked, Asked, Web!AskedToStop
  <2> QED
    BY <2>2, <2>3, <2>4
<1> QED
  BY <1>1, <1>2

\* The steps of the main thread.
LEMMA WebMain ==
  ASSUME LessonsAssumption, WebInv, Web!MainThread
  PROVE  WebInv'
<1>i. Web!TypeOK /\ WebShape /\ WebAsked
  BY DEF WebInv
<1> SUFFICES Web!TypeOK' /\ WebShape' /\ WebAsked'
  BY DEF WebInv
<1>1. CASE Web!IncomingConnection
  <2>1. PICK c \in Clients :
          /\ c = Head(backlog) /\ In(backlog, c)
          /\ Tail(backlog) \in Seq(Clients) /\ Distinct(Tail(backlog))
          /\ \A d : In(Tail(backlog), d) <=> In(backlog, d) /\ d # c
    BY <1>i, <1>1, HeadGoes, WebTypes DEF Web!IncomingConnection, WebShape
  <2>2. /\ main' = c /\ backlog' = Tail(backlog) /\ Web!PoolStart(c)
        /\ UNCHANGED <<listening, linked, events, line, browser, req, arrived, reply, emitted, crashed>>
    BY <1>i, <1>1, <2>1 DEF Web!IncomingConnection
  <2>3. browser[c] = "connected" /\ ~In(jobs, c) /\ c # Nobody /\ \A t \in PoolThreads : work[t] # c
    BY <1>i, <2>1 DEF WebShape, PlaceAt, LessonsAssumption
  <2>4. CASE \E t \in PoolThreads : work[t] = Nobody
    <3>1. PICK t \in PoolThreads : /\ work[t] = Nobody /\ work' = [work EXCEPT ![t] = c]
                                   /\ run' = [run EXCEPT ![t] = "waiting"] /\ UNCHANGED jobs
      BY <1>i, <2>2, <2>4 DEF Web!PoolStart
    <3>2. Web!TypeOK'
      BY <1>i, <2>1, <2>2, <3>1 DEF Web!TypeOK
    <3>3. WebShape'
      <4>1. \A d \in Clients : PlaceAt(d)'
        BY <1>i, <2>1, <2>2, <2>3, <3>1, WebTypes DEF WebShape, PlaceAt
      <4> QED
        BY <1>i, <2>1, <2>2, <2>3, <3>1, <4>1, WebTypes DEF WebShape
    <3>4. WebAsked'
      BY <1>i, <2>2, <3>1, WebTypes DEF WebAsked, Asked, Web!AskedToStop
    <3> QED
      BY <3>2, <3>3, <3>4
  <2>5. CASE ~\E t \in PoolThreads : work[t] = Nobody
    <3>1. jobs' = Append(jobs, c) /\ UNCHANGED <<work, run>>
      BY <1>i, <2>2, <2>5 DEF Web!PoolStart
    <3>2. jobs' \in Seq(Clients) /\ Distinct(jobs') /\ \A d : In(jobs', d) <=> In(jobs, d) \/ d = c
      BY <1>i, <2>3, <3>1, LastComes, WebTypes DEF WebShape
    <3>3. Web!TypeOK'
      BY <1>i, <2>1, <2>2, <3>1, <3>2 DEF Web!TypeOK
    <3>4. WebShape'
      <4>1. \A d \in Clients : PlaceAt(d)'
        BY <1>i, <2>1, <2>2, <2>3, <3>1, <3>2 DEF WebShape, PlaceAt
      <4> QED
        BY <1>i, <2>1, <2>2, <3>1, <3>2, <4>1 DEF WebShape
    <3>5. WebAsked'
      BY <1>i, <2>2, <3>1 DEF WebAsked, Asked, Web!AskedToStop
    <3> QED
      BY <3>3, <3>4, <3>5
  <2> QED
    BY <2>4, <2>5
<1>2. CASE Web!ConnectController
  <2>1. /\ main \in Clients /\ linked' = linked \cup {main} /\ main' = Nobody
        /\ UNCHANGED <<listening, backlog, events, jobs, work, run, line, browser, req, arrived, reply,
                       emitted, crashed>>
    <3>1. main \in Clients
      BY <1>i, <1>2 DEF Web!ConnectController, Web!TypeOK
    <3> QED
      BY <1>2, <3>1 DEF Web!ConnectController, Web!Pool
  <2>2. Web!TypeOK'
    BY <1>i, <2>1 DEF Web!TypeOK
  <2>3. WebShape'
    BY <1>i, <2>1 DEF WebShape, PlaceAt, In, Web!Contains
  <2>4. WebAsked'
    BY <1>i, <2>1 DEF WebAsked, Asked, Web!AskedToStop
  <2> QED
    BY <2>2, <2>3, <2>4
<1>3. CASE Web!StopServer
  <2>1. /\ events > 0 /\ events' = events - 1 /\ listening' = FALSE /\ backlog' = <<>>
        /\ browser' = [c \in Clients |-> IF In(backlog, c) THEN "reset" ELSE browser[c]]
        /\ UNCHANGED <<main, linked, jobs, work, run, line, req, arrived, reply, emitted, crashed>>
    BY <1>i, <1>3 DEF Web!StopServer, Web!Pool, In
  <2>2. backlog' \in Seq(Clients) /\ Distinct(backlog') /\ \A c : ~In(backlog', c)
    BY <1>i, <2>1, SMT DEF Distinct, In, Web!Contains
  <2>3. Web!TypeOK'
    <3>1. events' \in Nat /\ browser' \in [Clients -> {"new", "connected", "closed", "reset"}]
      BY <1>i, <2>1, WebTypes
    <3> QED
      BY <1>i, <2>1, <2>2, <3>1 DEF Web!TypeOK
  <2>4. WebShape'
    <3>1. \A c \in Clients : PlaceAt(c)'
      BY <1>i, <2>1, <2>2 DEF WebShape, PlaceAt
    <3> QED
      BY <1>i, <2>1, <2>2, <3>1 DEF WebShape
  <2>5. WebAsked'
    BY <1>i, <2>1 DEF WebAsked, Asked, Web!AskedToStop
  <2> QED
    BY <2>3, <2>4, <2>5
<1> QED
  BY <1>i, <1>1, <1>2, <1>3 DEF Web!MainThread

\* The steps of a thread of the pool.
LEMMA WebRun ==
  ASSUME LessonsAssumption, WebInv, NEW t \in PoolThreads, Web!Run(t)
  PROVE  WebInv'
<1>i. Web!TypeOK /\ WebShape /\ WebAsked
  BY DEF WebInv
<1> SUFFICES Web!TypeOK' /\ WebShape' /\ WebAsked'
  BY DEF WebInv
<1>0. /\ run[t] # "idle" /\ work[t] \in Clients /\ browser[work[t]] = "connected"
      /\ UNCHANGED <<listening, backlog, main, linked, req, arrived>>
  <2>1. run[t] # "idle"
    BY <1>i DEF Web!Run, Web!ReadLine, Web!EmitStop, Web!Reply, Web!NoReply, Web!ReadBeyondLine, Web!Disconnect
  <2>2. work[t] \in Clients /\ browser[work[t]] = "connected"
    BY <1>i, <2>1, WebTypes DEF WebShape, PlaceAt
  <2>3. UNCHANGED <<listening, backlog, main, linked, req, arrived>>
    BY <1>i DEF Web!Run, Web!ReadLine, Web!EmitStop, Web!Reply, Web!NoReply, Web!ReadBeyondLine, Web!Disconnect
  <2> QED
    BY <2>1, <2>2, <2>3
\* Where the thread keeps its client, and is at another place.
<1>1. ASSUME UNCHANGED <<browser, jobs, work>>,
             \E p \in {"waiting", "read", "done"} : run' = [run EXCEPT ![t] = p]
      PROVE  WebShape'
  <2>1. \A u \in PoolThreads : work'[u] = Nobody <=> run'[u] = "idle"
    BY <1>i, <1>0, <1>1, WebTypes DEF WebShape, LessonsAssumption
  <2>2. \A c \in Clients : PlaceAt(c)'
    BY <1>i, <1>0, <1>1 DEF WebShape, PlaceAt
  <2> QED
    BY <1>i, <1>0, <1>1, <2>1, <2>2 DEF WebShape
<1>2. CASE Web!ReadLine(t)
  <2>1. Web!Parsed(work[t]) \in Web!Lines
        /\ (Web!Parsed(work[t]) = "exit" => Web!AskedToStop(work[t]))
    BY <1>i, <1>0, WebTypes DEF Web!AskedToStop, Web!Parsed, Web!Lines, Web!Requests, Web!Gets
  <2>2. Web!TypeOK'
    BY <1>i, <1>0, <1>2, <2>1 DEF Web!ReadLine, Web!TypeOK
  <2>3. WebShape'
    BY <1>i, <1>1, <1>2 DEF Web!ReadLine
  <2>4. WebAsked'
    BY <1>i, <1>0, <1>2, <2>1, WebTypes DEF Web!ReadLine, WebAsked, Asked, Web!AskedToStop
  <2> QED
    BY <2>2, <2>3, <2>4
<1>3. CASE Web!EmitStop(t)
  <2> PICK c \in Clients : c = work[t]
    BY <1>0
  <2>1. /\ run[t] = "read" /\ line[t] = "exit" /\ run' = [run EXCEPT ![t] = "done"]
        /\ UNCHANGED <<jobs, work, line, browser, reply, crashed>>
        /\ \/ c \in linked /\ events' = events + 1 /\ emitted' = [emitted EXCEPT ![c] = "posted"]
           \/ c \notin linked /\ UNCHANGED events /\ emitted' = [emitted EXCEPT ![c] = "lost"]
    BY <1>i, <1>3 DEF Web!EmitStop
  <2>2. Web!TypeOK'
    <3>1. events' \in Nat /\ emitted' \in [Clients -> {"no", "posted", "lost"}]
          /\ run' \in [PoolThreads -> {"idle", "waiting", "read", "done"}]
      BY <1>i, <2>1, WebTypes
    <3> QED
      BY <1>i, <1>0, <2>1, <3>1 DEF Web!TypeOK
  <2>3. WebShape'
    BY <1>1, <2>1
  <2>4. Web!AskedToStop(c) /\ browser[c] # "new"
    BY <1>i, <1>0, <2>1 DEF WebAsked
  <2>5. WebAsked'
    <3>1. CASE c \in linked /\ events' = events + 1 /\ emitted' = [emitted EXCEPT ![c] = "posted"]
      <4>1. Asked(c)'
        BY <1>i, <1>0, <2>1, <2>4, <3>1, WebTypes DEF Asked, Web!AskedToStop
      <4>2. \A d \in Clients : emitted'[d] = "posted" => d \in linked' /\ browser'[d] # "new"
        BY <1>i, <1>0, <2>1, <2>4, <3>1, WebTypes DEF WebAsked
      <4> QED
        BY <1>i, <1>0, <2>1, <4>1, <4>2, WebTypes DEF WebAsked, Web!AskedToStop
    <3>2. CASE c \notin linked /\ UNCHANGED events /\ emitted' = [emitted EXCEPT ![c] = "lost"]
      <4>1. \A d \in Clients : Asked(d) => Asked(d)'
        BY <1>i, <1>0, <2>1, <3>2, WebTypes DEF Asked, Web!AskedToStop, WebAsked
      <4>2. \A d \in Clients : emitted'[d] = "posted" => d \in linked' /\ browser'[d] # "new"
        BY <1>i, <1>0, <2>1, <3>2, WebTypes DEF WebAsked
      <4> QED
        BY <1>i, <1>0, <2>1, <3>2, <4>1, <4>2, WebTypes DEF WebAsked, Web!AskedToStop
    <3> QED
      BY <2>1, <3>1, <3>2
  <2> QED
    BY <2>2, <2>3, <2>5
<1>4. CASE Web!Reply(t)
  <2>1. Web!TypeOK'
    BY <1>i, <1>0, <1>4 DEF Web!Reply, Web!TypeOK
  <2>2. WebShape'
    BY <1>i, <1>1, <1>4 DEF Web!Reply
  <2>3. WebAsked'
    <3>1. /\ run[t] = "read" /\ run' = [run EXCEPT ![t] = "done"]
          /\ UNCHANGED <<events, work, line, browser, emitted>>
      BY <1>4 DEF Web!Reply
    <3> QED
      BY <1>i, <1>0, <3>1, WebTypes DEF WebAsked, Asked, Web!AskedToStop
  <2> QED
    BY <2>1, <2>2, <2>3
<1>5. CASE Web!NoReply(t)
  <2>1. Web!TypeOK'
    BY <1>i, <1>0, <1>5 DEF Web!NoReply, Web!TypeOK
  <2>2. WebShape'
    BY <1>i, <1>1, <1>5 DEF Web!NoReply
  <2>3. WebAsked'
    BY <1>i, <1>0, <1>5, WebTypes DEF Web!NoReply, WebAsked, Asked, Web!AskedToStop
  <2> QED
    BY <2>1, <2>2, <2>3
<1>6. CASE Web!ReadBeyondLine(t)
  <2>1. crashed' = TRUE /\ UNCHANGED <<events, jobs, work, run, line, browser, reply, emitted>>
    BY <1>i, <1>6 DEF Web!ReadBeyondLine, Web!Pool
  <2>2. Web!TypeOK'
    BY <1>i, <1>0, <2>1 DEF Web!TypeOK
  <2>3. WebShape'
    BY <1>i, <1>0, <2>1 DEF WebShape, PlaceAt, In, Web!Contains
  <2>4. WebAsked'
    BY <1>i, <1>0, <2>1 DEF WebAsked, Asked, Web!AskedToStop
  <2> QED
    BY <2>2, <2>3, <2>4
<1>7. CASE Web!Disconnect(t)
  <2> PICK c \in Clients : c = work[t]
    BY <1>0
  <2>1. /\ browser' = [browser EXCEPT ![c] = "closed"] /\ line' = [line EXCEPT ![t] = "unknown"]
        /\ UNCHANGED <<events, reply, emitted, crashed>>
    BY <1>i, <1>7 DEF Web!Disconnect
  <2>2. WebAsked'
    <3>1. \A u \in PoolThreads : run'[u] = "read" /\ line'[u] = "exit" =>
            u # t /\ run[u] = "read" /\ line[u] = "exit" /\ work'[u] = work[u]
      BY <1>i, <1>7, <2>1, WebTypes DEF Web!Disconnect
    <3>2. \A d \in Clients : emitted'[d] = "posted" => d \in linked' /\ browser'[d] # "new"
      BY <1>i, <1>0, <2>1, WebTypes DEF WebAsked
    <3> QED
      BY <1>i, <1>0, <2>1, <3>1, <3>2 DEF WebAsked, Asked, Web!AskedToStop
  <2>3. c # Nobody /\ ~In(backlog, c) /\ ~In(jobs, c) /\ \A u \in PoolThreads : work[u] = c => u = t
    BY <1>i DEF WebShape, PlaceAt, LessonsAssumption
  <2>4. CASE jobs = <<>>
    <3>1. work' = [work EXCEPT ![t] = Nobody] /\ run' = [run EXCEPT ![t] = "idle"] /\ UNCHANGED jobs
      BY <1>i, <1>7, <2>4 DEF Web!Disconnect
    <3>2. Web!TypeOK'
      BY <1>i, <1>0, <2>1, <3>1 DEF Web!TypeOK, Web!Lines
    <3>3. \A d \in Clients : PlaceAt(d)'
      BY <1>i, <1>0, <2>1, <2>3, <3>1, WebTypes, SMTT(30) DEF WebShape, PlaceAt, In, Web!Contains, LessonsAssumption
    <3>4. WebShape'
      BY <1>i, <1>0, <3>1, <3>3, WebTypes DEF WebShape
    <3> QED
      BY <2>2, <3>2, <3>4
  <2>5. CASE jobs # <<>>
    <3>1. PICK e \in Clients :
            /\ e = Head(jobs) /\ In(jobs, e)
            /\ Tail(jobs) \in Seq(Clients) /\ Distinct(Tail(jobs))
            /\ \A d : In(Tail(jobs), d) <=> In(jobs, d) /\ d # e
      BY <1>i, <2>5, HeadGoes, WebTypes DEF WebShape
    <3>2. work' = [work EXCEPT ![t] = e] /\ run' = [run EXCEPT ![t] = "waiting"] /\ jobs' = Tail(jobs)
      BY <1>i, <1>7, <2>5, <3>1 DEF Web!Disconnect
    <3>3. e # c /\ e # Nobody /\ browser[e] = "connected" /\ ~In(backlog, e)
          /\ \A u \in PoolThreads : work[u] # e
      BY <1>i, <2>3, <3>1 DEF WebShape, PlaceAt, LessonsAssumption
    <3>4. Web!TypeOK'
      BY <1>i, <1>0, <2>1, <3>1, <3>2 DEF Web!TypeOK, Web!Lines
    <3>5. \A d \in Clients : In(backlog', d) <=> In(backlog, d)
      BY <1>0
    <3>6. \A d \in Clients : PlaceAt(d)'
      BY <1>i, <2>1, <2>3, <3>1, <3>2, <3>3, <3>5, WebTypes DEF WebShape, PlaceAt
    <3>7. WebShape'
      BY <1>i, <1>0, <3>1, <3>2, <3>3, <3>6, WebTypes DEF WebShape
    <3> QED
      BY <2>2, <3>4, <3>7
  <2> QED
    BY <2>4, <2>5
<1> QED
  BY <1>i, <1>2, <1>3, <1>4, <1>5, <1>6, <1>7 DEF Web!Run

LEMMA WebMoves ==
  ASSUME LessonsAssumption, WebInv, [Web!Next]_(Web!vars)
  PROVE  WebInv'
<1>1. CASE Web!Next
  BY <1>1, WebClient, WebMain, WebRun DEF Web!Next
<1>2. CASE UNCHANGED Web!vars
  <2>1. Web!TypeOK'
    BY <1>2 DEF Web!vars, WebInv, Web!TypeOK
  <2>2. WebShape'
    BY <1>2 DEF Web!vars, WebInv, WebShape, PlaceAt
  <2>3. WebAsked'
    BY <1>2 DEF Web!vars, WebInv, WebAsked, Asked, Web!AskedToStop
  <2> QED
    BY <2>1, <2>2, <2>3 DEF WebInv
<1> QED
  BY <1>1, <1>2

LEMMA WebHolds ==
  ASSUME WebInv
  PROVE  WebIsOrderly
<1>1. ASSUME NEW c \in Clients
      PROVE  IF browser[c] = "connected" THEN \E x \in Web!Places(c) : Web!Places(c) = {x}
                                         ELSE Web!Places(c) = {}
  <2>1. PlaceAt(c)
    BY DEF WebInv, WebShape
  <2>2. Web!Places(c) = (IF In(backlog, c) THEN {"backlog"} ELSE {})
                          \cup (IF In(jobs, c) THEN {"jobs"} ELSE {})
                          \cup {t \in PoolThreads : work[t] = c}
    BY DEF Web!Places, In
  <2>3. CASE browser[c] # "connected"
    <3>1. ~In(backlog, c) /\ ~In(jobs, c) /\ {t \in PoolThreads : work[t] = c} = {}
      BY <2>1, <2>3 DEF PlaceAt
    <3> QED
      BY <2>2, <2>3, <3>1
  <2>4. CASE browser[c] = "connected" /\ In(backlog, c)
    <3>1. ~In(jobs, c) /\ {t \in PoolThreads : work[t] = c} = {}
      BY <2>1, <2>4 DEF PlaceAt
    <3> QED
      BY <2>2, <2>4, <3>1
  <2>5. CASE browser[c] = "connected" /\ In(jobs, c)
    <3>1. ~In(backlog, c) /\ {t \in PoolThreads : work[t] = c} = {}
      BY <2>1, <2>5 DEF PlaceAt
    <3> QED
      BY <2>2, <2>5, <3>1
  <2>6. CASE browser[c] = "connected" /\ ~In(backlog, c) /\ ~In(jobs, c)
    <3>1. PICK t \in PoolThreads : work[t] = c
      BY <2>1, <2>6 DEF PlaceAt
    <3>2. {u \in PoolThreads : work[u] = c} = {t}
      BY <2>1, <3>1 DEF PlaceAt
    <3> QED
      BY <2>2, <2>6, <3>2
  <2> QED
    BY <2>3, <2>4, <2>5, <2>6
<1>2. Web!OnePlace
  BY <1>1 DEF WebInv, Web!OnePlace
<1>3. Web!StopsOnlyOnRequest
  BY DEF WebInv, WebAsked, Asked, Web!AskedToStop, Web!StopsOnlyOnRequest
<1> QED
  BY <1>2, <1>3 DEF WebIsOrderly

\* http-server: for any number of clients and of threads in the pool, each
\* connection is in the backlog, in the queue of the pool or with one thread,
\* from the accept to its end, and the server stops listening only for a client
\* that asked for the exit page, or for a page whose path begins with its name
\* and was cut there.
THEOREM WebStaysOrderly == AllSpec => []WebIsOrderly
<1>1. AllInit => WebInv
  BY LessonsAssumption, WebInit DEF AllInit
<1>2. WebInv /\ [AllNext]_all => WebInv'
  BY LessonsAssumption, OneMoves, WebMoves
<1>3. WebInv => WebIsOrderly
  BY WebHolds
<1> QED BY <1>1, <1>2, <1>3, PTL DEF AllSpec

-----------------------------------------------------------------------------
(***************************************************************************)
(* TcpEcho.                                                                *)
(***************************************************************************)
\* Some numbers have a least one.
LEMMA Smallest ==
  ASSUME NEW T, T \subseteq Nat, T # {}
  PROVE  \E x \in T : \A y \in T : x <= y
<1> DEFINE R == OpToRel(<, Nat)
<1>1. IsWellFoundedOn(R, Nat)
  BY NatLessThanWellFounded, Zenon
<1>2. \A x, y \in Nat : y < x => <<y, x>> \in R
  BY Zenon DEF OpToRel
<1> HIDE DEF R
<1>3. PICK x \in T : \A y \in T : ~(<<y, x>> \in R)
  BY <1>1, WFMin
<1>4. \A y \in T : ~(y < x)
  BY <1>2, <1>3
<1> QED
  BY <1>4

\* Bytes in the order in which they were typed, k of which there are so far.
Ordered(s, k) ==
  /\ s \in Seq(Nat)
  /\ \A i, j \in 1 .. Len(s) : i < j => s[i] < s[j]
  /\ \A i \in 1 .. Len(s) : 1 <= s[i] /\ s[i] <= k

\* The first b bytes that were typed, and nothing before or between them.
Begins(s, b) == b <= Len(s) /\ \A i \in 1 .. b : s[i] = i

\* What is between two parts can be left out, and if it comes after the
\* beginning, that stays.
LEMMA DropMiddle ==
  ASSUME NEW a \in Seq(Nat), NEW m \in Seq(Nat), NEW c \in Seq(Nat), NEW k \in Nat, NEW b \in Nat,
         Ordered(a \o (m \o c), k)
  PROVE  /\ Ordered(a \o c, k)
         /\ Begins(a \o (m \o c), b) /\ b <= Len(a) => Begins(a \o c, b)
<1> DEFINE s == a \o (m \o c)
           t == a \o c
<1>1. /\ Len(a) \in Nat /\ Len(m) \in Nat /\ Len(c) \in Nat
      /\ m \o c \in Seq(Nat) /\ Len(m \o c) = Len(m) + Len(c)
      /\ \A i \in 1 .. Len(m) + Len(c) : (m \o c)[i] = IF i <= Len(m) THEN m[i] ELSE c[i - Len(m)]
  BY ConcatProperties, LenProperties
<1>2. /\ s \in Seq(Nat) /\ Len(s) = Len(a) + (Len(m) + Len(c))
      /\ \A i \in 1 .. Len(a) + (Len(m) + Len(c)) : s[i] = IF i <= Len(a) THEN a[i] ELSE (m \o c)[i - Len(a)]
  BY <1>1, ConcatProperties
<1>3. /\ t \in Seq(Nat) /\ Len(t) = Len(a) + Len(c)
      /\ \A i \in 1 .. Len(a) + Len(c) : t[i] = IF i <= Len(a) THEN a[i] ELSE c[i - Len(a)]
  BY ConcatProperties
<1> DEFINE to(i) == IF i <= Len(a) THEN i ELSE i + Len(m)
<1> HIDE DEF s, t
<1>4. ASSUME NEW i \in 1 .. Len(t)
      PROVE  to(i) \in 1 .. Len(s) /\ t[i] = s[to(i)]
  <2> PICK la \in Nat, lm \in Nat, lc \in Nat : la = Len(a) /\ lm = Len(m) /\ lc = Len(c)
    BY <1>1
  <2>0. /\ Len(t) = la + lc /\ Len(s) = la + (lm + lc) /\ i \in 1 .. la + lc
        /\ to(i) = IF i <= la THEN i ELSE i + lm
    BY <1>2, <1>3
  <2>1. CASE i <= la
    <3>1. i \in 1 .. la + (lm + lc)
      BY <2>0, <2>1
    <3>2. t[i] = a[i] /\ s[i] = a[i]
      BY <1>2, <1>3, <2>0, <2>1, <3>1
    <3> QED
      BY <2>0, <2>1, <3>1, <3>2
  <2>2. CASE i > la
    <3> DEFINE j == i + lm
    <3>1. /\ j \in 1 .. la + (lm + lc) /\ i - la \in 1 .. lc /\ ~(j <= la) /\ ~(i <= la)
          /\ j - la \in 1 .. lm + lc /\ ~(j - la <= lm) /\ (j - la) - lm = i - la
      BY <2>0, <2>2
    <3> HIDE DEF j
    <3>2. s[j] = (m \o c)[j - la]
      BY <1>2, <3>1
    <3>3. (m \o c)[j - la] = c[i - la]
      BY <1>1, <3>1
    <3>4. t[i] = c[i - la]
      BY <1>3, <2>0, <3>1
    <3>5. to(i) = j
      BY <2>0, <3>1 DEF j
    <3> HIDE DEF to
    <3> QED
      BY <2>0, <3>1, <3>2, <3>3, <3>4, <3>5
  <2> QED
    BY <2>0, <2>1, <2>2
<1>5. \A i, j \in 1 .. Len(t) : i < j => to(i) < to(j)
  BY <1>1, <1>3
<1>6. Ordered(s, k)
  BY DEF s
<1> HIDE DEF to
<1>7. Ordered(t, k)
  BY <1>3, <1>4, <1>5, <1>6 DEF Ordered
<1>8. ASSUME Begins(s, b), b <= Len(a)
      PROVE  Begins(t, b)
  <2>1. ASSUME NEW i \in 1 .. b
        PROVE  t[i] = i
    <3>1. i \in 1 .. Len(a) + Len(c) /\ i \in 1 .. Len(a) + (Len(m) + Len(c)) /\ i <= Len(a)
      BY <1>1, <1>8
    <3>2. t[i] = a[i] /\ s[i] = a[i] /\ s[i] = i
      BY <1>2, <1>3, <1>8, <3>1 DEF Begins
    <3> QED
      BY <3>2
  <2>2. b <= Len(t)
    BY <1>1, <1>3, <1>8
  <2> QED
    BY <2>1, <2>2 DEF Begins
<1> QED
  BY <1>7, <1>8 DEF s, t

\* What is typed next comes last.
LEMMA TypeMore ==
  ASSUME NEW s, NEW k \in Nat, NEW n \in Nat, NEW b \in Nat, NEW d \in Nat,
         Ordered(s, k)
  PROVE  LET q == [i \in 1 .. n |-> k + i]
         IN  /\ q \in Seq(Nat) /\ Ordered(s \o q, k + n)
             /\ Begins(s, b) => Begins(s \o q, b)
             /\ Begins(s, k) /\ d <= k + n => Begins(s \o q, d)
<1> DEFINE q == [i \in 1 .. n |-> k + i]
           t == s \o q
<1>1. /\ q \in Seq(Nat) /\ Len(q) = n /\ \A i \in 1 .. n : q[i] = k + i
      /\ s \in Seq(Nat) /\ Len(s) \in Nat
  BY SMT DEF Ordered
<1> HIDE DEF q
<1>2. /\ t \in Seq(Nat) /\ Len(t) = Len(s) + n
      /\ \A i \in 1 .. Len(s) + n : t[i] = IF i <= Len(s) THEN s[i] ELSE q[i - Len(s)]
  BY <1>1, ConcatProperties
<1> HIDE DEF t
<1>3. \A i \in 1 .. Len(s) : t[i] = s[i] /\ 1 <= s[i] /\ s[i] <= k /\ s[i] \in Nat
  BY <1>1, <1>2 DEF Ordered
<1>4. \A i \in Len(s) + 1 .. Len(s) + n : t[i] = k + (i - Len(s))
  <2> SUFFICES ASSUME NEW i \in Len(s) + 1 .. Len(s) + n
               PROVE  t[i] = k + (i - Len(s))
    OBVIOUS
  <2>1. i - Len(s) \in 1 .. n /\ ~(i <= Len(s)) /\ i \in 1 .. Len(s) + n
    BY <1>1
  <2> QED
    BY <1>1, <1>2, <2>1
<1> PICK l \in Nat : l = Len(s)
  BY <1>1
<1>l. /\ Len(t) = l + n
      /\ \A i \in 1 .. l : t[i] = s[i] /\ 1 <= s[i] /\ s[i] <= k /\ s[i] \in Nat
      /\ \A i \in l + 1 .. l + n : t[i] = k + (i - l)
      /\ \A i, j \in 1 .. l : i < j => s[i] < s[j]
  BY <1>2, <1>3, <1>4 DEF Ordered
<1>5. Ordered(t, k + n)
  <2>1. ASSUME NEW i \in 1 .. l + n, NEW j \in 1 .. l + n, i < j
        PROVE  t[i] < t[j]
    <3>1. CASE j <= l
      <4>1. i \in 1 .. l /\ j \in 1 .. l
        BY <2>1, <3>1
      <4> QED
        BY <1>l, <2>1, <4>1
    <3>2. CASE i <= l /\ j > l
      <4>1. i \in 1 .. l /\ j \in l + 1 .. l + n /\ j - l >= 1
        BY <2>1, <3>2
      <4>2. t[i] <= k /\ t[i] \in Nat /\ t[j] = k + (j - l)
        BY <1>l, <4>1
      <4> QED
        BY <4>1, <4>2
    <3>3. CASE i > l
      <4>1. i \in l + 1 .. l + n /\ j \in l + 1 .. l + n
        BY <2>1, <3>3
      <4>2. t[i] = k + (i - l) /\ t[j] = k + (j - l)
        BY <1>l, <4>1
      <4> QED
        BY <2>1, <4>2
    <3> QED
      BY <2>1, <3>1, <3>2, <3>3
  <2>2. ASSUME NEW i \in 1 .. l + n
        PROVE  1 <= t[i] /\ t[i] <= k + n
    <3>1. CASE i <= l
      <4>1. i \in 1 .. l
        BY <3>1
      <4> QED
        BY <1>l, <4>1
    <3>2. CASE i > l
      <4>1. i \in l + 1 .. l + n /\ 1 <= i - l /\ i - l <= n
        BY <3>2
      <4>2. t[i] = k + (i - l)
        BY <1>l, <4>1
      <4> QED
        BY <4>1, <4>2
    <3> QED
      BY <3>1, <3>2
  <2> QED
    BY <1>2, <1>l, <2>1, <2>2 DEF Ordered
<1>6. ASSUME Begins(s, b)
      PROVE  Begins(t, b)
  <2>1. ASSUME NEW i \in 1 .. b
        PROVE  t[i] = i
    <3>1. i \in 1 .. l /\ s[i] = i
      BY <1>6 DEF Begins
    <3> QED
      BY <1>l, <3>1
  <2> QED
    BY <1>6, <1>l, <2>1 DEF Begins
<1>7. ASSUME Begins(s, k), d <= k + n
      PROVE  Begins(t, d)
  <2>1. Len(s) = k
    <3> SUFFICES ASSUME Len(s) > k PROVE FALSE
      BY <1>1, <1>7 DEF Begins
    <3>1. k + 1 \in 1 .. Len(s) /\ s[k + 1] <= k /\ s[k + 1] >= 1 /\ s[k + 1] \in Nat
      BY <1>1, <1>3
    <3>2. k > 0 => k \in 1 .. Len(s) /\ s[k] = k /\ s[k] < s[k + 1]
      BY <1>1, <1>7, <3>1 DEF Begins, Ordered
    <3> QED
      BY <3>1, <3>2
  <2>2. \A i \in 1 .. k : t[i] = i
    BY <1>3, <1>7, <2>1 DEF Begins
  <2>3. \A i \in k + 1 .. k + n : t[i] = i
    BY <1>4, <2>1
  <2> QED
    BY <1>2, <1>7, <2>1, <2>2, <2>3 DEF Begins
<1> QED
  BY <1>1, <1>5, <1>6, <1>7 DEF q, t

\* Cutting a stream loses and moves nothing.
LEMMA TakenRest ==
  ASSUME NEW S, NEW s \in Seq(S), NEW n \in 0 .. Len(s)
  PROVE  /\ Echo!Taken(s, n) \in Seq(S) /\ Len(Echo!Taken(s, n)) = n
         /\ \A i \in 1 .. n : Echo!Taken(s, n)[i] = s[i]
         /\ Echo!Rest(s, n) \in Seq(S) /\ Len(Echo!Rest(s, n)) = Len(s) - n
         /\ Echo!Taken(s, n) \o Echo!Rest(s, n) = s
<1>1. Len(s) \in Nat /\ \A i \in 1 .. Len(s) : s[i] \in S
  BY LenProperties, ElementOfSeq
<1> PICK l \in Nat : l = Len(s)
  BY <1>1
<1>2. n \in 0 .. l /\ n \in Int
  OBVIOUS
<1>3. /\ SubSeq(s, 1, n) \in Seq(S) /\ Len(SubSeq(s, 1, n)) = n
      /\ \A i \in 1 .. n : SubSeq(s, 1, n)[i] = s[i]
  <2>1. \A i \in 1 .. n : s[i] \in S
    BY <1>1, <1>2
  <2>2. /\ SubSeq(s, 1, n) \in Seq(S)
        /\ Len(SubSeq(s, 1, n)) = IF 1 <= n THEN n - 1 + 1 ELSE 0
        /\ \A i \in 1 .. n - 1 + 1 : SubSeq(s, 1, n)[i] = s[1 + i - 1]
    <3>1. 1 \in Int /\ n \in Int
      BY <1>2
    <3> QED
      BY <2>1, <3>1, SubSeqProperties
  <2>3. n - 1 + 1 = n /\ (~(1 <= n) => n = 0) /\ \A i \in 1 .. n : 1 + i - 1 = i
    BY <1>2
  <2> QED
    BY <2>2, <2>3
<1>4. SubSeq(s, n + 1, l) \in Seq(S) /\ Len(SubSeq(s, n + 1, l)) = l - n
  <2>1. \A i \in n + 1 .. l : s[i] \in S
    BY <1>1, <1>2
  <2>2. /\ SubSeq(s, n + 1, l) \in Seq(S)
        /\ Len(SubSeq(s, n + 1, l)) = IF n + 1 <= l THEN l - (n + 1) + 1 ELSE 0
    <3>1. n + 1 \in Int /\ l \in Int
      BY <1>2
    <3> QED
      BY <2>1, <3>1, SubSeqProperties
  <2> QED
    BY <1>2, <2>2
<1>5. SubSeq(s, 1, n) \o SubSeq(s, n + 1, l) = s
  <2>1. 1 \in 1 .. Len(s) + 1 /\ n \in 1 - 1 .. Len(s) /\ l \in n .. Len(s)
    BY <1>1, <1>2
  <2>2. SubSeq(s, 1, n) \o SubSeq(s, n + 1, l) = SubSeq(s, 1, l)
    BY <2>1, ConcatAdjacentSubSeq, Zenon
  <2>3. SubSeq(s, 1, Len(s)) = s
    BY SubSeqFull
  <2> QED
    BY <2>2, <2>3
<1> QED
  BY <1>3, <1>4, <1>5 DEF Echo!Taken, Echo!Rest

\* A C string is the beginning of what was received, and what follows it there
\* is a zero byte.
LEMMA CStringBegins ==
  ASSUME NEW S, NEW s \in Seq(S)
  PROVE  \E m \in 0 .. Len(s) :
           /\ Echo!CString(s) = Echo!Taken(s, m)
           /\ m < Len(s) => s[m + 1] \in Zeros
<1>1. Len(s) \in Nat /\ DOMAIN s = 1 .. Len(s)
  BY LenProperties
<1>2. CASE \E i \in DOMAIN s : s[i] \in Zeros
  <2> DEFINE T == {i \in DOMAIN s : s[i] \in Zeros}
             First(i) == i \in DOMAIN s /\ s[i] \in Zeros /\ \A j \in 1 .. i - 1 : s[j] \notin Zeros
             x == CHOOSE i \in DOMAIN s : s[i] \in Zeros /\ \A j \in 1 .. i - 1 : s[j] \notin Zeros
  <2>1. T \subseteq Nat /\ T # {}
    BY <1>1, <1>2
  <2>2. PICK i \in T : \A y \in T : i <= y
    <3> HIDE DEF T
    <3> QED BY <2>1, Smallest
  <2>3. \A j \in 1 .. i - 1 : s[j] \notin Zeros
    <3> SUFFICES ASSUME NEW j \in 1 .. i - 1, s[j] \in Zeros PROVE FALSE
      OBVIOUS
    <3>1. i \in 1 .. Len(s)
      BY <1>1, <2>2
    <3>2. j \in 1 .. Len(s) /\ j < i
      BY <1>1, <3>1
    <3> QED BY <1>1, <2>2, <3>1, <3>2
  <2>4. First(x)
    BY <2>2, <2>3, Zenon
  <2>5. Echo!CString(s) = Echo!Taken(s, x - 1)
    BY <1>2, Zenon DEF Echo!CString
  <2> HIDE DEF x
  <2>6. x - 1 \in 0 .. Len(s) /\ (x - 1) + 1 = x
    BY <1>1, <2>4
  <2> QED
    BY <2>4, <2>5, <2>6
<1>3. CASE ~\E i \in DOMAIN s : s[i] \in Zeros
  <2>1. Echo!CString(s) = s
    BY <1>3, Zenon DEF Echo!CString
  <2>2. Echo!Taken(s, Len(s)) = s
    BY SubSeqFull DEF Echo!Taken
  <2> QED
    BY <1>1, <2>1, <2>2
<1> QED
  BY <1>2, <1>3

\* How far the bytes go that were typed before the first zero byte: up to the
\* end, or to a byte that comes before every zero byte there is.
Before(k) ==
  IF \E z \in Zeros : z <= k
    THEN (CHOOSE z \in Zeros : \A y \in Zeros : z <= y) - 1
    ELSE k

Clear(b, k) == b \in 0 .. k /\ \A z \in Zeros : z <= k => b < z

LEMMA ClearSoFar ==
  ASSUME NEW k \in Nat
  PROVE  Clear(Before(k), k) /\ (Before(k) = k \/ Before(k) + 1 \in Zeros)
<1> DEFINE Least(x) == x \in Zeros /\ \A y \in Zeros : x <= y
           z == CHOOSE x \in Zeros : \A y \in Zeros : x <= y
<1>0. Zeros \subseteq Nat \ {0}
  BY LessonsAssumption DEF LessonsAssumption
<1>1. CASE \E x \in Zeros : x <= k
  <2>1. Zeros \subseteq Nat /\ Zeros # {}
    BY <1>0, <1>1
  <2>2. \E x \in Zeros : \A y \in Zeros : x <= y
    BY <2>1, Smallest
  <2>3. Least(z)
    BY <2>2, Zenon
  <2>4. Before(k) = z - 1
    BY <1>1, Zenon DEF Before
  <2> HIDE DEF z
  <2>5. PICK x \in Zeros : x <= k
    BY <1>1
  <2>6. z \in Nat /\ z # 0 /\ x \in Nat /\ z <= x
    BY <1>0, <2>3, <2>5
  <2>7. z - 1 \in 0 .. k /\ (z - 1) + 1 = z
    BY <2>5, <2>6
  <2>8. \A y \in Zeros : z - 1 < y
    BY <1>0, <2>3, <2>6
  <2> QED
    BY <2>3, <2>4, <2>7, <2>8 DEF Clear
<1>2. CASE ~\E x \in Zeros : x <= k
  <2>1. Before(k) = k
    BY <1>2, Zenon DEF Before
  <2> QED
    BY <1>2, <2>1 DEF Clear
<1> QED
  BY <1>1, <1>2

LEMMA BeforeZeroIs ==
  Echo!BeforeZero = Before(typed) /\ (Echo!BeforeZero)' = Before(typed')
BY DEF Echo!BeforeZero, Before

\* One typed more: the bytes before the first zero byte were all there were, or
\* they are still those at most.
LEMMA BeforeNext ==
  ASSUME NEW k \in Nat, NEW n \in Nat
  PROVE  /\ Before(k) \in Nat /\ Before(k + n) \in Nat /\ Before(k + n) <= k + n
         /\ Before(k) = k \/ Before(k + n) <= Before(k)
<1>1. k + n \in Nat
  OBVIOUS
<1>2. Clear(Before(k), k) /\ (Before(k) = k \/ Before(k) + 1 \in Zeros)
  BY ClearSoFar
<1>3. Clear(Before(k + n), k + n)
  BY <1>1, ClearSoFar
<1>4. ASSUME Before(k) # k
      PROVE  Before(k + n) <= Before(k)
  <2>1. Before(k) + 1 \in Zeros /\ Before(k) \in Nat /\ Before(k) + 1 <= k + n
    BY <1>2, <1>4 DEF Clear
  <2> QED
    BY <1>3, <2>1 DEF Clear
<1> QED
  BY <1>2, <1>3, <1>4 DEF Clear

\* Joining is associative, and a part that moves from the head of one buffer to
\* the end of the one before leaves what they hold together as it was.
Joins(a, b, c) == (a \o b) \o c = a \o (b \o c)
Slides(a, b, c, d) == (a \o (b \o c)) \o d = (a \o b) \o (c \o d)

LEMMA Joined == \A a, b, c \in Seq(Nat) : Joins(a, b, c)
<1> SUFFICES ASSUME NEW a \in Seq(Nat), NEW b \in Seq(Nat), NEW c \in Seq(Nat)
             PROVE  (a \o b) \o c = a \o (b \o c)
  BY Zenon DEF Joins
<1> QED
  BY SMTT(60)

LEMMA Slide == \A a, b, c, d \in Seq(Nat) : Slides(a, b, c, d)
<1> SUFFICES ASSUME NEW a \in Seq(Nat), NEW b \in Seq(Nat), NEW c \in Seq(Nat), NEW d \in Seq(Nat)
             PROVE  (a \o (b \o c)) \o d = (a \o b) \o (c \o d)
  BY Zenon DEF Slides
<1> QED
  BY SMTT(60)

\* The first of what comes after some sequence.
LEMMA NextComes ==
  ASSUME NEW a \in Seq(Nat), NEW q \in Seq(Nat), Len(q) >= 1
  PROVE  (a \o q)[Len(a) + 1] = q[1] /\ Len(a) + 1 \in 1 .. Len(a \o q)
<1> PICK p : p = a \o q
  OBVIOUS
<1>1. PICK la \in Nat, lq \in Nat : la = Len(a) /\ lq = Len(q)
  BY LenProperties
<1>2. Len(p) = la + lq /\ \A i \in 1 .. la + lq : p[i] = IF i <= la THEN a[i] ELSE q[i - la]
  BY <1>1, ConcatProperties
<1>3. la + 1 \in 1 .. la + lq /\ ~(la + 1 <= la) /\ la + 1 - la = 1
  BY <1>1
<1>4. p[la + 1] = q[1]
  BY <1>2, <1>3
<1> QED
  BY <1>1, <1>2, <1>3, <1>4

\* EchoInOrder is inductive but for what the server holds while it receives;
\* Ordered and Begins say its two halves with bounds on the bytes.
EchoInv ==
  /\ Echo!TypeOK
  /\ server = "recv" => held = <<>>
  /\ Ordered(Echo!Pipeline, typed)
  /\ client \notin Echo!Gone => Begins(Echo!Pipeline, Before(typed))

\* What the proofs take from the types: everything is bytes.
LEMMA EchoBytes ==
  ASSUME Echo!TypeOK
  PROVE  /\ toSend \in Seq(Echo!Bytes) /\ up \in Seq(Echo!Bytes) /\ held \in Seq(Echo!Bytes)
         /\ down \in Seq(Echo!Bytes) /\ got \in Seq(Echo!Bytes)
         /\ toSend \in Seq(Nat) /\ up \in Seq(Nat) /\ held \in Seq(Nat)
         /\ down \in Seq(Nat) /\ got \in Seq(Nat)
         /\ typed \in Nat
<1>1. /\ toSend \in Seq(Echo!Bytes) /\ up \in Seq(Echo!Bytes) /\ held \in Seq(Echo!Bytes)
      /\ down \in Seq(Echo!Bytes) /\ got \in Seq(Echo!Bytes)
  BY Zenon DEF Echo!TypeOK
<1>2. typed \in Nat
  BY SMT, LessonsAssumption DEF Echo!TypeOK, LessonsAssumption
<1>3. Echo!Bytes \subseteq Nat
  BY DEF Echo!Bytes
<1>4. \A s \in Seq(Echo!Bytes) : s \in Seq(Nat)
  BY <1>3, SeqMonotonic, Zenon
<1> QED
  BY <1>1, <1>2, <1>4, Zenon

\* What a step moves is bytes, and fits.
LEMMA EchoTypes ==
  ASSUME EchoInv, [Echo!Next]_(Echo!vars)
  PROVE  Echo!TypeOK' /\ (server = "recv" => held = <<>>)'
<1> DEFINE Here == /\ typed \in 0 .. Total
                   /\ client \in {"prompt", "sending", "reading"} \cup Echo!Gone
                   /\ server \in {"recv", "sending", "killed", "spinning", "ended"}
                   /\ client = "sending" <=> toSend # <<>>
                   /\ server = "recv" => held = <<>>
           Fit == Len(up) <= UpRoom /\ Len(down) <= DownRoom /\ Len(held) <= ServerBuf
           Are == /\ toSend \in Seq(Echo!Bytes) /\ up \in Seq(Echo!Bytes) /\ held \in Seq(Echo!Bytes)
                  /\ down \in Seq(Echo!Bytes) /\ got \in Seq(Echo!Bytes)
<1>1. Here /\ Fit
  BY Zenon DEF EchoInv, Echo!TypeOK
<1>2. Are
  BY EchoBytes DEF EchoInv
<1>3. /\ Total \in Nat /\ UpRoom \in Nat /\ DownRoom \in Nat /\ ServerBuf \in Nat
  BY LessonsAssumption DEF LessonsAssumption
<1>4. \A q \in Seq(Echo!Bytes) : Len(q) \in Nat /\ (q = <<>> => Len(q) = 0)
  BY LenProperties, EmptySeq
<1>5. <<>> \in Seq(Echo!Bytes) /\ Len(<<>>) = 0
  BY EmptySeq
<1>c. \A q, r \in Seq(Echo!Bytes) : q \o r \in Seq(Echo!Bytes) /\ Len(q \o r) = Len(q) + Len(r)
  BY ConcatProperties
<1>t. \A q \in Seq(Echo!Bytes) : \A n \in 1 .. Len(q) :
        /\ Echo!Taken(q, n) \in Seq(Echo!Bytes) /\ Len(Echo!Taken(q, n)) = n
        /\ Echo!Rest(q, n) \in Seq(Echo!Bytes) /\ Len(Echo!Rest(q, n)) = Len(q) - n
  <2> TAKE q \in Seq(Echo!Bytes)
  <2> TAKE n \in 1 .. Len(q)
  <2>1. n \in 0 .. Len(q)
    BY <1>4
  <2> QED BY <2>1, TakenRest
<1> SUFFICES Here' /\ Fit' /\ Are'
  BY Zenon DEF Echo!TypeOK
<1> HIDE DEF Are
<1>7. CASE Echo!Request
  <2>1. PICK n \in 2 .. Total - typed : toSend' = [i \in 1 .. n |-> typed + i] /\ typed' = typed + n
    BY <1>7 DEF Echo!Request
  <2>2. typed' \in 0 .. Total /\ \A i \in 1 .. n : typed + i \in 1 .. Total
    BY <1>1, <1>3, <2>1
  <2>3. toSend' \in Seq(Echo!Bytes) /\ Len(toSend') = n
    BY <2>1, <2>2, SMT DEF Echo!Bytes
  <2>4. toSend' # <<>>
    BY <1>5, <2>1, <2>3
  <2> QED
    BY <1>1, <1>2, <1>7, <2>2, <2>3, <2>4 DEF Echo!Request, Are
<1>8. CASE Echo!Quit
  <2>1. UNCHANGED <<typed, toSend, up, held, got, server>> /\ down' = <<>> /\ toSend = <<>>
        /\ client' \in Echo!Gone
    BY <1>1, <1>8 DEF Echo!Quit, Echo!Gone
  <2> QED
    BY <1>1, <1>2, <1>3, <1>5, <2>1 DEF Are, Echo!Gone
<1>9. CASE Echo!ClientSend
  <2>1. PICK n \in 1 .. Len(toSend) : /\ n <= UpRoom - Len(up)
                                      /\ up' = up \o Echo!Taken(toSend, n)
                                      /\ toSend' = Echo!Rest(toSend, n)
    BY <1>9 DEF Echo!ClientSend
  <2>2. /\ up' \in Seq(Echo!Bytes) /\ toSend' \in Seq(Echo!Bytes) /\ Len(up') = Len(up) + n
        /\ Len(up) \in Nat
    <3>1. toSend \in Seq(Echo!Bytes) /\ up \in Seq(Echo!Bytes)
      BY <1>2 DEF Are
    <3>2. /\ Echo!Taken(toSend, n) \in Seq(Echo!Bytes) /\ Len(Echo!Taken(toSend, n)) = n
          /\ Echo!Rest(toSend, n) \in Seq(Echo!Bytes)
      BY <1>t, <3>1, Zenon
    <3> QED
      BY <1>4, <1>c, <2>1, <3>1, <3>2, Zenon
  <2>3. Len(up') <= UpRoom
    BY <1>3, <2>1, <2>2
  <2> QED
    BY <1>1, <1>2, <1>9, <2>2, <2>3 DEF Echo!ClientSend, Are
<1>10. CASE Echo!ClientRecv
  <2>1. PICK n \in 1 .. Len(down) : got' = got \o Echo!Taken(down, n) /\ down' = Echo!Rest(down, n)
    BY <1>10 DEF Echo!ClientRecv
  <2>2. /\ got' \in Seq(Echo!Bytes) /\ down' \in Seq(Echo!Bytes) /\ Len(down') = Len(down) - n
        /\ Len(down) \in Nat
    BY <1>2, <1>4, <1>c, <1>t, <2>1 DEF Are
  <2>3. Len(down') <= DownRoom
    BY <1>1, <1>3, <2>1, <2>2
  <2> QED
    BY <1>1, <1>2, <1>10, <2>2, <2>3 DEF Echo!ClientRecv, Are
<1>11. CASE Echo!ServerRecv
  <2>1. PICK n \in 1 .. Len(up) : /\ n <= ServerBuf
                                  /\ held' = Echo!CString(Echo!Taken(up, n))
                                  /\ up' = Echo!Rest(up, n)
    BY <1>11 DEF Echo!ServerRecv
  <2>2. up' \in Seq(Echo!Bytes) /\ Len(up') = Len(up) - n /\ Len(up) \in Nat
    BY <1>2, <1>4, <1>t, <2>1 DEF Are
  <2>3. Echo!Taken(up, n) \in Seq(Echo!Bytes) /\ Len(Echo!Taken(up, n)) = n
    BY <1>2, <1>t, <2>1 DEF Are
  <2>4. PICK m \in 0 .. n : held' = Echo!Taken(Echo!Taken(up, n), m)
    BY <2>1, <2>3, CStringBegins
  <2>5. held' \in Seq(Echo!Bytes) /\ Len(held') = m
    BY <2>3, <2>4, TakenRest
  <2>6. Len(up') <= UpRoom /\ Len(held') <= ServerBuf
    BY <1>1, <1>3, <2>1, <2>2, <2>4, <2>5
  <2> QED
    BY <1>1, <1>2, <1>11, <2>2, <2>5, <2>6 DEF Echo!ServerRecv, Are
<1>12. CASE Echo!ServerSend
  <2>1. PICK n \in 1 .. Len(held) : /\ n <= DownRoom - Len(down)
                                    /\ down' = down \o Echo!Taken(held, n)
                                    /\ held' = Echo!Rest(held, n)
    BY <1>12 DEF Echo!ServerSend
  <2>2. /\ down' \in Seq(Echo!Bytes) /\ held' \in Seq(Echo!Bytes) /\ Len(down') = Len(down) + n
        /\ Len(held') = Len(held) - n /\ Len(down) \in Nat /\ Len(held) \in Nat
    <3>1. held \in Seq(Echo!Bytes) /\ down \in Seq(Echo!Bytes)
      BY <1>2 DEF Are
    <3>2. /\ Echo!Taken(held, n) \in Seq(Echo!Bytes) /\ Len(Echo!Taken(held, n)) = n
          /\ Echo!Rest(held, n) \in Seq(Echo!Bytes) /\ Len(Echo!Rest(held, n)) = Len(held) - n
      BY <1>t, <3>1, Zenon
    <3> QED
      BY <1>4, <1>c, <2>1, <3>1, <3>2, Zenon
  <2>3. Len(down') <= DownRoom /\ Len(held') <= ServerBuf
    BY <1>1, <1>3, <2>1, <2>2
  <2> QED
    BY <1>1, <1>2, <1>12, <2>2, <2>3 DEF Echo!ServerSend, Are
<1>13. CASE Echo!ServerSendLost
  <2>1. PICK n \in 1 .. Len(held) : held' = Echo!Rest(held, n)
    BY <1>13 DEF Echo!ServerSendLost
  <2>2. held' \in Seq(Echo!Bytes) /\ Len(held') = Len(held) - n /\ Len(held) \in Nat
    BY <1>2, <1>4, <1>t, <2>1 DEF Are
  <2>3. Len(held') <= ServerBuf
    BY <1>1, <1>3, <2>1, <2>2
  <2> QED
    BY <1>1, <1>2, <1>13, <2>2, <2>3 DEF Echo!ServerSendLost, Echo!Gone, Are
<1>14. CASE Echo!ClientRecvNothing \/ Echo!ServerSendFails \/ Echo!ServerEnds
  BY <1>1, <1>2, <1>14 DEF Echo!ClientRecvNothing, Echo!ServerSendFails, Echo!ServerEnds, Are
<1>15. CASE UNCHANGED Echo!vars
  BY <1>1, <1>2, <1>15 DEF Echo!vars, Are
<1> QED
  BY <1>7, <1>8, <1>9, <1>10, <1>11, <1>12, <1>13, <1>14, <1>15
  DEF Echo!Next, Echo!ClientSteps, Echo!ServerSteps

\* A sequence cut in two.
LEMMA Cut ==
  ASSUME NEW s \in Seq(Nat), NEW n \in 1 .. Len(s)
  PROVE  \E x, y \in Seq(Nat) : x = Echo!Taken(s, n) /\ y = Echo!Rest(s, n) /\ x \o y = s
<1>1. n \in 0 .. Len(s)
  BY LenProperties
<1>2. /\ Echo!Taken(s, n) \in Seq(Nat) /\ Echo!Rest(s, n) \in Seq(Nat)
      /\ Echo!Taken(s, n) \o Echo!Rest(s, n) = s
  BY <1>1, TakenRest
<1> QED
  BY <1>2, Zenon

InOrder ==
  /\ Ordered(Echo!Pipeline, typed)
  /\ client \notin Echo!Gone => Begins(Echo!Pipeline, Before(typed))

\* A step that leaves the stream as it is, cut at other places.
LEMMA SameStream ==
  ASSUME InOrder, Echo!Pipeline' = Echo!Pipeline, typed' = typed,
         client' \notin Echo!Gone => client \notin Echo!Gone
  PROVE  InOrder'
<1>1. Ordered(Echo!Pipeline', typed')
  BY Zenon DEF InOrder
<1>2. client' \notin Echo!Gone => Begins(Echo!Pipeline', Before(typed'))
  BY Zenon DEF InOrder
<1> QED
  BY <1>1, <1>2, Zenon DEF InOrder

LEMMA EchoRequest ==
  ASSUME Echo!TypeOK, InOrder, Echo!Request
  PROVE  InOrder'
<1>1. PICK n \in 2 .. Total - typed : toSend' = [i \in 1 .. n |-> typed + i] /\ typed' = typed + n
  BY DEF Echo!Request
<1>2. /\ UNCHANGED <<up, held, down, got>> /\ client \notin Echo!Gone /\ client' \notin Echo!Gone
  BY DEF Echo!Request, Echo!Gone
<1>3. toSend = <<>>
  BY Zenon DEF Echo!Request, Echo!TypeOK
<1> PICK k \in Nat : k = typed
  BY EchoBytes
<1>4. n \in Nat /\ k + n \in Nat
  BY <1>1
<1> PICK e \in Seq(Nat) : e = got \o down \o held \o up
  BY EchoBytes, ConcatProperties
<1>5. Echo!Pipeline = e
  <2>1. Echo!Pipeline = e \o <<>>
    BY <1>3, Zenon DEF Echo!Pipeline
  <2> QED
    BY <2>1, ConcatEmptySeq
<1>6. Echo!Pipeline' = e \o [i \in 1 .. n |-> k + i]
  BY <1>1, <1>2, Zenon DEF Echo!Pipeline
<1>7. Ordered(e, k) /\ Begins(e, Before(k))
  BY <1>2, <1>5, Zenon DEF InOrder
<1>8. /\ Before(k) \in Nat /\ Before(k + n) \in Nat /\ Before(k + n) <= k + n
      /\ Before(k) = k \/ Before(k + n) <= Before(k)
  BY <1>4, BeforeNext
<1> DEFINE t == e \o [i \in 1 .. n |-> k + i]
<1>9. /\ Ordered(t, k + n)
      /\ Begins(e, Before(k)) => Begins(t, Before(k))
      /\ Begins(e, k) => Begins(t, Before(k + n))
  BY <1>4, <1>7, <1>8, TypeMore
<1> HIDE DEF t
<1>10. Begins(t, Before(k + n))
  <2>1. CASE Before(k) = k
    BY <1>7, <1>9, <2>1
  <2>2. CASE Before(k + n) <= Before(k)
    <3>1. Begins(t, Before(k)) /\ Len(t) \in Nat
      BY <1>7, <1>9, LenProperties DEF Ordered
    <3> PICK x \in Nat, y \in Nat : x = Before(k) /\ y = Before(k + n)
      BY <1>8
    <3> QED
      BY <2>2, <3>1 DEF Begins
  <2> QED
    BY <1>8, <2>1, <2>2
<1> QED
  BY <1>1, <1>6, <1>9, <1>10, Zenon DEF InOrder, t

LEMMA EchoQuit ==
  ASSUME Echo!TypeOK, InOrder, Echo!Quit
  PROVE  InOrder'
<1>1. UNCHANGED <<typed, toSend, up, held, got>> /\ down' = <<>> /\ client' \in Echo!Gone
  BY DEF Echo!Quit, Echo!Gone
<1>2. toSend = <<>>
  BY Zenon DEF Echo!Quit, Echo!TypeOK
<1>b. up \in Seq(Nat) /\ held \in Seq(Nat) /\ down \in Seq(Nat) /\ got \in Seq(Nat) /\ typed \in Nat
  BY EchoBytes
<1> PICK c \in Seq(Nat) : c = held \o up
  BY <1>b, ConcatProperties
<1> PICK a \in Seq(Nat), m \in Seq(Nat) : a = got /\ m = down
  BY <1>b
<1>3. Echo!Pipeline = a \o (m \o c)
  <2>1. PICK f \in Seq(Nat) : f = a \o m
    BY ConcatProperties
  <2>2. (f \o held) \o up = f \o c
    <3>1. Joins(f, held, up)
      BY <1>b, Joined
    <3>2. c = held \o up
      OBVIOUS
    <3> QED
      BY <3>1, <3>2, Zenon DEF Joins
  <2>3. f \o c = a \o (m \o c)
    <3>1. (a \o m) \o c = a \o (m \o c)
      <4>1. Joins(a, m, c)
        BY Joined
      <4> QED
        BY <4>1, Zenon DEF Joins
    <3> QED
      BY <2>1, <3>1, Zenon
  <2>4. PICK g \in Seq(Nat) : g = f \o c
    BY ConcatProperties
  <2>5. Echo!Pipeline = g \o <<>>
    BY <1>2, <2>1, <2>2, <2>4, Zenon DEF Echo!Pipeline
  <2>6. g \o <<>> = g
    BY ConcatEmptySeq
  <2> QED
    BY <2>3, <2>4, <2>5, <2>6, Zenon
<1>4. Echo!Pipeline' = a \o c
  <2>1. a \o <<>> = a
    BY ConcatEmptySeq
  <2>2. (a \o held) \o up = a \o c
    <3>1. Joins(a, held, up)
      BY <1>b, Joined
    <3>2. c = held \o up
      OBVIOUS
    <3> QED
      BY <3>1, <3>2, Zenon DEF Joins
  <2>4. PICK g \in Seq(Nat) : g = a \o c
    BY ConcatProperties
  <2>5. Echo!Pipeline' = g \o <<>>
    BY <1>1, <1>2, <2>1, <2>2, <2>4, Zenon DEF Echo!Pipeline
  <2>6. g \o <<>> = g
    BY ConcatEmptySeq
  <2> QED
    BY <2>4, <2>5, <2>6, Zenon
<1>5. Ordered(a \o (m \o c), typed)
  BY <1>3, Zenon DEF InOrder
<1>6. Ordered(a \o c, typed)
  <2>1. 0 \in Nat
    OBVIOUS
  <2> QED
    BY <1>5, <1>b, <2>1, DropMiddle, Zenon
<1> QED
  BY <1>1, <1>4, <1>6, Zenon DEF InOrder

LEMMA EchoClientSend ==
  ASSUME Echo!TypeOK, InOrder, Echo!ClientSend
  PROVE  InOrder'
<1>b. toSend \in Seq(Nat) /\ up \in Seq(Nat) /\ held \in Seq(Nat) /\ down \in Seq(Nat) /\ got \in Seq(Nat)
  BY EchoBytes
<1>1. PICK n \in 1 .. Len(toSend) : up' = up \o Echo!Taken(toSend, n) /\ toSend' = Echo!Rest(toSend, n)
  BY DEF Echo!ClientSend
<1>2. UNCHANGED <<typed, held, down, got>> /\ client \notin Echo!Gone
  BY DEF Echo!ClientSend, Echo!Gone
<1>3. PICK x \in Seq(Nat), y \in Seq(Nat) :
        x = Echo!Taken(toSend, n) /\ y = Echo!Rest(toSend, n) /\ x \o y = toSend
  BY <1>b, Cut
<1>4. PICK e \in Seq(Nat), u \in Seq(Nat) : e = got \o down \o held /\ u = up
  BY <1>b, ConcatProperties
<1>5. Echo!Pipeline = (e \o u) \o (x \o y)
  BY <1>3, <1>4, Zenon DEF Echo!Pipeline
<1>6. Echo!Pipeline' = (e \o (u \o x)) \o y
  BY <1>1, <1>2, <1>3, <1>4, Zenon DEF Echo!Pipeline
<1>7. (e \o (u \o x)) \o y = (e \o u) \o (x \o y)
  <2>1. Slides(e, u, x, y)
    BY Slide
  <2> QED
    BY <2>1, Zenon DEF Slides
<1>8. Echo!Pipeline' = Echo!Pipeline
  BY <1>5, <1>6, <1>7, Zenon
<1> QED
  BY <1>2, <1>8, SameStream

LEMMA EchoClientRecv ==
  ASSUME Echo!TypeOK, InOrder, Echo!ClientRecv
  PROVE  InOrder'
<1>b. toSend \in Seq(Nat) /\ up \in Seq(Nat) /\ held \in Seq(Nat) /\ down \in Seq(Nat) /\ got \in Seq(Nat)
  BY EchoBytes
<1>1. PICK n \in 1 .. Len(down) : got' = got \o Echo!Taken(down, n) /\ down' = Echo!Rest(down, n)
  BY DEF Echo!ClientRecv
<1>2. UNCHANGED <<typed, toSend, up, held, client>>
  BY DEF Echo!ClientRecv
<1>3. PICK x \in Seq(Nat), y \in Seq(Nat) :
        x = Echo!Taken(down, n) /\ y = Echo!Rest(down, n) /\ x \o y = down
  BY <1>b, Cut
<1>4. PICK g \in Seq(Nat) : g = got
  BY <1>b
<1>5. (g \o x) \o y = g \o (x \o y)
  <2>1. Joins(g, x, y)
    BY Joined
  <2> QED
    BY <2>1, Zenon DEF Joins
<1>6. got' \o down' = got \o down
  BY <1>1, <1>3, <1>4, <1>5, Zenon
<1>7. Echo!Pipeline' = Echo!Pipeline
  BY <1>2, <1>6, Zenon DEF Echo!Pipeline
<1> QED
  BY <1>2, <1>7, SameStream

LEMMA EchoServerSend ==
  ASSUME Echo!TypeOK, InOrder, Echo!ServerSend
  PROVE  InOrder'
<1>b. toSend \in Seq(Nat) /\ up \in Seq(Nat) /\ held \in Seq(Nat) /\ down \in Seq(Nat) /\ got \in Seq(Nat)
  BY EchoBytes
<1>1. PICK n \in 1 .. Len(held) : down' = down \o Echo!Taken(held, n) /\ held' = Echo!Rest(held, n)
  BY DEF Echo!ServerSend
<1>2. UNCHANGED <<typed, toSend, up, got, client>>
  BY DEF Echo!ServerSend
<1>3. PICK x \in Seq(Nat), y \in Seq(Nat) :
        x = Echo!Taken(held, n) /\ y = Echo!Rest(held, n) /\ x \o y = held
  BY <1>b, Cut
<1>4. PICK g \in Seq(Nat), d \in Seq(Nat) : g = got /\ d = down
  BY <1>b
<1>5. (g \o (d \o x)) \o y = (g \o d) \o (x \o y)
  <2>1. Slides(g, d, x, y)
    BY Slide
  <2> QED
    BY <2>1, Zenon DEF Slides
<1>6. (got' \o down') \o held' = (got \o down) \o held
  BY <1>1, <1>2, <1>3, <1>4, <1>5, Zenon
<1>7. Echo!Pipeline' = Echo!Pipeline
  BY <1>2, <1>6, Zenon DEF Echo!Pipeline
<1> QED
  BY <1>2, <1>7, SameStream

\* What the end of the C string cuts off came after a zero byte, and so after
\* every byte that was typed before the first of them.
LEMMA EchoServerRecv ==
  ASSUME Echo!TypeOK, InOrder, Echo!ServerRecv, held = <<>>
  PROVE  InOrder'
<1>b. /\ toSend \in Seq(Nat) /\ up \in Seq(Nat) /\ held \in Seq(Nat) /\ down \in Seq(Nat) /\ got \in Seq(Nat)
      /\ typed \in Nat
  BY EchoBytes
<1>1. PICK n \in 1 .. Len(up) : held' = Echo!CString(Echo!Taken(up, n)) /\ up' = Echo!Rest(up, n)
  BY DEF Echo!ServerRecv
<1>2. UNCHANGED <<typed, toSend, down, got, client>>
  BY DEF Echo!ServerRecv
<1>3. PICK s \in Seq(Nat), r \in Seq(Nat) :
        s = Echo!Taken(up, n) /\ r = Echo!Rest(up, n) /\ s \o r = up
  BY <1>b, Cut
<1>4. PICK m \in 0 .. Len(s) : Echo!CString(s) = Echo!Taken(s, m) /\ (m < Len(s) => s[m + 1] \in Zeros)
  BY CStringBegins
<1>5. PICK x \in Seq(Nat), y \in Seq(Nat) : /\ x = Echo!Taken(s, m) /\ y = Echo!Rest(s, m) /\ x \o y = s
                                            /\ Len(x) = m /\ Len(y) = Len(s) - m
  BY TakenRest
<1>6. PICK e \in Seq(Nat), t \in Seq(Nat) : e = got \o down /\ t = toSend
  BY <1>b, ConcatProperties
<1>7. PICK a \in Seq(Nat), c \in Seq(Nat) : a = e \o x /\ c = r \o t
  BY ConcatProperties
<1>8. Echo!Pipeline = a \o (y \o c)
  <2>1. e \o held = e
    BY ConcatEmptySeq
  <2>2. Echo!Pipeline = (e \o (s \o r)) \o t
    BY <1>3, <1>6, <2>1, Zenon DEF Echo!Pipeline
  <2>3. (e \o (s \o r)) \o t = (e \o s) \o (r \o t)
    <3>1. Slides(e, s, r, t)
      BY Slide
    <3> QED
      BY <3>1, Zenon DEF Slides
  <2>4. (e \o x) \o y = e \o (x \o y)
    <3>1. Joins(e, x, y)
      BY Joined
    <3> QED
      BY <3>1, Zenon DEF Joins
  <2>5. e \o s = a \o y
    BY <1>5, <1>7, <2>4, Zenon
  <2>6. (a \o y) \o c = a \o (y \o c)
    <3>1. Joins(a, y, c)
      BY Joined
    <3> QED
      BY <3>1, Zenon DEF Joins
  <2> QED
    BY <1>7, <2>2, <2>3, <2>5, <2>6, Zenon
<1>9. Echo!Pipeline' = a \o c
  <2>1. held' = x /\ up' = r
    BY <1>1, <1>3, <1>4, <1>5, Zenon
  <2>2. Echo!Pipeline' = ((e \o x) \o r) \o t
    BY <1>2, <1>6, <2>1, Zenon DEF Echo!Pipeline
  <2>3. (a \o r) \o t = a \o (r \o t)
    <3>1. Joins(a, r, t)
      BY Joined
    <3> QED
      BY <3>1, Zenon DEF Joins
  <2> QED
    BY <1>7, <2>2, <2>3, Zenon
<1> PICK k \in Nat : k = typed
  BY <1>b
<1> PICK b \in Nat : b = Before(k)
  BY ClearSoFar DEF Clear
<1>10. Ordered(a \o (y \o c), k) /\ (client \notin Echo!Gone => Begins(a \o (y \o c), b))
  BY <1>8, Zenon DEF InOrder
<1>11. /\ Ordered(a \o c, k)
       /\ Begins(a \o (y \o c), b) /\ b <= Len(a) => Begins(a \o c, b)
  BY <1>10, DropMiddle
<1>12. ASSUME Begins(a \o (y \o c), b)
       PROVE  Begins(a \o c, b)
  <2>1. CASE m = Len(s)
    <3>1. Len(y) = 0
      BY <1>5, <2>1, LenProperties
    <3>2. y = <<>>
      BY <3>1, EmptySeq
    <3>3. y \o c = c
      BY <3>2, ConcatEmptySeq
    <3> QED
      BY <1>12, <3>3, Zenon
  <2>2. CASE m < Len(s)
    <3> PICK z \in Zeros : z = s[m + 1]
      BY <1>4, <2>2
    <3>1. Len(y) >= 1 /\ Len(y) \in Nat
      <4>1. Len(s) \in Nat
        BY LenProperties
      <4> QED
        BY <1>5, <2>2, <4>1
    <3>y. y[1] = z
      <4>1. (x \o y)[Len(x) + 1] = y[1]
        BY <3>1, NextComes
      <4> QED
        BY <1>5, <4>1, Zenon
    <3>2. PICK p \in Seq(Nat) : p = a \o (y \o c)
      BY ConcatProperties
    <3>3. p[Len(a) + 1] = z /\ Len(a) + 1 \in 1 .. Len(p) /\ Len(a) \in Nat
      <4>1. PICK q \in Seq(Nat) : q = y \o c
        BY ConcatProperties
      <4>2. Len(q) = Len(y) + Len(c) /\ Len(c) \in Nat
        BY <4>1, ConcatProperties, LenProperties
      <4>3. 1 \in 1 .. Len(y) + Len(c) /\ 1 <= Len(y) /\ Len(q) >= 1
        BY <3>1, <4>2
      <4>4. q[1] = y[1]
        BY <4>1, <4>3, ConcatProperties
      <4>5. (a \o q)[Len(a) + 1] = q[1] /\ Len(a) + 1 \in 1 .. Len(a \o q)
        BY <4>3, NextComes
      <4>6. p = a \o q
        BY <3>2, <4>1, Zenon
      <4>7. Len(a) \in Nat
        BY LenProperties
      <4> QED
        BY <3>y, <4>4, <4>5, <4>6, <4>7, Zenon
    <3>4. z <= k
      BY <1>10, <3>2, <3>3 DEF Ordered
    <3>5. b < z
      BY <3>4, ClearSoFar DEF Clear
    <3>6. b <= Len(a)
      <4> SUFFICES ASSUME ~(b <= Len(a)) PROVE FALSE
        OBVIOUS
      <4>1. Len(a) + 1 \in 1 .. b
        BY <3>3
      <4>2. p[Len(a) + 1] = Len(a) + 1
        BY <1>12, <3>2, <4>1 DEF Begins
      <4> QED
        BY <3>3, <3>5, <4>1, <4>2
    <3> QED
      BY <1>11, <1>12, <3>6
  <2> QED
    BY <1>5, <2>1, <2>2
<1>13. Ordered(Echo!Pipeline', typed')
  BY <1>2, <1>9, <1>11, Zenon
<1>14. client' \notin Echo!Gone => Begins(Echo!Pipeline', Before(typed'))
  BY <1>2, <1>9, <1>10, <1>12, Zenon
<1> QED
  BY <1>13, <1>14, Zenon DEF InOrder

LEMMA EchoServerSendLost ==
  ASSUME Echo!TypeOK, InOrder, Echo!ServerSendLost
  PROVE  InOrder'
<1>b. /\ toSend \in Seq(Nat) /\ up \in Seq(Nat) /\ held \in Seq(Nat) /\ down \in Seq(Nat) /\ got \in Seq(Nat)
      /\ typed \in Nat
  BY EchoBytes
<1>1. PICK n \in 1 .. Len(held) : held' = Echo!Rest(held, n)
  BY DEF Echo!ServerSendLost
<1>2. UNCHANGED <<typed, toSend, up, down, got>> /\ client' \in Echo!Gone
  BY DEF Echo!ServerSendLost, Echo!Gone
<1>3. PICK x \in Seq(Nat), y \in Seq(Nat) : y = Echo!Rest(held, n) /\ x \o y = held
  BY <1>b, Cut
<1>4. PICK a \in Seq(Nat), u \in Seq(Nat), t \in Seq(Nat) : a = got \o down /\ u = up /\ t = toSend
  BY <1>b, ConcatProperties
<1>5. PICK d \in Seq(Nat), c \in Seq(Nat) : d = u \o t /\ c = y \o d
  BY ConcatProperties
<1>6. Echo!Pipeline = a \o (x \o c)
  <2>1. PICK f \in Seq(Nat) : f = a \o x
    BY ConcatProperties
  <2>2. (a \o x) \o y = a \o (x \o y)
    <3>1. Joins(a, x, y)
      BY Joined
    <3> QED
      BY <3>1, Zenon DEF Joins
  <2>3. Echo!Pipeline = ((f \o y) \o u) \o t
    BY <1>3, <1>4, <2>1, <2>2, Zenon DEF Echo!Pipeline
  <2>4. PICK g \in Seq(Nat) : g = f \o y
    BY ConcatProperties
  <2>5. (g \o u) \o t = g \o (u \o t)
    <3>1. Joins(g, u, t)
      BY Joined
    <3> QED
      BY <3>1, Zenon DEF Joins
  <2>6. (f \o y) \o d = f \o (y \o d)
    <3>1. Joins(f, y, d)
      BY Joined
    <3> QED
      BY <3>1, Zenon DEF Joins
  <2>7. (a \o x) \o c = a \o (x \o c)
    <3>1. Joins(a, x, c)
      BY Joined
    <3> QED
      BY <3>1, Zenon DEF Joins
  <2>8. Echo!Pipeline = g \o d
    BY <1>5, <2>3, <2>4, <2>5, Zenon
  <2>9. Echo!Pipeline = f \o c
    BY <1>5, <2>4, <2>6, <2>8, Zenon
  <2> QED
    BY <2>1, <2>7, <2>9, Zenon
<1>7. Echo!Pipeline' = a \o c
  <2>1. Echo!Pipeline' = ((a \o y) \o u) \o t
    BY <1>1, <1>2, <1>3, <1>4, Zenon DEF Echo!Pipeline
  <2>2. PICK g \in Seq(Nat) : g = a \o y
    BY ConcatProperties
  <2>3. (g \o u) \o t = g \o (u \o t)
    <3>1. Joins(g, u, t)
      BY Joined
    <3> QED
      BY <3>1, Zenon DEF Joins
  <2>4. (a \o y) \o d = a \o (y \o d)
    <3>1. Joins(a, y, d)
      BY Joined
    <3> QED
      BY <3>1, Zenon DEF Joins
  <2> QED
    BY <1>5, <2>1, <2>2, <2>3, <2>4, Zenon
<1>8. Ordered(a \o (x \o c), typed)
  BY <1>6, Zenon DEF InOrder
<1>9. 0 \in Nat
  OBVIOUS
<1>10. Ordered(a \o c, typed)
  BY <1>8, <1>9, <1>b, DropMiddle, Zenon
<1> QED
  BY <1>2, <1>7, <1>10, Zenon DEF InOrder

LEMMA EchoMoves ==
  ASSUME EchoInv, [Echo!Next]_(Echo!vars)
  PROVE  EchoInv'
<1>1. Echo!TypeOK /\ InOrder
  BY DEF EchoInv, InOrder
<1>2. Echo!TypeOK' /\ (server' = "recv" => held' = <<>>)
  BY EchoTypes
<1>3. InOrder'
  <2>1. CASE Echo!Request
    BY <1>1, <2>1, EchoRequest
  <2>2. CASE Echo!Quit
    BY <1>1, <2>2, EchoQuit
  <2>3. CASE Echo!ClientSend
    BY <1>1, <2>3, EchoClientSend
  <2>4. CASE Echo!ClientRecv
    BY <1>1, <2>4, EchoClientRecv
  <2>5. CASE Echo!ServerRecv
    <3>1. held = <<>>
      BY <2>5, Zenon DEF EchoInv, Echo!ServerRecv
    <3> QED
      BY <1>1, <2>5, <3>1, EchoServerRecv
  <2>6. CASE Echo!ServerSend
    BY <1>1, <2>6, EchoServerSend
  <2>7. CASE Echo!ServerSendLost
    BY <1>1, <2>7, EchoServerSendLost
  <2>8. CASE Echo!ClientRecvNothing \/ Echo!ServerSendFails \/ Echo!ServerEnds \/ UNCHANGED Echo!vars
    <3>1. /\ UNCHANGED <<typed, toSend, up, held, down, got>>
          /\ client' \notin Echo!Gone => client \notin Echo!Gone
      BY <2>8 DEF Echo!ClientRecvNothing, Echo!ServerSendFails, Echo!ServerEnds, Echo!vars, Echo!Gone
    <3>2. Echo!Pipeline' = Echo!Pipeline
      BY <3>1, Zenon DEF Echo!Pipeline
    <3> QED
      BY <1>1, <3>1, <3>2, SameStream
  <2> QED
    BY <2>1, <2>2, <2>3, <2>4, <2>5, <2>6, <2>7, <2>8
    DEF Echo!Next, Echo!ClientSteps, Echo!ServerSteps
<1> QED
  BY <1>2, <1>3, Zenon DEF EchoInv, InOrder

LEMMA EchoInit ==
  ASSUME Echo!Init
  PROVE  EchoInv
<1>1. /\ typed = 0 /\ toSend = <<>> /\ up = <<>> /\ held = <<>> /\ down = <<>> /\ got = <<>>
      /\ client = "prompt" /\ server = "recv"
  BY DEF Echo!Init
<1>2. /\ Total \in Nat /\ UpRoom \in Nat /\ DownRoom \in Nat /\ ServerBuf \in Nat
  BY LessonsAssumption DEF LessonsAssumption
<1>3. <<>> \in Seq(Echo!Bytes) /\ <<>> \in Seq(Nat) /\ Len(<<>>) = 0
  BY EmptySeq
<1>4. Echo!TypeOK
  BY <1>1, <1>2, <1>3 DEF Echo!TypeOK
<1>5. Echo!Pipeline = <<>>
  <2>1. <<>> \o <<>> = <<>>
    BY <1>3, ConcatEmptySeq
  <2> QED
    BY <1>1, <2>1, Zenon DEF Echo!Pipeline
<1>6. Ordered(<<>>, 0)
  BY <1>3 DEF Ordered
<1>7. Before(0) = 0
  BY ClearSoFar DEF Clear
<1>8. Begins(<<>>, 0)
  BY <1>3 DEF Begins
<1> QED
  BY <1>1, <1>4, <1>5, <1>6, <1>7, <1>8, Zenon DEF EchoInv

\* TcpEcho::EchoInOrder, for any sizes of the buffers and any zero bytes: what
\* the user typed up to the first zero byte is on its way once and in order,
\* whatever parts the send()s and recv()s of tcp-client and tcp-server take.
THEOREM EchoStaysInOrder == AllSpec => []EchoInOrder
<1>1. AllInit => EchoInv
  BY EchoInit DEF AllInit
<1>2. EchoInv /\ [AllNext]_all => EchoInv'
  BY OneMoves, EchoMoves
<1>3. EchoInv => EchoInOrder
  <2> SUFFICES ASSUME EchoInv PROVE Echo!EchoInOrder
    BY DEF EchoInOrder
  <2>1. Echo!Pipeline \in Seq(Nat)
    BY DEF EchoInv, Ordered
  <2>2. DOMAIN Echo!Pipeline = 1 .. Len(Echo!Pipeline)
    BY <2>1, LenProperties
  <2>3. \A i, j \in 1 .. Len(Echo!Pipeline) : i < j => Echo!Pipeline[i] < Echo!Pipeline[j]
    BY Zenon DEF EchoInv, Ordered
  <2>4. Before(typed) \in Nat /\ Len(Echo!Pipeline) \in Nat
    <3>1. typed \in Nat
      BY EchoBytes DEF EchoInv
    <3> QED
      BY <2>1, <3>1, LenProperties, ClearSoFar DEF Clear
  <2>5. client \notin Echo!Gone =>
          Len(Echo!Pipeline) >= Before(typed) /\ \A i \in 1 .. Before(typed) : Echo!Pipeline[i] = i
    <3>1. client \notin Echo!Gone => Begins(Echo!Pipeline, Before(typed))
      BY Zenon DEF EchoInv
    <3> QED
      BY <2>4, <3>1 DEF Begins
  <2>6. Echo!TypeOK
    BY Zenon DEF EchoInv
  <2> QED
    BY <2>2, <2>3, <2>5, <2>6, BeforeZeroIs, Zenon DEF Echo!EchoInOrder
<1> QED BY <1>1, <1>2, <1>3, PTL DEF AllSpec

=============================================================================
