------------------------------ MODULE Lessons ------------------------------
(***************************************************************************)
(* The small programs of lessons 1, 2, 3, 5 and 8, side by side.  They do  *)
(* not interact: `program` is the one that runs, and the others stay where *)
(* they begin.  The chat is the peer of Messenger, which this module       *)
(* extends.                                                                *)
(***************************************************************************)
EXTENDS Messenger

CONSTANTS
  Total, Zeros, UpRoom, DownRoom, ServerBuf, ClientBuf,   \* Echo
  Wrap, PingRoom,                                         \* Pings
  UdpRoom,                                                \* Udp
  Fds,                                                    \* Interceptor
  EachReceives,                                           \* Bridge
  PoolThreads, FirstPieces,                               \* Web
  Clients,                                                \* Udp and Web
  Nobody                                                  \* none of the clients or threads

VARIABLES
  program,
  typed, toSend, up, held, down, got, client, server,     \* Echo
  phase, sequence, underWay, inbox,                       \* Pings
  socket, address, length, received, overrun, echo,       \* Udp
  open, socketFd, isOpen, good, spoilt, tame, missed,     \* Interceptor
  tool, way, acquired, sent, state,                       \* Capture
  bridging, adapters, place, printing, taken, n_fwd,      \* Bridge
  refused, kill_forwaders, handler, process,
  listening, backlog, main, linked, events, jobs, work,   \* Web
  run, line, browser, req, arrived, reply, emitted, crashed

Echo == INSTANCE TcpEcho
Pings == INSTANCE Ping WITH Room <- PingRoom
Udp == INSTANCE UdpEcho WITH Room <- UdpRoom
Interceptor == INSTANCE CallInterceptor
Capture == INSTANCE CaptureTools WITH program <- tool, held <- acquired
Bridge == INSTANCE UserBridge WITH main <- bridging, Packets <- EachReceives
Web == INSTANCE HttpServer WITH
  Threads <- PoolThreads, None <- Nobody, pc <- run, client <- browser

\* What the proofs about these programs rest on: bytes are counted from one and
\* descriptors from zero, and nobody is one of the clients or threads.
ASSUME LessonsAssumption ==
  /\ RoomAssumption
  /\ Bridge!BridgeAssumption
  /\ Total \in Nat /\ Zeros \subseteq Nat \ {0}
  /\ {UpRoom, DownRoom, ServerBuf, ClientBuf} \subseteq Nat
  /\ UdpRoom \in Nat
  /\ Fds \subseteq Nat
  /\ Nobody \notin Clients
  /\ FirstPieces \subseteq Web!Pieces

ofEcho == <<typed, toSend, up, held, down, got, client, server>>
ofPings == <<phase, sequence, underWay, inbox>>
ofUdp == <<socket, address, length, received, overrun, echo>>
ofInterceptor == <<open, socketFd, isOpen, good, spoilt, tame, missed>>
ofCapture == <<tool, way, acquired, sent, state>>
ofBridge == <<bridging, adapters, place, printing, taken, n_fwd, refused,
              kill_forwaders, handler, process>>
ofWeb == <<listening, backlog, main, linked, events, jobs, work, run, line,
           browser, req, arrived, reply, emitted, crashed>>
all == <<program, ofEcho, vars, ofPings, ofUdp, ofInterceptor, ofCapture,
          ofBridge, ofWeb>>

AllInit ==
  /\ program \in {"echo", "chat", "ping", "udp", "interceptor", "capture", "bridge", "web"}
  /\ Echo!Init /\ Init /\ Pings!Init /\ Udp!Init /\ Interceptor!Init
  /\ Capture!Init /\ Bridge!Init /\ Web!Init
  /\ program # "chat" => welcome = "blocked"
  /\ program # "capture" => tool = "iflist"

EchoOnly == program = "echo" /\
  UNCHANGED <<program, vars, ofPings, ofUdp, ofInterceptor, ofCapture,
              ofBridge, ofWeb>>
ChatOnly == program = "chat" /\
  UNCHANGED <<program, ofEcho, ofPings, ofUdp, ofInterceptor, ofCapture,
              ofBridge, ofWeb>>
PingsOnly == program = "ping" /\
  UNCHANGED <<program, ofEcho, vars, ofUdp, ofInterceptor, ofCapture,
              ofBridge, ofWeb>>
UdpOnly == program = "udp" /\
  UNCHANGED <<program, ofEcho, vars, ofPings, ofInterceptor, ofCapture,
              ofBridge, ofWeb>>
InterceptorOnly == program = "interceptor" /\
  UNCHANGED <<program, ofEcho, vars, ofPings, ofUdp, ofCapture,
              ofBridge, ofWeb>>
CaptureOnly == program = "capture" /\
  UNCHANGED <<program, ofEcho, vars, ofPings, ofUdp, ofInterceptor,
              ofBridge, ofWeb>>
BridgeOnly == program = "bridge" /\
  UNCHANGED <<program, ofEcho, vars, ofPings, ofUdp, ofInterceptor,
              ofCapture, ofWeb>>
WebOnly == program = "web" /\
  UNCHANGED <<program, ofEcho, vars, ofPings, ofUdp, ofInterceptor,
              ofCapture, ofBridge>>

AllNext ==
  \/ EchoOnly /\ Echo!Next
  \/ ChatOnly /\ Next
  \/ PingsOnly /\ Pings!Next
  \/ UdpOnly /\ Udp!Next
  \/ InterceptorOnly /\ Interceptor!Next
  \/ CaptureOnly /\ Capture!Next
  \/ BridgeOnly /\ Bridge!Next
  \/ WebOnly /\ Web!Next

AllSpec == AllInit /\ [][AllNext]_all

\* Programs and networks go on, and so does a ping; nobody has to type, to send
\* or to leave.  What an io_context has completed is handled in turn: its queue
\* is first in, first out.
AllFairSpec ==
  /\ AllSpec
  /\ WF_all(EchoOnly /\ Echo!ClientGoesOn)
  /\ WF_all(EchoOnly /\ Echo!ServerSteps)
  /\ WF_all(ChatOnly /\ StartReceiving)
  /\ WF_all(ChatOnly /\ StartSending)
  /\ WF_all(ChatOnly /\ Unblock)
  /\ WF_all(ChatOnly /\ \E t \in Threads : HandleWelcome(t))
  /\ WF_all(ChatOnly /\ \E t \in Threads : HandleSend(t))
  /\ WF_all(ChatOnly /\ \E t \in Threads : HandleReceive(t) \/ HandleReceiveEnd(t))
  /\ WF_all(ChatOnly /\ \E t \in Threads : RunOutOfWork(t))
  /\ WF_all(PingsOnly /\ Pings!Loop)
  /\ WF_all(BridgeOnly /\ Bridge!Handles)
  /\ WF_all(WebOnly /\ ~crashed /\ (Web!IncomingConnection \/ Web!ConnectController))
  /\ WF_all(WebOnly /\ ~crashed /\ Web!StopServer)
  /\ \A t \in PoolThreads : WF_all(WebOnly /\ ~crashed /\ Web!Run(t))

\* The properties of the programs, which hold of those that do not run as well.
EchoInOrder == Echo!EchoInOrder
EchoGoesOn == Echo!EchoGoesOn
KeepsPinging == program = "ping" => Pings!KeepsPinging
EchoToSender == Udp!EchoToSender
TameIsRecorded == Interceptor!TameIsRecorded
CaptureIsSafe == Capture!HandlesAreSafe /\ Capture!SentIsClosed
BridgeIsSafe == Bridge!BridgeIsSafe
BridgeEnds == Bridge!BridgeEnds
WebIsOrderly == Web!OnePlace /\ Web!StopsOnlyOnRequest
ConnectionEnds == Web!ConnectionEnds
=============================================================================
