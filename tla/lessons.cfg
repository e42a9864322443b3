SPECIFICATION AllFairSpec
\* Echo: nine bytes, the sixth of which is a zero, through directions and
\* buffers of two or three bytes: several recv()s per request, several requests,
\* and requests that do and do not fit both directions.  Web: two clients share
\* one thread (of the twenty of the pool), so that one runnable waits while the
\* other keeps the thread.  Bridge: two packets for each adapter.
CONSTANTS
  Room = 2
  Total = 9
  Zeros = {6}
  UpRoom = 3
  DownRoom = 2
  ServerBuf = 2
  ClientBuf = 2
  Wrap = 4
  PingRoom = 2
  UdpRoom = 1
  Fds = {3, 4, 5}
  EachReceives = 2
  PoolThreads = {t1}
  FirstPieces = {"torn", "verb", "cut", "name", "whole"}
  Clients = {c1, c2}
  Nobody = nobody
INVARIANTS
  EchoInOrder
  OneChainEach
  EchoToSender
  TameIsRecorded
  CaptureIsSafe
  BridgeIsSafe
  WebIsOrderly
PROPERTIES
  EchoGoesOn
  PeerGoesOn
  KeepsPinging
  BridgeEnds
  ConnectionEnds
\* Programs end, and the echo client and server may wait for each other.
CHECK_DEADLOCK FALSE
