SPECIFICATION AllFairSpec
CONSTANTS
  Threads = {t1, t2}
  None = None
  Proxies = {"none", "anonymous", "known"}
  MaxNested = 2
  Boundary <- MCBoundary
  Contents <- MCContents
  MaxItems = 2
  Epilogues <- MCEpilogues
  CutAnywhere = FALSE
  \* the third descriptor is beyond an fd_set
  MaxAddresses = 3
  FdSetSize = 3
  LineBuffer = 4
  Alphabet <- MCAlphabet
  MaxLength <- MCMaxLength
  MaxOther <- MCMaxOther
INVARIANTS
  SslInUse
  DeliveredIsSent
  TextsAreRight
  SocketIsSound
PROPERTIES
  ClosesOwn
  SendReturns
  BodyIsAccepted
\* A body is read to its end, a text reaches its bound, and after an assertion
\* or a mutex locked twice nothing happens.
CHECK_DEADLOCK FALSE
