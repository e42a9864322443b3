SPECIFICATION FairSpec
CONSTANTS
  Workers = {t1, t2}
  Conns = {c1, c2}
  KeepAliveMax = 1
  None = None
INVARIANTS
  PoolInv
PROPERTIES
  ContractStep
  StopEndsListen
  AcceptedIsClosed
\* The server ends.
CHECK_DEADLOCK FALSE
