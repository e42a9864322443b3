SPECIFICATION FairSpec
CONSTANTS
  MaxRequests = 2
  Kinds = {"head", "expect", "badrange", "getbody", "exit"}
  Forms = {"plain", "chunked", "stream"}
  KeepAliveMax = 2
INVARIANTS
  AnswerIsOwn
  ContentIsWhole
PROPERTIES
  BothGoOn
CHECK_DEADLOCK FALSE
