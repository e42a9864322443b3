SPECIFICATION FairSpec
CONSTANTS
  Threads = {t1}
  Slots = {1, 2}
  Conns = {c1, c2, c3}
  Requests = {"file", "missing"}
  MaxSends = 1
  NoOp = NoOp
PROPERTIES
  RequestIsRead
