SPECIFICATION FairSpec
CONSTANTS
  Threads = {t1, t2}
  Slots = {1, 2, 3}
  Conns = {c1, c2}
  Requests = {"file", "missing", "unusable"}
  MaxSends = 2
  NoOp = NoOp
INVARIANTS
  OneOperation
  NoUseAfterFree
PROPERTIES
  LeaverIsFreed
