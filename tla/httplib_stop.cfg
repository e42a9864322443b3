SPECIFICATION Spec
CONSTANTS
  Workers = {t1, t2}
  Conns = {c1, c2}
  KeepAliveMax = 1
  None = None
INVARIANTS
  StopAssertion
CHECK_DEADLOCK FALSE
