SPECIFICATION FairSpec
CONSTANTS
  Clients = {c1}
  Threads = {t1}
  None = None
  FirstPieces = {"torn", "verb", "cut", "whole"}
PROPERTIES
  ExitStops
CHECK_DEADLOCK FALSE
