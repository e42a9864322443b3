SPECIFICATION AllFairSpec
CONSTANTS
  Clients = {c1, c2}
  Logins <- MCLogins
  Passwords = {1, 2}
  Within <- MCWithin
  Backlog = 2
  None = None
  \* one piece, and a session that owes one answer and two alerts at most
  Goal = 1
  MaxSaves = 1
  MaxAlerts = 2
INVARIANTS
  OneEntryPerLogin
  ResumeIsSafe
PROPERTIES
  BookIsKept
  SentIsAnswered
  GoesForward
  InterruptEnds
\* The torrent client ends.
CHECK_DEADLOCK FALSE
