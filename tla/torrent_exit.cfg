SPECIFICATION Spec
CONSTANTS
  Goal = 1
  MaxSaves = 1
  MaxAlerts = 2
INVARIANTS
  SavedBeforeExit
CHECK_DEADLOCK FALSE
