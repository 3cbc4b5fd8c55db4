SPECIFICATION Spec
CONSTANTS
  Programs <- AllPrograms
  ThreadsLimited = TRUE
INVARIANT GuardAlwaysJoins
CHECK_DEADLOCK FALSE
