SPECIFICATION FairSpec
CONSTANTS
  Programs <- AllPrograms
  ThreadsLimited = TRUE
INVARIANTS TypeOK OneOwner OnlyDetachedDangles EndsAsWritten PrintedWhole
PROPERTY Returns
CHECK_DEADLOCK FALSE
