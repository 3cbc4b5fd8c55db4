SPECIFICATION FairSpec
CONSTANTS
  Lengths <- UpToSeventeen
  Hardware <- UpToSix
  min_per_thread = 3
INVARIANTS TypeOK EveryElementOnce NoThreadLeft
PROPERTY Returns
CHECK_DEADLOCK FALSE
