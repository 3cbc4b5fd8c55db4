SPECIFICATION FairSpec
CONSTANTS
  Conns = {c1, c2, c3}
  Readers = {c1, c2}
  sockfd = sockfd
  NoConn = NoConn
  Backlog = 2
  MaxTasks = 3
  MaxFds = 2
  HasDataHandler = TRUE
  HandlerOutcomes <- AnyOutcome
  AcceptMayFail = TRUE
INVARIANTS TypeOK OnlyItsOwnConnection ResetOnlyByExit ProcessesInStep
PROPERTIES ImplementsService EveryRequestEnds PortReleased
CHECK_DEADLOCK FALSE
