SPECIFICATION FairSpec
CONSTANTS
  Conns = {c1, c2, c3}
  Readers = {c1, c2}
  sockfd = sockfd
  NoConn = NoConn
  Backlog = 2
  MaxTasks = 7
  MaxFds = 2
  HasDataHandler = TRUE
  HandlerOutcomes <- OnlyMessage
  AcceptMayFail = FALSE
PROPERTY EveryRequestAnswered
CHECK_DEADLOCK FALSE
