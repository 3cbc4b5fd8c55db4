SPECIFICATION Spec
CONSTANTS
  Conns = {c1, c2, c3}
  Readers = {c1, c2}
  sockfd = sockfd
  NoConn = NoConn
  Backlog = 2
  MaxTasks = 3
  MaxFds = 2
  HasDataHandler = TRUE
  HandlerOutcomes <- OnlyMessage
  AcceptMayFail = FALSE
INVARIANT IdleServerForks
CHECK_DEADLOCK FALSE
