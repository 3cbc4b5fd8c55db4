SPECIFICATION FairSpec
CONSTANTS
  Byte <- Bytes
  NUL = "nul"
  Terminator <- EmptyLine
  BUFSIZE = 2
  Streams <- AllStreams
INVARIANTS TypeOK BufferIsPrefix WholeRequest
PROPERTY RequestReturns
CHECK_DEADLOCK FALSE
