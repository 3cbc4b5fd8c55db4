SPECIFICATION FairSpec
CONSTANTS
  Byte <- Bytes
  NUL = "nul"
  Terminator <- EmptyLine
  BUFSIZE = 2
  Streams <- PostWithBody
PROPERTY MessageReturns
CHECK_DEADLOCK FALSE
