SPECIFICATION FairSpec
CONSTANTS
  Servers <- DaytimeServer
  Clients <- DaytimeClient
  PortArgs <- Ports
  PortMod = 65536
  Ephemeral <- KernelPorts
  Byte <- Bytes
  NUL = "nul"
  BUFSIZE = 4
  WebTerminator <- EmptyLine
  BrowserStreams <- Requests
  Hello <- OneWord
  MaxLines = 2
PROPERTY DaytimeReadEnds
CHECK_DEADLOCK FALSE
