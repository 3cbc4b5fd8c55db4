SPECIFICATION FairSpec
CONSTANTS
  Servers <- AllServers
  Clients <- AllClients
  PortArgs <- Ports
  PortMod = 65536
  Ephemeral <- KernelPorts
  Byte <- Bytes
  NUL = "nul"
  BUFSIZE = 4
  WebTerminator <- EmptyLine
  BrowserStreams <- Requests
  Hello <- OneWord
  MaxLines = 2
INVARIANTS TypeOK ListensAsTold WaitsOnlyForMore CleanEnd
PROPERTIES ImplementsHandleRead SessionEnds
CHECK_DEADLOCK FALSE
