SPECIFICATION Spec
CONSTANTS
  RequestType = {"GET", "POST", "HEAD"}
  Version = {"HTTP/1.1", ""}
  NoVersion = ""
  Resource = {"index.html", "favicon.ico", "test"}
  NoResource = ""
  NotCut = "GET"
  IndexPage = "index.html"
  HtmlPages = {"index.html"}
  IcoPages = {"favicon.ico"}
  HandlerNames = {"test"}
  Unreachable = {"test"}
  Inode = {1, 2, 3}
  None = 0
  Directories = {3}
  Unreadable = {}
  ReadOnly = {2}
  b1 = b1
  b2 = b2
  Block <- Blocks
  Contents <- Versions
  Text = "text"
  Code = {200, 404}
SYMMETRY SymBlock
INVARIANTS TypeOK AnswerWasTrue StableFileServed
CHECK_DEADLOCK FALSE
