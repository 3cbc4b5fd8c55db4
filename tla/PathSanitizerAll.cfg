SPECIFICATION FairSpec
CONSTANTS
  Method = "method"
  Space = " "
  HTTP = "HTTP"
  Slash = "/"
  Dot = "."
  EndOfLine = "eol"
  UIntMod = 16
  Char <- Chars
  Requests <- AllRequests
INVARIANTS TypeOK NoTraversalLeft CutAtFirstClear ThrowsOnBareMethod
PROPERTY Returns
CHECK_DEADLOCK FALSE
