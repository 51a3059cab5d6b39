CONSTANTS
  r1 = r1
  r2 = r2
  r3 = r3
  a = a
  b = b
  Requests = {r1, r2}
  Sessions = {a, b}
  SessionOf <- MCPair
  Script <- MCShort
  None = None
  MayDisconnect = {}
  MayFail = {}
  MayDelete = {}
SPECIFICATION FairSpec
PROPERTY AbortIsReported
CHECK_DEADLOCK FALSE
