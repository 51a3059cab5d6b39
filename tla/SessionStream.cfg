CONSTANTS
  r1 = r1
  r2 = r2
  r3 = r3
  a = a
  b = b
  Requests = {r1, r2, r3}
  Sessions = {a, b}
  SessionOf <- MCShared
  Script <- MCScripts
  None = None
  MayDisconnect = {r1}
  MayFail = {r1}
  MayDelete = {a}
SPECIFICATION FairSpec
INVARIANTS TypeOK StoredIsPrefix CompletedIsStored LockIsForStopping
PROPERTY ResponseCompletes
CHECK_DEADLOCK FALSE
