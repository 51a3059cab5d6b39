SPECIFICATION Spec
CONSTANTS
  a0 = a0
  s0 = s0
  x = x
  y = y
  None = None
  Requests = {r1, r2, r3}
  Calls <- MCCalls
  Agents = {a0}
  Given = {s0}
SYMMETRY Symmetry
INVARIANTS Inv LateRequestsAgree RunsSpeakToTheirStream
PROPERTY OwnSessionsListed
CHECK_DEADLOCK FALSE
