CONSTANTS
  Runs = {1, 2}
  Scripts <- MCScripts
  MaxCalls = 2
  Absent = Absent
SPECIFICATION Spec
INVARIANTS Inv FinalIsSaid
PROPERTY PlainIsKept
CHECK_DEADLOCK FALSE
