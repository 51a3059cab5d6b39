CONSTANTS
  e1 = e1
  Events <- MCEvents
  Chunks <- MCNumbered
  Absent = Absent
  MaxItems = 3
SPECIFICATION StoreSpec
INVARIANT OutOfOrderIsKept
