CONSTANTS
  e1 = e1
  Events <- MCEvents
  Chunks <- MCChunks
  Absent = Absent
  MaxItems = 3
SPECIFICATION StoreSpec
INVARIANTS StoreTypeOK  TrackerHasDoc
PROPERTIES FailureKeepsPrefix
