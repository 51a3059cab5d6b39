CONSTANTS
  e1 = e1
  e2 = e2
  r1 = r1
  r2 = r2
  s1 = s1
  Events <- MCEvents
  Chunks <- MCChunks
  Absent = Absent
  MaxItems = 9
  Corrs <- MCCorrs
  CorrOf <- MCCorrOf
  Subs = {s1}
  SubCorr <- MCSubCorr
  NoEvent = NoEvent
  MaxSent = 4
SPECIFICATION FairSpec
INVARIANTS TypeOK InOrder
PROPERTIES  QueueDrains
CHECK_DEADLOCK FALSE
