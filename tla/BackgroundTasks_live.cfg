CONSTANTS
  Callers = {c1, c2}
  Collector = collector
  Closer = closer
  Tags = {g1}
  Runs = {r1, r2}
  NoTask = NoTask
  Free = Free
  Interval = 2
  CanExit = FALSE
SPECIFICATION FairSpec
PROPERTIES ImplementsSlots EveryCallReturns DoneIsForgotten
