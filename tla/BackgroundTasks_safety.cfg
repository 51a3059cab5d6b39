CONSTANTS
  Callers = {c1, c2}
  Collector = collector
  Closer = closer
  Tags = {g1, g2}
  Runs = {r1, r2}
  NoTask = NoTask
  Free = Free
  Interval = 1
  CanExit = TRUE
SYMMETRY Symmetry
SPECIFICATION Spec
INVARIANTS LiveIsRegistered RestartAwaitsCancelled NoSelfWait IInv
PROPERTIES ClosedWithNoneRunning GcNeverMovesBack
