CONSTANTS
  m1 = m1
  m2 = m2
  t1 = t1
  t2 = t2
  s1 = s1
  s2 = s2
  s3 = s3
  Modules = {m1, m2}
  Types = {t1, t2}
  Defines <- MCDefines
  Sessions = {s1, s2, s3}
  TypeOf <- MCTypeOf
  MaxPending = 2
  NoModule = NoModule
SPECIFICATION FairSpec
INVARIANTS Inv NothingUnprocessed
PROPERTY CancelledEnds
CHECK_DEADLOCK FALSE
