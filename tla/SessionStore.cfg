CONSTANTS
  Procs = {p1, p2, p3}
  SessionIds = {s1, s2}
  Nobody = Nobody
  NoCall = NoCall
  MaxInserts = 4
SYMMETRY Symmetry
SPECIFICATION Spec
INVARIANTS TypeOK LockIsHeld NoOrphans OffsetsArePositions
