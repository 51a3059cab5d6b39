CONSTANTS
  Names = {"_id", "id", "a", "n", "x", "y"}
  Inserts <- MCInserts
  Required = {"id", "a"}
  Queries <- MCQueries
  Depth <- MCDepth
  Projections <- MCProjections
  Sorts <- MCSorts
  Patches <- MCPatches
  Asked <- MCAsked
  NoFilter = NoFilter
  MaxDocs = 2
SPECIFICATION Spec
INVARIANTS Inv ProjectionsDivide
PROPERTIES ReadsKeepDocs WritesAreWhole
