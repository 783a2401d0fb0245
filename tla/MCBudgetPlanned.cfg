SPECIFICATION Spec
CONSTANTS
  Geometries <- MCGeometries
  Models <- MCModels
  Vrams <- MCVrams
  HEADROOM = 1
  MIB = 2
  ROUND = 2
  LEAST = 4
INVARIANTS
  PlannedCacheFits
CHECK_DEADLOCK FALSE
