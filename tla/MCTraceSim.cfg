SPECIFICATION Spec
CONSTANTS
  MoeLayers <- Layers13
  Experts = {e0, e1}
  TopK = 1
  BatchSizes = {1, 2}
  MaxRecords = 5
INVARIANTS
  TraceIsWhatWasRouted
  LargerCacheHoldsMore
  NoHitBelowTheCliff
  SimulatorsAgree
  PoliciesFitTheirBudget
SYMMETRY Symmetry
CHECK_DEADLOCK FALSE
