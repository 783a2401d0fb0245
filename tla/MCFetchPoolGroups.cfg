SPECIFICATION Spec
CONSTANTS
  NLayers = 3
  Experts = {e1, e2, e3}
  Groups <- TwoGroups
  GroupOf <- OddPool
  NSlots <- OddSlots
  Qd = 3
  NUsed = 1
  LkTop = 2
  LkDepth = 2
  SpecLayers = {3}
  LookaheadTokens = 1
  TokenCounts = {1}
  ReadsMayFail = FALSE
  MaxPasses = 1
  NoKey = NoKey
  NoSlot = NoSlot
  NoJob = NoJob
SYMMETRY ExpertsAlike
INVARIANTS
  MatmulReadsItsExperts
  WorkerKeptFree
