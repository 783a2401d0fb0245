SPECIFICATION SimSpec
CONSTANTS
  NLayers = 3
  Experts = {e1, e2, e3}
  Groups <- TwoGroups
  GroupOf <- OddPool
  NSlots <- OddSlots
  Qd = 2
  NUsed = 1
  TokenCounts = {1, 2}
  ReadsMayFail = TRUE
  MaxPasses = 2
  NoKey = NoKey
  NoSlot = NoSlot
SYMMETRY ExpertsAlike
INVARIANTS
  TypeOK
  MatmulReadsItsExperts
  ClaimedIsLoadedOrPending
  ReadersApart
  SyncInv
  OpAlwaysFits
  SimulatorAgrees
PROPERTIES
  ImplementsStore
