SPECIFICATION FairSpec
CONSTANTS
  NLayers = 2
  Experts = {1, 2}
  Groups <- OneGroup
  GroupOf <- SharedPool
  NSlots <- TwoSlots
  Qd = 2
  NUsed = 1
  LkTop = 1
  LkDepth = 1
  SpecLayers = {1, 2}
  LookaheadTokens = 2
  TokenCounts = {1, 3}
  ReadsMayFail = TRUE
  MaxPasses = 2
  NoKey = NoKey
  NoSlot = NoSlot
  NoJob = NoJob
INVARIANTS
  TypeOK
  PoolInv
  MatmulReadsItsExperts
  ResidentMeansLoaded
  OneOwner
  PrefetchesAccounted
  WaitsOnNoSpeculation
  AbortOnlyUnderSpeculation
PROPERTIES
  OnlyFlightsWrite
  ImplementsStore
  OpReturns
  PrefetchLands
  DestructorReturns
