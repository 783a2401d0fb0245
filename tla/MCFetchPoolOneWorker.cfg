SPECIFICATION FairSpec
CONSTANTS
  NLayers = 2
  Experts = {1, 2}
  Groups <- OneGroup
  GroupOf <- SharedPool
  NSlots <- ThreeSlots
  Qd = 1
  NUsed = 1
  LkTop = 1
  LkDepth = 1
  SpecLayers = {1, 2}
  LookaheadTokens = 2
  TokenCounts = {1}
  ReadsMayFail = FALSE
  MaxPasses = 2
  NoKey = NoKey
  NoSlot = NoSlot
  NoJob = NoJob
PROPERTIES
  PrefetchLands
