SPECIFICATION FairSpec
CONSTANTS
  Size = 8
  Chunks = 3
  MaxRead = 2
  WriterBuffer = 1
  MaxErrors = 1
  WritesMayFail = TRUE
  MaxFaults = 2
INVARIANTS
  DestIsWhole
  DownloadInv
PROPERTIES
  PartsOnlyGrow
  RerunCompletes
