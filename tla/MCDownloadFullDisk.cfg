SPECIFICATION Spec
CONSTANTS
  Size = 5
  Chunks = 2
  MaxRead = 2
  WriterBuffer = 1
  MaxErrors = 1
  WritesMayFail = TRUE
  MaxFaults = 2
INVARIANTS
  EveryFailureIsTransient
