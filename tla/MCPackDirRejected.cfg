SPECIFICATION Spec
CONSTANTS
  GGML_TYPES <- Types
  GGUF_DEFAULT_ALIGNMENT = 2
  EXTENT_ALIGN = 4
  PACK_HEADER_BYTES = 4
  PACK_MAGIC = 77
  NoHash = 0
  Files <- TheFiles
  Later = {}
  BadOffsets = {4}
  MaxFaults = 1
INVARIANTS
  RejectedIsNotServed
