SPECIFICATION Spec
CONSTANTS
  GGML_TYPES <- Types
  GGUF_DEFAULT_ALIGNMENT = 2
  EXTENT_ALIGN = 4
  PACK_HEADER_BYTES = 4
  PACK_MAGIC = 77
  NoHash = 0
  Files <- TheFiles
  Later = {1, 2, 4}
  BadOffsets = {0, 8, 27}
  MaxFaults = 2
INVARIANTS
  PackTypeOK
  ExtentsApart
  CountsAgree
  ManifestMeansPack
  PassMeansLossless
  HonestPasses
