CONSTANTS
  Multiplier = 2
  MaxLength = 1
  Metaints <- MCMetaints
  BufferSize = 3
  WireSize = 4
  MaxSessions = 2
SPECIFICATION Spec
INVARIANTS
  MetadataIsOneBlock
