CONSTANTS
  Multiplier = 2
  MaxLength = 2
  Metaints <- MCMetaints
  BufferSize = 3
  WireSize = 3
  MaxSessions = 2
SPECIFICATION Spec
INVARIANTS
  TypeOK
  Aligned
PROPERTIES
  BlocksAreWhole
  AudioIsPlayed
