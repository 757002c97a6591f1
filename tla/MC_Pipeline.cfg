SPECIFICATION MCSpec
CONSTANTS
  Address = {a1}
  Slot = {}
  Value = {v0, v1}
  NoSlot = NoSlot
  U64_MAX = 31
  U32_MAX = 15
  Cleared = v0
  Loaded = v1
  MaxFrames = 2
  MaxTx = 2
  MaxMutations = 2
  MaxBlocks = 2
INVARIANTS
  NetEffect
  ProvenanceExact
PROPERTIES
  Delivered
