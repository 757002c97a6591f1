SPECIFICATION MCHostSpec
CONSTANTS
  Address = {a1}
  Slot = {}
  Value = {v0, v1}
  NoSlot = NoSlot
  U64_MAX = 15
  U32_MAX = 7
  Cleared = v0
  Loaded = v1
  MaxFrames = 1
  MaxTx = 1
  MaxMutations = 1
  MaxBlocks = 2
INVARIANT CountsFromZero
