SPECIFICATION MCHostSpec
CONSTANTS
  Address = {a1, a2}
  Slot = {}
  Value = {v0, v1}
  NoSlot = NoSlot
  U64_MAX = 12
  U32_MAX = 7
  Cleared = v0
  Loaded = v1
  MaxFrames = 2
  MaxTx = 2
  MaxMutations = 2
  MaxBlocks = 2
INVARIANTS
  SequencesIncrease
  DestructsPaired
  StackMirrored
