SPECIFICATION MCSpec
CONSTANTS
  Address = {a1}
  Slot = {s1}
  Value = {v0, v1}
  NoSlot = NoSlot
  U64_MAX = 15
  U32_MAX = 7
  MaxFrames = 3
  MaxTx = 2
  MaxMutations = 3
SYMMETRY Symmetry
INVARIANTS
  NeverFails
  Unbroken
  Faithful
  BufferInvariant
PROPERTIES
  Atomic
