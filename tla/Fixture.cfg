SPECIFICATION Spec
CONSTANTS
  Address = {a1}
  Slot = {}
  Value = {v0}
  NoSlot = NoSlot
  U64_MAX = 15
  U32_MAX = 9
  FrameIDs = {0, 1}
  MaxLen = 9
  WideIDs = {0, 9, 10}
  Hashes = {1, 2}
  MaxUngated = 6
INVARIANTS
  GateExact
  GateSufficient
  OutputBracketed
  UnbalancedRefused
  FramesNamed
