SPECIFICATION SpecWithdrawals
CONSTANTS
  Address = {a1}
  Slot = {}
  Value = {v0, v1}
  NoSlot = NoSlot
  U64_MAX = 15
  U32_MAX = 7
  MaxFrames = 1
  MaxTx = 1
  MaxMutations = 2
INVARIANT FramelessSurvive
