SPECIFICATION Spec
CONSTANTS
  Address = {1}
  Primary = 1
  WrittenField = {"Balance", "Nonce"}
  Slot = {1}
  Value = {v0, v1}
  Zero = v0
  NoSlot = NoSlot
  NoEnd = NoEnd
  U64_MAX = 15
  U32_MAX = 7
  Payloads <- CapturedChanges
  MaxTraces = 2
  Sources <- NullSources
  Claims <- NoClaims
INVARIANT CapturesAccepted
