SPECIFICATION Spec
CONSTANTS
  Address = {1, 2}
  StateAddress = {1}
  Slot = {}
  Value = {v0, v1}
  NoSlot = NoSlot
  NoEnd = NoEnd
  U64_MAX = 15
  U32_MAX = 7
  Payloads <- AllPayloads
  Numberings = {TRUE, FALSE}
  MaxLen = 6
INVARIANTS
  PartitionExact
  ReduceExact
  ValidatorAgrees
  AlternationResolved
  AcceptedExactly
