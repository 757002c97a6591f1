SPECIFICATION Spec
CONSTANTS
  Address = {1, 2}
  Primary = 1
  WrittenField = {"Balance"}
  Slot = {1, 2, 3}
  Value = {v0, v1}
  Zero = v0
  NoSlot = NoSlot
  NoEnd = NoEnd
  U64_MAX = 15
  U32_MAX = 7
  Payloads <- AllPayloads
  MaxTraces = 3
  Sources <- AllSources
  Claims <- AllClaims
INVARIANTS
  ClaimsJudged
  HonestJudged
  PathsAgree
  LastIncarnation
