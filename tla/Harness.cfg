SPECIFICATION Spec
CONSTANTS
  Address = {}
  Slot = {}
  Value = {}
  NoSlot = NoSlot
  U64_MAX = 10
  U32_MAX = 7
  MaxCalls = 6
  LaterCalls = 3
  MaxBlocks = 2
  Capacity = 4
  MaxAttempts = 2
  MaxCrashes = 1
INVARIANTS
  FaultsDiagnosed
  ExitsMatchEnters
  FixtureVerified
  FixtureDiagnosed
  NilMeansWritten
