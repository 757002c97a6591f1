SPECIFICATION MCSpec
CONSTANTS
  Names <- NamesAlike
  Caller = {c1, c2}
  MaxHooks = 4
  Recorders = {1, 2}
  MaxRecorded = 3
  HookCalls <- MCHookCalls
  LegacyCalls <- MCLegacyCalls
INVARIANTS
  EvictionsAddUp
  HealthyServed
  RecordedAll
  DriftFound
