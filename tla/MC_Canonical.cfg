SPECIFICATION MCSpec
CONSTANTS
  NoEnd = NoEnd
  Accounts = {1}
  MaxGen = 2
  MaxOrdinal = 2
  MaxFacts = 3
  MaxBalances = 1
  Radix = 4
  HexBase = 2
  U64_LEN = 2
  U32_LEN = 1
  ADDRESS_LEN = 5
  WORD_LEN = 8
  MAX_EVENT_SUMMARIES = 3
  Snapshots <- MCSnapshots
  Certificates <- MCCertificates
  MaxEdits = 2
INVARIANTS
  NormalForm
  ReportSound
  DecodesExactly
  HexReadersAgree
  CommitmentsBind
  RootIdentifies
