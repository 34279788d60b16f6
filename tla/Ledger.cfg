CONSTANTS
  Accounts = {a1, a2}
  NoTx = NoTx
  Payloads <- MCPayloads
  BlockGasLimit = 2
  IntervalOptions = {TRUE, FALSE}
  MaxBlocks = 3
  MaxSnapshots = 2
  MaxAdjustment = 1
SPECIFICATION FairSpec
INVARIANTS
  TypeOK
  ChainIsSound
  PendingNoncesContinue
  SnapshotsIntact
  MinedBeforeAnswered
PROPERTIES
  NothingLostSilently
  RevertRestores
  RequestsAnswered
  ImplementsTimeline
