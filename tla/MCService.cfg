\* The service: its mempool and proposals, its listener, the restore of a
\* wallet, and what must eventually happen.
SPECIFICATION ServiceSpec
CONSTANTS
  None = None
  single = single  t1 = t1  t2 = t2  source = source  target = target  t = t
  Transaction <- MixedTransactions
  TransactionId = {"mint", "pay", "malformed", "large"}
  Nullifier = {"n1"}
  Commitment = {"c1", "c2", "c3"}
  Asset = {"NOX"}
  RegisteredAsset = {"NOX"}
  MaxAmount = 1
  TreeCapacity = 3
  VerifyTransfer <- NoteExists
  Authorize <- PolicyAllows
  BlockHash = {"h"}
  InitialHeight = 1
  MaxEngineHeight = 2
  MaxRecords = 2
  MaxBlockBytes = 3
  MaxTxBytes = 2
  TornWrites = FALSE
  MaxHeight = 2
  MaxFaults = 3
  MaxReap = 3
  MaxPending = 2
  MaxPendingBytes = 3
  EngineLimit = {2, 4}
  EngineGenuine = {TRUE}
  Peers = {engine, p1}
  Engine = engine
  Limits = {1}
  MaxConnects = 1
  NoPeer = NoPeer
  Header = Header
  Torn = Torn
CHECK_DEADLOCK FALSE
INVARIANTS
  LedgersSound
  PreparedProposalAccepted
PROPERTIES
  DecidedIsEventuallyServed
  EngineServedAgain
  ShutdownCompletes
  RestoreCompletes
