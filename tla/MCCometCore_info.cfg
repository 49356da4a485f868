\* Info after a recovery that accepts a frame whose sync failed.
SPECIFICATION CoreSpec
CONSTANTS
  None = None
  single = single  t1 = t1  t2 = t2  source = source  target = target  t = t
  Transaction <- SpendsOnly
  TransactionId = {"pay", "again"}
  Nullifier = {"n1"}
  Commitment = {"c1", "c2", "c3"}
  Asset = {"NOX"}
  RegisteredAsset = {"NOX"}
  MaxAmount = 2
  TreeCapacity = 3
  VerifyTransfer <- AnyProof
  Authorize <- PolicyAllows
  BlockHash = {"h"}
  InitialHeight = 1
  MaxEngineHeight = 3
  MaxRecords = 1
  MaxBlockBytes = 2
  MaxTxBytes = 2
  TornWrites = TRUE
  MaxHeight = 3
  MaxFaults = 3
  MaxReap = 0
  MaxPending = 1
  MaxPendingBytes = 2
  EngineLimit = {2}
  EngineGenuine = {TRUE, FALSE}
INVARIANT ReportedIsDurable
