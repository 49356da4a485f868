\* Checkpoints of one sequence after a lost record, and logs with damaged frames.
SPECIFICATION RecoverySpec
CONSTANTS
  None = None
  Transaction <- ConflictingTransactions
  TransactionId = {"mint", "pay", "again"}
  Nullifier = {"n1"}
  Commitment = {"c1", "c2", "c3"}
  Asset = {"NOX"}
  RegisteredAsset = {"NOX"}
  MaxAmount = 2
  TreeCapacity = 3
  VerifyTransfer <- AnyProof
  Authorize <- PolicyAllows
  MaxCandidates = 4
  TornWrites = FALSE
  MaxRecords = 2
  MaxFaults = 2
  Instances = {i1, i2}
  Geneses = {g1, g2}
  Torn = Torn
  MaxEntries = 2
  MaxOutages = 3
  Prime = 17
  Width = 3
  Rate = 2
  HalfFull = 1
  Partial = 1
  External <- MCExternal
  Diagonal <- MCDiagonal
  RoundConstants <- MCRoundConstants
  IV <- MCIV
  Base = 4
  PackWidth = 2
  LaneBytes = 3
  TreeDepth = 3
  BitsPerByte = 2
  KeyBytes = 2
  AssetBytes = 1
  ValueBytes = 2
  RhoBytes = 1
  RandomBytes = 1
  PositionBytes = 2
  IntentBytes = 20
  OutputsOffset = 2
  States <- MCStates
  Digests <- MCDigests
  Preimages <- MCPreimages
  SegmentNullifiers <- MCSegmentNullifiers
  Transfers <- MCTransfers
  Assets <- MCAssets
  Keys <- MCKeys
  Siblings <- MCSiblings
  Positions <- MCPositions
CHECK_DEADLOCK FALSE
INVARIANT InvalidIsRecognised
