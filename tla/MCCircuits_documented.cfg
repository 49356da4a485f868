\* What an accepted proof shows according to the documents.
SPECIFICATION CircuitsSpec
CONSTANTS
  Prime = 17
  Width = 3
  Rate = 2
  HalfFull = 1
  Partial = 1
  External <- MCExternal
  Diagonal <- MCDiagonal
  RoundConstants <- MCRoundConstants
  IV <- MCIV
  Base = 4
  PackWidth = 2
  LaneBytes = 3
  TreeDepth = 3
  BitsPerByte = 2
  KeyBytes = 2
  AssetBytes = 1
  ValueBytes = 2
  RhoBytes = 1
  RandomBytes = 1
  PositionBytes = 2
  IntentBytes = 20
  OutputsOffset = 2
  States <- MCStates
  Digests <- MCDigests
  Preimages <- MCPreimages
  SegmentNullifiers <- MCSegmentNullifiers
  Transfers <- MCTransfers
  Assets <- MCAssets
  Keys <- MCKeys
  Siblings <- MCSiblings
  Positions <- MCPositions
CHECK_DEADLOCK FALSE
INVARIANT AcceptedAsDocumented
