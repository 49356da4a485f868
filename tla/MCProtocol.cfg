\* One of the five machines of a node's protocol, each with small bounds.
SPECIFICATION ProtocolSpec
CONSTANTS
  MaxStream = 5
  MaxFields = 3
  MaxSigned = 4
  Peers = {comet, peer}
  Engine = comet
  Limits = {1, 2}
  MaxRequests = 2
  MaxConnects = 1
  MaxFaults = 1
  NoPeer = NoPeer
\* A finished message or genesis is an end.
CHECK_DEADLOCK FALSE
INVARIANTS
  PermitsMatchThreads
  AnswersInOrder
  CoreSerialized
  WireUnambiguous
  FinalitySound
  GenesisAgrees
PROPERTY
  PoisonIsFinal
