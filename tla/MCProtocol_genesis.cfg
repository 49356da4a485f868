\* A genesis with one key twice, apart in the engine's order.
SPECIFICATION GenesisSpec
CONSTANTS
  MaxStream = 5
  MaxFields = 3
  MaxSigned = 4
  Peers = {comet, peer}
  Engine = comet
  Limits = {1, 2}
  MaxRequests = 2
  MaxConnects = 1
  MaxFaults = 1
  NoPeer = NoPeer
CHECK_DEADLOCK FALSE
INVARIANT GenesisAddressesDiffer
