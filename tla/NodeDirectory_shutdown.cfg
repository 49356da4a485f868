\* A dropped service and the threads of its connections.
SPECIFICATION DirectorySpec
CONSTANTS
  Instances = {i1, i2}
  Geneses = {g1, g2}
  Torn = Torn
  MaxEntries = 2
  MaxOutages = 2
INVARIANT OwnershipCoversWriters
