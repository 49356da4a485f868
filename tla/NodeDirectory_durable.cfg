\* Kills, failed syncs and power losses around new files.
SPECIFICATION DirectorySpec
CONSTANTS
  Instances = {i1, i2}
  Geneses = {g1, g2}
  Torn = Torn
  MaxEntries = 2
  MaxOutages = 2
INVARIANT PromisedDurable
