\* Kills, file system errors and a full disk.
SPECIFICATION Spec
CONSTANTS
  small = small
  large = large
  SmallSize = 2
  LargeSize = 3
  Chunks = {a, b}
  Data = {small, large}
  SizeOf <- MCSizeOf
  Torn = Torn
  TornSize = 1
  Absent = Absent
  Limits = {0, 1, 3}
  Modulus = 64
  Capacity = 12
  Base = 2
  MaxAccess = 3
  MaxCrashes = 1
  MaxFaults = 1
  MaxShortWrites = 1
SYMMETRY Symmetry
INVARIANTS
  TypeOK
  UsedCovers
  WholeChunks
PROPERTIES
  ImplementsChunkStore
