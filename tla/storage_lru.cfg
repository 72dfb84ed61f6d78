\* One kill, and a limit always in force: the ledger before the kill, the order
\* of eviction, and progress.
SPECIFICATION FairSpec
CONSTANTS
  small = small
  large = large
  SmallSize = 1
  LargeSize = 2
  Chunks = {a, b, c}
  Data = {small, large}
  SizeOf <- MCSizeOf
  Torn = Torn
  TornSize = 0
  Absent = Absent
  Limits = {2, 3}
  Modulus = 64
  Capacity = 12
  Base = 2
  MaxAccess = 4
  MaxCrashes = 1
  MaxFaults = 0
  MaxShortWrites = 0
INVARIANTS
  LruFaithful
  IInv
  LedgerExact
  WithinLimit
  LruEviction
PROPERTIES
  Progress
