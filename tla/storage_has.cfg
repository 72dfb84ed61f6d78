\* One kill and no other fault; with a limit and without.
SPECIFICATION Spec
CONSTANTS
  small = small
  large = large
  SmallSize = 1
  LargeSize = 2
  Chunks = {a, b}
  Data = {small, large}
  SizeOf <- MCSizeOf
  Torn = Torn
  TornSize = 1
  Absent = Absent
  Limits = {0, 2}
  Modulus = 64
  Capacity = 8
  Base = 2
  MaxAccess = 4
  MaxCrashes = 1
  MaxFaults = 0
  MaxShortWrites = 0
INVARIANT HasIsTruthful
