\* Two clicks, any number of changes of the settings; all files are namesakes.
SPECIFICATION WindowSpec
CONSTANTS
  p1 = p1
  p2 = p2
  lo = lo
  lan = lan
  other = other
  Ports = {p1, p2}
  NoPort = NoPort
  Hosts = {lo, lan}
  Remote <- MCRemote
  SeedLists <- MCSeedLists
  Names = {n1}
  MaxClicks = 2
INVARIANTS
  WindowInv
  RowsMatchUploads
  RowsNotOutdated
  ListIsCurrent
PROPERTIES
  BusyEnds
  ClosingEnds
\* The program ends when its window is closed.
CHECK_DEADLOCK FALSE
