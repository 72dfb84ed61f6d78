\* The user applies settings four times; two failures.
SPECIFICATION FairSpec
CONSTANTS
  Ports = {p1, p2}
  NoPort = NoPort
  MaxApplies = 4
  MaxFailures = 2
INVARIANTS
  StopReleases
  TerminatesOnlyAfterFailure
  IInv
PROPERTIES
  StopReturns
  Restarted
  ImplementsEmbeddedPeer
\* The program ends when its window is closed.
CHECK_DEADLOCK FALSE
