\* Two calls, one failure, of the disk or of a thread; the peer is stopped and
\* started once while they run.
SPECIFICATION ProtocolSpec
CONSTANTS
  Ports = {p1}
  NoPort = NoPort
  MaxApplies = 1
  MaxFailures = 1
  chunk = chunk
  manifest = manifest
  Objects = {chunk, manifest}
  Manifests = {manifest}
  Requests <- MCRequests
  MaxCalls = 2
INVARIANTS
  ProtocolInv
PROPERTIES
  ImplementsCalls
  CallsReturn
\* The program ends when its window is closed.
CHECK_DEADLOCK FALSE
