\* Two clients upload and download plaintext, one of two files under a name that
\* cannot be read back; peers stop, connections break, local writes fail.
SPECIFICATION FairSpec
CONSTANTS
  Clients = {c1, c2}
  Peers <- MCPeers
  PeerList <- MCPeerList
  Blocks = {"x", "y"}
  Files = {"f", "g"}
  Content <- MCContent
  Readable = {"f"}
  Encrypting = {}
  Replicas = 2
  NearBlock <- MCNearBlock
  NearManifest <- MCNearManifest
  Nothing = Nothing
  Damaged = Damaged
  MaxOps = 3
  MaxBroken = 1
  MaxLosses = 0
  MaxDown = 1
INVARIANTS
  IInv
  ManifestsAreComplete
  FailureMeansUnreachable
PROPERTIES
  CallsEnd
