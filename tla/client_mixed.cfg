\* One client encrypts, the other does not, both with the same file; connections
\* break, outputs fail, chunks are evicted or damaged.
SPECIFICATION Spec
CONSTANTS
  Clients = {c1, c2}
  Peers <- MCPeers
  PeerList <- MCPeerList
  Blocks = {"x", "y"}
  Files = {"f"}
  Content <- MCContent
  Readable = {"f"}
  Encrypting = {c1}
  Replicas = 2
  NearBlock <- MCNearBlock
  NearManifest <- MCNearManifest
  Nothing = Nothing
  Damaged = Damaged
  MaxOps = 3
  MaxBroken = 1
  MaxLosses = 1
  MaxDown = 1
INVARIANTS
  DownloadIsFile
