\* One client encrypts, the other does not; nothing fails.
SPECIFICATION Spec
CONSTANTS
  Clients = {c1, c2}
  Peers <- MCPeers
  PeerList <- MCPeerList
  Blocks = {"x", "y"}
  Files = {"f", "g"}
  Content <- MCContent
  Readable = {"f", "g"}
  Encrypting = {c1}
  Replicas = 2
  NearBlock <- MCNearBlock
  NearManifest <- MCNearManifest
  Nothing = Nothing
  Damaged = Damaged
  MaxOps = 2
  MaxBroken = 0
  MaxLosses = 0
  MaxDown = 1
INVARIANT UploadsStayReadable
