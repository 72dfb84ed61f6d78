--------------------------- MODULE MCPeerService ----------------------------
(* PeerService for TLC.                                                    *)
EXTENDS PeerService

=============================================================================
