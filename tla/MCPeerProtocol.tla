--------------------------- MODULE MCPeerProtocol ---------------------------
(* PeerProtocol for TLC.                                                   *)
EXTENDS PeerProtocol

CONSTANTS chunk, manifest

\* One chunk, for which peers ask and which they store, and one manifest, which
\* they store and fetch.
MCRequests == {[op |-> "put", id |-> chunk], [op |-> "has", id |-> chunk],
               [op |-> "put", id |-> manifest], [op |-> "get", id |-> manifest]}

=============================================================================
