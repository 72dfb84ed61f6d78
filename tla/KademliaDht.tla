---------------------------- MODULE KademliaDht -----------------------------
(***************************************************************************)
(* A DhtNode (core/dht/dht_node.cpp): its constructor feeds a list of      *)
(* peers, which may name a peer twice, to the routing table.  The list     *)
(* comes from a user or from discovery, in any order, and different        *)
(* clients hold different lists: the property that matters is that they    *)
(* agree where a key is.                                                   *)
(***************************************************************************)
EXTENDS Kademlia, FiniteSets, SequencesExt

CONSTANTS
  MaxPeers      \* bound: length of the list of peers

ASSUME PeersAssumption == MaxPeers \in Nat

VARIABLES
  peers,        \* the part of the list already read
  nodes         \* nodes_ of the routing table

vars == <<peers, nodes>>

Init ==
  /\ peers = <<>>
  /\ nodes = <<>>

\* One round of the constructor's loop.
ReadPeer(e) ==
  /\ Len(peers) < MaxPeers
  /\ peers' = Append(peers, e)
  /\ nodes' = AddNode(nodes, e)

Next == \E e \in Endpoints : ReadPeer(e)

Spec == Init /\ [][Next]_vars

-----------------------------------------------------------------------------
(* Reference definitions: distances as numbers, the list as a set.         *)

\* a XOR b as a number, from the most significant bit.
Distance(a, b) ==
  LET upto[n \in 0 .. Width] ==
        IF n = 0 THEN 0
        ELSE 2 * upto[n - 1] + (IF a[n] = b[n] THEN 0 ELSE 1)
  IN  upto[Width]

Eligible(S) == {e \in S : NodeId[e] # SelfId}

\* The k members of S nearest to key.
Nearest(S, key, k) ==
  {e \in Eligible(S) :
     Cardinality({f \in Eligible(S) :
       Distance(NodeId[f], KeyId[key]) < Distance(NodeId[e], KeyId[key])}) < k}

-----------------------------------------------------------------------------
(* Properties.                                                             *)

\* The replicas of a key are the peers whose ids are nearest to it by XOR as a
\* number, so they depend on the set of peers known and not on the order or the
\* repetitions in the list: clients with the same peers agree.
PlacementIsReference ==
  \A key \in Keys, r \in 1 .. MaxPeers :
    ToSet(Store(nodes, key, r)) = Nearest(ToSet(peers), key, r)

\* Nobody is asked to store a key twice, the nearest is asked first, and there
\* are as many replicas as peers allow.
ReplicasInOrder ==
  \A key \in Keys, r \in -1 .. MaxPeers :
    LET s == Store(nodes, key, r)
        D(i) == Distance(NodeId[s[i]], KeyId[key])
    IN  /\ \A i, j \in DOMAIN s : i < j => D(i) < D(j)
        /\ Len(s) = Min({Max({r, 1}), Len(nodes)})

\* Between two sets of replicas at most one peer is lost, and only e is gained.
Displaced(before, after, e) ==
  /\ Cardinality(before \ after) <= 1
  /\ after \ before \subseteq {e}

JoinStep ==
  \A key \in Keys, r \in 1 .. MaxPeers :
    Displaced(ToSet(Store(nodes, key, r)), ToSet(Store(nodes', key, r)), Last(peers'))

\* A client that learns of one more peer looks for a key on the same replicas
\* as before but for at most one, which the newcomer displaced.
JoinMovesOne == [][JoinStep]_vars

=============================================================================
