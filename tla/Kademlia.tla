------------------------------ MODULE Kademlia ------------------------------
(***************************************************************************)
(* Deterministic placement (core/dht): which peers are responsible for a   *)
(* key.  Node ids and key ids are SHA-256 hashes cut to 160 bits; here an  *)
(* id is a function from bit positions, the most significant first, and    *)
(* the hash is a constant.                                                 *)
(***************************************************************************)
EXTENDS Integers, Sequences

CONSTANTS
  Endpoints,   \* "ip:port" of a peer
  Keys,        \* strings placed in the DHT: chunk ids, "manifest:<hash>"
  Width,       \* bits of an id, 160 in the code
  NodeId,      \* makeNodeId: endpoint -> id
  KeyId,       \* makeKeyId: key -> id
  SelfId       \* the id of the client itself, makeKeyId("client")

Ids == [1 .. Width -> {0, 1}]

\* Different endpoints have different ids: SHA-256 does not collide.
ASSUME IdAssumption ==
  /\ Width \in Nat \ {0}
  /\ NodeId \in [Endpoints -> Ids]
  /\ KeyId \in [Keys -> Ids]
  /\ SelfId \in Ids
  /\ \A e, f \in Endpoints : NodeId[e] = NodeId[f] => e = f

XorDistance(a, b) == [i \in 1 .. Width |-> (a[i] + b[i]) % 2]

\* Mutant of CloserTo: the comparison starts at the least significant bit.
CloserToFromTheEnd(a, b, target) ==
  LET da == XorDistance(a, target)
      db == XorDistance(b, target)
  IN  \E i \in 1 .. Width :
        da[i] < db[i] /\ \A j \in i + 1 .. Width : da[j] = db[j]

\* The lexicographic comparison of two distances.
CloserTo(a, b, target) ==
  LET da == XorDistance(a, target)
      db == XorDistance(b, target)
  IN  \E i \in 1 .. Width :
        da[i] < db[i] /\ \A j \in 1 .. i - 1 : da[j] = db[j]

\* Mutant of AddNode: entries whose ids merely end alike replace each other.
AddNodeOnePerBucket(nodes, e) ==
  SelectSeq(nodes, LAMBDA n : n.id[Width] # NodeId[e][Width])
    \o <<[id |-> NodeId[e], endpoint |-> e]>>

\* RoutingTable::addNode: never the client itself; an entry with the same id
\* is updated in place.
AddNode(nodes, e) ==
  LET node == [id |-> NodeId[e], endpoint |-> e]
      same == {i \in DOMAIN nodes : nodes[i].id = node.id}
  IN  IF node.id = SelfId THEN nodes
      ELSE IF same # {} THEN [i \in DOMAIN nodes |->
                                IF i \in same THEN node ELSE nodes[i]]
      ELSE Append(nodes, node)

\* min(k, number of nodes)
Capped(k, nodes) == IF k > Len(nodes) THEN Len(nodes) ELSE k

\* The orders in which std::sort may leave the nodes: nobody is closer than
\* those before him.
Orders(nodes, target) ==
  {p \in [DOMAIN nodes -> DOMAIN nodes] :
     \A i, j \in DOMAIN nodes :
       i < j => /\ p[i] # p[j]
                /\ ~CloserTo(nodes[p[j]].id, nodes[p[i]].id, target)}

Sorted(nodes, target) ==
  LET p == CHOOSE p \in Orders(nodes, target) : TRUE
  IN  [i \in DOMAIN nodes |-> nodes[p[i]]]

\* RoutingTable::closestNodes
ClosestNodes(nodes, target, k) == SubSeq(Sorted(nodes, target), 1, Capped(k, nodes))

\* Mutant of Store: one peer short.
StoreOneShort(nodes, key, replicas) ==
  LET found == ClosestNodes(nodes, KeyId[key], replicas - 1)
  IN  [i \in DOMAIN found |-> found[i].endpoint]

\* DhtNode::store: the endpoints of the replicas closest to the key, at least
\* one.  DhtNode::findValue is the same function.
Store(nodes, key, replicas) ==
  LET k     == IF replicas <= 0 THEN 1 ELSE replicas
      found == ClosestNodes(nodes, KeyId[key], Capped(k, nodes))
  IN  [i \in DOMAIN found |-> found[i].endpoint]

FindValue(nodes, key, replicas) == Store(nodes, key, replicas)

=============================================================================
