---------------------------- MODULE MCDssClient -----------------------------
(* DssClient for TLC: three peers, placed by Kademlia with ids of two      *)
(* bits; two files that share a block.                                     *)
EXTENDS DssClient, TLC

MCPeers == {"p1", "p2", "p3"}
MCPeerList == <<"p1", "p2", "p3">>

NodeIdOf == [p \in MCPeers |-> CASE p = "p1" -> <<0, 0>>
                                 [] p = "p2" -> <<0, 1>>
                                 [] p = "p3" -> <<1, 0>>]

KeyIdOf == [k \in {"x", "y", "f", "g"} |-> CASE k = "x" -> <<0, 0>>
                                             [] k = "y" -> <<1, 0>>
                                             [] k = "f" -> <<0, 1>>
                                             [] k = "g" -> <<1, 1>>]

K == INSTANCE Kademlia WITH
  Endpoints <- MCPeers, Keys <- {"x", "y", "f", "g"}, Width <- 2,
  NodeId <- NodeIdOf, KeyId <- KeyIdOf, SelfId <- <<1, 1>>

\* The routing table that the list of peers gives.
Table == K!AddNode(K!AddNode(K!AddNode(<<>>, "p1"), "p2"), "p3")

Near(key) == SubSeq(K!Store(Table, key, 3), 1, 3)

\* All of it, as a value that TLC computes once.
Placement ==
  "x" :> Near("x") @@ "y" :> Near("y") @@ "f" :> Near("f") @@ "g" :> Near("g")

MCNearBlock == [b \in Blocks |-> Placement[b]]

\* Encrypted versions of a manifest have hashes of their own.
MCNearManifest ==
  [m \in Manifests |->
     Placement[IF m.key % 2 = 0 THEN m.file ELSE IF m.file = "f" THEN "g" ELSE "f"]]

MCContent == [f \in Files |-> IF f = "f" THEN <<"x", "y">> ELSE <<"y">>]

=============================================================================
