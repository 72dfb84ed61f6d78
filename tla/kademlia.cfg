\* All lists of up to four peers, repetitions included; all keys.
SPECIFICATION Spec
CONSTANTS
  Endpoints = {"e1", "e2", "e3", "e4", "e5"}
  Keys <- MCKeys
  Width = 3
  NodeId <- MCNodeId
  KeyId <- MCKeyId
  SelfId <- MCSelfId
  MaxPeers = 4
INVARIANTS
  PlacementIsReference
  ReplicasInOrder
PROPERTIES
  JoinMovesOne
\* The constructor ends with the list.
CHECK_DEADLOCK FALSE
