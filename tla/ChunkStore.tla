----------------------------- MODULE ChunkStore -----------------------------
(***************************************************************************)
(* What the chunk storage of a peer promises, with no files, no metadata   *)
(* and no crashes in it: a map from chunk ids to whole payloads.           *)
(*                                                                         *)
(* A payload enters the map in one step (Put), leaves it in one step       *)
(* (Drop: eviction or deletion), and a chunk whose store call was          *)
(* acknowledged stays in the map until it is overwritten or dropped.       *)
(* Nothing else ever changes the map, in particular no crash does.         *)
(* StorageManager implements this specification.                           *)
(***************************************************************************)
CONSTANTS
  Chunks,   \* chunk ids
  Data,     \* whole payloads
  Missing   \* not a payload: the value of a chunk that is not stored

VARIABLES
  store,    \* chunk id -> payload, or Missing
  acked     \* chunks acknowledged to a client and not dropped since

vars == <<store, acked>>

Init ==
  /\ store = [c \in Chunks |-> Missing]
  /\ acked = {}

\* A payload becomes visible as a whole.
Put(c, d) ==
  /\ store' = [store EXCEPT ![c] = d]
  /\ UNCHANGED acked

\* The client that stored c is told so.
Ack(c) ==
  /\ store[c] # Missing
  /\ acked' = acked \cup {c}
  /\ UNCHANGED store

\* c is evicted or deleted.
Drop(c) ==
  /\ store' = [store EXCEPT ![c] = Missing]
  /\ acked' = acked \ {c}

Next ==
  \E c \in Chunks :
    \/ \E d \in Data : Put(c, d)
    \/ Ack(c)
    \/ Drop(c)

Spec == Init /\ [][Next]_vars

=============================================================================
