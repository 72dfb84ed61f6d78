--------------------------- MODULE ChunkDirectory ---------------------------
(***************************************************************************)
(* What the tracker promises, with no clock and no pruning in it: who      *)
(* announced which chunk, and who is alive.  A chunk is located at the     *)
(* peers that announced it and are alive.  The announcements of a peer may *)
(* be forgotten, but only while it is not alive, so that forgetting never  *)
(* changes where a chunk is located.  Tracker implements this              *)
(* specification.                                                          *)
(***************************************************************************)
CONSTANTS Peers, Chunks

VARIABLES
  announced,   \* chunk -> the peers that announced it
  alive        \* the peers that are alive

vars == <<announced, alive>>

Init ==
  /\ announced = [c \in Chunks |-> {}]
  /\ alive = {}

\* A peer announces a chunk, alive or not.
Announce(c, p) ==
  /\ announced' = [announced EXCEPT ![c] = @ \cup {p}]
  /\ UNCHANGED alive

\* A peer makes itself known.
Contact(p) ==
  /\ alive' = alive \cup {p}
  /\ UNCHANGED announced

\* Peers have been silent for too long.
Expire(S) ==
  /\ alive' = alive \ S
  /\ UNCHANGED announced

\* All that some peers announced is forgotten, at once.
Forget(S) ==
  /\ S \cap alive = {}
  /\ announced' = [c \in Chunks |-> announced[c] \ S]
  /\ UNCHANGED alive

\* The tracker starts again and knows nothing.
Reset ==
  /\ announced' = [c \in Chunks |-> {}]
  /\ alive' = {}

Next ==
  \/ \E c \in Chunks, p \in Peers : Announce(c, p)
  \/ \E p \in Peers : Contact(p)
  \/ \E S \in SUBSET Peers : Expire(S) \/ Forget(S)
  \/ Reset

Spec == Init /\ [][Next]_vars

=============================================================================
