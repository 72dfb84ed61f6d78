-------------------------- MODULE MCStorageManager --------------------------
(* StorageManager for TLC: payloads of two sizes.                          *)
EXTENDS StorageManager, TLC

CONSTANTS small, large, SmallSize, LargeSize

MCSizeOf == [d \in Data |-> IF d = small THEN SmallSize ELSE LargeSize]

Symmetry == Permutations(Chunks)

=============================================================================
