--------------------------- MODULE MCKademliaDht ----------------------------
(* KademliaDht for TLC: ids of three bits; e1 .. e4 are peers whose ids    *)
(* differ at different bits, e5 has the id of the client.                  *)
EXTENDS KademliaDht

MCNodeId ==
  [e \in Endpoints |->
     CASE e = "e1" -> <<0, 0, 1>>
       [] e = "e2" -> <<0, 1, 0>>
       [] e = "e3" -> <<1, 0, 0>>
       [] e = "e4" -> <<1, 1, 1>>
       [] e = "e5" -> <<1, 0, 1>>]

\* Every id a key can have.
MCKeys  == [1 .. 3 -> {0, 1}]
MCKeyId == [k \in MCKeys |-> k]

MCSelfId == <<1, 0, 1>>

=============================================================================
