-------------------------- MODULE MC_ControlPlane ---------------------------
(* Two handlers that resize between one and two drones and pause or resume; *)
(* the two drones live in different shards; two loop identities.            *)
EXTENDS ControlPlane
CONSTANTS h1, h2, l1, l2
MCHandler == {h1, h2}
MCLoop == {l1, l2}
MCCounts == 1 .. 2
MCIntervals == {1}
MCShardIndex == [d \in 0 .. 1 |-> d]
=============================================================================
