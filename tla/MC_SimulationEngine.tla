------------------------ MODULE MC_SimulationEngine -------------------------
(* Two handlers, two loop identities (so that a second loop could start     *)
(* beside the first), populations 1 and 2 and an illegal 3, intervals 1     *)
(* and 2 and an illegal 3.                                                  *)
EXTENDS SimulationEngine, TLC
CONSTANTS h1, h2, l1, l2
MCHandler == {h1, h2}
MCLoop == {l1, l2}
MCCounts == 1 .. 3
MCIntervals == 1 .. 3
MCLegalCounts == 1 .. 2
Symmetric == Permutations(MCHandler) \cup Permutations(MCLoop)
=============================================================================
