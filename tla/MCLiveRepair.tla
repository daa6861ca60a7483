----------------------------- MODULE MCLiveRepair -----------------------------
(* Instance of LiveRepair: the sectors are interchangeable.                *)
EXTENDS LiveRepair, TLC

Symmetry == Permutations(Sectors)

=============================================================================
