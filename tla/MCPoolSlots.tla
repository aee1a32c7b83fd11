----------------------------- MODULE MCPoolSlots -----------------------------
(* Model checking of PoolSlots on small pools.                             *)
EXTENDS PoolSlots, TLC

Symmetry == Permutations(Loader) \cup Permutations(Gen) \cup Permutations(Key)
=============================================================================
