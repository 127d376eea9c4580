----------------------------- MODULE MCMalloc2 ------------------------------
(* Instances of Malloc2 for TLC: the client's slots are interchangeable.   *)
EXTENDS Malloc2, TLC

SlotSymmetry == Permutations(Slots)
=============================================================================
