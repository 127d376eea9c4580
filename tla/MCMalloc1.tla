----------------------------- MODULE MCMalloc1 ------------------------------
(* Instances of Malloc1 for TLC: the client's slots are interchangeable.   *)
EXTENDS Malloc1, TLC

SlotSymmetry == Permutations(Slots)
=============================================================================
