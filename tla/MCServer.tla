----------------------------- MODULE MCServer -------------------------------
(* Instances of Server for TLC: the worker threads are interchangeable.    *)
EXTENDS Server, TLC

WorkerSymmetry == Permutations(Workers)
=============================================================================
