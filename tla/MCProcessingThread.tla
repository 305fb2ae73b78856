------------------------ MODULE MCProcessingThread ------------------------
(* Instances of ProcessingThread for TLC. *)
EXTENDS ProcessingThreadRefinement, TLC

Symmetry == Permutations(Callers) \cup Permutations(Cleanups)
===========================================================================
