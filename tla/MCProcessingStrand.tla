------------------------- MODULE MCProcessingStrand -------------------------
(* Instances of ProcessingStrand for TLC. *)
EXTENDS ProcessingStrand

AllTasks == Work \cup Strands
=============================================================================
