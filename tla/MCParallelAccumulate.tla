---------------------- MODULE MCParallelAccumulate ----------------------
(* Ranges for the run of ParallelAccumulate. *)
EXTENDS ParallelAccumulate
UpToSix == 0..6
UpToSeventeen == 0..17
=============================================================================
