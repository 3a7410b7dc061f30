---------------------------- MODULE MCTrainingRun ----------------------------
(***************************************************************************)
(* Instances of TrainingRun for TLC.                                       *)
(***************************************************************************)
EXTENDS TrainingRunInvariant

CONSTANTS rank0, rank1
MCRanks == {rank0, rank1}
=============================================================================
