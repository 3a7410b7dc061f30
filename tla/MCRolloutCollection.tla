------------------------- MODULE MCRolloutCollection -------------------------
(***************************************************************************)
(* Instances of RolloutCollection for TLC.                                 *)
(***************************************************************************)
EXTENDS RolloutCollection

CONSTANTS rank0, rank1
MCRanks == {rank0, rank1}
MCOneRank == {rank0}
=============================================================================
