------------------------------ MODULE MCEvalLoop ------------------------------
(***************************************************************************)
(* Instances of EvalLoop for TLC: an evaluation every second iteration, so *)
(* that iterations with and without one alternate.                         *)
(***************************************************************************)
EXTENDS EvalLoop
==============================================================================
