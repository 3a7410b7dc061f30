--------------------------- MODULE TrainingConfig ---------------------------
(***************************************************************************)
(* The configuration shared by the durable part of an ml-loop training run *)
(* (phi_agents/rl/conf/config.yaml and the launch scripts): how many       *)
(* iterations a run has, which learner processes take part, how many       *)
(* checkpoints are kept, and which launcher starts the trainer.  cloud_path *)
(* is a local or mounted file system, as in every launch script of the     *)
(* repository.                                                             *)
(***************************************************************************)
EXTENDS Naturals, FiniteSets

CONSTANTS
  TotalIterations,  \* rl.params.total_iterations
  MaxCkpts,         \* rl.max_ckpts; 0 stands for null (keep every checkpoint)
  Ranks,            \* the learner processes
  Lead,             \* rank 0: owner of manifests, metrics and the uploader
  OuterLauncher,    \* TRUE: train_sft_loop15_rtxpro6000.sh, which quarantines
                    \* leftovers of the previous attempt before it starts
  Diagnostics,      \* rl.rollout_diagnostics.enabled
  MaxLaunches,      \* model bound: how often the trainer is started
  FaultyLaunches    \* model bound: the launches that a crash or an exception may
                    \* interrupt are the first FaultyLaunches ones

(***************************************************************************)
(* What the code requires of these values: CloudCheckpointer rejects       *)
(* max_ckpts <= 0, there is a rank 0, and the outer launcher exports       *)
(* MAX_CKPTS=15 for its 15 iterations, so it never prunes (its preflight   *)
(* demands a contiguous prefix of checkpoints).                            *)
(***************************************************************************)
ASSUME ConfigAssumption ==
  /\ TotalIterations \in Nat \ {0}
  /\ MaxCkpts \in Nat
  /\ IsFiniteSet(Ranks)
  /\ Lead \in Ranks
  /\ OuterLauncher \in BOOLEAN
  /\ Diagnostics \in BOOLEAN
  /\ MaxLaunches \in Nat \ {0}
  /\ FaultyLaunches \in Nat
  /\ OuterLauncher => MaxCkpts = 0 \/ MaxCkpts >= TotalIterations

\* Iteration numbers as they appear in checkpoint-N and iteration-N.json.
Iterations == 1 .. TotalIterations

\* What one local checkpoint directory consists of: the LoRA adapter, one
\* training-state file per rank, and trainer_state.pt.
Parts == {"lora", "trainer_state"} \cup Ranks
=============================================================================
