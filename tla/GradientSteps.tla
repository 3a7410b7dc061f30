------------------------------ MODULE GradientSteps ------------------------------
(***************************************************************************)
(* The learning phase of one iteration: advantages of the rollouts, the    *)
(* filter that scatters the strongest of them evenly over the ranks, and   *)
(* the gradient steps that the ranks take together                         *)
(* (phi_agents/rl/train.py, _filter_rollouts, _gradient_steps,             *)
(* _gradient_step; phi_agents/rl/rl_utils.py).  A rank runs alone between  *)
(* two collective operations; a collective operation completes when every  *)
(* rank has entered the same one.  Rollouts are told apart by their return *)
(* alone, a loss by whether it is NaN.                                     *)
(***************************************************************************)
EXTENDS Integers, FiniteSets, Sequences, FiniteSetsExt

CONSTANTS
  World,               \* world_size
  Group,               \* rollouts of one scenario; each rank has one scenario
  MinibatchSize,       \* minibatch_size, over all ranks
  EpochsPerIteration,  \* epochs_per_iteration
  Thresholds,          \* values of abs_adv_threshold
  Invalids             \* bound: losses that are NaN

ASSUME GradientAssumption ==
  /\ {World, EpochsPerIteration} \subseteq Nat \ {0}
  /\ Group \in Nat /\ Group >= 2
  /\ MinibatchSize \in World .. World * Group
  /\ Thresholds \subseteq Nat
  /\ Invalids \in Nat

GradRanks == 0 .. World - 1
Batch == World * Group
Rollouts == GradRanks \X (1 .. Group)
CollectiveSites == {"scatter", "reduce_loss", "gather_kl", "clip", "over"}

VARIABLES
  returns,        \* by rollout
  threshold, pos_adv_only, on_policy,  \* abs_adv_threshold, pos_adv_only, strictly_on_policy
  kept,           \* the rollouts that pass the filter
  site,           \* by rank: a collective operation it waits in, or what it does alone
  epoch, done,    \* by rank: epochs and rollouts of this epoch it is through with
  nan, verdict,   \* by rank: is its own loss NaN, and does it take the averaged one for NaN?
  optimized,      \* by rank: optimizer steps
  invalids

gradientVars == <<returns, threshold, pos_adv_only, on_policy, kept, site, epoch, done, nan, verdict,
                  optimized, invalids>>
inputs == <<returns, threshold, pos_adv_only, on_policy>>

GradientTypeOK ==
  /\ returns \in [Rollouts -> 0 .. 1]
  /\ threshold \in Thresholds \cup {0}
  /\ pos_adv_only \in BOOLEAN /\ on_policy \in BOOLEAN
  /\ kept \subseteq Rollouts
  /\ site \in [GradRanks -> CollectiveSites \cup {"load", "loss", "raised"}]
  /\ epoch \in [GradRanks -> 0 .. EpochsPerIteration]
  /\ done \in [GradRanks -> 0 .. Batch]
  /\ nan \in [GradRanks -> BOOLEAN] /\ verdict \in [GradRanks -> BOOLEAN]
  /\ optimized \in [GradRanks -> 0 .. EpochsPerIteration * Batch]
  /\ invalids \in 0 .. Invalids

GradientInit ==
  /\ returns = [r \in Rollouts |-> 0]
  /\ threshold = 0
  /\ pos_adv_only = FALSE /\ on_policy = FALSE
  /\ kept = {}
  /\ site = [r \in GradRanks |-> "load"]
  /\ epoch = [r \in GradRanks |-> 0]
  /\ done = [r \in GradRanks |-> 0]
  /\ nan = [r \in GradRanks |-> FALSE] /\ verdict = [r \in GradRanks |-> FALSE]
  /\ optimized = [r \in GradRanks |-> 0]
  /\ invalids = 0

-----------------------------------------------------------------------------
\* compute_loop_advantages: the return less the mean of the others of its
\* scenario (leave-one-out), times Group - 1 to stay whole.
Successes(rank) == {i \in 1 .. Group : returns[<<rank, i>>] = 1}
advantage(rollout) == Group * returns[rollout] - Cardinality(Successes(rollout[1]))
Abs(n) == IF n < 0 THEN -n ELSE n
strength(rollout) == IF pos_adv_only THEN advantage(rollout) ELSE Abs(advantage(rollout))

\* How many rollouts each rank gets: rounded up to fill the ranks, at least one.
PerRank ==
  LET strong == Cardinality({r \in Rollouts : strength(r) >= threshold})
  IN Min({Max({1, (strong + World - 1) \div World}), Batch \div World})

RolloutsArrive ==
  /\ site = [r \in GradRanks |-> "load"]
  /\ returns' \in [Rollouts -> 0 .. 1]
  /\ threshold' \in Thresholds
  /\ pos_adv_only' \in BOOLEAN
  /\ on_policy' \in BOOLEAN
  /\ site' = [r \in GradRanks |-> "scatter"]
  /\ UNCHANGED <<kept, epoch, done, nan, verdict, optimized, invalids>>

\* _filter_rollouts on rank 0, scattered: the strongest, ties in any order.
FilterAndScatter ==
  /\ site = [r \in GradRanks |-> "scatter"]
  /\ kept' \in {chosen \in kSubset(World * PerRank, Rollouts) :
                 \A in \in chosen, out \in Rollouts \ chosen : strength(in) >= strength(out)}
  /\ site' = [r \in GradRanks |-> "loss"]
  /\ UNCHANGED <<inputs, epoch, done, nan, verdict, optimized, invalids>>

Share == Cardinality(kept) \div World
LocalMinibatch == IF on_policy THEN Share ELSE MinibatchSize \div World
EpochsRun == IF on_policy THEN 1 ELSE EpochsPerIteration

\* The losses of a minibatch, and their backward pass.
ComputeLoss(rank) ==
  /\ site[rank] = "loss"
  /\ \E isnan \in BOOLEAN :
       /\ isnan => invalids < Invalids
       /\ nan' = [nan EXCEPT ![rank] = isnan]
       /\ invalids' = IF isnan THEN invalids + 1 ELSE invalids
  /\ site' = [site EXCEPT ![rank] = "reduce_loss"]
  /\ UNCHANGED <<inputs, kept, epoch, done, verdict, optimized>>

\* dist.reduce gives the average to rank 0; the others go on with what they have.
ReduceLoss ==
  /\ site = [r \in GradRanks |-> "reduce_loss"]
  /\ verdict' = [r \in GradRanks |-> IF r = 0 THEN \E q \in GradRanks : nan[q] ELSE nan[r]]
  /\ site' = [r \in GradRanks |-> "gather_kl"]
  /\ UNCHANGED <<inputs, kept, epoch, done, nan, optimized, invalids>>

\* _gradient_steps after a minibatch: an iteration that stops leaves both loops,
\* the last minibatch of an epoch may be smaller.
NextMinibatch(rank) ==
  LET through == Min({Share, done[rank] + LocalMinibatch})
      last == through = Share
  IN [done |-> IF last THEN 0 ELSE through,
      epoch |-> IF last THEN epoch[rank] + 1 ELSE epoch[rank],
      site |-> IF last /\ epoch[rank] + 1 = EpochsRun THEN "over" ELSE "loss"]

\* _check_init_log_probs_difference, at global step 0: each rank looks at its
\* own rollouts.
InitDifferences ==
  IF invalids < Invalids /\ \A r \in GradRanks : optimized[r] = 0 /\ done[r] = 0 /\ epoch[r] = 0
    THEN SUBSET GradRanks ELSE {{}}
Checked(differs, next) ==
  /\ site' = [r \in GradRanks |-> IF r \in differs /\ next[r] # "clip" THEN "raised" ELSE next[r]]
  /\ invalids' = IF differs = {} THEN invalids ELSE invalids + 1

\* Mutant of GatherKl: every rank estimates the KL from its own rollouts.
GatherKlAlone ==
  /\ site = [r \in GradRanks |-> "gather_kl"]
  /\ \E high_kl \in [GradRanks -> BOOLEAN] : \E differs \in InitDifferences :
       Checked(differs, [r \in GradRanks |-> IF verdict[r] \/ high_kl[r] THEN "over" ELSE "clip"])
  /\ UNCHANGED <<inputs, kept, epoch, done, nan, verdict, optimized>>

\* The importance weights are gathered by all, so the KL estimate is the same
\* everywhere; a loss taken for NaN or a high estimate ends the iteration, the
\* others enter the optimizer step.
GatherKl ==
  /\ site = [r \in GradRanks |-> "gather_kl"]
  /\ \E high_kl \in BOOLEAN : \E differs \in InitDifferences :
       Checked(differs, [r \in GradRanks |-> IF verdict[r] \/ high_kl THEN "over" ELSE "clip"])
  /\ UNCHANGED <<inputs, kept, epoch, done, nan, verdict, optimized>>

\* _maybe_optimizer_step: the norm is reduced over all, an outlier is skipped
\* by all.
OptimizerStep ==
  /\ site = [r \in GradRanks |-> "clip"]
  /\ \E stepped \in BOOLEAN : optimized' = [r \in GradRanks |-> optimized[r] + (IF stepped THEN 1 ELSE 0)]
  /\ \E differs \in InitDifferences : Checked(differs, [r \in GradRanks |-> NextMinibatch(r).site])
  /\ done' = [r \in GradRanks |-> NextMinibatch(r).done]
  /\ epoch' = [r \in GradRanks |-> NextMinibatch(r).epoch]
  /\ UNCHANGED <<inputs, kept, nan, verdict>>

GradientNext ==
  \/ RolloutsArrive \/ FilterAndScatter
  \/ \E rank \in GradRanks : ComputeLoss(rank)
  \/ ReduceLoss \/ GatherKl \/ OptimizerStep
GradientSpec == GradientInit /\ [][GradientNext]_gradientVars

-----------------------------------------------------------------------------
(***************************************************************************)
(* The ranks learn in lockstep: unless one has raised, all take the same   *)
(* optimizer steps over the same number of rollouts and meet in the same   *)
(* collective operations.  The code fails this in one case only: the       *)
(* averaged loss is NaN, rank 0 alone sees it, and a rank whose own loss   *)
(* is valid goes into the optimizer step that the others have left; there  *)
(* it waits for ever, no step having been taken.                           *)
(***************************************************************************)
LearnTogether ==
  (\A r \in GradRanks : site[r] # "raised") =>
    /\ \A r, q \in GradRanks : optimized[r] = optimized[q]
    /\ \A r, q \in GradRanks :
         site[r] \in CollectiveSites /\ site[q] \in CollectiveSites =>
           \/ site[r] = site[q]
           \/ \E p \in GradRanks : nan[p] /\ ~(nan[r] /\ nan[q])

(***************************************************************************)
(* Every rank gets the same number of rollouts, at least one; no rollout   *)
(* left out has a larger advantage than one kept; one under the threshold  *)
(* is kept only to fill up the ranks, and none above it is left out.       *)
(***************************************************************************)
FilterIsFair ==
  kept # {} =>
    /\ Cardinality(kept) = World * Share /\ Share >= 1
    /\ \A in \in kept, out \in Rollouts \ kept : strength(in) >= strength(out)
    /\ \A out \in Rollouts \ kept : strength(out) < threshold
    /\ Cardinality({r \in kept : strength(r) < threshold}) < World
         \/ \A r \in Rollouts : strength(r) < threshold

\* What the ranks learn from, and that they learn it together.
LearningIsFair == LearnTogether /\ FilterIsFair
==================================================================================
