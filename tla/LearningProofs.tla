---------------------------- MODULE LearningProofs -----------------------------
(***************************************************************************)
(* Proofs about what a model learns from: the steps of the ranks, the      *)
(* credit that an audit gives to the turns of a rollout, and the tokens    *)
(* that the learner gets of one.                                           *)
(***************************************************************************)
EXTENDS GradientSteps, ProcessAdvantage, AgentContext, NumberLemmas, SequenceTheorems

(***************************************************************************)
(* Proofs about GradientSteps, for every number of ranks, rollouts and     *)
(* epochs and every size of a minibatch: the ranks learn in lockstep, from *)
(* the rollouts that the filter promises.                                  *)
(***************************************************************************)
\* What every rank does is known from what one of them does.
InPhase ==
  \/ site = [r \in GradRanks |-> "load"] /\ kept = {}
  \/ site = [r \in GradRanks |-> "scatter"] /\ kept = {}
  \/ site \in [GradRanks -> {"loss", "reduce_loss", "raised"}]
  \/ site = [r \in GradRanks |-> "gather_kl"]
  \/ site \in [GradRanks -> {"clip", "over", "raised"}]

\* Ranks are ahead of each other by a loss at most, which each computes alone.
Lockstep ==
  \A r, q \in GradRanks : optimized[r] = optimized[q] /\ done[r] = done[q] /\ epoch[r] = epoch[q]

\* Why a rank takes the loss for NaN, and why one stops where another goes on.
VerdictsExplained ==
  site = [r \in GradRanks |-> "gather_kl"] =>
    \A r, q \in GradRanks :
      verdict[r] /\ ~verdict[q] => ~nan[q] /\ \E p \in GradRanks : nan[p]

StopsExplained ==
  \A r, q \in GradRanks :
    site[r] = "over" /\ site[q] = "clip" => ~nan[q] /\ \E p \in GradRanks : nan[p]

GInv ==
  /\ nan \in [GradRanks -> BOOLEAN]
  /\ returns \in [Rollouts -> 0 .. 1] /\ threshold \in Int
  /\ InPhase
  /\ Lockstep
  /\ VerdictsExplained
  /\ StopsExplained
  /\ FilterIsFair

-----------------------------------------------------------------------------
(* The filter.                                                             *)

\* Rounding up to a multiple of the number of ranks.
LEMMA RoundUp ==
  ASSUME NEW n \in Nat, NEW w \in Nat \ {0}
  PROVE  LET c == (n + w - 1) \div w
         IN c \in Nat /\ n <= w * c /\ w * c < n + w /\ (n >= 1 => c >= 1)
  OBVIOUS

\* A batch is so many rollouts for each rank.
LEMMA ShareOfBatch ==
  ASSUME NEW g \in Nat, NEW w \in Nat \ {0}
  PROVE  w * g \in Nat /\ (w * g) \div w = g
  OBVIOUS

\* The number of rollouts per rank: enough for the strong ones, and by less than one
\* for each rank too many unless there are none.
LEMMA PerRankFits ==
  ASSUME NEW strong \in 0 .. World * Group
  PROVE  LET perRank == Min({Max({1, (strong + World - 1) \div World}), Batch \div World})
         IN /\ perRank \in Nat /\ perRank >= 1
            /\ strong <= World * perRank
            /\ strong >= 1 => World * perRank < strong + World
<1> DEFINE c == (strong + World - 1) \div World
           up == Max({1, c})
           perRank == Min({up, Batch \div World})
<1>1. World \in Nat \ {0} /\ Group \in Nat /\ Group >= 2 /\ strong \in Nat
  BY GradientAssumption, ShareOfBatch
<1>2. c \in Nat /\ strong <= World * c /\ World * c < strong + World /\ (strong >= 1 => c >= 1)
  BY <1>1, RoundUp
<1>3. Batch \div World = Group
  BY <1>1, ShareOfBatch DEF Batch
<1> HIDE DEF c
<1>4. up = IF c >= 1 THEN c ELSE 1
  BY <1>2 DEF Max
<1>5. perRank = IF up <= Group THEN up ELSE Group
  BY <1>1, <1>2, <1>3, <1>4 DEF Min
<1>6. \/ perRank = Group /\ c >= Group
      \/ perRank = c /\ c >= 1
      \/ perRank = 1 /\ c = 0
  BY <1>1, <1>2, <1>4, <1>5
<1> HIDE DEF perRank, up
<1> DEFINE Fits == /\ perRank \in Nat /\ perRank >= 1
                   /\ strong <= World * perRank
                   /\ strong >= 1 => World * perRank < strong + World
<1>7. ASSUME perRank = Group, c >= Group PROVE Fits
  <2>1. World * Group <= World * c /\ World * Group \in Nat /\ World * c \in Nat
    BY <1>1, <1>2, <1>7
  <2>2. World * Group < strong + World
    BY <1>1, <1>2, <2>1
  <2> QED
    BY <1>1, <1>7, <2>2
<1>8. ASSUME perRank = c, c >= 1 PROVE Fits
  BY <1>2, <1>8
<1>9. ASSUME perRank = 1, c = 0 PROVE Fits
  <2>1. strong = 0
    BY <1>1, <1>2, <1>9
  <2>2. World * 1 \in Nat
    BY <1>1
  <2> QED
    BY <1>1, <1>9, <2>1, <2>2
<1>10. Fits
  BY <1>6, <1>7, <1>8, <1>9
<1> QED
  BY <1>10 DEF perRank, up, c

\* Strengths are comparable.
LEMMA StrengthsCompare ==
  ASSUME returns \in [Rollouts -> 0 .. 1], NEW rollout \in Rollouts
  PROVE  strength(rollout) \in Int
<1>1. IsFiniteSet(1 .. Group) /\ Group \in Int
  <2>1. Group \in Int /\ 1 \in Int
    BY GradientAssumption
  <2> QED
    BY <2>1, FS_Interval
<1>2. Successes(rollout[1]) \in SUBSET (1 .. Group)
  BY DEF Successes
<1>3. Cardinality(Successes(rollout[1])) \in Nat
  BY <1>1, <1>2, FS_Subset, FS_CardinalityType
<1>4. returns[rollout] \in Int
  OBVIOUS
<1>5. advantage(rollout) \in Int
  BY <1>1, <1>3, <1>4 DEF advantage
<1> QED
  BY <1>5 DEF strength, Abs

\* What FilterIsFair says of a set of rollouts.
Fair(chosen) ==
  /\ Cardinality(chosen) = World * (Cardinality(chosen) \div World)
  /\ Cardinality(chosen) \div World >= 1
  /\ \A in \in chosen, out \in Rollouts \ chosen : strength(in) >= strength(out)
  /\ \A out \in Rollouts \ chosen : strength(out) < threshold
  /\ \/ Cardinality({r \in chosen : strength(r) < threshold}) < World
     \/ \A r \in Rollouts : strength(r) < threshold

\* A batch is finite, and as large as its name says.
LEMMA BatchIsFinite == IsFiniteSet(Rollouts) /\ Cardinality(Rollouts) = World * Group
<1>1. World \in Nat \ {0} /\ Group \in Nat /\ Group >= 2
  BY GradientAssumption
<1>2. IsFiniteSet(GradRanks) /\ Cardinality(GradRanks) = World
  <2>1. 0 \in Int /\ World - 1 \in Int
    BY <1>1
  <2>2. IsFiniteSet(0 .. World - 1)
        /\ Cardinality(0 .. World - 1) = IF 0 > World - 1 THEN 0 ELSE (World - 1) - 0 + 1
    BY <2>1, FS_Interval
  <2> QED
    BY <1>1, <2>2 DEF GradRanks
<1>3. IsFiniteSet(1 .. Group) /\ Cardinality(1 .. Group) = Group
  <2>1. 1 \in Int /\ Group \in Int
    BY <1>1
  <2>2. IsFiniteSet(1 .. Group)
        /\ Cardinality(1 .. Group) = IF 1 > Group THEN 0 ELSE Group - 1 + 1
    BY <2>1, FS_Interval
  <2> QED
    BY <1>1, <2>2
<1> QED
  BY <1>2, <1>3, FS_Product DEF Rollouts

\* The strongest rollouts, as many as the filter takes, are a fair choice.
LEMMA FilterChoosesFairly ==
  ASSUME returns \in [Rollouts -> 0 .. 1], threshold \in Int,
         NEW chosen \in kSubset(World * PerRank, Rollouts),
         \A in \in chosen, out \in Rollouts \ chosen : strength(in) >= strength(out)
  PROVE  Fair(chosen)
<1> DEFINE Strong == {r \in Rollouts : strength(r) >= threshold}
           Weak == {r \in chosen : strength(r) < threshold}
           strong == Cardinality(Strong)
<1>1. World \in Nat \ {0} /\ Group \in Nat /\ World * Group \in Nat
  BY GradientAssumption, ShareOfBatch
<1>2. /\ IsFiniteSet(Strong) /\ strong \in 0 .. World * Group
  <2>1. Strong \in SUBSET Rollouts
    OBVIOUS
  <2>2. IsFiniteSet(Strong) /\ strong <= World * Group
    BY <2>1, BatchIsFinite, FS_Subset
  <2> QED
    BY <1>1, <2>2, FS_CardinalityType
<1>3. /\ PerRank \in Nat /\ PerRank >= 1
      /\ strong <= World * PerRank
      /\ strong >= 1 => World * PerRank < strong + World
  BY <1>2, PerRankFits DEF PerRank
<1>4. chosen \in SUBSET Rollouts /\ Cardinality(chosen) = World * PerRank
  BY DEF kSubset
<1>5. IsFiniteSet(chosen) /\ IsFiniteSet(Weak)
  <2>1. IsFiniteSet(chosen)
    BY <1>4, BatchIsFinite, FS_Subset
  <2>2. Weak \in SUBSET chosen
    OBVIOUS
  <2> QED
    BY <2>1, <2>2, FS_Subset
<1>6. Cardinality(chosen) \div World = PerRank
  BY <1>1, <1>3, <1>4, ShareOfBatch
<1>7. \A r \in Rollouts : strength(r) \in Int
  BY StrengthsCompare
<1> HIDE DEF strong
\* If a strong one were left out, all chosen would be strong: too many.
<1>8. ASSUME NEW out \in Rollouts \ chosen PROVE strength(out) < threshold
  <2>1. SUFFICES ASSUME strength(out) >= threshold PROVE FALSE
    BY <1>7
  <2>2. \A in \in chosen : strength(in) >= threshold
    BY <1>4, <1>7, <2>1
  <2>3. chosen \in SUBSET (Strong \ {out})
    BY <1>4, <2>2
  <2>4. IsFiniteSet(Strong \ {out}) /\ Cardinality(Strong \ {out}) = strong - 1
    BY <1>2, <2>1, FS_RemoveElement DEF strong
  <2>5. Cardinality(chosen) <= strong - 1
    BY <2>3, <2>4, FS_Subset
  <2> QED
    BY <1>1, <1>2, <1>3, <1>4, <2>5
\* The strong ones are all chosen, so few weak ones are.
<1>9. Cardinality(Weak) < World \/ \A r \in Rollouts : strength(r) < threshold
  <2>1. SUFFICES ASSUME NEW r \in Rollouts, ~(strength(r) < threshold)
                 PROVE  Cardinality(Weak) < World
    OBVIOUS
  <2>2. strong >= 1
    <3>1. Strong # {}
      BY <1>7, <2>1
    <3>2. strong # 0
      BY <1>2, <3>1, FS_EmptySet DEF strong
    <3> QED
      BY <1>1, <1>2, <3>2
  <2>3. Weak = chosen \ Strong /\ Strong \subseteq chosen
    BY <1>4, <1>7, <1>8
  <2>4. Cardinality(chosen \ Strong) = Cardinality(chosen) - Cardinality(chosen \cap Strong)
    BY <1>2, <1>5, FS_Difference
  <2>5. chosen \cap Strong = Strong
    BY <2>3
  <2>6. Cardinality(Weak) = World * PerRank - strong
    BY <1>4, <2>3, <2>4, <2>5 DEF strong
  <2>7. World * PerRank \in Nat
    BY <1>1, <1>3, ShareOfBatch
  <2> QED
    BY <1>1, <1>2, <1>3, <2>2, <2>6, <2>7
<1> QED
  BY <1>3, <1>4, <1>6, <1>8, <1>9 DEF Fair

\* It stays fair as long as the rollouts and the settings do.
LEMMA FairnessStays ==
  ASSUME FilterIsFair, UNCHANGED <<inputs, kept>>
  PROVE  FilterIsFair'
  BY DEF FilterIsFair, Share, inputs, strength, advantage, Successes, Abs

-----------------------------------------------------------------------------
(* The ranks.                                                              *)

\* Ranks that are equally far go on alike.
LEMMA NextIsCommon ==
  ASSUME Lockstep, NEW r \in GradRanks, NEW q \in GradRanks
  PROVE  NextMinibatch(r) = NextMinibatch(q)
  BY DEF Lockstep, NextMinibatch

\* A rank alone computes a loss: it waits for no one and moves no one.
LEMMA LossKeeps == GInv /\ (\E rank \in GradRanks : ComputeLoss(rank)) => GInv'
<1> SUFFICES ASSUME GInv, NEW rank \in GradRanks, ComputeLoss(rank) PROVE GInv'
  OBVIOUS
<1>1. /\ site[rank] = "loss" /\ site' = [site EXCEPT ![rank] = "reduce_loss"]
      /\ UNCHANGED <<inputs, kept, epoch, done, optimized>>
      /\ nan' \in [GradRanks -> BOOLEAN]
  BY DEF ComputeLoss, GInv
<1>2. /\ site \in [GradRanks -> {"loss", "reduce_loss", "raised"}]
      /\ site' \in [GradRanks -> {"loss", "reduce_loss", "raised"}]
  BY <1>1 DEF GInv, InPhase
<1>3. site'[rank] = "reduce_loss"
  BY <1>1, <1>2
<1>4. InPhase' /\ VerdictsExplained' /\ StopsExplained'
  BY <1>2, <1>3 DEF InPhase, VerdictsExplained, StopsExplained
<1>5. Lockstep'
  BY <1>1 DEF GInv, Lockstep
<1>6. FilterIsFair'
  BY <1>1, FairnessStays DEF GInv
<1> QED
  BY <1>1, <1>4, <1>5, <1>6 DEF GInv, inputs

\* Where all do the same, no rank stops while another goes on.
LEMMA CommonSite ==
  ASSUME NEW s \in {"scatter", "gather_kl"}, site' = [r \in GradRanks |-> s],
         s = "gather_kl" => VerdictsExplained', s = "scatter" => kept' = {}
  PROVE  InPhase' /\ VerdictsExplained' /\ StopsExplained'
<1>1. StopsExplained'
  BY DEF StopsExplained
<1>2. CASE s = "gather_kl"
  BY <1>1, <1>2 DEF InPhase
<1>3. CASE s = "scatter"
  <2>1. 0 \in GradRanks
    BY GradientAssumption DEF GradRanks
  <2>2. site' # [r \in GradRanks |-> "gather_kl"]
    BY <1>3, <2>1
  <2> QED
    BY <1>1, <1>3, <2>2 DEF InPhase, VerdictsExplained
<1> QED
  BY <1>2, <1>3

\* Ranks that checked the first log-probabilities go where they were going, or raise.
LEMMA CheckedSites ==
  ASSUME NEW differs, NEW next, Checked(differs, next), NEW r \in GradRanks
  PROVE  site'[r] \in {next[r], "raised"}
  BY DEF Checked

\* The collective operations.
LEMMA CollectivesKeep ==
  GInv /\ (RolloutsArrive \/ FilterAndScatter \/ ReduceLoss \/ GatherKl \/ OptimizerStep) => GInv'
<1> SUFFICES ASSUME GInv,
                    RolloutsArrive \/ FilterAndScatter \/ ReduceLoss \/ GatherKl \/ OptimizerStep
             PROVE  GInv'
  OBVIOUS
<1>0. 0 \in GradRanks
  BY GradientAssumption DEF GradRanks
<1>1. CASE RolloutsArrive
  <2>1. /\ site = [r \in GradRanks |-> "load"] /\ site' = [r \in GradRanks |-> "scatter"]
        /\ UNCHANGED <<kept, epoch, done, optimized, nan>>
        /\ returns' \in [Rollouts -> 0 .. 1] /\ threshold' \in Int
    BY <1>1, GradientAssumption DEF RolloutsArrive
  <2>2. kept = {}
    BY <1>0, <2>1 DEF GInv, InPhase
  <2>3. InPhase' /\ VerdictsExplained' /\ StopsExplained'
    BY <2>1, <2>2, CommonSite
  <2>4. Lockstep' /\ FilterIsFair'
    BY <2>1, <2>2 DEF GInv, Lockstep, FilterIsFair
  <2> QED
    BY <2>1, <2>3, <2>4 DEF GInv
<1>2. CASE FilterAndScatter
  <2>1. /\ site' = [r \in GradRanks |-> "loss"]
        /\ UNCHANGED <<inputs, epoch, done, optimized, nan>>
    BY <1>2 DEF FilterAndScatter
  <2>2. InPhase' /\ VerdictsExplained' /\ StopsExplained'
    <3>1. /\ site' \in [GradRanks -> {"loss", "reduce_loss", "raised"}]
          /\ \A r \in GradRanks : site'[r] = "loss"
      BY <2>1
    <3> QED
      BY <1>0, <3>1 DEF InPhase, VerdictsExplained, StopsExplained
  <2>3. Lockstep'
    BY <2>1 DEF GInv, Lockstep
  <2>4. FilterIsFair'
    <3>1. Fair(kept')
      BY <1>2, FilterChoosesFairly DEF FilterAndScatter, GInv
    <3>2. /\ threshold' = threshold
          /\ \A r : strength(r)' = strength(r)
      BY <2>1 DEF inputs, strength, advantage, Successes, Abs
    <3> QED
      BY <3>1, <3>2 DEF Fair, FilterIsFair, Share
  <2> QED
    BY <2>1, <2>2, <2>3, <2>4 DEF GInv, inputs
<1>3. CASE ReduceLoss
  <2>1. /\ site' = [r \in GradRanks |-> "gather_kl"]
        /\ verdict' = [r \in GradRanks |-> IF r = 0 THEN \E q \in GradRanks : nan[q] ELSE nan[r]]
        /\ UNCHANGED <<inputs, kept, epoch, done, optimized, nan>>
    BY <1>3 DEF ReduceLoss
  <2>2. VerdictsExplained'
    <3> SUFFICES ASSUME NEW r \in GradRanks, NEW q \in GradRanks, verdict'[r], ~verdict'[q]
                 PROVE  ~nan'[q] /\ \E p \in GradRanks : nan'[p]
      BY DEF VerdictsExplained
    <3>1. \E p \in GradRanks : nan[p]
      <4>1. CASE r = 0
        BY <2>1, <4>1
      <4>2. CASE r # 0
        BY <2>1, <4>2
      <4> QED
        BY <4>1, <4>2
    <3>2. ~nan[q]
      <4>1. CASE q = 0
        BY <2>1, <4>1
      <4>2. CASE q # 0
        BY <2>1, <4>2
      <4> QED
        BY <4>1, <4>2
    <3> QED
      BY <2>1, <3>1, <3>2
  <2>3. InPhase' /\ VerdictsExplained' /\ StopsExplained'
    BY <2>1, <2>2, CommonSite
  <2>4. Lockstep' /\ FilterIsFair'
    BY <2>1, FairnessStays DEF GInv, Lockstep
  <2> QED
    BY <2>1, <2>3, <2>4 DEF GInv, inputs
<1>4. CASE GatherKl
  <2>1. UNCHANGED <<inputs, kept, epoch, done, optimized, nan, verdict>>
    BY <1>4 DEF GatherKl
  <2>2. site = [r \in GradRanks |-> "gather_kl"]
    BY <1>4 DEF GatherKl
  <2>3. PICK high_kl \in BOOLEAN, differs \in InitDifferences :
          Checked(differs, [r \in GradRanks |-> IF verdict[r] \/ high_kl THEN "over" ELSE "clip"])
    BY <1>4 DEF GatherKl
  <2>4. \A r \in GradRanks :
          /\ site'[r] \in {"clip", "over", "raised"}
          /\ site'[r] = "over" => verdict[r] \/ high_kl
          /\ site'[r] = "clip" => ~verdict[r] /\ ~high_kl
    BY <2>3, CheckedSites
  <2>5. site' \in [GradRanks -> {"clip", "over", "raised"}]
    BY <2>3, <2>4 DEF Checked
  <2>6. StopsExplained'
    BY <2>1, <2>2, <2>4 DEF GInv, VerdictsExplained, StopsExplained
  <2>7. InPhase' /\ VerdictsExplained'
    BY <1>0, <2>5 DEF InPhase, VerdictsExplained
  <2>8. Lockstep' /\ FilterIsFair'
    BY <2>1, FairnessStays DEF GInv, Lockstep
  <2> QED
    BY <2>1, <2>6, <2>7, <2>8 DEF GInv, inputs
<1>5. CASE OptimizerStep
  <2>1. UNCHANGED <<inputs, kept, nan, verdict>>
    BY <1>5 DEF OptimizerStep
  <2>2. PICK differs \in InitDifferences : Checked(differs, [r \in GradRanks |-> NextMinibatch(r).site])
    BY <1>5 DEF OptimizerStep
  <2>3. PICK stepped \in BOOLEAN :
          optimized' = [r \in GradRanks |-> optimized[r] + (IF stepped THEN 1 ELSE 0)]
    BY <1>5 DEF OptimizerStep
  <2>4. /\ done' = [r \in GradRanks |-> NextMinibatch(r).done]
        /\ epoch' = [r \in GradRanks |-> NextMinibatch(r).epoch]
    BY <1>5 DEF OptimizerStep
  <2>5. \A r, q \in GradRanks : NextMinibatch(r) = NextMinibatch(q)
    BY NextIsCommon DEF GInv
  <2>6. Lockstep'
    BY <2>3, <2>4, <2>5 DEF GInv, Lockstep
  <2>7. PICK s \in {"over", "loss"} : \A r \in GradRanks : NextMinibatch(r).site = s
    <3>1. NextMinibatch(0).site \in {"over", "loss"}
      BY DEF NextMinibatch
    <3> QED
      BY <1>0, <2>5, <3>1
  <2>8. \A r \in GradRanks : site'[r] \in {s, "raised"}
    BY <2>2, <2>7, CheckedSites
  <2>9. site' \in [GradRanks -> {s, "raised"}]
    BY <2>2, <2>8 DEF Checked
  <2>10. InPhase' /\ VerdictsExplained' /\ StopsExplained'
    BY <1>0, <2>9 DEF InPhase, VerdictsExplained, StopsExplained
  <2>11. FilterIsFair'
    BY <2>1, FairnessStays DEF GInv
  <2> QED
    BY <2>1, <2>6, <2>10, <2>11 DEF GInv, inputs
<1> QED
  BY <1>1, <1>2, <1>3, <1>4, <1>5

-----------------------------------------------------------------------------
\* Whatever losses are NaN, estimates are high and ranks raise: the ranks take the same
\* optimizer steps over equally many rollouts, and meet in the same collective
\* operations unless the loss of one is NaN and that of another is not
\* (train.py:1948); what they learn from are the strongest rollouts, and fewer than
\* one per rank under the threshold (train.py, _filter_rollouts).
THEOREM RanksLearnFairly == GradientSpec => []LearningIsFair
<1>1. GradientInit => GInv
  <2> SUFFICES ASSUME GradientInit PROVE GInv
    OBVIOUS
  <2>1. 0 \in GradRanks
    BY GradientAssumption DEF GradRanks
  <2>2. nan \in [GradRanks -> BOOLEAN] /\ returns \in [Rollouts -> 0 .. 1] /\ threshold \in Int
    BY DEF GradientInit
  <2>3. InPhase /\ VerdictsExplained /\ StopsExplained
    BY <2>1 DEF GradientInit, InPhase, VerdictsExplained, StopsExplained
  <2>4. Lockstep /\ FilterIsFair
    BY DEF GradientInit, Lockstep, FilterIsFair
  <2> QED
    BY <2>2, <2>3, <2>4 DEF GInv
<1>2. GInv /\ [GradientNext]_gradientVars => GInv'
  <2>1. GInv /\ GradientNext => GInv'
    BY LossKeeps, CollectivesKeep DEF GradientNext
  <2>2. GInv /\ UNCHANGED gradientVars => GInv'
    <3> SUFFICES ASSUME GInv, UNCHANGED gradientVars PROVE GInv'
      OBVIOUS
    <3>1. FilterIsFair'
      BY FairnessStays DEF GInv, gradientVars, inputs
    <3> QED
      BY <3>1
      DEF GInv, gradientVars, InPhase, Lockstep, VerdictsExplained, StopsExplained
  <2> QED
    BY <2>1, <2>2
<1>3. GInv => LearningIsFair
  <2> SUFFICES ASSUME GInv, \A r \in GradRanks : site[r] # "raised" PROVE LearnTogether
    BY DEF GInv, LearningIsFair, LearnTogether
  <2> SUFFICES ASSUME NEW r \in GradRanks, NEW q \in GradRanks,
                      site[r] \in CollectiveSites, site[q] \in CollectiveSites, site[r] # site[q]
               PROVE  \E p \in GradRanks : nan[p] /\ ~(nan[r] /\ nan[q])
    BY DEF GInv, Lockstep, LearnTogether
  <2>1. (site[r] = "over" /\ site[q] = "clip") \/ (site[r] = "clip" /\ site[q] = "over")
    BY DEF GInv, InPhase, CollectiveSites
  <2> QED
    BY <2>1 DEF GInv, StopsExplained
<1> QED
  BY <1>1, <1>2, <1>3, PTL DEF GradientSpec

-----------------------------------------------------------------------------
(***************************************************************************)
(* Proof about ProcessAdvantage, for groups of up to six rollouts of any   *)
(* length and with any calls: credit stays local, however its components   *)
(* add up.                                                                 *)
(***************************************************************************)
LEMMA OfTwo ==
  ASSUME NEW a \in Int, NEW b \in Int
  PROVE  /\ Min({a, b}) = IF a <= b THEN a ELSE b
         /\ Max({a, b}) = IF a <= b THEN b ELSE a
  BY DEF Min, Max

LEMMA NotNegative ==
  ASSUME NEW x \in Int
  PROVE  Max({0, x}) \in Nat
<1>1. Max({0, x}) = IF 0 <= x THEN x ELSE 0
  BY DEF Max
<1> QED
  BY <1>1

LEMMA Counted ==
  ASSUME NEW x \in Int
  PROVE  1 .. x \in SUBSET Nat
  OBVIOUS

-----------------------------------------------------------------------------
(* The values of the components.                                           *)

Typed ==
  /\ traces \in [Labels -> Seq(CallTurn)]
  /\ ret \in [Labels -> Returns]

LEMMA TracesTyped ==
  ASSUME Typed, NEW k \in Labels
  PROVE  /\ Len(traces[k]) \in Nat
         /\ DOMAIN traces[k] = 1 .. Len(traces[k])
         /\ \A i \in DOMAIN traces[k] : traces[k][i].failed \in BOOLEAN
<1>1. traces[k] \in Seq(CallTurn)
  BY DEF Typed
<1>2. \A i \in DOMAIN traces[k] : traces[k][i] \in CallTurn
  BY <1>1
<1> QED
  BY <1>1, <1>2 DEF CallTurn

LEMMA TailStart ==
  ASSUME Typed, NEW k \in Labels, NEW period \in 1 .. 3
  PROVE  tail_start(k, period) \in Nat
<1> DEFINE n == Len(traces[k])
           cyclic(start) == \A i \in start + period .. n : traces[k][i].calls = traces[k][i - period].calls
           starts == {start \in 1 .. n - 2 * period + 1 : cyclic(start)}
<1>1. n \in Nat
  BY TracesTyped
<1>2. starts \in SUBSET Nat
  <2>1. n - 2 * period + 1 \in Int
    BY <1>1
  <2> DEFINE x == n - 2 * period + 1
  <2>2. 1 .. x \in SUBSET Nat
    BY <2>1, Counted
  <2>3. starts \in SUBSET (1 .. x)
    OBVIOUS
  <2> HIDE DEF starts, x
  <2> QED
    BY <2>2, <2>3
<1>3. tail_start(k, period) = IF starts = {} THEN n + 1 ELSE Min(starts)
  BY DEF tail_start
<1> HIDE DEF starts, n
<1>4. CASE starts = {}
  BY <1>1, <1>3, <1>4
<1>5. CASE starts # {}
  <2>1. Min(starts) \in starts
    BY <1>2, <1>5, MinIsLeast
  <2>2. Min(starts) \in Nat
    BY <1>2, <2>1
  <2> QED
    BY <1>3, <1>5, <2>2
<1> QED
  BY <1>4, <1>5

LEMMA Repeated ==
  ASSUME Typed, NEW k \in Labels, NEW period \in 1 .. 3
  PROVE  repeated(k, period) \in Nat
<1> DEFINE x == Len(traces[k]) + 1 - tail_start(k, period) - period
<1>1. x \in Int
  BY TracesTyped, TailStart
<1>2. repeated(k, period) = Max({0, x})
  BY DEF repeated
<1> HIDE DEF x
<1> QED
  BY <1>1, <1>2, NotNegative

\* Of three numbers one is the largest.
LEMMA OneIsBest ==
  ASSUME NEW f, \A p \in 1 .. 3 : f[p] \in Nat
  PROVE  \E p \in 1 .. 3 : \A q \in 1 .. 3 : f[q] <= f[p]
<1>1. f[1] \in Nat /\ f[2] \in Nat /\ f[3] \in Nat
  OBVIOUS
<1>2. \A q \in 1 .. 3 : q = 1 \/ q = 2 \/ q = 3
  OBVIOUS
<1> QED
  BY <1>1, <1>2

LEMMA RepeatOrdinal ==
  ASSUME Typed, NEW k \in Labels, NEW i \in Nat
  PROVE  repeat_ordinal(k, i) \in Nat
<1> DEFINE lengths == {repeated(k, p) : p \in 1 .. 3}
           longest == Max(lengths)
           best == {p \in 1 .. 3 : repeated(k, p) = longest}
           period == Min(best)
           x == i - (tail_start(k, period) + period) + 1
<1>1. best # {}
  <2> DEFINE f == [p \in 1 .. 3 |-> repeated(k, p)]
  <2>1. \A p \in 1 .. 3 : f[p] \in Nat
    BY Repeated
  <2>2. PICK p \in 1 .. 3 : \A q \in 1 .. 3 : f[q] <= f[p]
    <3> HIDE DEF f
    <3> QED
      BY <2>1, OneIsBest
  <2>3. repeated(k, p) \in lengths /\ \A v \in lengths : v \in Int /\ repeated(k, p) >= v
    BY <2>1, <2>2
  <2>4. longest = repeated(k, p)
    <3> HIDE DEF lengths
    <3> QED
      BY <2>3, LeastIs
  <2> QED
    BY <2>4
<1>2. period \in 1 .. 3
  <2>1. best \in SUBSET Nat /\ best \in SUBSET (1 .. 3)
    OBVIOUS
  <2>2. Min(best) \in best
    <3> HIDE DEF best
    <3> QED
      BY <1>1, <2>1, MinIsLeast
  <2> HIDE DEF best
  <2> QED
    BY <2>1, <2>2
<1>3. repeat_ordinal(k, i) = IF repeated(k, period) = 0 THEN 0 ELSE Max({0, x})
  BY DEF repeat_ordinal
<1>4. x \in Int
  <2> HIDE DEF period
  <2>1. tail_start(k, period) \in Nat
    BY <1>2, TailStart
  <2> QED
    BY <1>2, <2>1
<1> HIDE DEF x, period
<1> QED
  BY <1>3, <1>4, NotNegative

\* Credit from the decisions that a turn makes has the sign that its gains have.
LEMMA PairwiseIsSigned ==
  ASSUME Typed, NEW k \in Labels, NEW i
  PROVE  LET others == Divided(k, i)
         IN /\ pairwise(k, i) \in Int
            /\ others = {} => pairwise(k, i) = 0
            /\ others # {} /\ (\A m \in others : ret[m] < ret[k]) => pairwise(k, i) >= 1
            /\ others # {} /\ (\A m \in others : ret[m] > ret[k]) => pairwise(k, i) <= -1
<1> DEFINE gain == [m \in Labels |-> 60 * (ret[k] - ret[m])]
           others == Divided(k, i)
           sum == SumFunctionOnSet(gain, others)
           c == Cardinality(others)
<1>1. others \in SUBSET Labels /\ IsFiniteSet(Labels)
  <2>1. IsFiniteSet(1 .. GroupSize)
    <3>1. 1 \in Int /\ GroupSize \in Int
      BY AdvantageAssumption
    <3> QED
      BY ONLY <3>1, FS_Interval
  <2> QED
    BY <2>1 DEF Divided, Labels
<1>2. IsFiniteSet(others) /\ c \in Nat
  BY <1>1, FS_Subset, FS_CardinalityType
<1>3. \A m \in Labels : ret[m] \in Int
  BY DEF Typed, Returns
<1>4. \A m \in Labels : /\ gain[m] \in Int
                        /\ ret[m] < ret[k] => gain[m] >= 1
                        /\ ret[m] > ret[k] => gain[m] <= -1
  BY <1>3
<1>5. pairwise(k, i) = IF others = {} THEN 0 ELSE sum \div c
  BY DEF pairwise
<1>6. others # {} => c \in Nat \ {0}
  BY <1>2, FS_EmptySet
<1>7. /\ sum \in Int
      /\ (\A m \in others : ret[m] < ret[k]) => sum >= c
      /\ (\A m \in others : ret[m] > ret[k]) => sum <= -c
  <2> HIDE DEF gain, others
  <2>1. \A m \in others : gain[m] \in Int
    BY <1>1, <1>4
  <2>2. /\ (\A m \in others : ret[m] < ret[k]) => \A m \in others : gain[m] >= 1
        /\ (\A m \in others : ret[m] > ret[k]) => \A m \in others : gain[m] <= -1
    BY <1>1, <1>4
  <2>3. sum \in Int
    BY <1>2, <2>1, SumIsInteger
  <2>4. /\ (\A m \in others : gain[m] >= 1) => sum >= c
        /\ (\A m \in others : gain[m] <= -1) => sum <= -c
    BY <1>2, <2>1, SumIsSigned
  <2> QED
    BY <2>2, <2>3, <2>4
<1> HIDE DEF sum, c, others
<1>8. others # {} => sum \div c \in Int /\ (sum >= c => sum \div c >= 1) /\ (sum <= -c => sum \div c <= -1)
  BY <1>6, <1>7, QuotientIsSigned
<1>9. /\ pairwise(k, i) \in Int
      /\ others = {} => pairwise(k, i) = 0
      /\ others # {} /\ (\A m \in others : ret[m] < ret[k]) => pairwise(k, i) >= 1
      /\ others # {} /\ (\A m \in others : ret[m] > ret[k]) => pairwise(k, i) <= -1
  BY <1>5, <1>7, <1>8
<1> QED
  BY <1>9 DEF others

-----------------------------------------------------------------------------
(* The signal of a turn.                                                   *)

LEMMA ClipIs ==
  ASSUME NEW v \in Int
  PROVE  Clip(v) = IF v > 480 THEN 480 ELSE IF v < -480 THEN -480 ELSE v
<1>1. Max({-480, v}) = IF v < -480 THEN -480 ELSE v
  BY OfTwo, SMTT(30)
<1>2. Max({-480, v}) \in Int
  BY <1>1
<1>3. Clip(v) = Min({480, Max({-480, v})})
  BY DEF Clip, Unit
<1> QED
  BY <1>1, <1>2, <1>3, OfTwo

\* The sum of the components and the first veto, as numbers: p for the forks, o for
\* the repetitions; f for a failure, c for a correction, g for an ill grounded write.
Summed(p, o, f, c, g) ==
  p + (-48) * o + (IF f THEN -120 ELSE 0) + (IF c THEN 72 ELSE 0) + (IF g THEN -120 ELSE 0)
Lower(a, b) == IF a <= b THEN a ELSE b
Higher(a, b) == IF a <= b THEN b ELSE a
Vetoed(raw, o, f, c, g) ==
  IF g THEN Lower(raw, -120)
  ELSE IF f THEN Lower(raw, -120)
  ELSE IF c THEN Higher(raw - (-48) * o, 72)
  ELSE IF o > 0 THEN Lower(raw, (-48) * o) ELSE raw

LEMMA SignalIs ==
  ASSUME Typed, NEW k \in Labels, NEW i \in DOMAIN traces[k]
  PROVE  LET o == Lower(3, repeat_ordinal(k, i))
             f == traces[k][i].failed
             c == recovered_correction(k, i)
             g == grounding_invalid(k, i)
             v == Vetoed(Summed(pairwise(k, i), o, f, c, g), o, f, c, g)
         IN v \in Int /\ turn_advantage(k, i) = Clip(v)
<1> DEFINE n == repeat_ordinal(k, i)
           o == Lower(3, n)
           f == traces[k][i].failed
           c == recovered_correction(k, i)
           g == grounding_invalid(k, i)
           p == pairwise(k, i)
           raw == Summed(p, o, f, c, g)
           v == Vetoed(raw, o, f, c, g)
           repeats == (-48) * Min({3, n})
           sum == p + repeats + (IF f THEN -120 ELSE 0) + (IF c THEN 72 ELSE 0) + (IF g THEN -120 ELSE 0)
<1>1. i \in Nat /\ f \in BOOLEAN
  BY TracesTyped
<1>2. c \in BOOLEAN /\ g \in BOOLEAN
  BY DEF recovered_correction, grounding_invalid
<1>3. p \in Int /\ n \in Nat
  BY <1>1, PairwiseIsSigned, RepeatOrdinal
<1>4. turn_advantage(k, i) =
        Clip(CASE g -> Min({sum, -120})
               [] ~g /\ f -> Min({sum, -120})
               [] ~g /\ ~f /\ c -> Max({sum - repeats, 72})
               [] OTHER -> IF n > 0 THEN Min({sum, repeats}) ELSE sum)
  BY DEF turn_advantage, ERROR_PENALTY, RECOVERY_BONUS, REPEAT_PENALTY, GROUNDING_PENALTY
<1> HIDE DEF n, f, c, g, p
<1>5. Min({3, n}) = o /\ o \in Nat /\ (o > 0 <=> n > 0)
  BY <1>3, OfTwo DEF Lower
<1> HIDE DEF o
<1>6. sum = raw /\ raw \in Int /\ repeats = (-48) * o /\ repeats \in Int
  BY <1>2, <1>1, <1>3, <1>5 DEF Summed
<1> HIDE DEF sum, raw, repeats
<1>7. /\ Min({sum, -120}) = Lower(raw, -120) /\ Lower(raw, -120) \in Int
      /\ Max({sum - repeats, 72}) = Higher(raw - (-48) * o, 72) /\ Higher(raw - (-48) * o, 72) \in Int
      /\ Min({sum, repeats}) = Lower(raw, (-48) * o) /\ Lower(raw, (-48) * o) \in Int
  <2>1. \A a, b \in Int : /\ Min({a, b}) = Lower(a, b) /\ Lower(a, b) \in Int
                          /\ Max({a, b}) = Higher(a, b) /\ Higher(a, b) \in Int
    BY OfTwo DEF Lower, Higher
  <2>2. -120 \in Int /\ 72 \in Int /\ sum - repeats \in Int /\ raw - (-48) * o = sum - repeats
    BY <1>5, <1>6
  <2>3. Min({sum, -120}) = Lower(sum, -120) /\ Lower(sum, -120) \in Int
    BY <1>6, <2>1, <2>2
  <2>4. Max({sum - repeats, 72}) = Higher(sum - repeats, 72) /\ Higher(sum - repeats, 72) \in Int
    BY <2>1, <2>2
  <2>5. Min({sum, repeats}) = Lower(sum, repeats) /\ Lower(sum, repeats) \in Int
    BY <1>6, <2>1
  <2> QED
    BY <1>6, <2>2, <2>3, <2>4, <2>5
<1>8. v \in Int
  BY <1>6, <1>7, <1>5 DEF Vetoed
<1>9. turn_advantage(k, i) = Clip(v)
  <2>1. CASE g
    BY <1>4, <1>7, <2>1 DEF Vetoed
  <2>2. CASE ~g /\ f
    BY <1>4, <1>7, <2>2 DEF Vetoed
  <2>3. CASE ~g /\ ~f /\ c
    BY <1>4, <1>7, <2>3 DEF Vetoed
  <2>4. CASE ~g /\ ~f /\ ~c
    BY <1>4, <1>5, <1>6, <1>7, <2>4 DEF Vetoed
  <2> QED
    BY <1>1, <1>2, <2>1, <2>2, <2>3, <2>4
<1> QED
  BY <1>8, <1>9 DEF v, raw, o, n, f, c, g, p

\* What the signal a of a turn promises.
Promised(p, n, f, c, g, a) ==
  /\ a \in Int
  /\ g \/ f => a <= -120
  /\ ~g /\ ~f /\ c => a >= 72
  /\ ~c /\ n > 0 => a < 0
  /\ ~g /\ ~f /\ (c \/ n = 0) /\ p > 0 => a > 0
  /\ ~c /\ p < 0 => a < 0
  /\ ~g /\ ~f /\ ~c /\ n = 0 /\ p = 0 => a = 0

LEMMA Vetoes ==
  ASSUME NEW p \in Int, NEW n \in Nat, NEW f \in BOOLEAN, NEW c \in BOOLEAN, NEW g \in BOOLEAN
  PROVE  Promised(p, n, f, c, g, Clip(Vetoed(Summed(p, Lower(3, n), f, c, g), Lower(3, n), f, c, g)))
<1> DEFINE o == Lower(3, n)
           raw == Summed(p, o, f, c, g)
           v == Vetoed(raw, o, f, c, g)
           a == Clip(v)
           Goal == Promised(p, n, f, c, g, a)
<1>1. o \in Nat /\ (o > 0 <=> n > 0)
  BY DEF Lower
<1> HIDE DEF o
<1>2. raw \in Int /\ raw = p - 48 * o + (IF f THEN -120 ELSE 0) + (IF c THEN 72 ELSE 0) + (IF g THEN -120 ELSE 0)
  BY <1>1 DEF Summed
<1> HIDE DEF raw
<1>3. v \in Int
  BY <1>1, <1>2 DEF Vetoed, Lower, Higher
<1>4. a = IF v > 480 THEN 480 ELSE IF v < -480 THEN -480 ELSE v
  <2>1. a = Clip(v)
    OBVIOUS
  <2> HIDE DEF v
  <2> QED
    BY <1>3, <2>1, ClipIs
<1> HIDE DEF a
<1>5. ASSUME g \/ f PROVE Goal
  <2>1. v = IF raw <= -120 THEN raw ELSE -120
    BY <1>5 DEF Vetoed, Lower
  <2>2. ~c => raw <= p
    BY <1>1, <1>2
  <2> HIDE DEF v
  <2> QED
    BY <1>2, <1>3, <1>4, <1>5, <2>1, <2>2 DEF Promised
<1>6. ASSUME ~g /\ ~f /\ c PROVE Goal
  <2>1. raw - (-48) * o = p + 72
    BY <1>1, <1>2, <1>6
  <2>2. v = IF p + 72 <= 72 THEN 72 ELSE p + 72
    BY <1>6, <2>1 DEF Vetoed, Higher
  <2> HIDE DEF v
  <2> QED
    BY <1>3, <1>4, <1>6, <2>2 DEF Promised
<1>7. ASSUME ~g /\ ~f /\ ~c /\ n > 0 PROVE Goal
  <2>1. raw = p - 48 * o /\ (-48) * o = -(48 * o)
    BY <1>1, <1>2, <1>7
  <2>2. v = IF raw <= (-48) * o THEN raw ELSE (-48) * o
    BY <1>1, <1>7 DEF Vetoed, Lower
  <2> HIDE DEF v
  <2> QED
    BY <1>1, <1>2, <1>3, <1>4, <1>7, <2>1, <2>2 DEF Promised
<1>8. ASSUME ~g /\ ~f /\ ~c /\ n = 0 PROVE Goal
  <2>1. raw = p /\ v = raw
    BY <1>1, <1>2, <1>8 DEF Vetoed
  <2> HIDE DEF v
  <2> QED
    BY <1>2, <1>3, <1>4, <1>8, <2>1 DEF Promised
<1>9. Goal
  <2> HIDE DEF Goal
  <2> QED
    BY <1>5, <1>6, <1>7, <1>8
<1> QED
  BY <1>9 DEF a, raw, o
-----------------------------------------------------------------------------
(* Where two rollouts diverge.                                             *)

LEMMA DecisionTurn ==
  ASSUME Typed, NEW k \in Labels, NEW n
  PROVE  decision_turn(k, n) \in {0} \cup DecisionTurns(k) /\ DecisionTurns(k) \in SUBSET DOMAIN traces[k]
<1> DEFINE here == {0} \cup {i \in DecisionTurns(k) : Cardinality({j \in DecisionTurns(k) : j <= i}) = n}
<1>1. Len(traces[k]) \in Nat /\ DOMAIN traces[k] = 1 .. Len(traces[k])
  BY TracesTyped
<1>2. DecisionTurns(k) \in SUBSET DOMAIN traces[k]
  BY DEF DecisionTurns
<1>3. here \in SUBSET (0 .. Len(traces[k])) /\ here # {}
  <2>1. 0 \in 0 .. Len(traces[k]) /\ 1 .. Len(traces[k]) \in SUBSET (0 .. Len(traces[k]))
    BY <1>1
  <2> QED
    BY <1>1, <1>2, <2>1
<1>4. Max(here) \in here
  <2> HIDE DEF here
  <2> QED
    BY <1>1, <1>3, MaxIsGreatest
<1> QED
  BY <1>2, <1>4 DEF decision_turn

LEMMA DivergenceTurns ==
  ASSUME Typed, NEW k \in Labels, NEW m \in Labels
  PROVE  /\ first_divergence(k, m).left \in {0} \cup DOMAIN traces[k]
         /\ first_divergence(k, m).left = first_divergence(m, k).right
<1>1. Differing(k, m) = Differing(m, k)
  <2>1. \A a, b : {a, b} = {b, a}
    OBVIOUS
  <2>2. Max({Cardinality(DecisionTurns(k)), Cardinality(DecisionTurns(m))})
          = Max({Cardinality(DecisionTurns(m)), Cardinality(DecisionTurns(k))})
    BY <2>1
  <2>3. \A n : 0 \in {decision_turn(k, n), decision_turn(m, n)} <=> 0 \in {decision_turn(m, n), decision_turn(k, n)}
    BY <2>1
  <2> QED
    BY <2>2, <2>3 DEF Differing
<1>2. /\ first_divergence(k, m).left
           = IF Differing(k, m) = {} THEN 0 ELSE decision_turn(k, Min(Differing(k, m)))
      /\ first_divergence(m, k).right
           = IF Differing(m, k) = {} THEN 0 ELSE decision_turn(k, Min(Differing(m, k)))
  BY DEF first_divergence
<1>3. \A n : decision_turn(k, n) \in {0} \cup DOMAIN traces[k]
  BY DecisionTurn
<1> QED
  BY <1>1, <1>2, <1>3

\* The turn of a decision, and which decision a turn makes.
LEMMA DecisionOrdinal ==
  ASSUME Typed, NEW k \in Labels, NEW i \in DecisionTurns(k)
  PROVE  LET n == Cardinality({j \in DecisionTurns(k) : j <= i})
         IN /\ n \in Nat \ {0} /\ Cardinality(DecisionTurns(k)) \in Nat
            /\ n <= Cardinality(DecisionTurns(k))
            /\ decision_turn(k, n) = i
<1> DEFINE upto(x) == {j \in DecisionTurns(k) : j <= x}
           n == Cardinality(upto(i))
<1>1. IsFiniteSet(DecisionTurns(k)) /\ DecisionTurns(k) \in SUBSET Nat /\ \A x \in DecisionTurns(k) : x >= 1
  <2>1. Len(traces[k]) \in Nat /\ DOMAIN traces[k] = 1 .. Len(traces[k])
    BY TracesTyped
  <2>2. DecisionTurns(k) \in SUBSET (1 .. Len(traces[k]))
    BY <2>1 DEF DecisionTurns
  <2>3. IsFiniteSet(1 .. Len(traces[k]))
    <3>1. 1 \in Int /\ Len(traces[k]) \in Int
      BY <2>1
    <3> QED
      BY ONLY <3>1, FS_Interval
  <2>4. IsFiniteSet(DecisionTurns(k))
    BY <2>2, <2>3, FS_Subset
  <2> QED
    BY <2>1, <2>2, <2>4
<1>2. \A x : upto(x) \in SUBSET DecisionTurns(k)
  OBVIOUS
<1>3. n \in Nat \ {0} /\ Cardinality(DecisionTurns(k)) \in Nat /\ n <= Cardinality(DecisionTurns(k))
  <2>1. i \in upto(i)
    BY <1>1
  <2> HIDE DEF upto
  <2>2. IsFiniteSet(upto(i)) /\ n <= Cardinality(DecisionTurns(k))
    BY <1>1, <1>2, FS_Subset
  <2> QED
    BY <1>1, <2>1, <2>2, FS_CardinalityType, FS_EmptySet
<1>4. ASSUME NEW a \in DecisionTurns(k), NEW b \in DecisionTurns(k), a < b
      PROVE  Cardinality(upto(a)) # Cardinality(upto(b))
  <2>1. upto(a) \in SUBSET upto(b) /\ b \in upto(b) /\ b \notin upto(a)
    BY <1>1, <1>4
  <2> HIDE DEF upto
  <2>2. IsFiniteSet(upto(b))
    BY <1>1, <1>2, FS_Subset
  <2> QED
    BY <2>1, <2>2, FS_Subset
<1>5. {x \in DecisionTurns(k) : Cardinality(upto(x)) = n} = {i}
  <2> HIDE DEF upto
  <2>1. \A x \in DecisionTurns(k) : Cardinality(upto(x)) = n => x = i
    BY <1>1, <1>4
  <2> QED
    BY <2>1
<1>6. decision_turn(k, n) = Max({0} \cup {i})
  BY <1>5 DEF decision_turn
<1>7. Max({0, i}) = i
  <2>1. i \in Int /\ 0 \in Int /\ 0 <= i
    BY <1>1
  <2>2. \A a, b \in Int : a <= b => Max({a, b}) = b
    BY OfTwo
  <2> QED
    BY <2>1, <2>2
<1>8. {0} \cup {i} = {0, i}
  OBVIOUS
<1> QED
  BY <1>3, <1>6, <1>7, <1>8

LEMMA TurnOfDecision ==
  ASSUME Typed, NEW k \in Labels, NEW n, decision_turn(k, n) # 0
  PROVE  /\ decision_turn(k, n) \in DecisionTurns(k)
         /\ Cardinality({j \in DecisionTurns(k) : j <= decision_turn(k, n)}) = n
<1> DEFINE here == {0} \cup {i \in DecisionTurns(k) : Cardinality({j \in DecisionTurns(k) : j <= i}) = n}
<1>1. Len(traces[k]) \in Nat /\ DecisionTurns(k) \in SUBSET (1 .. Len(traces[k]))
  BY TracesTyped DEF DecisionTurns
<1>2. here \in SUBSET (0 .. Len(traces[k])) /\ here # {}
  <2>1. 0 \in 0 .. Len(traces[k]) /\ 1 .. Len(traces[k]) \in SUBSET (0 .. Len(traces[k]))
    BY <1>1
  <2> QED
    BY <1>1, <2>1
<1>3. Max(here) \in here
  <2> HIDE DEF here
  <2> QED
    BY <1>1, <1>2, MaxIsGreatest
<1>4. decision_turn(k, n) \in here
  BY <1>3 DEF decision_turn
<1> QED
  BY <1>4

\* A pair divides at the turn with which the one rollout leaves the other.
LEMMA LeftIsLeaving ==
  ASSUME Typed, NEW k \in Labels, NEW m \in Labels, NEW i \in DOMAIN traces[k]
  PROVE  first_divergence(k, m).left = i <=> Leaves(k, i, m)
<1> DEFINE D == Differing(k, m)
           top == Max({Cardinality(DecisionTurns(k)), Cardinality(DecisionTurns(m))})
           Same(n) == /\ decision_turn(k, n) # 0 /\ decision_turn(m, n) # 0
                      /\ traces[k][decision_turn(k, n)].calls = traces[m][decision_turn(m, n)].calls
           ordinal == Cardinality({j \in DecisionTurns(k) : j <= i})
<1>1. \A n : n \in D <=> (n \in 1 .. top /\ ~Same(n))
  BY DEF Differing
<1>2. first_divergence(k, m).left = IF D = {} THEN 0 ELSE decision_turn(k, Min(D))
  BY DEF first_divergence
<1>3. \A n : Agree(k, m, n) <=> \A j \in 1 .. n : Same(j)
  BY DEF Agree
<1>4. Leaves(k, i, m) <=> /\ i \in DecisionTurns(k)
                          /\ Agree(k, m, ordinal - 1) /\ ~Agree(k, m, ordinal)
  BY DEF Leaves
<1>5. i # 0 /\ i \in Nat
  BY TracesTyped
<1>6. /\ Cardinality(DecisionTurns(k)) \in Nat /\ Cardinality(DecisionTurns(m)) \in Nat
      /\ top \in Nat /\ Cardinality(DecisionTurns(k)) <= top
  <2>1. \A h \in Labels : IsFiniteSet(DecisionTurns(h))
    <3> SUFFICES ASSUME NEW h \in Labels PROVE IsFiniteSet(DecisionTurns(h))
      OBVIOUS
    <3>1. Len(traces[h]) \in Nat /\ DecisionTurns(h) \in SUBSET (1 .. Len(traces[h]))
      BY TracesTyped DEF DecisionTurns
    <3>2. IsFiniteSet(1 .. Len(traces[h]))
      <4>1. 1 \in Int /\ Len(traces[h]) \in Int
        BY <3>1
      <4> QED
        BY ONLY <4>1, FS_Interval
    <3> QED
      BY <3>1, <3>2, FS_Subset
  <2>2. Cardinality(DecisionTurns(k)) \in Nat /\ Cardinality(DecisionTurns(m)) \in Nat
    BY <2>1, FS_CardinalityType
  <2>3. \A a, b \in Nat : Max({a, b}) \in Nat /\ a <= Max({a, b})
    BY OfTwo
  <2> QED
    BY <2>2, <2>3
<1> HIDE DEF D, top, Same, ordinal
<1>7. D \in SUBSET Nat
  BY <1>1, <1>6
<1>8. ASSUME first_divergence(k, m).left = i PROVE Leaves(k, i, m)
  <2>1. D # {} /\ i = decision_turn(k, Min(D))
    BY <1>2, <1>5, <1>8
  <2> DEFINE d == Min(D)
  <2>2. d \in D /\ \A n \in D : d <= n
    BY <1>7, <2>1, MinIsLeast
  <2>3. i \in DecisionTurns(k) /\ ordinal = d
    BY <1>5, <2>1, TurnOfDecision DEF ordinal
  <2> HIDE DEF d
  <2>4. d \in 1 .. top /\ ~Same(d)
    BY <1>1, <2>2
  <2>5. \A j \in 1 .. d - 1 : Same(j)
    <3>1. ASSUME NEW j \in 1 .. d - 1 PROVE Same(j)
      <4>1. j \in 1 .. top /\ ~(d <= j)
        BY <1>6, <2>4
      <4> QED
        BY <1>1, <2>2, <4>1
    <3> QED
      BY <3>1
  <2>6. d \in 1 .. d
    BY <1>6, <2>4
  <2> QED
    BY <1>3, <1>4, <2>3, <2>4, <2>5, <2>6
<1>9. ASSUME Leaves(k, i, m) PROVE first_divergence(k, m).left = i
  <2>1. ordinal \in Nat \ {0} /\ ordinal <= Cardinality(DecisionTurns(k)) /\ decision_turn(k, ordinal) = i
    BY <1>4, <1>9, DecisionOrdinal DEF ordinal
  <2>2. ordinal \in 1 .. top
    BY <1>6, <2>1
  <2>3. \A j \in 1 .. ordinal - 1 : Same(j)
    BY <1>3, <1>4, <1>9
  <2>4. ~Same(ordinal)
    <3>1. PICK j \in 1 .. ordinal : ~Same(j)
      BY <1>3, <1>4, <1>9
    <3>2. j \in 1 .. ordinal - 1 \/ j = ordinal
      BY <2>1
    <3> QED
      BY <2>3, <3>1, <3>2
  <2>5. ordinal \in D
    BY <1>1, <2>2, <2>4
  <2>6. \A n \in D : ordinal <= n
    <3>1. ASSUME NEW n \in D PROVE ordinal <= n
      <4>1. n \in 1 .. top /\ n \notin 1 .. ordinal - 1
        BY <1>1, <2>3
      <4> QED
        BY <1>6, <2>1, <4>1
    <3> QED
      BY <3>1
  <2>7. Min(D) = ordinal
    <3>1. \A n \in D : n \in Int
      BY <1>7
    <3> QED
      BY <2>5, <2>6, <3>1, LeastIs
  <2> QED
    BY <1>2, <2>1, <2>5, <2>7
<1> QED
  BY <1>8, <1>9

LEMMA DividedAreRivals ==
  ASSUME Typed, NEW k \in Labels, NEW i \in DOMAIN traces[k]
  PROVE  Divided(k, i) = Rivals(k, i)
BY LeftIsLeaving DEF Divided, Rivals

-----------------------------------------------------------------------------
(* The audit.                                                              *)

Scored ==
  auditor \in {"audit", "passed", "failed"} =>
    new_advantage = [k \in Labels |-> [i \in DOMAIN traces[k] |-> turn_advantage(k, i)]]

AdvantageInv == Typed /\ Scored

LEMMA SignalOfTurn ==
  ASSUME Typed, NEW k \in Labels, NEW i \in DOMAIN traces[k]
  PROVE  LET a == turn_advantage(k, i)
             p == pairwise(k, i)
             f == traces[k][i].failed
             c == recovered_correction(k, i)
             g == grounding_invalid(k, i)
         IN /\ p \in Int /\ a \in Int /\ repeat_ordinal(k, i) \in Nat
            /\ g \/ f => a <= -120
            /\ ~g /\ ~f /\ c => a >= 72
            /\ wasteful_repeat(k, i) => a < 0
            /\ ~g /\ ~f /\ ~wasteful_repeat(k, i) /\ p > 0 => a > 0
            /\ ~c /\ p < 0 => a < 0
            /\ Quiet(k, i) /\ p = 0 => a = 0
<1> DEFINE a == turn_advantage(k, i)
           p == pairwise(k, i)
           n == repeat_ordinal(k, i)
           f == traces[k][i].failed
           c == recovered_correction(k, i)
           g == grounding_invalid(k, i)
           o == Lower(3, n)
<1>1. i \in Nat /\ f \in BOOLEAN
  BY TracesTyped
<1>2. c \in BOOLEAN /\ g \in BOOLEAN
  BY DEF recovered_correction, grounding_invalid
<1>3. p \in Int /\ n \in Nat
  BY <1>1, PairwiseIsSigned, RepeatOrdinal
<1>4. a = Clip(Vetoed(Summed(p, o, f, c, g), o, f, c, g))
  BY SignalIs
<1>5. /\ wasteful_repeat(k, i) <=> (n > 0 /\ ~c)
      /\ Quiet(k, i) <=> (~f /\ n = 0 /\ ~g /\ ~c)
  BY DEF wasteful_repeat, Quiet
<1>6. n > 0 \/ n = 0
  BY <1>3
<1> HIDE DEF a, p, n, f, c, g
<1>7. Promised(p, n, f, c, g, a)
  <2>1. Promised(p, n, f, c, g, Clip(Vetoed(Summed(p, Lower(3, n), f, c, g), Lower(3, n), f, c, g)))
    BY <1>1, <1>2, <1>3, Vetoes, ZenonT(30)
  <2> QED
    BY <1>4, <2>1
<1>8. /\ p \in Int /\ a \in Int /\ n \in Nat
      /\ g \/ f => a <= -120
      /\ ~g /\ ~f /\ c => a >= 72
      /\ wasteful_repeat(k, i) => a < 0
      /\ ~g /\ ~f /\ ~wasteful_repeat(k, i) /\ p > 0 => a > 0
      /\ ~c /\ p < 0 => a < 0
      /\ Quiet(k, i) /\ p = 0 => a = 0
  BY <1>3, <1>5, <1>6, <1>7 DEF Promised
<1> QED
  BY <1>8 DEF a, p, n, f, c, g

LEMMA Corrections ==
  ASSUME Typed, NEW k \in Labels, NEW failed \in FailedTurns(k), correction(k, failed) # 0
  PROVE  LET c == correction(k, failed)
         IN c \in DOMAIN traces[k] /\ ~traces[k][c].failed /\ recovered_correction(k, c)
<1> DEFINE n == Len(traces[k])
           later == {i \in failed + 1 .. n : /\ ~traces[k][i].failed
                                         /\ \/ traces[k][failed].calls = {}
                                            \/ traces[k][failed].calls \cap traces[k][i].calls # {}}
<1>1. n \in Nat /\ DOMAIN traces[k] = 1 .. n
  BY TracesTyped
<1>2. failed \in 1 .. n
  BY <1>1 DEF FailedTurns
<1>3. failed + 1 .. n \in SUBSET (1 .. n) /\ 1 .. n \in SUBSET Nat
  BY <1>1, <1>2
<1>4. correction(k, failed) = IF later = {} THEN 0 ELSE Min(later)
  BY DEF correction
<1>5. later # {} /\ later \in SUBSET Nat
  BY <1>3, <1>4
<1>6. correction(k, failed) \in later
  <2> HIDE DEF later
  <2> QED
    BY <1>4, <1>5, MinIsLeast
<1> QED
  BY <1>1, <1>3, <1>6 DEF recovered_correction

LEMMA ForkCredit ==
  ASSUME AdvantageInv, auditor \in {"passed", "failed"}, NEW high \in Labels, NEW low \in Labels,
         ret[high] > ret[low], attribution_eligible(high, low),
         \A m \in Rivals(high, first_divergence(high, low).left) : ~(ret[m] > ret[high]),
         \A m \in Rivals(low, first_divergence(high, low).right) : ~(ret[m] < ret[low])
  PROVE  ~(margin(high, low) <= 0)
<1> DEFINE left == first_divergence(high, low).left
           right == first_divergence(high, low).right
<1> USE DEF AdvantageInv
<1>1. \A k \in Labels : ret[k] \in Int
  BY DEF Typed, Returns
<1>2. left \in DOMAIN traces[high] /\ right \in DOMAIN traces[low]
  BY DivergenceTurns DEF attribution_eligible
<1>3. first_divergence(low, high).left = right
  BY DivergenceTurns
<1>4. high # low /\ ret[high] # ret[low]
  BY <1>1
<1>5. low \in Divided(high, left) /\ high \in Divided(low, right)
  BY <1>3, <1>4 DEF Divided
<1>6. /\ \A m \in Divided(high, left) : ret[m] < ret[high]
      /\ \A m \in Divided(low, right) : ret[m] > ret[low]
  <2>1. Divided(high, left) = Rivals(high, left) /\ Divided(low, right) = Rivals(low, right)
    BY <1>2, DividedAreRivals
  <2>2. \A m \in Divided(high, left) : m \in Labels /\ ret[m] # ret[high] /\ ~(ret[m] > ret[high])
    BY <2>1 DEF Divided
  <2>3. \A m \in Divided(low, right) : m \in Labels /\ ret[m] # ret[low] /\ ~(ret[m] < ret[low])
    BY <2>1 DEF Divided
  <2> QED
    BY <1>1, <2>2, <2>3
<1>7. /\ ~traces[high][left].failed /\ ~wasteful_repeat(high, left) /\ ~grounding_invalid(high, left)
      /\ ~recovered_correction(low, right)
  BY DEF attribution_eligible
<1>8. margin(high, low) = turn_advantage(high, left) - turn_advantage(low, right)
  <2>1. /\ new_advantage[high] = [i \in DOMAIN traces[high] |-> turn_advantage(high, i)]
        /\ new_advantage[low] = [i \in DOMAIN traces[low] |-> turn_advantage(low, i)]
    BY DEF Scored
  <2>2. margin(high, low) = new_advantage[high][left] - new_advantage[low][right]
    BY DEF margin
  <2> HIDE DEF left, right
  <2> QED
    BY <1>2, <2>1, <2>2
<1> HIDE DEF left, right
<1>9. pairwise(high, left) \in Int /\ pairwise(high, left) >= 1
  BY <1>5, <1>6, PairwiseIsSigned
<1>10. pairwise(low, right) \in Int /\ pairwise(low, right) <= -1
  BY <1>5, <1>6, PairwiseIsSigned
<1>11. turn_advantage(high, left) \in Int /\ turn_advantage(high, left) > 0
  <2>1. pairwise(high, left) > 0
    BY <1>9
  <2> QED
    BY <1>2, <1>7, <2>1, SignalOfTurn
<1>12. turn_advantage(low, right) \in Int /\ turn_advantage(low, right) < 0
  <2>1. pairwise(low, right) < 0
    BY <1>10
  <2> QED
    BY <1>2, <1>7, <2>1, SignalOfTurn
<1> QED
  BY <1>8, <1>11, <1>12

\* What a turn gets about which nothing else is said.
LEMMA QuietCredit ==
  ASSUME Typed, NEW k \in Labels, NEW i \in DOMAIN traces[k], Quiet(k, i)
  PROVE  LET a == turn_advantage(k, i)
         IN /\ Rivals(k, i) = {} => a = 0
            /\ Rivals(k, i) # {} /\ (\A m \in Rivals(k, i) : ret[m] < ret[k]) => a > 0
            /\ Rivals(k, i) # {} /\ (\A m \in Rivals(k, i) : ret[m] > ret[k]) => a < 0
<1> DEFINE a == turn_advantage(k, i)
           p == pairwise(k, i)
<1>1. Divided(k, i) = Rivals(k, i)
  BY DividedAreRivals
<1>2. /\ p \in Int
      /\ Rivals(k, i) = {} => p = 0
      /\ Rivals(k, i) # {} /\ (\A m \in Rivals(k, i) : ret[m] < ret[k]) => p >= 1
      /\ Rivals(k, i) # {} /\ (\A m \in Rivals(k, i) : ret[m] > ret[k]) => p <= -1
  BY <1>1, PairwiseIsSigned
<1>3. ~traces[k][i].failed /\ ~grounding_invalid(k, i) /\ ~recovered_correction(k, i) /\ ~wasteful_repeat(k, i)
  BY DEF Quiet, wasteful_repeat
<1>4. /\ p > 0 => a > 0
      /\ p < 0 => a < 0
      /\ p = 0 => a = 0
  BY <1>3, SignalOfTurn
<1> HIDE DEF a, p
<1>5. /\ Rivals(k, i) = {} => a = 0
      /\ Rivals(k, i) # {} /\ (\A m \in Rivals(k, i) : ret[m] < ret[k]) => a > 0
      /\ Rivals(k, i) # {} /\ (\A m \in Rivals(k, i) : ret[m] > ret[k]) => a < 0
  <2>1. (p >= 1 => p > 0) /\ (p <= -1 => p < 0)
    BY <1>2
  <2> QED
    BY <1>2, <1>4, <2>1
<1> QED
  BY <1>5 DEF a

LEMMA AuditOfScores ==
  ASSUME AdvantageInv
  PROVE  CreditIsLocal
<1> SUFFICES ASSUME auditor \in {"passed", "failed"}
             PROVE  CreditIsLocal
  BY DEF CreditIsLocal
<1> USE DEF AdvantageInv
<1>1. \A k \in Labels : \A i \in DOMAIN traces[k] : new_advantage[k][i] = turn_advantage(k, i)
  BY DEF Scored
<1>2. repeat_passes
  BY <1>1, SignalOfTurn DEF repeat_passes
<1>3. grounding_passes
  <2>1. SUFFICES ASSUME NEW k \in Labels, NEW i \in DOMAIN traces[k], grounding_invalid(k, i)
                 PROVE  new_advantage[k][i] <= 0
    BY DEF grounding_passes
  <2>2. turn_advantage(k, i) \in Int /\ turn_advantage(k, i) <= -120
    BY <2>1, SignalOfTurn
  <2> QED
    BY <1>1, <2>2
<1>4. ASSUME NEW k \in Labels, NEW failed \in FailedTurns(k)
      PROVE  new_advantage[k][failed] <= ERROR_PENALTY
  <2>1. failed \in DOMAIN traces[k] /\ traces[k][failed].failed
    BY DEF FailedTurns
  <2> QED
    BY <1>1, <2>1, SignalOfTurn DEF ERROR_PENALTY
<1>5. ASSUME NEW k \in Labels, NEW failed \in FailedTurns(k),
             correction(k, failed) # 0, ~grounding_invalid(k, correction(k, failed))
      PROVE  new_advantage[k][correction(k, failed)] >= RECOVERY_BONUS
  <2> DEFINE c == correction(k, failed)
  <2>1. c \in DOMAIN traces[k] /\ ~traces[k][c].failed /\ recovered_correction(k, c)
    BY <1>5, Corrections
  <2> HIDE DEF c
  <2>2. ~grounding_invalid(k, c)
    BY <1>5 DEF c
  <2>3. new_advantage[k][c] >= 72
    BY <1>1, <2>1, <2>2, SignalOfTurn
  <2> QED
    BY <2>3 DEF c, RECOVERY_BONUS
<1>6. ASSUME NEW k \in Labels, NEW i \in DOMAIN traces[k], Quiet(k, i)
      PROVE  /\ Rivals(k, i) = {} => new_advantage[k][i] = 0
             /\ Rivals(k, i) # {} /\ (\A m \in Rivals(k, i) : ret[m] < ret[k]) => new_advantage[k][i] > 0
             /\ Rivals(k, i) # {} /\ (\A m \in Rivals(k, i) : ret[m] > ret[k]) => new_advantage[k][i] < 0
  BY <1>1, <1>6, QuietCredit
<1>7. ASSUME NEW pair \in forks, attribution_eligible(pair[1], pair[2]), margin(pair[1], pair[2]) <= 0
      PROVE  LET at == first_divergence(pair[1], pair[2])
             IN \/ \E m \in Rivals(pair[1], at.left) : ret[m] > ret[pair[1]]
                \/ \E m \in Rivals(pair[2], at.right) : ret[m] < ret[pair[2]]
  <2>1. pair[1] \in Labels /\ pair[2] \in Labels /\ ret[pair[1]] > ret[pair[2]]
    BY DEF forks
  <2> QED
    BY <1>7, <2>1, ForkCredit
<1> QED
  BY <1>2, <1>3, <1>4, <1>5, <1>6, <1>7 DEF CreditIsLocal
-----------------------------------------------------------------------------
(* Scores stay those of the group: nothing they depend on changes.         *)

GroupKept == UNCHANGED <<traces, ret, ungrounded>>

LEMMA DivergenceKept ==
  ASSUME GroupKept
  PROVE  \A k, m : first_divergence(k, m)' = first_divergence(k, m)
<1>1. \A k : DecisionTurns(k)' = DecisionTurns(k)
  BY DEF GroupKept, DecisionTurns
<1>2. \A k, n : decision_turn(k, n)' = decision_turn(k, n)
  BY <1>1 DEF decision_turn
<1>3. \A k, m : Differing(k, m)' = Differing(k, m)
  BY <1>1, <1>2 DEF GroupKept, Differing
<1> QED
  BY <1>2, <1>3 DEF first_divergence

LEMMA PairwiseKept ==
  ASSUME GroupKept
  PROVE  \A k, i : pairwise(k, i)' = pairwise(k, i)
<1>1. \A k, i : Divided(k, i)' = Divided(k, i)
  BY DivergenceKept DEF GroupKept, Divided
<1>2. \A k : [m \in Labels |-> 60 * (ret[k] - ret[m])]' = [m \in Labels |-> 60 * (ret[k] - ret[m])]
  BY DEF GroupKept, Labels
<1> QED
  BY <1>1, <1>2 DEF pairwise, Labels

LEMMA RepetitionKept ==
  ASSUME GroupKept
  PROVE  \A k, i : repeat_ordinal(k, i)' = repeat_ordinal(k, i)
<1>1. \A k, p : tail_start(k, p)' = tail_start(k, p)
  BY DEF GroupKept, tail_start
<1>2. \A k, p : repeated(k, p)' = repeated(k, p)
  BY <1>1 DEF GroupKept, repeated
<1> QED
  BY <1>1, <1>2 DEF repeat_ordinal

LEMMA SignalKept ==
  ASSUME GroupKept
  PROVE  \A k, i : turn_advantage(k, i)' = turn_advantage(k, i)
<1>1. \A k, f : correction(k, f)' = correction(k, f)
  BY DEF GroupKept, correction
<1>2. \A k, i : recovered_correction(k, i)' = recovered_correction(k, i)
  BY <1>1 DEF GroupKept, recovered_correction, FailedTurns
<1>3. \A k, i : grounding_invalid(k, i)' = grounding_invalid(k, i)
  BY DEF GroupKept, grounding_invalid
<1>4. SUFFICES ASSUME NEW k, NEW i PROVE turn_advantage(k, i)' = turn_advantage(k, i)
  OBVIOUS
<1>5. traces'[k][i].failed = traces[k][i].failed
  BY DEF GroupKept
<1>6. recovered_correction(k, i)' = recovered_correction(k, i) /\ grounding_invalid(k, i)' = grounding_invalid(k, i)
  BY <1>2, <1>3
<1>7. pairwise(k, i)' = pairwise(k, i) /\ repeat_ordinal(k, i)' = repeat_ordinal(k, i)
  BY PairwiseKept, RepetitionKept
<1> QED
  BY <1>5, <1>6, <1>7 DEF turn_advantage

LEMMA ScoresKept ==
  ASSUME GroupKept
  PROVE  [k \in Labels |-> [i \in DOMAIN traces[k] |-> turn_advantage(k, i)]]'
           = [k \in Labels |-> [i \in DOMAIN traces[k] |-> turn_advantage(k, i)]]
BY SignalKept DEF GroupKept, Labels

-----------------------------------------------------------------------------
(* The steps.                                                              *)

LEMMA PartsAreSequences ==
  ASSUME NEW n \in Nat, NEW turns \in [1 .. n -> CallTurn], NEW a \in 0 .. n, NEW b \in 0 .. n, a <= b
  PROVE  SubSeq(turns, a + 1, b) \in Seq(CallTurn)
<1>1. turns \in Seq(CallTurn) /\ Len(turns) = n
  BY SeqDef
<1>2. \A i \in a + 1 .. b : i \in 1 .. n
  OBVIOUS
<1> QED
  BY <1>1, <1>2, SubSeqProperties

LEMMA AdvantageStep ==
  ASSUME AdvantageInv, [AdvantageNext]_advantageVars
  PROVE  AdvantageInv'
<1> USE DEF AdvantageInv
<1>1. CASE LoadGroup
  <2>1. Typed'
    <3>1. CASE auditor' = "refused" /\ UNCHANGED <<traces, ret, ungrounded>>
      BY <3>1 DEF Typed
    <3>2. CASE auditor' = "score"
      <4>1. PICK n \in 0 .. Max({TotalTurns, LongestTurns}) : \E end \in [0 .. GroupSize -> 0 .. n] :
              /\ \A k \in Labels : end[k - 1] <= end[k]
              /\ \E turns \in [1 .. n -> CallTurn] :
                   traces' = [k \in Labels |-> SubSeq(turns, end[k - 1] + 1, end[k])]
        BY <1>1, <3>2 DEF LoadGroup
      <4>2. PICK end \in [0 .. GroupSize -> 0 .. n] :
              /\ \A k \in Labels : end[k - 1] <= end[k]
              /\ \E turns \in [1 .. n -> CallTurn] :
                   traces' = [k \in Labels |-> SubSeq(turns, end[k - 1] + 1, end[k])]
        BY <4>1
      <4>3. PICK turns \in [1 .. n -> CallTurn] :
              traces' = [k \in Labels |-> SubSeq(turns, end[k - 1] + 1, end[k])]
        BY <4>2
      <4>4. n \in Nat
        <5>1. Max({TotalTurns, LongestTurns}) \in Nat
          <6>1. TotalTurns \in Int /\ LongestTurns \in Int
            BY AdvantageAssumption
          <6>2. Max({TotalTurns, LongestTurns}) \in {TotalTurns, LongestTurns}
            BY <6>1, OfTwo
          <6> QED
            BY <6>2, AdvantageAssumption
        <5> QED
          BY <5>1
      <4>5. ASSUME NEW k \in Labels PROVE SubSeq(turns, end[k - 1] + 1, end[k]) \in Seq(CallTurn)
        <5>1. k - 1 \in 0 .. GroupSize /\ k \in 0 .. GroupSize
          BY AdvantageAssumption DEF Labels
        <5>2. end[k - 1] \in 0 .. n /\ end[k] \in 0 .. n /\ end[k - 1] <= end[k]
          BY <4>2, <5>1
        <5> QED
          BY <4>4, <5>2, PartsAreSequences
      <4>6. traces' \in [Labels -> Seq(CallTurn)]
        BY <4>3, <4>5
      <4>7. ret' \in [Labels -> Returns]
        BY <1>1, <3>2 DEF LoadGroup
      <4> QED
        BY <4>6, <4>7 DEF Typed, Labels
    <3> QED
      BY <1>1, <3>1, <3>2 DEF LoadGroup
  <2>2. auditor' \notin {"audit", "passed", "failed"}
    BY <1>1 DEF LoadGroup
  <2> QED
    BY <2>1, <2>2 DEF Scored
<1>2. CASE ScoreGroup
  <2>1. GroupKept
    BY <1>2 DEF ScoreGroup, GroupKept
  <2>2. Typed'
    BY <2>1 DEF Typed, GroupKept, Labels
  <2>3. Scored'
    BY <1>2, <2>1, ScoresKept DEF ScoreGroup, Scored
  <2> QED
    BY <2>2, <2>3
<1>3. CASE AuditSummary
  <2>1. GroupKept /\ new_advantage' = new_advantage /\ auditor = "audit"
    BY <1>3 DEF AuditSummary, GroupKept
  <2>2. Typed'
    BY <2>1 DEF Typed, GroupKept, Labels
  <2>3. Scored'
    BY <2>1, ScoresKept DEF Scored
  <2> QED
    BY <2>2, <2>3
<1>4. CASE UNCHANGED advantageVars
  <2>1. GroupKept /\ new_advantage' = new_advantage /\ auditor' = auditor
    BY <1>4 DEF advantageVars, GroupKept
  <2>2. Typed'
    BY <2>1 DEF Typed, GroupKept, Labels
  <2>3. Scored'
    BY <2>1, ScoresKept DEF Scored
  <2> QED
    BY <2>2, <2>3
<1> QED
  BY <1>1, <1>2, <1>3, <1>4 DEF AdvantageNext

\* In a group of up to six scored rollouts, however long they are and whatever they
\* call, a turn is credited for nothing but what it does and for the rollouts of other
\* returns that it leaves; the audit can fail only over a turn that leaves a rollout
\* worse than its own as well (score_trace_group and _audit_summary,
\* recompute_offline_process_advantage.py).
THEOREM AuditedCreditIsLocal == AdvantageSpec => []CreditIsLocal
<1>1. AdvantageInit => AdvantageInv
  <2>1. SUFFICES ASSUME AdvantageInit PROVE AdvantageInv
    OBVIOUS
  <2>2. <<>> \in Seq(CallTurn) /\ 0 \in Returns
    BY DEF Returns
  <2>3. Typed
    BY <2>1, <2>2 DEF AdvantageInit, Typed
  <2>4. Scored
    BY <2>1 DEF AdvantageInit, Scored
  <2> QED
    BY <2>3, <2>4 DEF AdvantageInv
<1>2. AdvantageInv /\ [AdvantageNext]_advantageVars => AdvantageInv'
  BY AdvantageStep
<1>3. AdvantageInv => CreditIsLocal
  BY AuditOfScores
<1> QED
  BY <1>1, <1>2, <1>3, PTL DEF AdvantageSpec

(***************************************************************************)
(* Proofs about AgentContext: the tokens of a history grow message by      *)
(* message as its rendering does, so that what the model was asked with is *)
(* a prefix of what the learner gets.                                      *)
(***************************************************************************)
\* What FlattenSeq is: the last value of a function on the positions.
Joins(s, f) == f = [i \in 1 .. Len(s) |-> IF i = 1 THEN s[i] ELSE f[i - 1] \o s[i]]
Joined(s) == CHOOSE f : Joins(s, f)

LEMMA FlattenUnfolds ==
  ASSUME NEW s
  PROVE  FlattenSeq(s) = IF Len(s) = 0 THEN s ELSE Joined(s)[Len(s)]
BY DEF FlattenSeq, Joins, Joined

\* Such a function exists, and its values are sequences.
LEMMA JoinedExists ==
  ASSUME NEW T, NEW s \in Seq(Seq(T))
  PROVE  Joins(s, Joined(s)) /\ Joined(s) \in [1 .. Len(s) -> Seq(T)]
<1> DEFINE Good(r) == \E f \in [1 .. Len(r) -> Seq(T)] : Joins(r, f)
           N == {n \in Nat : \A r \in Seq(Seq(T)) : Len(r) = n => Good(r)}
<1>1. 0 \in N
  <2> SUFFICES ASSUME NEW r \in Seq(Seq(T)), Len(r) = 0 PROVE Good(r)
    OBVIOUS
  <2> DEFINE g == [i \in 1 .. 0 |-> <<>>]
  <2>1. g \in [1 .. Len(r) -> Seq(T)] /\ Joins(r, g)
    BY DEF Joins
  <2> QED
    BY <2>1
<1>2. ASSUME NEW n \in N PROVE n + 1 \in N
  <2> SUFFICES ASSUME NEW r \in Seq(Seq(T)), Len(r) = n + 1 PROVE Good(r)
    OBVIOUS
  <2>0. r # <<>> /\ n \in Nat
    BY EmptySeq, <1>2
  <2>1. PICK q \in Seq(Seq(T)), x \in Seq(T) : r = Append(q, x)
    BY <2>0, SequenceEmptyOrAppend
  <2>2. Len(q) = n /\ Len(q) \in Nat /\ r[n + 1] = x /\ \A i \in 1 .. n : r[i] = q[i] /\ q[i] \in Seq(T)
    BY <2>1, AppendProperties
  <2>3. PICK f \in [1 .. n -> Seq(T)] : Joins(q, f)
    BY <2>2
  <2> DEFINE g == [i \in 1 .. n + 1 |-> IF i <= n THEN f[i] ELSE IF n = 0 THEN x ELSE f[n] \o x]
  <2>4. g \in [1 .. n + 1 -> Seq(T)]
    <3>1. n # 0 => f[n] \o x \in Seq(T)
      BY ConcatProperties
    <3> QED
      BY <3>1
  <2>5. ASSUME NEW i \in 1 .. n + 1 PROVE g[i] = IF i = 1 THEN r[i] ELSE g[i - 1] \o r[i]
    <3>1. CASE i = n + 1
      <4>1. i # 1 => g[i - 1] = f[n]
        BY <3>1
      <4> QED
        BY <2>2, <3>1, <4>1
    <3>2. CASE i <= n
      <4>1. g[i] = f[i] /\ r[i] = q[i] /\ (i # 1 => g[i - 1] = f[i - 1])
        <5>1. i \in 1 .. n /\ (i # 1 => i - 1 \in 1 .. n + 1 /\ i - 1 <= n)
          BY <2>0, <3>2
        <5>2. g[i] = f[i] /\ (i # 1 => g[i - 1] = f[i - 1])
          BY <3>2, <5>1
        <5>3. r[i] = q[i]
          BY <2>2, <5>1
        <5> QED
          BY <5>2, <5>3
      <4>2. f[i] = IF i = 1 THEN q[i] ELSE f[i - 1] \o q[i]
        <5>0. i \in 1 .. n
          BY <2>0, <3>2
        <5>1. f = [k \in 1 .. n |-> IF k = 1 THEN q[k] ELSE f[k - 1] \o q[k]]
          BY <2>2, <2>3, Zenon DEF Joins
        <5>2. \A k \in 1 .. n : f[k] = IF k = 1 THEN q[k] ELSE f[k - 1] \o q[k]
          BY <5>1, Zenon
        <5> QED
          BY <5>0, <5>2, Zenon
      <4> QED
        BY <4>1, <4>2
    <3> QED
      BY <3>1, <3>2
  <2>6. Joins(r, g)
    <3> DEFINE h == [i \in 1 .. n + 1 |-> IF i = 1 THEN r[i] ELSE g[i - 1] \o r[i]]
    <3>1. g = h
      BY <2>4, <2>5
    <3> QED
      BY <3>1 DEF Joins
  <2> QED
    BY <2>4, <2>6
<1>3. N = Nat
  <2>1. N \in SUBSET Nat
    OBVIOUS
  <2> HIDE DEF N
  <2> QED
    BY <1>1, <1>2, <2>1, Induction
<1>4. PICK f \in [1 .. Len(s) -> Seq(T)] : Joins(s, f)
  BY <1>3, LenProperties
<1>5. Joins(s, Joined(s))
  BY <1>4 DEF Joined
<1>6. ASSUME NEW g, Joins(s, g) PROVE g = f
  <2> DEFINE M == {n \in Nat : n \in 1 .. Len(s) => g[n] = f[n]}
  <2>1. 0 \in M
    OBVIOUS
  <2>2. ASSUME NEW n \in M PROVE n + 1 \in M
    <3>1. SUFFICES ASSUME n + 1 \in 1 .. Len(s) PROVE g[n + 1] = f[n + 1]
      OBVIOUS
    <3>2. \A i \in 1 .. Len(s) : /\ f[i] = IF i = 1 THEN s[i] ELSE f[i - 1] \o s[i]
                                 /\ g[i] = IF i = 1 THEN s[i] ELSE g[i - 1] \o s[i]
      <4>1. f = [i \in 1 .. Len(s) |-> IF i = 1 THEN s[i] ELSE f[i - 1] \o s[i]]
        BY <1>4 DEF Joins
      <4>2. g = [i \in 1 .. Len(s) |-> IF i = 1 THEN s[i] ELSE g[i - 1] \o s[i]]
        BY <1>6 DEF Joins
      <4>3. \A i \in 1 .. Len(s) : f[i] = IF i = 1 THEN s[i] ELSE f[i - 1] \o s[i]
        BY <4>1, Zenon
      <4>4. \A i \in 1 .. Len(s) : g[i] = IF i = 1 THEN s[i] ELSE g[i - 1] \o s[i]
        BY <4>2, Zenon
      <4> QED
        BY <4>3, <4>4
    <3>3. n \in Nat /\ (n + 1) - 1 = n /\ (n + 1 # 1 => n \in 1 .. Len(s)) /\ Len(s) \in Nat
      BY <3>1, LenProperties
    <3>4. n + 1 # 1 => g[n] = f[n]
      BY <3>3
    <3>5. /\ f[n + 1] = IF n + 1 = 1 THEN s[n + 1] ELSE f[(n + 1) - 1] \o s[n + 1]
          /\ g[n + 1] = IF n + 1 = 1 THEN s[n + 1] ELSE g[(n + 1) - 1] \o s[n + 1]
      BY <3>1, <3>2, Zenon
    <3> QED
      BY <3>3, <3>4, <3>5
  <2>3. M = Nat
    <3>1. M \in SUBSET Nat
      OBVIOUS
    <3> HIDE DEF M
    <3> QED
      BY <2>1, <2>2, <3>1, Induction
  <2>4. \A n \in 1 .. Len(s) : g[n] = f[n]
    <3>1. \A n \in 1 .. Len(s) : n \in M
      BY <2>3
    <3> QED
      BY <3>1
  <2>5. DOMAIN g = 1 .. Len(s) /\ g = [i \in DOMAIN g |-> g[i]]
    BY <1>6 DEF Joins
  <2> QED
    BY <2>4, <2>5
<1> QED
  BY <1>4, <1>5, <1>6

LEMMA FlattenIsSequence ==
  ASSUME NEW T, NEW s \in Seq(Seq(T))
  PROVE  FlattenSeq(s) \in Seq(T)
<1>1. Len(s) \in Nat /\ (Len(s) = 0 => s = <<>>)
  BY EmptySeq, LenProperties
<1>2. CASE Len(s) = 0
  BY <1>1, <1>2, FlattenUnfolds, EmptySeq
<1>3. CASE Len(s) # 0
  <2>1. Len(s) \in 1 .. Len(s) /\ Joined(s) \in [1 .. Len(s) -> Seq(T)] /\ FlattenSeq(s) = Joined(s)[Len(s)]
    BY <1>1, <1>3, FlattenUnfolds, JoinedExists
  <2> QED
    BY <2>1, Zenon
<1> QED
  BY <1>2, <1>3

LEMMA FlattenGrows ==
  ASSUME NEW T, NEW s \in Seq(Seq(T)), NEW x \in Seq(T)
  PROVE  FlattenSeq(Append(s, x)) = FlattenSeq(s) \o x
<1> DEFINE n == Len(s)
           r == Append(s, x)
           f == Joined(s)
           g == Joined(r)
<1>1. r \in Seq(Seq(T)) /\ n \in Nat /\ Len(r) = n + 1 /\ r[n + 1] = x /\ \A i \in 1 .. n : r[i] = s[i]
  BY AppendProperties, LenProperties
<1>2. Joins(s, f) /\ Joins(r, g)
  BY <1>1, JoinedExists
<1>3. \A i \in 1 .. n : f[i] = IF i = 1 THEN s[i] ELSE f[i - 1] \o s[i]
  BY <1>2 DEF Joins
<1>4. \A i \in 1 .. n + 1 : g[i] = IF i = 1 THEN r[i] ELSE g[i - 1] \o r[i]
  BY <1>1, <1>2 DEF Joins
<1> HIDE DEF f, g, r
<1> DEFINE M == {k \in Nat : k \in 1 .. n => g[k] = f[k]}
<1>5. 0 \in M
  OBVIOUS
<1>6. ASSUME NEW k \in M PROVE k + 1 \in M
  <2>1. SUFFICES ASSUME k + 1 \in 1 .. n PROVE g[k + 1] = f[k + 1]
    OBVIOUS
  <2>2. k \in Nat /\ (k + 1) - 1 = k /\ k + 1 \in 1 .. n + 1 /\ (k + 1 # 1 => k \in 1 .. n)
    BY <1>1, <2>1
  <2>3. k + 1 # 1 => g[k] = f[k]
    BY <2>2
  <2>4. r[k + 1] = s[k + 1]
    BY <1>1, <2>1
  <2>5. f[k + 1] = IF k + 1 = 1 THEN s[k + 1] ELSE f[(k + 1) - 1] \o s[k + 1]
    BY <1>3, <2>1, Zenon
  <2>6. g[k + 1] = IF k + 1 = 1 THEN r[k + 1] ELSE g[(k + 1) - 1] \o r[k + 1]
    BY <1>4, <2>2, Zenon
  <2> QED
    BY <2>2, <2>3, <2>4, <2>5, <2>6
<1>7. M = Nat
  <2>1. M \in SUBSET Nat
    OBVIOUS
  <2> HIDE DEF M
  <2> QED
    BY <1>5, <1>6, <2>1, Induction
<1>8. CASE n = 0
  <2>1. s = <<>> /\ FlattenSeq(s) = <<>>
    BY <1>8, EmptySeq, FlattenUnfolds
  <2>2. FlattenSeq(r) = g[1]
    <3>1. Len(r) = 1 /\ 1 # 0
      BY <1>1, <1>8
    <3>2. FlattenSeq(r) = Joined(r)[Len(r)]
      BY <3>1, FlattenUnfolds
    <3> QED
      BY <3>1, <3>2, Zenon DEF g
  <2>3. g[1] = x
    BY <1>1, <1>4, <1>8
  <2> QED
    BY <2>1, <2>2, <2>3, ConcatEmptySeq DEF r
<1>9. CASE n # 0
  <2>1. n \in 1 .. n /\ g[n] = f[n]
    BY <1>1, <1>7, <1>9
  <2>2. g[n + 1] = g[n] \o x
    <3>1. n + 1 \in 1 .. n + 1 /\ n + 1 # 1 /\ (n + 1) - 1 = n
      BY <1>1, <1>9
    <3>2. g[n + 1] = IF n + 1 = 1 THEN r[n + 1] ELSE g[(n + 1) - 1] \o r[n + 1]
      BY <1>4, <3>1, Zenon
    <3> QED
      BY <1>1, <3>1, <3>2
  <2>3. FlattenSeq(r) = g[n + 1] /\ FlattenSeq(s) = f[n]
    BY <1>1, <1>9, FlattenUnfolds DEF f, g
  <2> QED
    BY <2>1, <2>2, <2>3 DEF r
<1> QED
  BY <1>8, <1>9

\* Prefixes.
LEMMA PrefixIs ==
  ASSUME NEW T, NEW s \in Seq(T), NEW t \in Seq(T)
  PROVE  IsPrefix(s, t) <=> Len(s) <= Len(t) /\ \A i \in 1 .. Len(s) : s[i] = t[i]
BY LenProperties DEF IsPrefix

LEMMA PrefixOfLonger ==
  ASSUME NEW T, NEW s \in Seq(T), NEW t \in Seq(T), NEW u \in Seq(T)
  PROVE  /\ IsPrefix(s, s \o t)
         /\ IsPrefix(s, t) => IsPrefix(s, t \o u)
<1>1. s \o t \in Seq(T) /\ t \o u \in Seq(T) /\ Len(s) \in Nat /\ Len(t) \in Nat /\ Len(u) \in Nat
  BY ConcatProperties, LenProperties
<1>2. /\ Len(s \o t) = Len(s) + Len(t)
      /\ \A i \in 1 .. Len(s) : (s \o t)[i] = s[i]
  BY <1>1, ConcatProperties
<1>3. /\ Len(t \o u) = Len(t) + Len(u)
      /\ \A i \in 1 .. Len(t) : (t \o u)[i] = t[i]
  BY <1>1, ConcatProperties
<1>4. IsPrefix(s, s \o t)
  <2>1. Len(s) <= Len(s \o t) /\ \A i \in 1 .. Len(s) : s[i] = (s \o t)[i]
    BY <1>1, <1>2
  <2> QED
    BY <1>1, <2>1, PrefixIs, Zenon
<1>5. ASSUME IsPrefix(s, t) PROVE IsPrefix(s, t \o u)
  <2>1. Len(s) <= Len(t) /\ \A i \in 1 .. Len(s) : s[i] = t[i]
    BY <1>5, PrefixIs
  <2>2. Len(s) <= Len(t \o u)
    BY <1>1, <1>3, <2>1
  <2>3. ASSUME NEW i \in 1 .. Len(s) PROVE s[i] = (t \o u)[i]
    <3>1. i \in 1 .. Len(t)
      BY <1>1, <2>1
    <3> QED
      BY <1>3, <2>1, <3>1, Zenon
  <2> QED
    BY <1>1, <2>2, <2>3, PrefixIs, Zenon
<1> QED
  BY <1>4, <1>5

LEMMA SuffixIs ==
  ASSUME NEW T, NEW s \in Seq(T), NEW t \in Seq(T)
  PROVE  SubSeq(s \o t, Len(s) + 1, Len(s \o t)) = t
<1> DEFINE u == s \o t
<1>1. /\ u \in Seq(T) /\ Len(s) \in Nat /\ Len(t) \in Nat /\ Len(u) = Len(s) + Len(t)
      /\ \A i \in 1 .. Len(s) + Len(t) : u[i] = IF i <= Len(s) THEN s[i] ELSE t[i - Len(s)]
  BY ConcatProperties, LenProperties
<1> HIDE DEF u
<1> DEFINE v == SubSeq(u, Len(s) + 1, Len(u))
<1>2. \A i \in Len(s) + 1 .. Len(u) : u[i] \in T
  BY <1>1, ElementOfSeq
<1>3. /\ v \in Seq(T)
      /\ Len(v) = IF Len(s) + 1 <= Len(u) THEN Len(u) - (Len(s) + 1) + 1 ELSE 0
      /\ \A i \in 1 .. Len(u) - (Len(s) + 1) + 1 : v[i] = u[(Len(s) + 1) + i - 1]
  BY <1>1, <1>2, SubSeqProperties
<1>4. Len(v) = Len(t)
  BY <1>1, <1>3
<1>5. ASSUME NEW i \in 1 .. Len(v) PROVE v[i] = t[i]
  <2>1. i \in 1 .. Len(u) - (Len(s) + 1) + 1 /\ (Len(s) + 1) + i - 1 = Len(s) + i
    BY <1>1, <1>4
  <2>2. Len(s) + i \in 1 .. Len(s) + Len(t) /\ ~(Len(s) + i <= Len(s)) /\ (Len(s) + i) - Len(s) = i
    BY <1>1, <1>4
  <2>3. v[i] = u[Len(s) + i]
    BY <1>3, <2>1
  <2> QED
    BY <1>1, <2>2, <2>3
<1>6. v = t
  <2> HIDE DEF v
  <2> QED
    BY <1>3, <1>4, <1>5, SeqEqual
<1> QED
  BY <1>6 DEF u

-----------------------------------------------------------------------------
\* Tokens and messages.
Kinds == {"system", "user", "assistant", "reminder", "eom", "eot", "think", "newline", "note", "text"}
Token == Kinds \X Nat \X Nat
Pair == Token \X BOOLEAN
Messages == [role : {"system", "user", "assistant"}, content : Seq(Token), generated : Seq(Token),
             stopped : BOOLEAN, cancelled : BOOLEAN]

LEMMA TokensTyped ==
  /\ \A role \in {"system", "user", "assistant"} : Mark(role) \in Token
  /\ Mark("reminder") \in Token /\ Mark("think") \in Token /\ Newline \in Token /\ Note \in Token
  /\ Eom \in StopTokens /\ \A stop \in StopTokens : stop \in Token /\ stop # Note
  /\ Mark("reminder") # Note /\ Eom \in Token
BY DEF Mark, Eom, Eot, StopTokens, Newline, Note, Token, Kinds

LEMMA TextTyped ==
  ASSUME NEW turn \in Nat, NEW n \in Nat
  PROVE  /\ Text(turn, n) \in Seq(Token) /\ Len(Text(turn, n)) = n
         /\ \A k \in 1 .. n : Text(turn, n)[k] # Note /\ Text(turn, n)[k] \notin StopTokens
<1>1. \A k \in 1 .. n : <<"text", turn, k>> \in Token
  BY DEF Token, Kinds
<1>2. Text(turn, n) \in [1 .. n -> Token]
  BY <1>1 DEF Text
<1>3. Text(turn, n) \in Seq(Token) /\ Len(Text(turn, n)) = n
  BY <1>2, SeqDef
<1>4. \A k \in 1 .. n : Text(turn, n)[k] # Note /\ Text(turn, n)[k] \notin StopTokens
  BY DEF Text, Note, StopTokens, Eom, Eot, Mark
<1> QED
  BY <1>3, <1>4

LEMMA MessageTyped ==
  ASSUME NEW role \in {"system", "user", "assistant"}, NEW content \in Seq(Token)
  PROVE  /\ Message(role, content) \in Messages
         /\ Message(role, content).role = role /\ Message(role, content).content = content
         /\ Message(role, content).generated = <<>> /\ Message(role, content).cancelled = FALSE
BY EmptySeq DEF Message, Messages

LEMMA MessageParts ==
  ASSUME NEW m \in Messages
  PROVE  /\ m.role \in {"system", "user", "assistant"} /\ Mark(m.role) \in Token
         /\ m.content \in Seq(Token) /\ m.generated \in Seq(Token)
         /\ Len(m.content) \in Nat /\ Len(m.generated) \in Nat
<1>1. m.role \in {"system", "user", "assistant"} /\ m.content \in Seq(Token) /\ m.generated \in Seq(Token)
  BY DEF Messages
<1> QED
  BY <1>1, TokensTyped, LenProperties

LEMMA RenderedTyped ==
  ASSUME NEW m \in Messages
  PROVE  rendered(m) \in Seq(Token)
<1>1. <<Mark(m.role)>> \in Seq(Token) /\ <<Eom, Newline>> \in Seq(Token) /\ m.content \in Seq(Token)
  BY MessageParts, TokensTyped
<1>2. <<Mark(m.role)>> \o m.content \in Seq(Token)
  BY <1>1, ConcatProperties
<1> QED
  BY <1>1, <1>2, ConcatProperties DEF rendered

\* The rendering of a conversation, message by message.
Pieces(conversation) == [i \in DOMAIN conversation |-> rendered(conversation[i])]
Rendering(conversation) == FlattenSeq(Pieces(conversation))

LEMMA PiecesTyped ==
  ASSUME NEW c \in Seq(Messages)
  PROVE  /\ Pieces(c) \in Seq(Seq(Token)) /\ Len(Pieces(c)) = Len(c)
         /\ \A i \in 1 .. Len(c) : Pieces(c)[i] = rendered(c[i])
<1>1. Len(c) \in Nat /\ DOMAIN c = 1 .. Len(c) /\ \A i \in 1 .. Len(c) : rendered(c[i]) \in Seq(Token)
  BY RenderedTyped, ElementOfSeq, LenProperties
<1>2. Pieces(c) \in [1 .. Len(c) -> Seq(Token)]
  BY <1>1 DEF Pieces
<1>3. \A i \in 1 .. Len(c) : Pieces(c)[i] = rendered(c[i])
  BY <1>1, Zenon DEF Pieces
<1>4. Pieces(c) \in Seq(Seq(Token)) /\ Len(Pieces(c)) = Len(c)
  BY <1>1, <1>2, SeqDef
<1> QED
  BY <1>3, <1>4

LEMMA PiecesGrow ==
  ASSUME NEW c \in Seq(Messages), NEW m \in Messages
  PROVE  /\ Pieces(c) \in Seq(Seq(Token)) /\ rendered(m) \in Seq(Token)
         /\ Pieces(Append(c, m)) = Append(Pieces(c), rendered(m))
<1> DEFINE d == Append(c, m)
<1>1. /\ d \in Seq(Messages) /\ Len(c) \in Nat /\ Len(d) = Len(c) + 1
      /\ DOMAIN c = 1 .. Len(c) /\ DOMAIN d = 1 .. Len(d)
      /\ d[Len(c) + 1] = m /\ \A i \in 1 .. Len(c) : d[i] = c[i]
  BY AppendProperties, LenProperties
<1>2. rendered(m) \in Seq(Token)
  BY RenderedTyped
<1> HIDE DEF d
<1>3. /\ Pieces(c) \in Seq(Seq(Token)) /\ Len(Pieces(c)) = Len(c)
      /\ \A i \in 1 .. Len(c) : Pieces(c)[i] = rendered(c[i])
  BY PiecesTyped
<1>4. /\ Pieces(d) \in Seq(Seq(Token)) /\ Len(Pieces(d)) = Len(d)
      /\ \A i \in 1 .. Len(d) : Pieces(d)[i] = rendered(d[i])
  BY <1>1, PiecesTyped
<1> DEFINE e == Append(Pieces(c), rendered(m))
<1>5. /\ e \in Seq(Seq(Token)) /\ Len(e) = Len(c) + 1
      /\ e[Len(c) + 1] = rendered(m) /\ \A i \in 1 .. Len(c) : e[i] = Pieces(c)[i]
  BY <1>2, <1>3, AppendProperties
<1> HIDE DEF e
<1>6. ASSUME NEW i \in 1 .. Len(d) PROVE Pieces(d)[i] = e[i]
  <2>1. Pieces(d)[i] = rendered(d[i])
    BY <1>4
  <2>2. CASE i = Len(c) + 1
    BY <1>1, <1>5, <2>1, <2>2
  <2>3. CASE i \in 1 .. Len(c)
    <3>1. Pieces(c)[i] = rendered(c[i])
      BY <1>3, <2>3
    <3> QED
      BY <1>1, <1>5, <2>1, <2>3, <3>1, Zenon
  <2> QED
    BY <1>1, <2>2, <2>3
<1>7. Pieces(d) = e
  BY <1>1, <1>4, <1>5, <1>6, SeqEqual
<1> QED
  BY <1>2, <1>3, <1>7, Zenon DEF d, e

LEMMA RenderingGrows ==
  ASSUME NEW c \in Seq(Messages), NEW m \in Messages
  PROVE  /\ Rendering(c) \in Seq(Token)
         /\ Rendering(Append(c, m)) = Rendering(c) \o rendered(m)
<1>1. Rendering(c) \in Seq(Token)
  BY PiecesGrow, FlattenIsSequence DEF Rendering
<1>2. Rendering(Append(c, m)) = Rendering(c) \o rendered(m)
  BY PiecesGrow, FlattenGrows DEF Rendering
<1> QED
  BY <1>1, <1>2

LEMMA RenderingOfOne ==
  ASSUME NEW m \in Messages
  PROVE  Rendering(<<m>>) = rendered(m)
<1>1. <<>> \in Seq(Messages) /\ <<m>> = Append(<<>>, m)
  BY EmptySeq
<1>2. Pieces(<<>>) = <<>>
  <2>1. DOMAIN <<>> = {}
    OBVIOUS
  <2> QED
    BY <2>1 DEF Pieces
<1>3. Rendering(<<>>) = <<>>
  BY <1>2, EmptySeq, FlattenUnfolds DEF Rendering
<1>4. rendered(m) \in Seq(Token)
  BY RenderedTyped
<1>5. Rendering(<<m>>) = <<>> \o rendered(m)
  BY <1>1, <1>3, RenderingGrows, Zenon
<1> QED
  BY <1>4, <1>5, ConcatEmptySeq

\* Only a conversation of Qwen 2.5 without a system message gets another.
LEMMA TemplateRenders ==
  ASSUME NEW c \in Seq(Messages), family # "qwen2.5" \/ c[1].role = "system"
  PROVE  ChatTemplate(c) = Rendering(c)
<1>1. Rendering(c) \in Seq(Token)
  BY PiecesTyped, FlattenIsSequence DEF Rendering
<1>2. ChatTemplate(c) = <<>> \o Rendering(c)
  BY DEF ChatTemplate, Rendering, Pieces
<1> QED
  BY <1>1, <1>2, ConcatEmptySeq

LEMMA TokenizedPrompt ==
  ASSUME NEW c \in Seq(Messages), c[1].role = "system"
  PROVE  tokenized(c) = Rendering(c)
<1>1. tokenized(c) = ChatTemplate(c)
  BY DEF tokenized
<1> QED
  BY <1>1, TemplateRenders

\* The dummy system message leaves no token.
LEMMA TokenizedMessage ==
  ASSUME NEW m \in Messages
  PROVE  tokenized(<<m>>) = rendered(m)
<1>1. <<m>> \in Seq(Messages) /\ <<m>>[1] = m
  OBVIOUS
<1>2. CASE family = "qwen3" \/ m.role = "system"
  <2>1. tokenized(<<m>>) = ChatTemplate(<<m>>)
    BY <1>1, <1>2 DEF tokenized
  <2>2. ChatTemplate(<<m>>) = Rendering(<<m>>)
    BY <1>1, <1>2, TemplateRenders
  <2> QED
    BY <2>1, <2>2, RenderingOfOne
<1>3. CASE ~(family = "qwen3" \/ m.role = "system")
  <2> DEFINE dummy == Message("system", Text(0, 1))
  <2>1. dummy \in Messages /\ dummy.role = "system"
    BY TextTyped, MessageTyped
  <2> HIDE DEF dummy
  <2>2. <<dummy>> \in Seq(Messages) /\ <<dummy>>[1] = dummy /\ <<dummy>> \o <<m>> = Append(<<dummy>>, m)
    BY <2>1, AppendIsConcat
  <2>3. Append(<<dummy>>, m) \in Seq(Messages) /\ Append(<<dummy>>, m)[1] = dummy
    BY <2>2, AppendProperties
  <2>4. ChatTemplate(<<dummy>>) = rendered(dummy)
    BY <2>1, <2>2, TemplateRenders, RenderingOfOne
  <2>5. ChatTemplate(<<dummy>> \o <<m>>) = rendered(dummy) \o rendered(m)
    <3>1. ChatTemplate(Append(<<dummy>>, m)) = Rendering(Append(<<dummy>>, m))
      BY <2>1, <2>3, TemplateRenders
    <3>2. Rendering(Append(<<dummy>>, m)) = Rendering(<<dummy>>) \o rendered(m)
      BY <2>2, RenderingGrows
    <3> QED
      BY <2>1, <2>2, <3>1, <3>2, RenderingOfOne
  <2>6. tokenized(<<m>>) = SubSeq(ChatTemplate(<<dummy>> \o <<m>>), Len(ChatTemplate(<<dummy>>)) + 1,
                                  Len(ChatTemplate(<<dummy>> \o <<m>>)))
    BY <1>1, <1>3, Zenon DEF tokenized, dummy
  <2>7. rendered(dummy) \in Seq(Token) /\ rendered(m) \in Seq(Token)
    BY <2>1, RenderedTyped
  <2> QED
    BY <2>4, <2>5, <2>6, <2>7, SuffixIs
<1> QED
  BY <1>2, <1>3

-----------------------------------------------------------------------------
\* Tokens with the mark of those that are trained on.
MarkedOf(tokens) == {k \in DOMAIN tokens : tokens[k][2]}

LEMMA BareIs ==
  ASSUME NEW s \in Seq(Pair)
  PROVE  /\ Bare(s) \in Seq(Token) /\ Len(Bare(s)) = Len(s)
         /\ \A k \in 1 .. Len(s) : Bare(s)[k] = s[k][1]
         /\ MarkedOf(s) \in SUBSET (1 .. Len(s))
<1>1. Len(s) \in Nat /\ DOMAIN s = 1 .. Len(s) /\ \A k \in 1 .. Len(s) : s[k] \in Token \X BOOLEAN
  BY ElementOfSeq, LenProperties DEF Pair
<1>2. \A k \in 1 .. Len(s) : s[k][1] \in Token
  BY <1>1
<1>3. Bare(s) \in [1 .. Len(s) -> Token] /\ \A k \in 1 .. Len(s) : Bare(s)[k] = s[k][1]
  BY <1>1, <1>2, Zenon DEF Bare
<1>4. Bare(s) \in Seq(Token) /\ Len(Bare(s)) = Len(s)
  BY <1>1, <1>3, SeqDef
<1>5. MarkedOf(s) \in SUBSET (1 .. Len(s))
  BY <1>1 DEF MarkedOf
<1> QED
  BY <1>3, <1>4, <1>5

LEMMA BareJoins ==
  ASSUME NEW s \in Seq(Pair), NEW t \in Seq(Pair)
  PROVE  /\ Bare(s \o t) = Bare(s) \o Bare(t)
         /\ MarkedOf(s \o t) = MarkedOf(s) \cup {Len(s) + k : k \in MarkedOf(t)}
<1> DEFINE u == s \o t
           v == Bare(s) \o Bare(t)
<1>1. /\ u \in Seq(Pair) /\ Len(u) = Len(s) + Len(t) /\ Len(s) \in Nat /\ Len(t) \in Nat
      /\ \A i \in 1 .. Len(s) + Len(t) : u[i] = IF i <= Len(s) THEN s[i] ELSE t[i - Len(s)]
      /\ DOMAIN s = 1 .. Len(s) /\ DOMAIN t = 1 .. Len(t)
  BY ConcatProperties, LenProperties
<1>2. /\ Bare(s) \in Seq(Token) /\ Len(Bare(s)) = Len(s) /\ \A k \in 1 .. Len(s) : Bare(s)[k] = s[k][1]
      /\ Bare(t) \in Seq(Token) /\ Len(Bare(t)) = Len(t) /\ \A k \in 1 .. Len(t) : Bare(t)[k] = t[k][1]
  BY BareIs
<1>3. /\ v \in Seq(Token) /\ Len(v) = Len(s) + Len(t)
      /\ \A i \in 1 .. Len(s) + Len(t) : v[i] = IF i <= Len(s) THEN Bare(s)[i] ELSE Bare(t)[i - Len(s)]
  <2>1. /\ v \in Seq(Token) /\ Len(v) = Len(Bare(s)) + Len(Bare(t))
        /\ \A i \in 1 .. Len(Bare(s)) + Len(Bare(t)) :
             v[i] = IF i <= Len(Bare(s)) THEN Bare(s)[i] ELSE Bare(t)[i - Len(Bare(s))]
    <3>1. \A p, q \in Seq(Token) :
            /\ p \o q \in Seq(Token) /\ Len(p \o q) = Len(p) + Len(q)
            /\ \A i \in 1 .. Len(p) + Len(q) : (p \o q)[i] = IF i <= Len(p) THEN p[i] ELSE q[i - Len(p)]
      BY ConcatProperties
    <3> QED
      BY <1>2, <3>1, Zenon
  <2> HIDE DEF v
  <2> QED
    BY <1>2, <2>1
<1> HIDE DEF u, v
<1>4. /\ Bare(u) \in Seq(Token) /\ Len(Bare(u)) = Len(u) /\ \A k \in 1 .. Len(u) : Bare(u)[k] = u[k][1]
      /\ DOMAIN u = 1 .. Len(u)
  BY <1>1, BareIs, LenProperties
<1>5. ASSUME NEW i \in 1 .. Len(u) PROVE Bare(u)[i] = v[i]
  <2>1. CASE i <= Len(s)
    <3>1. i \in 1 .. Len(s) /\ i \in 1 .. Len(s) + Len(t)
      BY <1>1, <2>1
    <3>2. u[i] = s[i] /\ v[i] = Bare(s)[i]
      BY <1>1, <1>3, <2>1, <3>1
    <3> QED
      BY <1>2, <1>4, <3>1, <3>2
  <2>2. CASE ~(i <= Len(s))
    <3>1. i - Len(s) \in 1 .. Len(t)
      BY <1>1, <2>2
    <3>2. u[i] = t[i - Len(s)] /\ v[i] = Bare(t)[i - Len(s)]
      BY <1>1, <1>3, <2>2
    <3> QED
      BY <1>2, <1>4, <3>1, <3>2
  <2> QED
    BY <2>1, <2>2
<1>6. Bare(u) = v
  BY <1>1, <1>3, <1>4, <1>5, SeqEqual
<1>7. ASSUME NEW i \in MarkedOf(u) PROVE i \in MarkedOf(s) \/ \E k \in MarkedOf(t) : i = Len(s) + k
  <2>1. i \in 1 .. Len(u) /\ u[i][2]
    BY <1>4 DEF MarkedOf
  <2>2. CASE i <= Len(s)
    BY <1>1, <2>1, <2>2 DEF MarkedOf
  <2>3. CASE ~(i <= Len(s))
    <3>1. i - Len(s) \in 1 .. Len(t) /\ i = Len(s) + (i - Len(s))
      BY <1>1, <2>1, <2>3
    <3>2. u[i] = t[i - Len(s)]
      BY <1>1, <2>1, <2>3
    <3>3. i - Len(s) \in MarkedOf(t)
      BY <1>1, <2>1, <3>1, <3>2 DEF MarkedOf
    <3> QED
      BY <3>1, <3>3
  <2> QED
    BY <2>2, <2>3
<1>8. ASSUME NEW i \in MarkedOf(s) PROVE i \in MarkedOf(u)
  <2>1. i \in 1 .. Len(s) /\ s[i][2]
    BY <1>1 DEF MarkedOf
  <2>2. i \in 1 .. Len(u) /\ u[i] = s[i]
    BY <1>1, <2>1
  <2> QED
    BY <1>4, <2>1, <2>2 DEF MarkedOf
<1>9. ASSUME NEW k \in MarkedOf(t) PROVE Len(s) + k \in MarkedOf(u)
  <2>1. k \in 1 .. Len(t) /\ t[k][2]
    BY <1>1 DEF MarkedOf
  <2>2. /\ Len(s) + k \in 1 .. Len(s) + Len(t) /\ ~(Len(s) + k <= Len(s)) /\ (Len(s) + k) - Len(s) = k
        /\ Len(s) + k \in 1 .. Len(u)
    BY <1>1, <2>1
  <2>3. u[Len(s) + k] = t[k]
    BY <1>1, <2>2
  <2> QED
    BY <1>4, <2>1, <2>2, <2>3 DEF MarkedOf
<1>10. MarkedOf(u) = MarkedOf(s) \cup {Len(s) + k : k \in MarkedOf(t)}
  BY <1>7, <1>8, <1>9
<1> QED
  BY <1>6, <1>10 DEF u, v

LEMMA MaskedIs ==
  ASSUME NEW s \in Seq(Token)
  PROVE  /\ masked(s) \in Seq(Pair) /\ Len(masked(s)) = Len(s)
         /\ Bare(masked(s)) = s /\ MarkedOf(masked(s)) = {}
<1>1. Len(s) \in Nat /\ DOMAIN s = 1 .. Len(s) /\ \A k \in 1 .. Len(s) : s[k] \in Token
  BY ElementOfSeq, LenProperties
<1>2. \A k \in 1 .. Len(s) : masked(s)[k] = <<s[k], FALSE>> /\ <<s[k], FALSE>> \in Pair
  BY <1>1 DEF masked, Pair
<1>3. masked(s) \in [1 .. Len(s) -> Pair]
  BY <1>1, <1>2, Zenon DEF masked
<1>4. masked(s) \in Seq(Pair) /\ Len(masked(s)) = Len(s)
  BY <1>1, <1>3, SeqDef
<1>5. \A k \in 1 .. Len(s) : Bare(masked(s))[k] = s[k]
  <2>1. \A k \in 1 .. Len(masked(s)) : Bare(masked(s))[k] = masked(s)[k][1]
    BY <1>4, BareIs
  <2>2. \A k \in 1 .. Len(s) : <<s[k], FALSE>>[1] = s[k]
    OBVIOUS
  <2> QED
    BY <1>2, <1>4, <2>1, <2>2, Zenon
<1>6. Bare(masked(s)) = s
  BY <1>4, <1>5, BareIs, SeqEqual
<1>7. MarkedOf(masked(s)) = {}
  <2>1. \A k \in 1 .. Len(s) : ~<<s[k], FALSE>>[2]
    OBVIOUS
  <2>2. DOMAIN masked(s) = 1 .. Len(s)
    BY <1>3
  <2>3. \A k \in 1 .. Len(s) : ~masked(s)[k][2]
    BY <1>2, <2>1, Zenon
  <2> QED
    BY <2>2, <2>3, Zenon DEF MarkedOf
<1> QED
  BY <1>4, <1>6, <1>7

\* The generated tokens are marked.
Outcome(m) == [k \in DOMAIN m.generated |-> <<m.generated[k], TRUE>>]

LEMMA OutcomeIs ==
  ASSUME NEW m \in Messages
  PROVE  /\ Outcome(m) \in Seq(Pair) /\ Len(Outcome(m)) = Len(m.generated)
         /\ Bare(Outcome(m)) = m.generated /\ MarkedOf(Outcome(m)) = 1 .. Len(m.generated)
<1> DEFINE s == m.generated
           o == Outcome(m)
<1>1. s \in Seq(Token)
  BY MessageParts
<1> HIDE DEF s
<1>2. Len(s) \in Nat /\ DOMAIN s = 1 .. Len(s) /\ \A k \in 1 .. Len(s) : s[k] \in Token
  BY <1>1, ElementOfSeq, LenProperties
<1>3. \A k \in 1 .. Len(s) : o[k] = <<s[k], TRUE>> /\ <<s[k], TRUE>> \in Pair
  BY <1>2 DEF Outcome, Pair, s
<1>4. o \in [1 .. Len(s) -> Pair]
  BY <1>2, <1>3, Zenon DEF Outcome, s
<1> HIDE DEF o
<1>5. o \in Seq(Pair) /\ Len(o) = Len(s)
  BY <1>2, <1>4, SeqDef
<1>6. \A k \in 1 .. Len(s) : Bare(o)[k] = s[k]
  <2>1. \A k \in 1 .. Len(o) : Bare(o)[k] = o[k][1]
    BY <1>5, BareIs
  <2>2. \A k \in 1 .. Len(s) : <<s[k], TRUE>>[1] = s[k]
    OBVIOUS
  <2> QED
    BY <1>3, <1>5, <2>1, <2>2, Zenon
<1>7. Bare(o) = s
  BY <1>1, <1>5, <1>6, BareIs, SeqEqual
<1>8. MarkedOf(o) = 1 .. Len(s)
  <2>1. \A k \in 1 .. Len(s) : <<s[k], TRUE>>[2]
    OBVIOUS
  <2>2. DOMAIN o = 1 .. Len(s)
    BY <1>4
  <2>3. \A k \in 1 .. Len(s) : o[k][2]
    BY <1>3, <2>1, Zenon
  <2> QED
    BY <2>2, <2>3, Zenon DEF MarkedOf
<1> QED
  BY <1>5, <1>7, <1>8 DEF s, o

LEMMA StopTyped ==
  ASSUME NEW m \in Messages
  PROVE  /\ <<Eom>> \in Seq(Token) /\ <<Newline>> \in Seq(Token) /\ GenerationPrompt \in Seq(Token)
         /\ Len(GenerationPrompt) \in Nat /\ (family = "qwen2.5" => GenerationPrompt = <<Mark("assistant")>>)
         /\ maybe_stop(m) \in Seq(Token) /\ maybe_stop(m) \o <<Newline>> \in Seq(Token)
<1>1. <<Eom>> \in Seq(Token) /\ <<Newline>> \in Seq(Token) /\ GenerationPrompt \in Seq(Token)
  BY TokensTyped DEF GenerationPrompt
<1>2. maybe_stop(m) \in Seq(Token)
  BY <1>1, EmptySeq DEF maybe_stop
<1>3. family = "qwen2.5" => GenerationPrompt = <<Mark("assistant")>>
  BY DEF GenerationPrompt
<1> QED
  BY <1>1, <1>2, <1>3, ConcatProperties, LenProperties

LEMMA AnswerTokens ==
  ASSUME NEW m \in Messages
  PROVE  /\ answer_tokens(m) \in Seq(Pair)
         /\ Bare(answer_tokens(m)) = (GenerationPrompt \o m.generated) \o (maybe_stop(m) \o <<Newline>>)
         /\ MarkedOf(answer_tokens(m)) = {Len(GenerationPrompt) + k : k \in 1 .. Len(m.generated)}
<1> DEFINE a == masked(GenerationPrompt)
           o == Outcome(m)
           e == masked(maybe_stop(m) \o <<Newline>>)
<1>1. /\ a \in Seq(Pair) /\ Len(a) = Len(GenerationPrompt) /\ Bare(a) = GenerationPrompt /\ MarkedOf(a) = {}
      /\ e \in Seq(Pair) /\ Bare(e) = maybe_stop(m) \o <<Newline>> /\ MarkedOf(e) = {}
  BY StopTyped, MaskedIs
<1>2. o \in Seq(Pair) /\ Bare(o) = m.generated /\ MarkedOf(o) = 1 .. Len(m.generated)
  BY OutcomeIs
<1>3. answer_tokens(m) = (a \o o) \o e
  BY DEF answer_tokens, Outcome
<1> HIDE DEF a, o, e
<1>4. a \o o \in Seq(Pair) /\ (a \o o) \o e \in Seq(Pair)
  BY <1>1, <1>2, ConcatProperties
<1>5. /\ Bare(a \o o) = GenerationPrompt \o m.generated
      /\ MarkedOf(a \o o) = {Len(GenerationPrompt) + k : k \in 1 .. Len(m.generated)}
  <2>1. /\ Bare(a \o o) = Bare(a) \o Bare(o)
        /\ MarkedOf(a \o o) = MarkedOf(a) \cup {Len(a) + k : k \in MarkedOf(o)}
    BY <1>1, <1>2, BareJoins
  <2> QED
    BY <1>1, <1>2, <2>1
<1>6. /\ Bare((a \o o) \o e) = Bare(a \o o) \o Bare(e)
      /\ MarkedOf((a \o o) \o e) = MarkedOf(a \o o) \cup {Len(a \o o) + k : k \in MarkedOf(e)}
  BY <1>1, <1>4, BareJoins
<1> QED
  BY <1>1, <1>3, <1>4, <1>5, <1>6

\* An answer that nothing cut short and whose text is what was generated.
Whole(m) == IsPolicy(m) /\ ~Unended(m) /\ ~Altered(m)

\* Its tokens read as the template of Qwen 2.5 renders it, unless it ends otherwise.
LEMMA AnswerReads ==
  ASSUME NEW m \in Messages, Whole(m), family = "qwen2.5", EndsAsRendered(m)
  PROVE  Bare(answer_tokens(m)) = rendered(m)
<1> DEFINE a == GenerationPrompt
           g == m.generated
           c == m.content
<1>1. /\ rendered(m) = (a \o c) \o <<Eom, Newline>>
      /\ <<Eom>> \o <<Newline>> = <<Eom, Newline>>
  <2>1. m.role = "assistant"
    BY DEF Whole, IsPolicy
  <2>2. rendered(m) = (a \o c) \o <<Eom, Newline>>
    BY <2>1, StopTyped, Zenon DEF rendered
  <2>3. <<Eom>> \o <<Newline>> = <<Eom, Newline>>
    <3>1. <<Eom>> \in Seq(Token) /\ Newline \in Token
      BY TokensTyped
    <3>2. <<Eom>> \o <<Newline>> = Append(<<Eom>>, Newline)
      BY <3>1, AppendIsConcat
    <3>3. Append(<<Eom>>, Newline) = <<Eom, Newline>>
      <4>1. <<Eom, Newline>> \in Seq(Token) /\ Len(<<Eom, Newline>>) = 2 /\ Len(<<Eom>>) = 1
        BY TokensTyped
      <4>2. /\ Append(<<Eom>>, Newline) \in Seq(Token) /\ Len(Append(<<Eom>>, Newline)) = 2
            /\ Append(<<Eom>>, Newline)[1] = Eom /\ Append(<<Eom>>, Newline)[2] = Newline
        BY <3>1, <4>1, AppendProperties
      <4>3. \A i \in 1 .. Len(Append(<<Eom>>, Newline)) : Append(<<Eom>>, Newline)[i] = <<Eom, Newline>>[i]
        BY <4>2
      <4> QED
        BY <4>1, <4>2, <4>3, SeqEqual
    <3> QED
      BY <3>2, <3>3
  <2> QED
    BY <2>2, <2>3
<1>2. /\ a \in Seq(Token) /\ g \in Seq(Token) /\ c \in Seq(Token)
      /\ <<Eom>> \in Seq(Token) /\ <<Newline>> \in Seq(Token)
  BY StopTyped, MessageParts
<1>3. Bare(answer_tokens(m)) = (a \o g) \o (maybe_stop(m) \o <<Newline>>)
  BY AnswerTokens
<1>4. c = IF Stops(m) THEN Front(g) ELSE g
  BY DEF Whole, Altered
<1> HIDE DEF a, g, c
<1>5. CASE ~Stops(m)
  BY <1>1, <1>3, <1>4, <1>5 DEF maybe_stop
<1>6. CASE Stops(m)
  <2>1. g # <<>> /\ Last(g) = Eom
    BY <1>6 DEF Stops, g, EndsAsRendered, Whole
  <2>2. g = c \o <<Eom>>
    <3>1. PICK s \in Seq(Token), t \in Token : g = Append(s, t)
      BY <1>2, <2>1, SequenceEmptyOrAppend
    <3>2. /\ Len(g) = Len(s) + 1 /\ Len(s) \in Nat /\ g[Len(s) + 1] = t
          /\ \A i \in 1 .. Len(s) : g[i] = s[i] /\ s[i] \in Token
      BY <3>1, AppendProperties, LenProperties
    <3>3. t = Eom
      BY <2>1, <3>2 DEF Last
    <3>4. Front(g) = s
      <4>1. /\ SubSeq(g, 1, Len(s)) \in Seq(Token) /\ Len(SubSeq(g, 1, Len(s))) = Len(s)
            /\ \A i \in 1 .. Len(s) : SubSeq(g, 1, Len(s))[i] = g[i]
        BY <3>2
      <4>2. SubSeq(g, 1, Len(s)) = s
        BY <3>2, <4>1, SeqEqual
      <4> QED
        BY <3>2, <4>2 DEF Front
    <3> QED
      BY <1>4, <1>6, <3>1, <3>3, <3>4, AppendIsConcat
  <2>3. maybe_stop(m) \o <<Newline>> = <<Newline>>
    BY <1>2, <1>6, ConcatEmptySeq DEF maybe_stop
  <2>4. a \o (c \o <<Eom>>) = (a \o c) \o <<Eom>>
    BY <1>2, ConcatAssociative
  <2>5. ((a \o c) \o <<Eom>>) \o <<Newline>> = (a \o c) \o (<<Eom>> \o <<Newline>>)
    BY <1>2, ConcatProperties, ConcatAssociative
  <2> QED
    BY <1>1, <1>3, <2>2, <2>3, <2>4, <2>5
<1> QED
  BY <1>5, <1>6

-----------------------------------------------------------------------------
\* The tokens of a conversation grow with its messages.
LEMMA MessageTokens ==
  ASSUME NEW m \in Messages
  PROVE  /\ message_tokens(m) \in Seq(Pair)
         /\ IsPolicy(m) => message_tokens(m) = answer_tokens(m)
         /\ ~IsPolicy(m) => message_tokens(m) = masked(rendered(m))
<1>1. ~IsPolicy(m) => message_tokens(m) = masked(rendered(m)) /\ masked(rendered(m)) \in Seq(Pair)
  BY TokenizedMessage, RenderedTyped, MaskedIs DEF message_tokens
<1>2. IsPolicy(m) => message_tokens(m) = answer_tokens(m) /\ answer_tokens(m) \in Seq(Pair)
  BY AnswerTokens DEF message_tokens
<1> QED
  BY <1>1, <1>2

Answered(c) == \E i \in DOMAIN c : IsPolicy(c[i])
Answers(c) == {i \in DOMAIN c : IsPolicy(c[i])}
After(c, first) == [k \in 1 .. Len(c) + 1 - first |-> message_tokens(c[first + k - 1])]

LEMMA AfterGrows ==
  ASSUME NEW c \in Seq(Messages), NEW m \in Messages, NEW first \in 1 .. Len(c) + 1
  PROVE  /\ After(c, first) \in Seq(Seq(Pair))
         /\ After(Append(c, m), first) = Append(After(c, first), message_tokens(m))
<1> DEFINE d == Append(c, m)
           n == Len(c) + 1 - first
<1>1. /\ d \in Seq(Messages) /\ Len(c) \in Nat /\ Len(d) = Len(c) + 1
      /\ d[Len(c) + 1] = m /\ \A i \in 1 .. Len(c) : d[i] = c[i]
  BY AppendProperties, LenProperties
<1>2. message_tokens(m) \in Seq(Pair)
  BY MessageTokens
<1> HIDE DEF d
<1>3. n \in Nat /\ Len(d) + 1 - first = n + 1
  BY <1>1
<1>4. ASSUME NEW k \in 1 .. n PROVE message_tokens(c[first + k - 1]) \in Seq(Pair)
  <2>1. first + k - 1 \in 1 .. Len(c)
    BY <1>1
  <2>2. c[first + k - 1] \in Messages
    BY <2>1, ElementOfSeq
  <2> QED
    BY <2>2, MessageTokens
<1>5. After(c, first) \in [1 .. n -> Seq(Pair)]
  BY <1>4, Zenon DEF After
<1>6. After(c, first) \in Seq(Seq(Pair)) /\ Len(After(c, first)) = n
  BY <1>3, <1>5, SeqDef
<1>7. ASSUME NEW k \in 1 .. n + 1
      PROVE  message_tokens(d[first + k - 1]) = IF k = n + 1 THEN message_tokens(m) ELSE After(c, first)[k]
  <2>1. CASE k = n + 1
    <3>1. first + k - 1 = Len(c) + 1
      BY <1>1, <2>1
    <3> QED
      BY <1>1, <2>1, <3>1
  <2>2. CASE k # n + 1
    <3>1. k \in 1 .. n /\ first + k - 1 \in 1 .. Len(c)
      BY <1>1, <1>3, <2>2
    <3>2. After(c, first)[k] = message_tokens(c[first + k - 1])
      BY <3>1, Zenon DEF After
    <3> QED
      BY <1>1, <2>2, <3>1, <3>2, Zenon
  <2> QED
    BY <2>1, <2>2
<1> DEFINE e == Append(After(c, first), message_tokens(m))
<1>8. /\ e \in Seq(Seq(Pair)) /\ Len(e) = n + 1
      /\ e[n + 1] = message_tokens(m) /\ \A k \in 1 .. n : e[k] = After(c, first)[k]
  <2>1. \A s \in Seq(Seq(Pair)) : \A t \in Seq(Pair) :
          /\ Append(s, t) \in Seq(Seq(Pair)) /\ Len(Append(s, t)) = Len(s) + 1
          /\ Append(s, t)[Len(s) + 1] = t /\ \A k \in 1 .. Len(s) : Append(s, t)[k] = s[k]
    BY AppendProperties
  <2>2. message_tokens(m) \in Seq(Pair)
    BY MessageTokens
  <2> HIDE DEF n
  <2>3. Len(After(c, first)) = n /\ After(c, first) \in Seq(Seq(Pair))
    BY <1>6
  <2> QED
    BY <2>1, <2>2, <2>3
<1> HIDE DEF e, n
<1>9. \A k \in 1 .. n + 1 : e[k] = message_tokens(d[first + k - 1])
  <2>1. \A k \in 1 .. n + 1 : k = n + 1 \/ k \in 1 .. n
    BY <1>3
  <2>2. ASSUME NEW k \in 1 .. n PROVE k # n + 1
    BY <1>3
  <2> QED
    BY <1>7, <1>8, <2>1, <2>2, Zenon
<1>10. e = [k \in 1 .. n + 1 |-> message_tokens(d[first + k - 1])]
  <2>1. e = [k \in 1 .. n + 1 |-> e[k]]
    BY <1>8, LenProperties
  <2> QED
    BY <1>9, <2>1, Zenon
<1>11. After(d, first) = e
  BY <1>3, <1>10, Zenon DEF After
<1> QED
  BY <1>6, <1>11, Zenon DEF d, e

LEMMA GetTokensIs ==
  ASSUME NEW c \in Seq(Messages), NEW first \in 1 .. Len(c) + 1,
         first = IF Answered(c) THEN Min(Answers(c)) ELSE Len(c) + 1
  PROVE  get_tokens(c) = masked(tokenized(SubSeq(c, 1, first - 1))) \o FlattenSeq(After(c, first))
<1>1. Answers(c) = {} <=> ~Answered(c)
  BY DEF Answers, Answered
<1>2. first = IF Answers(c) = {} THEN Len(c) + 1 ELSE Min(Answers(c))
  BY <1>1
<1>3. get_tokens(c) =
        LET f == IF Answers(c) = {} THEN Len(c) + 1 ELSE Min(Answers(c))
        IN  masked(tokenized(SubSeq(c, 1, f - 1))) \o FlattenSeq(After(c, f))
  BY Zenon DEF get_tokens, Answers, After
<1> QED
  BY <1>2, <1>3, Zenon

\* Where a conversation starts with its prompt.
Prompted(c) == c \in Seq(Messages) /\ c # <<>> /\ c[1].role = "system"

LEMMA FirstAnswerAt ==
  ASSUME NEW c, Prompted(c), NEW m \in Messages
  PROVE  /\ Len(c) \in Nat \ {0} /\ DOMAIN c = 1 .. Len(c)
         /\ Append(c, m) \in Seq(Messages) /\ Len(Append(c, m)) = Len(c) + 1 /\ Prompted(Append(c, m))
         /\ Answered(c) => /\ Answers(c) \in SUBSET Nat
                           /\ Min(Answers(c)) \in 2 .. Len(c)
                           /\ Answered(Append(c, m)) /\ Min(Answers(Append(c, m))) = Min(Answers(c))
         /\ ~Answered(c) /\ IsPolicy(m) => /\ Answered(Append(c, m))
                                           /\ Min(Answers(Append(c, m))) = Len(c) + 1
         /\ ~Answered(c) /\ ~IsPolicy(m) => ~Answered(Append(c, m))
<1> DEFINE d == Append(c, m)
<1>1. c \in Seq(Messages) /\ c # <<>> /\ c[1].role = "system"
  BY DEF Prompted
<1>2. /\ d \in Seq(Messages) /\ Len(c) \in Nat /\ Len(d) = Len(c) + 1 /\ d # <<>>
      /\ DOMAIN c = 1 .. Len(c) /\ DOMAIN d = 1 .. Len(d)
      /\ d[Len(c) + 1] = m /\ \A i \in 1 .. Len(c) : d[i] = c[i]
  BY <1>1, AppendProperties, LenProperties
<1>3. Len(c) # 0
  BY <1>1, EmptySeq
<1> HIDE DEF d
<1>4. Prompted(d)
  BY <1>1, <1>2, <1>3 DEF Prompted
<1>5. Answers(c) \in SUBSET Nat /\ Answers(d) \in SUBSET Nat
  BY <1>2 DEF Answers
<1>6. \A i \in 1 .. Len(c) : i \in Answers(c) <=> i \in Answers(d)
  BY <1>2 DEF Answers
<1>7. Len(c) + 1 \in Answers(d) <=> IsPolicy(m)
  BY <1>2 DEF Answers
<1>8. ASSUME Answered(c)
      PROVE  /\ Min(Answers(c)) \in 2 .. Len(c)
             /\ Answered(d) /\ Min(Answers(d)) = Min(Answers(c))
  <2>1. Answers(c) # {}
    BY <1>8 DEF Answered, Answers
  <2>2. Min(Answers(c)) \in Answers(c) /\ \A n \in Answers(c) : Min(Answers(c)) <= n
    BY <1>5, <2>1, MinIsLeast
  <2>3. Min(Answers(c)) \in 1 .. Len(c) /\ IsPolicy(c[Min(Answers(c))])
    BY <1>2, <2>2 DEF Answers
  <2>4. Min(Answers(c)) # 1
    BY <1>1, <2>3 DEF IsPolicy
  <2>5. Min(Answers(c)) \in Answers(d)
    BY <1>6, <2>2, <2>3
  <2>6. \A n \in Answers(d) : n \in Answers(c) \/ n = Len(c) + 1
    BY <1>2, <1>6 DEF Answers
  <2>7. \A n \in Answers(d) : Min(Answers(c)) <= n
    BY <1>2, <2>2, <2>3, <2>6
  <2>8. Min(Answers(d)) = Min(Answers(c))
    BY <1>5, <2>5, <2>7, LeastIs
  <2>9. Answered(d)
    BY <2>5 DEF Answered, Answers
  <2> QED
    BY <2>3, <2>4, <2>8, <2>9
<1>9. ASSUME ~Answered(c), IsPolicy(m) PROVE Answered(d) /\ Min(Answers(d)) = Len(c) + 1
  <2>1. Len(c) + 1 \in Answers(d)
    BY <1>7, <1>9
  <2>2. \A n \in Answers(d) : n = Len(c) + 1
    BY <1>2, <1>6, <1>9 DEF Answers, Answered
  <2>3. Min(Answers(d)) = Len(c) + 1
    BY <1>2, <2>1, <2>2, LeastIs
  <2> QED
    BY <2>1, <2>3 DEF Answered, Answers
<1>10. ASSUME ~Answered(c), ~IsPolicy(m) PROVE ~Answered(d)
  BY <1>2, <1>10 DEF Answered
<1> QED
  BY <1>2, <1>3, <1>4, <1>5, <1>8, <1>9, <1>10 DEF d

LEMMA UnansweredTokens ==
  ASSUME NEW c, Prompted(c), ~Answered(c)
  PROVE  get_tokens(c) = masked(Rendering(c))
<1>1. c \in Seq(Messages) /\ c # <<>> /\ c[1].role = "system" /\ Len(c) \in Nat
  BY LenProperties DEF Prompted
<1>2. Len(c) + 1 \in 1 .. Len(c) + 1 /\ (Len(c) + 1) - 1 = Len(c) /\ Len(c) + 1 - (Len(c) + 1) = 0
  BY <1>1
<1>3. get_tokens(c) = masked(tokenized(SubSeq(c, 1, (Len(c) + 1) - 1))) \o FlattenSeq(After(c, Len(c) + 1))
  BY <1>1, <1>2, GetTokensIs
<1>4. SubSeq(c, 1, Len(c)) = c
  BY <1>1, SubSeqFull
<1>5. tokenized(c) = Rendering(c) /\ Rendering(c) \in Seq(Token)
  BY <1>1, TokenizedPrompt, PiecesTyped, FlattenIsSequence DEF Rendering
<1>6. FlattenSeq(After(c, Len(c) + 1)) = <<>>
  <2>1. After(c, Len(c) + 1) = [k \in 1 .. 0 |-> message_tokens(c[(Len(c) + 1) + k - 1])]
    BY <1>2, Zenon DEF After
  <2>2. After(c, Len(c) + 1) = <<>>
    BY <2>1
  <2> QED
    BY <2>2, EmptySeq, FlattenUnfolds
<1>7. masked(Rendering(c)) \in Seq(Pair)
  BY <1>5, MaskedIs
<1> QED
  BY <1>2, <1>3, <1>4, <1>5, <1>6, <1>7, ConcatEmptySeq

LEMMA GetTokensGrow ==
  ASSUME NEW c, Prompted(c), NEW m \in Messages
  PROVE  /\ get_tokens(c) \in Seq(Pair)
         /\ Answered(c) \/ IsPolicy(m) => get_tokens(Append(c, m)) = get_tokens(c) \o message_tokens(m)
<1> DEFINE d == Append(c, m)
           first == IF Answered(c) THEN Min(Answers(c)) ELSE Len(c) + 1
           head == masked(tokenized(SubSeq(c, 1, first - 1)))
<1>1. /\ c \in Seq(Messages) /\ c # <<>> /\ c[1].role = "system" /\ Len(c) \in Nat \ {0}
      /\ d \in Seq(Messages) /\ Len(d) = Len(c) + 1
  BY FirstAnswerAt DEF Prompted
<1>2. first \in 2 .. Len(c) + 1 /\ first \in 1 .. Len(c) + 1
  <2>1. Answered(c) => Min(Answers(c)) \in 2 .. Len(c)
    BY FirstAnswerAt
  <2> QED
    BY <1>1, <2>1
<1>0. first = IF Answered(c) THEN Min(Answers(c)) ELSE Len(c) + 1
  OBVIOUS
<1> HIDE DEF first, d
<1>3. get_tokens(c) = head \o FlattenSeq(After(c, first))
  BY <1>0, <1>1, <1>2, GetTokensIs
<1>4. head \in Seq(Pair)
  <2> DEFINE b == SubSeq(c, 1, first - 1)
  <2>1. \A i \in 1 .. first - 1 : c[i] \in Messages
    BY <1>1, <1>2, ElementOfSeq
  <2>2. b \in Seq(Messages) /\ Len(b) = first - 1 /\ b[1] = c[1]
    BY <1>1, <1>2, <2>1, SubSeqProperties
  <2> HIDE DEF b
  <2>3. tokenized(b) = Rendering(b) /\ Rendering(b) \in Seq(Token)
    BY <1>1, <2>2, TokenizedPrompt, PiecesTyped, FlattenIsSequence DEF Rendering
  <2> QED
    BY <2>3, MaskedIs DEF b
<1>5. /\ After(c, first) \in Seq(Seq(Pair))
      /\ After(d, first) = Append(After(c, first), message_tokens(m))
  BY <1>1, <1>2, AfterGrows DEF d
<1>6. /\ FlattenSeq(After(c, first)) \in Seq(Pair) /\ message_tokens(m) \in Seq(Pair)
      /\ FlattenSeq(After(d, first)) = FlattenSeq(After(c, first)) \o message_tokens(m)
  BY <1>5, FlattenIsSequence, FlattenGrows, MessageTokens
<1>7. get_tokens(c) \in Seq(Pair)
  BY <1>3, <1>4, <1>6, ConcatProperties
<1>8. ASSUME Answered(c) \/ IsPolicy(m)
      PROVE  get_tokens(d) = get_tokens(c) \o message_tokens(m)
  <2>1. first = IF Answered(d) THEN Min(Answers(d)) ELSE Len(d) + 1
    BY <1>0, <1>1, <1>8, FirstAnswerAt DEF d
  <2>2. get_tokens(d) = masked(tokenized(SubSeq(d, 1, first - 1))) \o FlattenSeq(After(d, first))
    <3>1. first \in 1 .. Len(d) + 1
      BY <1>1, <1>2
    <3> QED
      BY <1>1, <2>1, <3>1, GetTokensIs
  <2>3. SubSeq(d, 1, first - 1) = SubSeq(c, 1, first - 1)
    <3>1. /\ \A i \in 1 .. first - 1 : c[i] \in Messages /\ d[i] \in Messages
          /\ \A i \in 1 .. first - 1 : c[i] = d[i]
      BY <1>1, <1>2, ElementOfSeq, AppendProperties DEF d
    <3>2. /\ SubSeq(c, 1, first - 1) \in Seq(Messages) /\ Len(SubSeq(c, 1, first - 1)) = first - 1
          /\ \A i \in 1 .. first - 1 : SubSeq(c, 1, first - 1)[i] = c[i]
      BY <1>1, <1>2, <3>1, SubSeqProperties
    <3>3. /\ SubSeq(d, 1, first - 1) \in Seq(Messages) /\ Len(SubSeq(d, 1, first - 1)) = first - 1
          /\ \A i \in 1 .. first - 1 : SubSeq(d, 1, first - 1)[i] = d[i]
      BY <1>1, <1>2, <3>1, SubSeqProperties
    <3> QED
      BY <3>1, <3>2, <3>3, SeqEqual
  <2>4. get_tokens(d) = head \o (FlattenSeq(After(c, first)) \o message_tokens(m))
    BY <1>6, <2>2, <2>3
  <2> HIDE DEF head
  <2>5. \A s, t, w \in Seq(Pair) : s \o (t \o w) = (s \o t) \o w
    BY ConcatAssociative, SMTT(30)
  <2>6. head \in Seq(Pair)
    BY <1>4
  <2> DEFINE x == FlattenSeq(After(c, first))
             y == message_tokens(m)
  <2>7. /\ x \in Seq(Pair) /\ y \in Seq(Pair)
        /\ get_tokens(d) = head \o (x \o y) /\ get_tokens(c) = head \o x
    BY <1>3, <1>6, <2>4, Zenon
  <2> HIDE DEF x
  <2>8. head \o (x \o y) = (head \o x) \o y
    BY <2>5, <2>6, <2>7, Zenon
  <2> QED
    BY <2>7, <2>8
<1> QED
  BY <1>7, <1>8 DEF d

-----------------------------------------------------------------------------
\* The tokens of a history agree with the requests: each request and its answer
\* begin them, what was generated, and nothing else, is marked, and the whole
\* reads as it is rendered where each answer does.
TurnOf(j) == 2 * j + 1
Own(c, requests, j) == Len(requests[j]) + 1 .. Len(requests[j]) + Len(c[TurnOf(j)].generated)
EndAsRendered(c) == family = "qwen2.5" /\ \A i \in DOMAIN c : EndsAsRendered(c[i])
Agrees(c, requests) ==
  /\ EndAsRendered(c) => Bare(get_tokens(c)) = Rendering(c)
  /\ \A j \in DOMAIN requests : IsPrefix(requests[j] \o c[TurnOf(j)].generated, Bare(get_tokens(c)))
  /\ MarkedOf(get_tokens(c)) = UNION {Own(c, requests, j) : j \in DOMAIN requests}
TurnsIn(c, requests) == \A j \in DOMAIN requests : TurnOf(j) \in DOMAIN c

LEMMA PromptAgrees ==
  ASSUME NEW c, Prompted(c), ~Answered(c)
  PROVE  Agrees(c, <<>>)
<1>1. get_tokens(c) = masked(Rendering(c))
  BY UnansweredTokens
<1>2. Rendering(c) \in Seq(Token)
  BY PiecesTyped, FlattenIsSequence DEF Rendering, Prompted
<1>3. Bare(get_tokens(c)) = Rendering(c) /\ MarkedOf(get_tokens(c)) = {}
  BY <1>1, <1>2, MaskedIs
<1>4. DOMAIN <<>> = {}
  OBVIOUS
<1> QED
  BY <1>3, <1>4, Zenon DEF Agrees

LEMMA RequestTyped ==
  ASSUME NEW c, Prompted(c)
  PROVE  /\ get_tokens(c) \in Seq(Pair) /\ Len(get_tokens(c)) \in Nat
         /\ Bare(get_tokens(c)) \in Seq(Token) /\ Len(Bare(get_tokens(c))) = Len(get_tokens(c))
         /\ request(c) = Bare(get_tokens(c)) \o GenerationPrompt /\ request(c) \in Seq(Token)
         /\ Len(request(c)) = Len(get_tokens(c)) + Len(GenerationPrompt)
<1>1. Message("user", <<>>) \in Messages
  BY MessageTyped, EmptySeq
<1>2. get_tokens(c) \in Seq(Pair)
  BY <1>1, GetTokensGrow
<1>3. Bare(get_tokens(c)) \in Seq(Token) /\ Len(Bare(get_tokens(c))) = Len(get_tokens(c)) /\ Len(get_tokens(c)) \in Nat
  BY <1>2, BareIs, LenProperties
<1>4. GenerationPrompt \in Seq(Token)
  BY <1>1, StopTyped
<1>5. request(c) = Bare(get_tokens(c)) \o GenerationPrompt
  BY DEF request
<1>6. request(c) \in Seq(Token) /\ Len(request(c)) = Len(Bare(get_tokens(c))) + Len(GenerationPrompt)
  BY <1>3, <1>4, <1>5, ConcatProperties, ZenonT(30)
<1> QED
  BY <1>2, <1>3, <1>5, <1>6

\* The earlier turns of a longer history.
LEMMA EarlierTurns ==
  ASSUME NEW c, Prompted(c), NEW m \in Messages, NEW requests \in Seq(Seq(Token)), TurnsIn(c, requests), Agrees(c, requests),
         NEW more \in Seq(Token), Bare(get_tokens(Append(c, m))) = Bare(get_tokens(c)) \o more
  PROVE  /\ \A j \in DOMAIN requests :
              /\ Append(c, m)[TurnOf(j)] = c[TurnOf(j)] /\ TurnOf(j) \in DOMAIN Append(c, m)
              /\ Own(Append(c, m), requests, j) = Own(c, requests, j)
              /\ IsPrefix(requests[j] \o c[TurnOf(j)].generated, Bare(get_tokens(Append(c, m))))
         /\ EndAsRendered(Append(c, m)) => EndAsRendered(c) /\ EndsAsRendered(m)
<1> DEFINE d == Append(c, m)
<1>1. /\ c \in Seq(Messages) /\ DOMAIN c = 1 .. Len(c) /\ Len(c) \in Nat
      /\ d \in Seq(Messages) /\ Len(d) = Len(c) + 1 /\ DOMAIN d = 1 .. Len(d)
      /\ d[Len(c) + 1] = m /\ \A i \in 1 .. Len(c) : d[i] = c[i]
  BY AppendProperties, LenProperties DEF Prompted
<1> HIDE DEF d
<1>2. EndAsRendered(d) => EndAsRendered(c) /\ EndsAsRendered(m)
  <2>1. Len(c) + 1 \in 1 .. Len(d) /\ \A i \in 1 .. Len(c) : i \in 1 .. Len(d)
    BY <1>1
  <2> QED
    BY <1>1, <2>1, Zenon DEF EndAsRendered
<1>3. ASSUME NEW j \in DOMAIN requests
      PROVE  /\ d[TurnOf(j)] = c[TurnOf(j)] /\ TurnOf(j) \in DOMAIN d
             /\ Own(d, requests, j) = Own(c, requests, j)
             /\ IsPrefix(requests[j] \o c[TurnOf(j)].generated, Bare(get_tokens(d)))
  <2>1. TurnOf(j) \in 1 .. Len(c)
    BY <1>1 DEF TurnsIn
  <2>2. d[TurnOf(j)] = c[TurnOf(j)] /\ TurnOf(j) \in DOMAIN d
    BY <1>1, <2>1
  <2>3. Own(d, requests, j) = Own(c, requests, j)
    BY <2>2 DEF Own
  <2>4. requests[j] \in Seq(Token) /\ c[TurnOf(j)].generated \in Seq(Token)
    <3>1. j \in 1 .. Len(requests) /\ c[TurnOf(j)] \in Messages
      BY <1>1, <2>1, ElementOfSeq, LenProperties
    <3> QED
      BY <3>1, ElementOfSeq, MessageParts
  <2>5. requests[j] \o c[TurnOf(j)].generated \in Seq(Token)
    BY <2>4, ConcatProperties
  <2>6. IsPrefix(requests[j] \o c[TurnOf(j)].generated, Bare(get_tokens(c)))
    BY DEF Agrees
  <2>7. Bare(get_tokens(c)) \in Seq(Token)
    BY RequestTyped
  <2>8. IsPrefix(requests[j] \o c[TurnOf(j)].generated, Bare(get_tokens(d)))
    BY <2>5, <2>6, <2>7, PrefixOfLonger DEF d
  <2> QED
    BY <2>2, <2>3, <2>8
<1> QED
  BY <1>2, <1>3 DEF d

LEMMA ObservationAgrees ==
  ASSUME NEW c, Prompted(c), NEW m \in Messages, ~IsPolicy(m), NEW requests \in Seq(Seq(Token)),
         TurnsIn(c, requests), Agrees(c, requests)
  PROVE  Agrees(Append(c, m), requests)
<1> DEFINE d == Append(c, m)
           g == get_tokens(c)
<1>1. c \in Seq(Messages) /\ d \in Seq(Messages) /\ Prompted(d)
  BY FirstAnswerAt DEF Prompted
<1>2. /\ Rendering(c) \in Seq(Token) /\ rendered(m) \in Seq(Token) /\ Rendering(d) \in Seq(Token)
      /\ Rendering(d) = Rendering(c) \o rendered(m)
  BY <1>1, RenderingGrows, RenderedTyped
<1>3. MarkedOf(g) = UNION {Own(c, requests, j) : j \in DOMAIN requests}
  BY DEF Agrees
<1>4. Bare(get_tokens(d)) = Bare(g) \o rendered(m) /\ MarkedOf(get_tokens(d)) = MarkedOf(g)
  <2>1. CASE Answered(c)
    <3>1. get_tokens(d) = g \o masked(rendered(m)) /\ g \in Seq(Pair)
      BY <2>1, GetTokensGrow, MessageTokens
    <3>2. /\ masked(rendered(m)) \in Seq(Pair)
          /\ Bare(masked(rendered(m))) = rendered(m) /\ MarkedOf(masked(rendered(m))) = {}
      BY <1>2, MaskedIs
    <3> HIDE DEF d, g
    <3>3. /\ Bare(get_tokens(d)) = Bare(g) \o Bare(masked(rendered(m)))
          /\ MarkedOf(get_tokens(d)) = MarkedOf(g) \cup {Len(g) + k : k \in MarkedOf(masked(rendered(m)))}
      BY <3>1, <3>2, BareJoins
    <3> QED
      BY <3>2, <3>3
  <2>2. CASE ~Answered(c)
    <3>1. get_tokens(d) = masked(Rendering(d)) /\ g = masked(Rendering(c))
      BY <1>1, <2>2, FirstAnswerAt, UnansweredTokens
    <3> QED
      BY <1>2, <3>1, MaskedIs
  <2> QED
    BY <2>1, <2>2
<1>5. /\ \A j \in DOMAIN requests : /\ d[TurnOf(j)] = c[TurnOf(j)]
                                   /\ Own(d, requests, j) = Own(c, requests, j)
                                   /\ IsPrefix(requests[j] \o c[TurnOf(j)].generated, Bare(get_tokens(d)))
      /\ EndAsRendered(d) => EndAsRendered(c)
  BY <1>2, <1>4, EarlierTurns
<1> HIDE DEF d
<1>6. \A j \in DOMAIN requests : IsPrefix(requests[j] \o d[TurnOf(j)].generated, Bare(get_tokens(d)))
  BY <1>5
<1>7. UNION {Own(d, requests, j) : j \in DOMAIN requests} = UNION {Own(c, requests, j) : j \in DOMAIN requests}
  BY <1>5
<1>8. EndAsRendered(d) => Bare(get_tokens(d)) = Rendering(d)
  BY <1>2, <1>4, <1>5 DEF Agrees
<1>9. Agrees(d, requests)
  BY <1>3, <1>4, <1>6, <1>7, <1>8, Zenon DEF Agrees
<1> QED
  BY <1>9 DEF d

\* A request and the generated tokens start what is rendered of the answer.
LEMMA PrefixOfAnswer ==
  ASSUME NEW s \in Seq(Token), NEW p \in Seq(Token), NEW t \in Seq(Token), NEW e \in Seq(Token)
  PROVE  IsPrefix((s \o p) \o t, s \o ((p \o t) \o e))
<1>0. p \o t \in Seq(Token) /\ \A w \in Seq(Token) : s \o w \in Seq(Token)
  BY ConcatProperties
<1>1. (s \o p) \o t = s \o (p \o t)
  BY ConcatAssociative, SMTT(30)
<1>2. ASSUME NEW w \in Seq(Token) PROVE s \o (w \o e) = (s \o w) \o e
  BY ConcatAssociative, SMTT(30)
<1>3. \A w \in Seq(Token) : IsPrefix(w, w \o e)
  BY PrefixOfLonger
<1> QED
  BY <1>0, <1>1, <1>2, <1>3

LEMMA AnswerAgrees ==
  ASSUME NEW c, Prompted(c), NEW m \in Messages, Whole(m), NEW requests \in Seq(Seq(Token)),
         TurnsIn(c, requests), Agrees(c, requests), Len(c) = 2 * Len(requests) + 2
  PROVE  /\ Agrees(Append(c, m), Append(requests, request(c)))
         /\ TurnsIn(Append(c, m), Append(requests, request(c)))
<1> DEFINE d == Append(c, m)
           g == get_tokens(c)
           r == request(c)
           longer == Append(requests, r)
           n == Len(requests) + 1
           e == maybe_stop(m) \o <<Newline>>
<1>1. c \in Seq(Messages) /\ d \in Seq(Messages) /\ Prompted(d) /\ Len(d) = Len(c) + 1 /\ Len(c) \in Nat
  BY FirstAnswerAt DEF Prompted
<1>2. IsPolicy(m)
  BY DEF Whole
<1>3. MarkedOf(g) = UNION {Own(c, requests, j) : j \in DOMAIN requests}
  BY DEF Agrees
<1>4. /\ r = Bare(g) \o GenerationPrompt /\ r \in Seq(Token) /\ Len(r) = Len(g) + Len(GenerationPrompt)
      /\ g \in Seq(Pair) /\ Len(g) \in Nat /\ Bare(g) \in Seq(Token) /\ Len(GenerationPrompt) \in Nat
  BY RequestTyped, StopTyped
<1>5. /\ longer \in Seq(Seq(Token)) /\ Len(longer) = n /\ Len(requests) \in Nat
      /\ longer[n] = r /\ \A j \in 1 .. Len(requests) : longer[j] = requests[j]
      /\ DOMAIN longer = 1 .. n /\ DOMAIN requests = 1 .. Len(requests)
  BY <1>4, AppendProperties, LenProperties
<1>6. TurnOf(n) = Len(c) + 1 /\ d[TurnOf(n)] = m /\ DOMAIN d = 1 .. Len(d)
  <2>1. TurnOf(n) = Len(c) + 1
    BY <1>1, <1>5 DEF TurnOf
  <2> QED
    BY <1>1, <2>1, AppendProperties, LenProperties
<1>8. /\ Rendering(c) \in Seq(Token) /\ Rendering(d) = Rendering(c) \o rendered(m)
  BY <1>1, RenderingGrows
<1>9. /\ GenerationPrompt \in Seq(Token) /\ m.generated \in Seq(Token) /\ e \in Seq(Token) /\ Len(m.generated) \in Nat
  BY StopTyped, MessageParts
<1>10. /\ get_tokens(d) = g \o answer_tokens(m) /\ answer_tokens(m) \in Seq(Pair)
       /\ Bare(answer_tokens(m)) = (GenerationPrompt \o m.generated) \o e
       /\ MarkedOf(answer_tokens(m)) = {Len(GenerationPrompt) + k : k \in 1 .. Len(m.generated)}
  BY <1>2, GetTokensGrow, MessageTokens, AnswerTokens
<1>11. Bare(answer_tokens(m)) \in Seq(Token)
  BY <1>10, BareIs
<1>12. /\ Bare(get_tokens(d)) = Bare(g) \o Bare(answer_tokens(m))
       /\ MarkedOf(get_tokens(d)) = MarkedOf(g) \cup {Len(g) + k : k \in MarkedOf(answer_tokens(m))}
  <2> HIDE DEF d, g, e
  <2> QED
    BY <1>4, <1>10, BareJoins
<1>7. /\ \A j \in 1 .. Len(requests) : /\ d[TurnOf(j)] = c[TurnOf(j)] /\ TurnOf(j) \in DOMAIN d
                                      /\ Own(d, requests, j) = Own(c, requests, j)
                                      /\ IsPrefix(requests[j] \o c[TurnOf(j)].generated, Bare(get_tokens(d)))
      /\ EndAsRendered(d) => EndAsRendered(c) /\ EndsAsRendered(m)
  BY <1>5, <1>11, <1>12, EarlierTurns, ZenonT(30)
<1> HIDE DEF d, g, r, longer, e
<1>13. EndAsRendered(d) => Bare(get_tokens(d)) = Rendering(d)
  <2> SUFFICES ASSUME EndAsRendered(d) PROVE Bare(get_tokens(d)) = Rendering(d)
    OBVIOUS
  <2>1. Bare(g) = Rendering(c)
    BY <1>7 DEF Agrees, g
  <2>2. Bare(answer_tokens(m)) = rendered(m)
    BY <1>7, AnswerReads DEF EndAsRendered
  <2> QED
    BY <1>8, <1>12, <2>1, <2>2
<1>14. IsPrefix(r \o m.generated, Bare(get_tokens(d)))
  <2> DEFINE s == Bare(g)
             p == GenerationPrompt
             t == m.generated
  <2>1. s \in Seq(Token) /\ p \in Seq(Token) /\ t \in Seq(Token) /\ e \in Seq(Token)
    BY <1>4, <1>9
  <2>2. r \o t = (s \o p) \o t /\ Bare(get_tokens(d)) = s \o ((p \o t) \o e)
    BY <1>4, <1>10, <1>12
  <2> HIDE DEF s, p, t
  <2>7. IsPrefix(r \o t, Bare(get_tokens(d)))
    BY <2>1, <2>2, PrefixOfAnswer
  <2> QED
    BY <2>7 DEF t
<1>15. ASSUME NEW j \in 1 .. n PROVE IsPrefix(longer[j] \o d[TurnOf(j)].generated, Bare(get_tokens(d)))
  <2>1. CASE j = n
    BY <1>5, <1>6, <1>14, <2>1
  <2>2. CASE j # n
    <3>1. j \in 1 .. Len(requests)
      BY <1>5, <2>2
    <3>2. longer[j] = requests[j] /\ d[TurnOf(j)] = c[TurnOf(j)]
      BY <1>5, <1>7, <3>1
    <3> QED
      BY <1>7, <3>1, <3>2
  <2> QED
    BY <2>1, <2>2
<1>16. /\ \A j \in 1 .. Len(requests) : Own(d, longer, j) = Own(c, requests, j)
       /\ Own(d, longer, n) = {Len(g) + k : k \in MarkedOf(answer_tokens(m))}
  <2>1. ASSUME NEW j \in 1 .. Len(requests) PROVE Own(d, longer, j) = Own(c, requests, j)
    BY <1>5, <1>7 DEF Own
  <2> DEFINE a == Len(g)
             b == Len(m.generated)
             l == Len(GenerationPrompt)
  <2>2. a \in Nat /\ b \in Nat /\ l \in Nat
    BY <1>4, <1>9
  <2>3. Own(d, longer, n) = a + l + 1 .. a + l + b
    <3>1. Own(d, longer, n) = Len(r) + 1 .. Len(r) + Len(m.generated)
      BY <1>5, <1>6, Zenon DEF Own
    <3> QED
      BY <1>4, <3>1, Zenon
  <2>4. {Len(g) + k : k \in MarkedOf(answer_tokens(m))} = {a + (l + k) : k \in 1 .. b}
    BY <1>10, ZenonT(30)
  <2> HIDE DEF a, b, l
  <2>5. ASSUME NEW x \in Nat, x \in a + l + 1 .. a + l + b
        PROVE  x - a - l \in 1 .. b /\ x = a + (l + (x - a - l))
    BY <2>2, <2>5
  <2>6. ASSUME NEW k \in 1 .. b PROVE a + (l + k) \in a + l + 1 .. a + l + b
    BY <2>2, <2>6
  <2>7. \A x \in a + l + 1 .. a + l + b : x \in Nat
    BY <2>2
  <2>8. a + l + 1 .. a + l + b = {a + (l + k) : k \in 1 .. b}
    BY <2>5, <2>6, <2>7
  <2> QED
    BY <2>1, <2>3, <2>4, <2>8
<1>17. MarkedOf(get_tokens(d)) = UNION {Own(d, longer, j) : j \in DOMAIN longer}
  <2> DEFINE new == {Len(g) + k : k \in MarkedOf(answer_tokens(m))}
             old == UNION {Own(c, requests, j) : j \in 1 .. Len(requests)}
  <2>1. MarkedOf(get_tokens(d)) = old \cup new
    BY <1>3, <1>5, <1>12
  <2>2. \A j \in 1 .. n : j \in 1 .. Len(requests) \/ j = n
    BY <1>5
  <2>3. n \in 1 .. n /\ \A j \in 1 .. Len(requests) : j \in 1 .. n
    BY <1>5
  <2>4. Own(d, longer, n) = new
    BY <1>16
  <2> HIDE DEF new, n
  <2>5. UNION {Own(d, longer, j) : j \in 1 .. n} = old \cup new
    BY <1>16, <2>2, <2>3, <2>4
  <2> QED
    BY <1>5, <2>1, <2>5
<1>18. Agrees(d, longer)
  BY <1>5, <1>13, <1>15, <1>17 DEF Agrees
<1>19. TurnsIn(d, longer)
  <2>1. TurnOf(n) \in DOMAIN d
    BY <1>1, <1>6
  <2>2. \A j \in 1 .. n : j \in 1 .. Len(requests) \/ j = n
    BY <1>5
  <2> QED
    BY <1>5, <1>7, <2>1, <2>2 DEF TurnsIn
<1> QED
  BY <1>18, <1>19 DEF d, r, longer

\* What is left of the tokens when they are cut at a limit that no answer exceeds.
LEMMA CutAgrees ==
  ASSUME NEW c, Prompted(c), NEW requests \in Seq(Seq(Token)), TurnsIn(c, requests), Agrees(c, requests),
         NEW longest \in Nat, NEW limit \in Nat, longest <= limit,
         \A j \in DOMAIN requests : Len(requests[j]) + Len(c[TurnOf(j)].generated) <= longest
  PROVE  LET remains == SubSeq(get_tokens(c), 1, Min({limit, Len(get_tokens(c))}))
         IN /\ \A j \in DOMAIN requests : IsPrefix(requests[j] \o c[TurnOf(j)].generated, Bare(remains))
            /\ MarkedOf(remains) = UNION {Own(c, requests, j) : j \in DOMAIN requests}
            /\ EndAsRendered(c) => IsPrefix(Bare(remains), Rendering(c))
<1> DEFINE g == get_tokens(c)
           n == Min({limit, Len(g)})
           remains == SubSeq(g, 1, n)
<1>1. g \in Seq(Pair) /\ Len(g) \in Nat
  BY RequestTyped, LenProperties
<1>2. /\ EndAsRendered(c) => Bare(g) = Rendering(c)
      /\ MarkedOf(g) = UNION {Own(c, requests, j) : j \in DOMAIN requests}
      /\ \A j \in DOMAIN requests : IsPrefix(requests[j] \o c[TurnOf(j)].generated, Bare(g))
  BY DEF Agrees
<1> HIDE DEF g
<1>3. /\ n \in Nat /\ n <= Len(g) /\ n <= limit /\ (n = limit \/ n = Len(g))
  <2>1. {limit, Len(g)} \in SUBSET Nat /\ {limit, Len(g)} # {}
    BY <1>1
  <2>2. n \in {limit, Len(g)} /\ \A k \in {limit, Len(g)} : n <= k
    BY <2>1, MinIsLeast
  <2> HIDE DEF n
  <2> QED
    BY <1>1, <2>2
<1> HIDE DEF n
<1>4. /\ remains \in Seq(Pair) /\ Len(remains) = n /\ DOMAIN remains = 1 .. n
      /\ \A k \in 1 .. n : remains[k] = g[k]
  <2>1. \A k \in 1 .. n : g[k] \in Pair
    BY <1>1, <1>3, ElementOfSeq
  <2>2. /\ remains \in Seq(Pair) /\ Len(remains) = IF 1 <= n THEN n - 1 + 1 ELSE 0
        /\ \A k \in 1 .. n - 1 + 1 : remains[k] = g[1 + k - 1]
    BY <1>3, <2>1, SubSeqProperties
  <2>3. Len(remains) = n
    BY <1>3, <2>2
  <2>4. \A k \in 1 .. n : remains[k] = g[k]
    BY <1>3, <2>2
  <2> QED
    BY <2>2, <2>3, <2>4, LenProperties
<1> HIDE DEF remains
<1>5. /\ Bare(remains) \in Seq(Token) /\ Len(Bare(remains)) = n /\ \A k \in 1 .. n : Bare(remains)[k] = remains[k][1]
      /\ Bare(g) \in Seq(Token) /\ Len(Bare(g)) = Len(g) /\ \A k \in 1 .. Len(g) : Bare(g)[k] = g[k][1]
      /\ MarkedOf(g) \in SUBSET (1 .. Len(g))
  BY <1>1, <1>4, BareIs
<1>6. \A k \in 1 .. n : Bare(remains)[k] = Bare(g)[k]
  <2>1. \A k \in 1 .. n : k \in 1 .. Len(g)
    BY <1>1, <1>3
  <2> QED
    BY <1>4, <1>5, <2>1, Zenon
<1>7. EndAsRendered(c) => IsPrefix(Bare(remains), Rendering(c))
  <2>1. Len(Bare(remains)) <= Len(Bare(g))
    BY <1>3, <1>5
  <2> QED
    BY <1>2, <1>5, <1>6, <2>1, PrefixIs, Zenon
<1>8. ASSUME NEW j \in DOMAIN requests
      PROVE  /\ requests[j] \in Seq(Token) /\ Len(requests[j]) \in Nat
             /\ c[TurnOf(j)].generated \in Seq(Token) /\ Len(c[TurnOf(j)].generated) \in Nat
  <2>1. j \in 1 .. Len(requests) /\ c \in Seq(Messages) /\ TurnOf(j) \in 1 .. Len(c)
    BY LenProperties DEF Prompted, TurnsIn
  <2>2. requests[j] \in Seq(Token) /\ c[TurnOf(j)] \in Messages
    BY <2>1, ElementOfSeq
  <2> QED
    BY <2>2, MessageParts, LenProperties
<1>9. ASSUME NEW j \in DOMAIN requests PROVE IsPrefix(requests[j] \o c[TurnOf(j)].generated, Bare(remains))
  <2> DEFINE s == requests[j] \o c[TurnOf(j)].generated
  <2>1. s \in Seq(Token) /\ Len(s) = Len(requests[j]) + Len(c[TurnOf(j)].generated) /\ Len(s) \in Nat
    BY <1>8, ConcatProperties
  <2>2. IsPrefix(s, Bare(g))
    BY <1>2
  <2>3. Len(s) <= limit
    BY <1>8, <2>1
  <2> HIDE DEF s
  <2>4. Len(s) <= Len(Bare(g)) /\ \A i \in 1 .. Len(s) : s[i] = Bare(g)[i]
    BY <1>5, <2>1, <2>2, PrefixIs, SMTT(30)
  <2>5. Len(s) <= n
    BY <1>1, <1>3, <1>5, <2>1, <2>3, <2>4
  <2>6. \A i \in 1 .. Len(s) : i \in 1 .. n
    BY <1>3, <2>1, <2>5
  <2>7. \A i \in 1 .. Len(s) : s[i] = Bare(remains)[i]
    BY <1>6, <2>4, <2>6, Zenon
  <2>8. IsPrefix(s, Bare(remains))
    BY <1>5, <2>1, <2>5, <2>7, PrefixIs, Zenon
  <2> QED
    BY <2>8 DEF s
<1>10. \A k \in MarkedOf(g) : k \in 1 .. n
  <2> SUFFICES ASSUME NEW k \in MarkedOf(g) PROVE k \in 1 .. n
    OBVIOUS
  <2>1. PICK j \in DOMAIN requests : k \in Own(c, requests, j)
    BY <1>2, Zenon
  <2>2. k \in Len(requests[j]) + 1 .. Len(requests[j]) + Len(c[TurnOf(j)].generated)
    BY <2>1 DEF Own
  <2>3. k \in 1 .. Len(g)
    BY <1>5
  <2>4. Len(requests[j]) + Len(c[TurnOf(j)].generated) <= longest
    OBVIOUS
  <2>5. k <= limit
    BY <1>8, <2>2, <2>4
  <2> QED
    BY <1>1, <1>3, <2>3, <2>5
<1>11. MarkedOf(remains) = MarkedOf(g)
  <2>1. DOMAIN g = 1 .. Len(g) /\ \A k \in 1 .. n : k \in 1 .. Len(g)
    BY <1>1, <1>3, LenProperties
  <2> QED
    BY <1>4, <1>10, <2>1, Zenon DEF MarkedOf
<1> QED
  BY <1>2, <1>7, <1>9, <1>11, Zenon DEF remains, n, g

-----------------------------------------------------------------------------
\* The view of a long history.

\* What the strategies leave of a block.
Alike(before, after) == /\ after \in Messages /\ after.role = before.role
                        /\ IsPolicy(before) => after = before
                        /\ after.content = <<Note>> => before.content = <<Note>>

LEMMA HideKeeps ==
  ASSUME AgentAssumption, NEW b \in Seq(Messages)
  PROVE  /\ hide(b) \in Seq(Messages) /\ Len(hide(b)) = Len(b)
         /\ \A i \in 1 .. Len(b) : /\ hide(b)[i].role = b[i].role
                                   /\ IsPolicy(b[i]) => hide(b)[i] = b[i]
                                   /\ i > Len(b) - MinBlocks => hide(b)[i] = b[i]
<1> DEFINE n == Len(b)
           Far == {k \in 0 .. n : ~TooLong(hidden(b, k)) \/ k >= n - MinBlocks}
           k == Min(Far)
           h == hidden(b, k)
<1>1. n \in Nat /\ DOMAIN b = 1 .. n /\ MinBlocks \in Nat /\ \A i \in 1 .. n : b[i] \in Messages
  BY ElementOfSeq, LenProperties DEF AgentAssumption
<1>2. hide(b) = h
  BY Zenon DEF hide
<1>3. k \in Nat /\ \A i \in 1 .. n : i > n - MinBlocks => ~(i <= k)
  <2>1. Far \in SUBSET Nat /\ n \in Far
    BY <1>1
  <2>2. k \in Far /\ \A i \in Far : k <= i
    <3> HIDE DEF Far
    <3> QED
      BY <2>1, MinIsLeast
  <2>3. n - MinBlocks >= 0 => n - MinBlocks \in Far
    BY <1>1
  <2>4. ~(n - MinBlocks >= 0) => 0 \in Far
    BY <1>1
  <2> HIDE DEF Far, k, n
  <2> QED
    BY <1>1, <2>1, <2>2, <2>3, <2>4
<1> HIDE DEF k, n
<1>4. \A i \in 1 .. n : h[i] = IF i <= k /\ b[i].role = "user" THEN [b[i] EXCEPT !.content = <<Note>>] ELSE b[i]
  BY <1>1, Zenon DEF hidden
<1>5. DOMAIN h = 1 .. n /\ h = [i \in DOMAIN h |-> h[i]]
  BY <1>1, Zenon DEF hidden
<1> HIDE DEF h
<1>6. ASSUME NEW i \in 1 .. n
      PROVE  /\ h[i] \in Messages /\ h[i].role = b[i].role
             /\ IsPolicy(b[i]) => h[i] = b[i]
             /\ i > n - MinBlocks => h[i] = b[i]
  <2>1. b[i] \in Messages /\ <<Note>> \in Seq(Token)
    BY <1>1, TokensTyped
  <2>2. /\ [b[i] EXCEPT !.content = <<Note>>] \in Messages
        /\ [b[i] EXCEPT !.content = <<Note>>].role = b[i].role
    BY <2>1 DEF Messages
  <2>3. IsPolicy(b[i]) => b[i].role # "user"
    BY DEF IsPolicy
  <2>4. CASE i <= k /\ b[i].role = "user"
    BY <1>3, <1>4, <2>2, <2>3, <2>4, Zenon
  <2>5. CASE ~(i <= k /\ b[i].role = "user")
    BY <1>4, <2>1, <2>5, Zenon
  <2> QED
    BY <2>4, <2>5
<1>7. h \in [1 .. n -> Messages]
  BY <1>5, <1>6
<1>8. h \in Seq(Messages) /\ Len(h) = n
  BY <1>1, <1>7, SeqDef, SMTT(30)
<1> QED
  BY <1>2, <1>6, <1>8 DEF n

LEMMA CutKeeps ==
  ASSUME AgentAssumption, NEW b \in Seq(Messages)
  PROVE  /\ cut(b) \in Seq(Messages) /\ Len(cut(b)) = Len(b)
         /\ \A i \in 1 .. Len(b) : Alike(b[i], cut(b)[i])
         /\ TooLong(cut(b)) => \A i \in 1 .. Len(b) : cut(b)[i].role # "user"
                                                     \/ Len(cut(b)[i].content) <= Max({2, MaxMsgLen})
<1> DEFINE n == Len(b)
           Far == {k \in 0 .. n : ~TooLong(shortened(b, k)) \/ k = n}
           k == Min(Far)
           h == shortened(b, k)
           room == Max({1, MaxMsgLen - 1})
           short(m) == [m EXCEPT !.content = SubSeq(@, 1, room) \o <<Note>>]
<1>1. n \in Nat /\ DOMAIN b = 1 .. n /\ MaxMsgLen \in Nat /\ \A i \in 1 .. n : b[i] \in Messages
  BY ElementOfSeq, LenProperties DEF AgentAssumption
<1>2. cut(b) = h
  BY Zenon DEF cut
<1>3. k \in Nat /\ (TooLong(h) => k = n)
  <2>1. Far \in SUBSET Nat /\ n \in Far
    BY <1>1
  <2>2. k \in Far
    <3> HIDE DEF Far
    <3> QED
      BY <2>1, MinIsLeast
  <2> QED
    BY <2>1, <2>2
<1> HIDE DEF k, n
<1>4. \A i \in 1 .. n : h[i] = IF i <= k /\ b[i].role = "user" /\ Len(b[i].content) > MaxMsgLen
                             THEN short(b[i]) ELSE b[i]
  BY <1>1, Zenon DEF shortened
<1>5. DOMAIN h = 1 .. n /\ h = [i \in DOMAIN h |-> h[i]]
  BY <1>1, Zenon DEF shortened
<1>6. /\ room \in Nat /\ room >= 1 /\ room <= MaxMsgLen + 1
      /\ Max({2, MaxMsgLen}) \in Nat /\ MaxMsgLen <= Max({2, MaxMsgLen}) /\ room + 1 <= Max({2, MaxMsgLen})
  <2>1. CASE MaxMsgLen >= 2
    <3>1. room = MaxMsgLen - 1 /\ Max({2, MaxMsgLen}) = MaxMsgLen
      <4> DEFINE S == {1, MaxMsgLen - 1}
                 R == {2, MaxMsgLen}
      <4>1. MaxMsgLen - 1 \in S /\ \A v \in S : v \in Int /\ MaxMsgLen - 1 >= v
        BY <1>1, <2>1
      <4>2. MaxMsgLen \in R /\ \A v \in R : v \in Int /\ MaxMsgLen >= v
        BY <1>1, <2>1
      <4> HIDE DEF S, R
      <4>3. Max(S) = MaxMsgLen - 1 /\ Max(R) = MaxMsgLen
        BY <4>1, <4>2, LeastIs
      <4> QED
        BY <4>3 DEF S, R
    <3> HIDE DEF room
    <3> QED
      BY <1>1, <2>1, <3>1
  <2>2. CASE ~(MaxMsgLen >= 2)
    <3>1. room = 1 /\ Max({2, MaxMsgLen}) = 2
      <4> DEFINE S == {1, MaxMsgLen - 1}
                 R == {2, MaxMsgLen}
      <4>1. 1 \in S /\ \A v \in S : v \in Int /\ 1 >= v
        BY <1>1, <2>2
      <4>2. 2 \in R /\ \A v \in R : v \in Int /\ 2 >= v
        BY <1>1, <2>2
      <4> HIDE DEF S, R
      <4>3. Max(S) = 1 /\ Max(R) = 2
        BY <4>1, <4>2, LeastIs
      <4> QED
        BY <4>3 DEF S, R
    <3> HIDE DEF room
    <3> QED
      BY <1>1, <2>2, <3>1
  <2> QED
    BY <2>1, <2>2
<1> HIDE DEF h, room
<1>7. ASSUME NEW m \in Messages, Len(m.content) > MaxMsgLen
      PROVE  /\ short(m) \in Messages /\ short(m).role = m.role
             /\ Len(short(m).content) = room + 1
  <2> DEFINE s == SubSeq(m.content, 1, room)
  <2>1. m.content \in Seq(Token) /\ Len(m.content) \in Nat /\ room <= Len(m.content)
    BY <1>1, <1>6, <1>7, MessageParts
  <2>2. \A i \in 1 .. room : m.content[i] \in Token
    BY <1>6, <2>1, ElementOfSeq, SMTT(30)
  <2>3. s \in Seq(Token) /\ Len(s) = room
    BY <1>6, <2>2, SubSeqProperties, SMTT(30)
  <2>4. <<Note>> \in Seq(Token) /\ Len(<<Note>>) = 1
    BY TokensTyped
  <2> HIDE DEF s
  <2>5. s \o <<Note>> \in Seq(Token) /\ Len(s \o <<Note>>) = room + 1
    BY <2>3, <2>4, ConcatProperties
  <2>6. short(m) = [m EXCEPT !.content = s \o <<Note>>]
    BY DEF s
  <2> HIDE DEF short
  <2>7. /\ short(m) \in Messages /\ short(m).role = m.role
        /\ short(m).content = s \o <<Note>>
    BY <2>5, <2>6 DEF Messages
  <2> QED
    BY <2>5, <2>7
<1> HIDE DEF short
<1>8. ASSUME NEW i \in 1 .. n
      PROVE  /\ Alike(b[i], h[i])
             /\ k = n => h[i].role # "user" \/ Len(h[i].content) <= Max({2, MaxMsgLen})
  <2>1. b[i] \in Messages /\ Len(b[i].content) \in Nat
    BY <1>1, MessageParts
  <2>2. CASE i <= k /\ b[i].role = "user" /\ Len(b[i].content) > MaxMsgLen
    <3>1. h[i] = short(b[i]) /\ ~IsPolicy(b[i])
      BY <1>4, <2>2 DEF IsPolicy
    <3>2. /\ h[i] \in Messages /\ h[i].role = b[i].role /\ Len(h[i].content) = room + 1
      BY <1>7, <2>1, <2>2, <3>1
    <3>3. h[i].content # <<Note>>
      <4>1. Len(<<Note>>) = 1 /\ room + 1 # 1
        BY <1>6
      <4> QED
        BY <3>2, <4>1
    <3> QED
      BY <1>6, <3>1, <3>2, <3>3 DEF Alike
  <2>3. CASE ~(i <= k /\ b[i].role = "user" /\ Len(b[i].content) > MaxMsgLen)
    <3>1. h[i] = b[i]
      BY <1>4, <2>3, Zenon
    <3>2. Alike(b[i], h[i])
      BY <2>1, <3>1 DEF Alike
    <3>3. ASSUME k = n, b[i].role = "user" PROVE Len(h[i].content) <= Max({2, MaxMsgLen})
      <4>1. i <= k
        BY <1>1, <3>3
      <4>2. ~(Len(b[i].content) > MaxMsgLen)
        BY <2>3, <3>3, <4>1, Zenon
      <4> QED
        BY <1>1, <1>6, <2>1, <3>1, <4>2, SMTT(30)
    <3> QED
      BY <3>1, <3>2, <3>3
  <2> QED
    BY <2>2, <2>3
<1>9. h \in [1 .. n -> Messages]
  BY <1>5, <1>8 DEF Alike
<1>10. h \in Seq(Messages) /\ Len(h) = n
  BY <1>1, <1>9, SeqDef, SMTT(30)
<1> QED
  BY <1>2, <1>3, <1>8, <1>10 DEF n

\* The latest blocks remain, as many as must; with more, they are short enough.
LEMMA RemoveKeeps ==
  ASSUME AgentAssumption, NEW b \in Seq(Messages)
  PROVE  \E k \in 0 .. Len(b) :
           /\ remove(b) \in Seq(Messages) /\ Len(remove(b)) = Len(b) - k
           /\ \A i \in 1 .. Len(b) - k : remove(b)[i] = b[k + i]
           /\ Len(b) - k >= Min({MinBlocks, Len(b)})
           /\ TooLong(remove(b)) => Len(b) - k <= MinBlocks /\ TooLong(b)
<1> DEFINE n == Len(b)
           rest(j) == SubSeq(b, j + 1, n)
           Far == {j \in 0 .. n : ~TooLong(rest(j)) \/ Len(rest(j)) <= MinBlocks}
           k == Min(Far)
<1>1. n \in Nat /\ MinBlocks \in Nat /\ \A i \in 1 .. n : b[i] \in Messages
  BY ElementOfSeq, LenProperties DEF AgentAssumption
<1>2. remove(b) = rest(k)
  BY Zenon DEF remove
<1>3. rest(0) = b
  BY SubSeqFull
<1>4. ASSUME NEW j \in 0 .. n
      PROVE  /\ rest(j) \in Seq(Messages) /\ Len(rest(j)) = n - j
             /\ \A i \in 1 .. n - j : rest(j)[i] = b[j + i]
  <2>1. \A i \in j + 1 .. n : b[i] \in Messages
    BY <1>1
  <2>2. /\ rest(j) \in Seq(Messages) /\ Len(rest(j)) = IF j + 1 <= n THEN n - (j + 1) + 1 ELSE 0
        /\ \A i \in 1 .. n - (j + 1) + 1 : rest(j)[i] = b[(j + 1) + i - 1]
    BY <1>1, <2>1, SubSeqProperties
  <2> HIDE DEF rest
  <2>3. n - (j + 1) + 1 = n - j /\ \A i \in 1 .. n - j : (j + 1) + i - 1 = j + i
    BY <1>1
  <2>4. \A i \in 1 .. n - j : rest(j)[i] = b[j + i]
    <3>1. \A i \in 1 .. n - j : i \in 1 .. n - (j + 1) + 1
      BY <2>3, Zenon
    <3> QED
      BY <2>2, <2>3, <3>1, Zenon
  <2>5. (IF j + 1 <= n THEN n - (j + 1) + 1 ELSE 0) = n - j
    <3> HIDE DEF n
    <3> QED
      BY <1>1
  <2> QED
    BY <2>2, <2>4, <2>5
<1> HIDE DEF n, rest
<1>5. /\ k \in 0 .. n /\ (~TooLong(rest(k)) \/ Len(rest(k)) <= MinBlocks)
      /\ \A j \in 0 .. n : j < k => TooLong(rest(j)) /\ Len(rest(j)) > MinBlocks
  <2>1. Far \in SUBSET Nat /\ n \in Far
    BY <1>1, <1>4
  <2>2. k \in Far /\ \A j \in Far : k <= j
    <3> HIDE DEF Far
    <3> QED
      BY <2>1, MinIsLeast
  <2>3. k \in 0 .. n /\ (~TooLong(rest(k)) \/ Len(rest(k)) <= MinBlocks)
    BY <2>2
  <2>4. ASSUME NEW j \in 0 .. n, j < k PROVE TooLong(rest(j)) /\ Len(rest(j)) > MinBlocks
    <3>1. j \notin Far
      <4> HIDE DEF k, Far
      <4> QED
        BY <1>1, <2>1, <2>2, <2>3, <2>4
    <3>2. Len(rest(j)) \in Int
      BY <1>1, <1>4
    <3> QED
      BY <1>1, <3>1, <3>2
  <2> QED
    BY <2>3, <2>4
<1> HIDE DEF k, Far
<1>6. Min({MinBlocks, n}) \in Nat /\ Min({MinBlocks, n}) <= n /\ Min({MinBlocks, n}) <= MinBlocks
  <2>1. {MinBlocks, n} \in SUBSET Nat /\ {MinBlocks, n} # {}
    BY <1>1
  <2> QED
    BY <2>1, MinIsLeast
<1>7. n - k >= Min({MinBlocks, n})
  <2>1. CASE k = 0
    BY <1>1, <1>6, <2>1
  <2>2. CASE k # 0
    <3>1. k - 1 \in 0 .. n /\ k - 1 < k
      BY <1>1, <1>5, <2>2
    <3>2. Len(rest(k - 1)) > MinBlocks /\ Len(rest(k - 1)) = n - (k - 1)
      BY <1>4, <1>5, <3>1
    <3> QED
      BY <1>1, <1>5, <1>6, <3>2, SMTT(30)
  <2> QED
    BY <2>1, <2>2
<1>8. ASSUME TooLong(rest(k)) PROVE n - k <= MinBlocks /\ TooLong(b)
  <2>1. n - k <= MinBlocks
    BY <1>4, <1>5, <1>8
  <2>2. TooLong(b)
    <3>1. CASE k = 0
      BY <1>3, <1>8, <3>1
    <3>2. CASE k # 0
      <4>1. 0 \in 0 .. n /\ 0 < k
        BY <1>1, <1>5, <3>2
      <4> QED
        BY <1>3, <1>5, <4>1
    <3> QED
      BY <3>1, <3>2
  <2> QED
    BY <2>1, <2>2
<1>9. /\ rest(k) \in Seq(Messages) /\ Len(rest(k)) = n - k /\ \A i \in 1 .. n - k : rest(k)[i] = b[k + i]
  BY <1>4, <1>5
<1> QED
  BY <1>2, <1>5, <1>7, <1>8, <1>9 DEF n

-----------------------------------------------------------------------------
(***************************************************************************)
(* The invariant: what the messages are by the site of the rollout, what   *)
(* the candidates of a turn were asked with, that a request and its answer *)
(* fit the model, and that tokens and requests agree.                      *)
(***************************************************************************)
Candidates == [message : Messages, valid : BOOLEAN, passes : {0, 1}, asked : Seq(Token)]
AgentTypes ==
  /\ agent \in AgentSites \ {"refused"}
  /\ messages \in Seq(Messages) /\ output \in Seq(Token) /\ possible \in Seq(Candidates)
  /\ asked \in Seq(Seq(Token)) /\ interaction \in Nat /\ learning_max \in Nat

InTurn == agent \in {"generate", "choose"}
Acting == agent \in {"execute", "observe"}

Conversation ==
  /\ messages # <<>> /\ Len(messages) >= 2
  /\ messages[1] = prompt_messages[1] /\ messages[2] = prompt_messages[2]
  /\ TurnsIn(messages, asked)
  /\ \A i \in DOMAIN messages : IsPolicy(messages[i]) /\ ~messages[i].cancelled => Whole(messages[i])
  /\ \A i \in DOMAIN messages : i > 2 => messages[i].role # "system"
  /\ InTurn => Len(messages) = 2 * Len(asked) + 2
  /\ Acting => Len(messages) = 2 * Len(asked) + 1 /\ possible = <<>>
  /\ InTurn \/ Acting => \A i \in DOMAIN messages : ~messages[i].cancelled /\ messages[i].content # <<Note>>

Fits(request_tokens, m) == Len(request_tokens) + Len(m.generated) <= MaxModelLen
SoundCandidate(candidate) ==
  /\ candidate.message.content # <<Note>> /\ IsPolicy(candidate.message)
  /\ ~candidate.message.cancelled => Whole(candidate.message)
  /\ Fits(candidate.asked, candidate.message)
  /\ candidate.asked = request(view)

Requested ==
  /\ InTurn => \A i \in DOMAIN possible : SoundCandidate(possible[i])
  /\ \A j \in DOMAIN asked : Fits(asked[j], messages[TurnOf(j)])

Agreement ==
  ~WasCancelled =>
    /\ ~appworld_style_truncation => Agrees(messages, asked)
    /\ agent = "learn" => learned = get_tokens(messages)
    /\ agent = "done" => learned = SubSeq(get_tokens(messages), 1, Min({learning_max, Len(get_tokens(messages))}))

ContextInv == AgentTypes /\ (agent # "start" => Conversation /\ Requested /\ Agreement)

LEMMA TruncationKeeps ==
  ASSUME AgentAssumption, NEW h \in Seq(Messages), Len(h) >= 2
  PROVE  \E k \in 0 .. Len(h) - 2 :
           LET v == truncate_messages(h)
               n == Len(h) - 2 - k
               block(i) == h[2 + (k + i)]
               r == SubSeq(v, 3, Len(v))
           IN /\ v \in Seq(Messages) /\ Len(v) = 2 + n /\ v[1] = h[1] /\ v[2] = h[2]
              /\ r \in Seq(Messages) /\ Len(r) = n /\ \A i \in 1 .. n : v[2 + i] = r[i]
              /\ n >= Min({MinBlocks, Len(h) - 2})
              /\ \A i \in 1 .. n : /\ r[i].role = block(i).role
                                   /\ IsPolicy(block(i)) => r[i] = block(i)
                                   /\ i > n - MinBlocks /\ r[i].content = <<Note>> => block(i).content = <<Note>>
              /\ TooLong(r) => /\ n <= MinBlocks
                               /\ \A i \in 1 .. n : r[i].role # "user" \/ Len(r[i].content) <= Max({2, MaxMsgLen})
<1> DEFINE p == SubSeq(h, 1, 2)
           b == SubSeq(h, 3, Len(h))
           a == Len(h) - 2
           c == cut(hide(b))
           r == remove(c)
           v == p \o r
<1>1. Len(h) \in Nat /\ a \in Nat /\ \A i \in 1 .. Len(h) : h[i] \in Messages
  BY ElementOfSeq, LenProperties
<1>2. p \in Seq(Messages) /\ Len(p) = 2 /\ p[1] = h[1] /\ p[2] = h[2]
  <2>1. \A i \in 1 .. 2 : h[i] \in Messages
    BY <1>1
  <2> QED
    BY <2>1, SubSeqProperties
<1>3. b \in Seq(Messages) /\ Len(b) = a /\ \A i \in 1 .. a : b[i] = h[2 + i]
  <2>1. \A i \in 3 .. Len(h) : h[i] \in Messages
    BY <1>1
  <2>2. /\ b \in Seq(Messages) /\ Len(b) = IF 3 <= Len(h) THEN Len(h) - 3 + 1 ELSE 0
        /\ \A i \in 1 .. Len(h) - 3 + 1 : b[i] = h[3 + i - 1]
    BY <1>1, <2>1, SubSeqProperties
  <2> HIDE DEF b
  <2>3. Len(b) = a
    <3>1. CASE Len(h) = 2
      BY <2>2, <3>1
    <3>2. CASE Len(h) # 2
      <4>1. \A x \in Nat : x >= 2 /\ x # 2 => 3 <= x /\ x - 3 + 1 = x - 2
        OBVIOUS
      <4>2. 3 <= Len(h) /\ Len(h) - 3 + 1 = a
        BY <1>1, <3>2, <4>1, Zenon
      <4> QED
        BY <2>2, <4>2
    <3> QED
      BY <3>1, <3>2
  <2>4. \A i \in 1 .. a : i \in 1 .. Len(h) - 3 + 1 /\ 3 + i - 1 = 2 + i
    BY <1>1
  <2> QED
    BY <2>2, <2>3, <2>4
<1>4. truncate_messages(h) = v
  <2>1. Len(prompt_messages) = 2
    BY DEF prompt_messages
  <2>2. truncate_messages(h) = SubSeq(h, 1, Len(prompt_messages))
                                 \o remove(cut(hide(SubSeq(h, Len(prompt_messages) + 1, Len(h)))))
    BY Zenon DEF truncate_messages
  <2> QED
    BY <2>1, <2>2
<1> HIDE DEF p, b, a
<1>5. /\ hide(b) \in Seq(Messages) /\ Len(hide(b)) = a
      /\ \A i \in 1 .. a : /\ hide(b)[i].role = b[i].role
                           /\ IsPolicy(b[i]) => hide(b)[i] = b[i]
                           /\ i > a - MinBlocks => hide(b)[i] = b[i]
  BY <1>3, HideKeeps
<1>6. /\ c \in Seq(Messages) /\ Len(c) = a
      /\ \A i \in 1 .. a : Alike(hide(b)[i], c[i])
      /\ TooLong(c) => \A i \in 1 .. a : c[i].role # "user" \/ Len(c[i].content) <= Max({2, MaxMsgLen})
  BY <1>5, CutKeeps
<1> HIDE DEF c
<1>7. PICK k \in 0 .. a :
        /\ r \in Seq(Messages) /\ Len(r) = a - k
        /\ \A i \in 1 .. a - k : r[i] = c[k + i]
        /\ a - k >= Min({MinBlocks, a})
        /\ TooLong(r) => a - k <= MinBlocks /\ TooLong(c)
  BY <1>6, RemoveKeeps
<1> HIDE DEF r
<1> DEFINE n == a - k
<1>8. n \in Nat /\ MinBlocks \in Nat /\ \A i \in 1 .. n : k + i \in 1 .. a
  BY <1>1 DEF AgentAssumption
<1>9. /\ v \in Seq(Messages) /\ Len(v) = 2 + n /\ v[1] = h[1] /\ v[2] = h[2]
      /\ \A i \in 1 .. n : v[2 + i] = r[i]
  <2>1. /\ v \in Seq(Messages) /\ Len(v) = Len(p) + Len(r)
        /\ \A i \in 1 .. Len(p) + Len(r) : v[i] = IF i <= Len(p) THEN p[i] ELSE r[i - Len(p)]
    <3>1. \A x, y \in Seq(Messages) :
            /\ x \o y \in Seq(Messages) /\ Len(x \o y) = Len(x) + Len(y)
            /\ \A i \in 1 .. Len(x) + Len(y) : (x \o y)[i] = IF i <= Len(x) THEN x[i] ELSE y[i - Len(x)]
      BY ConcatProperties, SMTT(30)
    <3>2. p \in Seq(Messages) /\ v = p \o r
      BY <1>2
    <3> HIDE DEF p, v
    <3> QED
      BY <1>7, <3>1, <3>2, ZenonT(30)
  <2> HIDE DEF v
  <2>2. Len(v) = 2 + n /\ \A i \in 1 .. 2 + n : v[i] = IF i <= 2 THEN p[i] ELSE r[i - 2]
    <3>1. Len(p) = 2 /\ Len(r) = n
      BY <1>2, <1>7
    <3> HIDE DEF p, n
    <3> QED
      BY <2>1, <3>1, Zenon
  <2>3. v[1] = h[1] /\ v[2] = h[2]
    BY <1>2, <1>8, <2>2, SMTT(30)
  <2>4. \A i \in 1 .. n : 2 + i \in 1 .. 2 + n /\ ~(2 + i <= 2) /\ (2 + i) - 2 = i
    BY <1>8, SMTT(30)
  <2>5. \A i \in 1 .. n : v[2 + i] = r[i]
    BY <2>2, <2>4
  <2> QED
    BY <2>1, <2>2, <2>3, <2>5
<1>10. SubSeq(v, 3, Len(v)) = r
  <2>1. SubSeq(p \o r, Len(p) + 1, Len(p \o r)) = r
    BY <1>2, <1>7, SuffixIs
  <2> QED
    BY <1>2, <2>1, SMTT(30)
<1>11. ASSUME NEW i \in 1 .. n
       PROVE  LET block == h[2 + (k + i)]
              IN /\ r[i].role = block.role
                 /\ IsPolicy(block) => r[i] = block
                 /\ i > n - MinBlocks /\ r[i].content = <<Note>> => block.content = <<Note>>
  <2>1. k + i \in 1 .. a /\ r[i] = c[k + i] /\ b[k + i] = h[2 + (k + i)]
    BY <1>3, <1>7, <1>8
  <2>2. Alike(hide(b)[k + i], c[k + i])
    BY <1>6, <2>1
  <2>3. /\ hide(b)[k + i].role = b[k + i].role
        /\ IsPolicy(b[k + i]) => hide(b)[k + i] = b[k + i]
        /\ k + i > a - MinBlocks => hide(b)[k + i] = b[k + i]
    BY <1>5, <2>1
  <2>4. i > n - MinBlocks => k + i > a - MinBlocks
    BY <1>1, <1>8
  <2> QED
    BY <2>1, <2>2, <2>3, <2>4 DEF Alike
<1>12. ASSUME TooLong(r)
       PROVE  /\ n <= MinBlocks
              /\ \A i \in 1 .. n : r[i].role # "user" \/ Len(r[i].content) <= Max({2, MaxMsgLen})
  BY <1>6, <1>7, <1>8, <1>12
<1> HIDE DEF v
<1> QED
  BY <1>4, <1>7, <1>9, <1>10, <1>11, <1>12 DEF a

LEMMA PromptIs ==
  /\ prompt_messages \in Seq(Messages) /\ Len(prompt_messages) = 2 /\ DOMAIN prompt_messages = 1 .. 2
  /\ prompt_messages[1].role = "system" /\ prompt_messages[2].role = "user"
  /\ \A i \in 1 .. 2 : /\ ~IsPolicy(prompt_messages[i]) /\ ~prompt_messages[i].cancelled
                       /\ prompt_messages[i].content # <<Note>>
  /\ Prompted(prompt_messages) /\ ~Answered(prompt_messages)
<1> DEFINE s == Message("system", Text(0, 1))
           u == Message("user", Text(0, 2))
<1>1. Text(0, 1) \in Seq(Token) /\ Text(0, 2) \in Seq(Token) /\ Text(0, 1) # <<Note>> /\ Text(0, 2) # <<Note>>
  <2>1. /\ Text(0, 1) \in Seq(Token) /\ Text(0, 2) \in Seq(Token)
        /\ Text(0, 1)[1] # Note /\ Text(0, 2)[1] # Note
    BY TextTyped
  <2>2. <<Note>>[1] = Note
    OBVIOUS
  <2> QED
    BY <2>1, <2>2, Zenon
<1>2. /\ s \in Messages /\ s.role = "system" /\ ~s.cancelled /\ s.content # <<Note>>
      /\ u \in Messages /\ u.role = "user" /\ ~u.cancelled /\ u.content # <<Note>>
  BY <1>1, MessageTyped
<1>3. prompt_messages = <<s, u>>
  BY DEF prompt_messages
<1> HIDE DEF s, u
<1>4. /\ prompt_messages \in Seq(Messages) /\ Len(prompt_messages) = 2 /\ DOMAIN prompt_messages = 1 .. 2
      /\ prompt_messages[1] = s /\ prompt_messages[2] = u /\ prompt_messages # <<>>
  BY <1>2, <1>3
<1>5. \A i \in 1 .. 2 : i = 1 \/ i = 2
  OBVIOUS
<1>6. \A i \in 1 .. 2 : /\ ~IsPolicy(prompt_messages[i]) /\ ~prompt_messages[i].cancelled
                        /\ prompt_messages[i].content # <<Note>>
  BY <1>2, <1>4, <1>5 DEF IsPolicy
<1>7. Prompted(prompt_messages) /\ ~Answered(prompt_messages)
  BY <1>2, <1>4, <1>6 DEF Prompted, Answered
<1> QED
  BY <1>2, <1>4, <1>6, <1>7

LEMMA HistoryIsPrompted ==
  ASSUME AgentTypes, Conversation
  PROVE  /\ Prompted(messages) /\ DOMAIN messages = 1 .. Len(messages) /\ Len(messages) \in Nat /\ Len(messages) >= 2
         /\ SubSeq(messages, 1, 2) = prompt_messages
<1>1. messages \in Seq(Messages) /\ messages # <<>> /\ Len(messages) >= 2
  BY DEF AgentTypes, Conversation
<1>2. DOMAIN messages = 1 .. Len(messages) /\ Len(messages) \in Nat /\ \A i \in 1 .. Len(messages) : messages[i] \in Messages
  BY <1>1, ElementOfSeq, LenProperties
<1>3. messages[1] = prompt_messages[1] /\ messages[2] = prompt_messages[2]
  BY DEF Conversation
<1>4. Prompted(messages)
  BY <1>1, <1>3, PromptIs DEF Prompted
<1>5. SubSeq(messages, 1, 2) = prompt_messages
  <2>1. \A i \in 1 .. 2 : messages[i] \in Messages
    BY <1>1, <1>2
  <2>2. /\ SubSeq(messages, 1, 2) \in Seq(Messages) /\ Len(SubSeq(messages, 1, 2)) = 2
        /\ SubSeq(messages, 1, 2)[1] = messages[1] /\ SubSeq(messages, 1, 2)[2] = messages[2]
    BY <2>1, SubSeqProperties
  <2>3. \A i \in 1 .. 2 : SubSeq(messages, 1, 2)[i] = prompt_messages[i]
    BY <1>3, <2>2
  <2> QED
    BY <2>2, <2>3, PromptIs, SeqEqual
<1> QED
  BY <1>1, <1>2, <1>4, <1>5

\* The view of a turn: its answers are whole, and it keeps what is recent.
LEMMA ViewIs ==
  ASSUME AgentAssumption, AgentTypes, Conversation, InTurn
  PROVE  /\ Prompted(view) /\ \A i \in DOMAIN view : IsPolicy(view[i]) => Whole(view[i])
         /\ ViewKeepsRecent
<1>1. /\ Prompted(messages) /\ DOMAIN messages = 1 .. Len(messages) /\ Len(messages) \in Nat /\ Len(messages) >= 2
      /\ SubSeq(messages, 1, 2) = prompt_messages /\ messages \in Seq(Messages) /\ messages[1].role = "system"
      /\ messages # <<>>
  BY HistoryIsPrompted DEF Prompted
<1>2. \A i \in 1 .. Len(messages) :
        /\ messages[i] \in Messages /\ messages[i].content # <<Note>>
        /\ IsPolicy(messages[i]) => Whole(messages[i])
        /\ i > 2 => messages[i].role # "system"
  BY <1>1, ElementOfSeq DEF Conversation
<1> DEFINE all == Len(messages) - 2
<1>3. all \in Nat /\ MinBlocks \in Nat /\ MaxMsgLen \in Nat
  BY <1>1 DEF AgentAssumption
<1>4. \E k \in 0 .. all :
        LET n == all - k
            block(i) == messages[2 + (k + i)]
            r == SubSeq(view, 3, Len(view))
        IN /\ view \in Seq(Messages) /\ Len(view) = 2 + n /\ view[1] = messages[1] /\ view[2] = messages[2]
           /\ r \in Seq(Messages) /\ Len(r) = n /\ \A i \in 1 .. n : view[2 + i] = r[i]
           /\ n >= Min({MinBlocks, all})
           /\ \A i \in 1 .. n : /\ r[i].role = block(i).role
                                /\ IsPolicy(block(i)) => r[i] = block(i)
                                /\ i > n - MinBlocks /\ r[i].content = <<Note>> => block(i).content = <<Note>>
           /\ appworld_style_truncation /\ TooLong(r) =>
                /\ n <= MinBlocks
                /\ \A i \in 1 .. n : r[i].role # "user" \/ Len(r[i].content) <= Max({2, MaxMsgLen})
  <2>1. CASE appworld_style_truncation
    <3>1. view = truncate_messages(messages)
      BY <2>1 DEF view
    <3>2. messages \in Seq(Messages) /\ Len(messages) >= 2
      BY <1>1
    <3> QED
      BY <3>1, <3>2, TruncationKeeps, ZenonT(30)
  <2>2. CASE ~appworld_style_truncation
    <3>1. view = messages
      BY <2>2 DEF view
    <3> DEFINE r == SubSeq(messages, 3, Len(messages))
    <3>2. /\ r \in Seq(Messages) /\ Len(r) = all /\ \A i \in 1 .. all : r[i] = messages[2 + i]
      <4>1. \A i \in 3 .. Len(messages) : messages[i] \in Messages
        BY <1>1, <1>2
      <4>2. /\ r \in Seq(Messages) /\ Len(r) = IF 3 <= Len(messages) THEN Len(messages) - 3 + 1 ELSE 0
            /\ \A i \in 1 .. Len(messages) - 3 + 1 : r[i] = messages[3 + i - 1]
        BY <1>1, <4>1, SubSeqProperties
      <4> HIDE DEF r
      <4>3. \A x \in Nat : x >= 2 => /\ x - 2 = IF 3 <= x THEN x - 3 + 1 ELSE 0
                                     /\ \A i \in 1 .. x - 2 : i \in 1 .. x - 3 + 1 /\ 3 + i - 1 = 2 + i
        OBVIOUS
      <4>4. /\ Len(r) = all
            /\ \A i \in 1 .. all : i \in 1 .. Len(messages) - 3 + 1 /\ 3 + i - 1 = 2 + i
        BY <1>1, <4>2, <4>3, Zenon
      <4>5. \A i \in 1 .. all : r[i] = messages[2 + i]
        BY <4>2, <4>4
      <4> QED
        BY <4>2, <4>4, <4>5
    <3> HIDE DEF r
    <3>3. all >= Min({MinBlocks, all})
      <4>1. {MinBlocks, all} \in SUBSET Nat /\ {MinBlocks, all} # {}
        BY <1>3
      <4> QED
        BY <4>1, MinIsLeast
    <3>4. 0 \in 0 .. all /\ all - 0 = all /\ Len(messages) = 2 + all /\ \A i \in 1 .. all : 0 + i = i
      BY <1>1, <1>3
    <3>5. \A i \in 1 .. all : r[i] = messages[2 + (0 + i)] /\ messages[2 + i] = r[i]
      BY <3>2, <3>4, Zenon
    <3> HIDE DEF all
    <3> USE <3>4
    <3> WITNESS 0 \in 0 .. all
    <3> QED
      BY <1>1, <2>2, <3>1, <3>2, <3>3, <3>4, <3>5, Zenon DEF r
  <2> QED
    BY <2>1, <2>2, Zenon
<1>5. PICK k \in 0 .. all :
        LET n == all - k
            block(i) == messages[2 + (k + i)]
            r == SubSeq(view, 3, Len(view))
        IN /\ view \in Seq(Messages) /\ Len(view) = 2 + n /\ view[1] = messages[1] /\ view[2] = messages[2]
           /\ r \in Seq(Messages) /\ Len(r) = n /\ \A i \in 1 .. n : view[2 + i] = r[i]
           /\ n >= Min({MinBlocks, all})
           /\ \A i \in 1 .. n : /\ r[i].role = block(i).role
                                /\ IsPolicy(block(i)) => r[i] = block(i)
                                /\ i > n - MinBlocks /\ r[i].content = <<Note>> => block(i).content = <<Note>>
           /\ appworld_style_truncation /\ TooLong(r) =>
                /\ n <= MinBlocks
                /\ \A i \in 1 .. n : r[i].role # "user" \/ Len(r[i].content) <= Max({2, MaxMsgLen})
  BY <1>4
<1> DEFINE n == all - k
           block(i) == messages[2 + (k + i)]
           r == SubSeq(view, 3, Len(view))
<1>6. /\ view \in Seq(Messages) /\ Len(view) = 2 + n /\ view[1] = messages[1] /\ view[2] = messages[2]
      /\ r \in Seq(Messages) /\ Len(r) = n /\ \A i \in 1 .. n : view[2 + i] = r[i]
      /\ n >= Min({MinBlocks, all})
  BY <1>5
<1>7. \A i \in 1 .. n : /\ r[i].role = block(i).role
                        /\ IsPolicy(block(i)) => r[i] = block(i)
                        /\ i > n - MinBlocks /\ r[i].content = <<Note>> => block(i).content = <<Note>>
  BY <1>5
<1>8. appworld_style_truncation /\ TooLong(r) =>
        /\ n <= MinBlocks
        /\ \A i \in 1 .. n : r[i].role # "user" \/ Len(r[i].content) <= Max({2, MaxMsgLen})
  BY <1>5
<1>9. /\ n \in Nat /\ Len(messages) = 2 + all
      /\ \A i \in 1 .. n : 2 + (k + i) \in 1 .. Len(messages) /\ 2 + (k + i) > 2 /\ Len(messages) - n + i = 2 + (k + i)
  BY <1>3
<1> HIDE DEF all, n, r
<1>10. /\ Prompted(view) /\ DOMAIN view = 1 .. Len(view) /\ Len(view) = 2 + n
  <2>1. DOMAIN view = 1 .. Len(view) /\ view # <<>>
    <3>1. Len(view) # 0
      BY <1>6, <1>9
    <3> QED
      BY <1>6, <3>1, EmptySeq, LenProperties
  <2> QED
    BY <1>1, <1>6, <2>1 DEF Prompted
<1>11. ASSUME NEW i \in DOMAIN view, IsPolicy(view[i]) PROVE Whole(view[i])
  <2>1. i \in 1 .. 2 + n
    BY <1>10
  <2>2. CASE i = 1 \/ i = 2
    <3>1. view[i] = messages[1] \/ view[i] = messages[2]
      BY <1>6, <2>2
    <3>2. 1 \in 1 .. Len(messages) /\ 2 \in 1 .. Len(messages)
      BY <1>1
    <3> QED
      BY <1>2, <1>11, <3>1, <3>2
  <2>3. CASE ~(i = 1 \/ i = 2)
    <3>0. \A x \in Nat : \A y \in 1 .. 2 + x : ~(y = 1 \/ y = 2) => y - 2 \in 1 .. x /\ 2 + (y - 2) = y
      OBVIOUS
    <3>1. i - 2 \in 1 .. n /\ 2 + (i - 2) = i
      BY <1>9, <2>1, <2>3, <3>0, Zenon
    <3>2. view[i] = r[i - 2]
      BY <1>6, <3>1
    <3>3. block(i - 2).role = "assistant" /\ 2 + (k + (i - 2)) \in 1 .. Len(messages)
      BY <1>7, <1>9, <1>11, <3>1, <3>2 DEF IsPolicy
    <3>4. view[i] = block(i - 2)
      BY <1>7, <3>1, <3>2, <3>3 DEF IsPolicy
    <3> QED
      BY <1>2, <1>11, <3>3, <3>4
  <2> QED
    BY <2>2, <2>3
<1>12. SubSeq(view, 1, 2) = prompt_messages
  <2>1. \A i \in 1 .. 2 : view[i] \in Messages
    <3>1. \A i \in 1 .. 2 : i \in 1 .. Len(view)
      BY <1>9, <1>10
    <3> QED
      BY <1>6, <3>1, ElementOfSeq
  <2>2. /\ SubSeq(view, 1, 2) \in Seq(Messages) /\ Len(SubSeq(view, 1, 2)) = 2
        /\ SubSeq(view, 1, 2)[1] = view[1] /\ SubSeq(view, 1, 2)[2] = view[2]
    BY <2>1, SubSeqProperties
  <2>3. \A i \in 1 .. 2 : SubSeq(view, 1, 2)[i] = prompt_messages[i]
    <3>1. \A i \in 1 .. 2 : i = 1 \/ i = 2
      OBVIOUS
    <3>2. messages[1] = prompt_messages[1] /\ messages[2] = prompt_messages[2]
      BY DEF Conversation
    <3> QED
      BY <1>6, <2>2, <3>1, <3>2, Zenon
  <2> QED
    BY <2>2, <2>3, PromptIs, SeqEqual
<1>13. ASSUME NEW i \in 1 .. n
       PROVE  /\ messages[Len(messages) - n + i] = block(i) /\ block(i).content # <<Note>>
              /\ block(i).role = "assistant" \/ block(i).role = "user"
  <2>1. 2 + (k + i) \in 1 .. Len(messages) /\ 2 + (k + i) > 2 /\ Len(messages) - n + i = 2 + (k + i)
    BY <1>9
  <2>2. block(i) \in Messages /\ block(i).content # <<Note>> /\ block(i).role # "system"
    BY <1>2, <2>1
  <2>3. block(i).role \in {"system", "user", "assistant"}
    BY <2>2, MessageParts
  <2> QED
    BY <2>1, <2>2, <2>3
<1> HIDE DEF block
<1>14. ASSUME NEW i \in 1 .. n
       PROVE  /\ IsPolicy(block(i)) => r[i] = block(i)
              /\ i > n - MinBlocks => r[i].content # <<Note>>
              /\ IsPolicy(r[i]) \/ r[i].role = "user"
  BY <1>7, <1>13 DEF IsPolicy
<1>15. Len(prompt_messages) = 2 /\ Len(view) - 2 = n /\ Len(messages) - 2 = all
  <2>1. \A x \in Nat : (2 + x) - 2 = x
    OBVIOUS
  <2> QED
    BY <1>3, <1>9, <1>10, <2>1, PromptIs, Zenon
<1>16. ViewKeepsRecent
  <2>1. appworld_style_truncation /\ TooLong(r) =>
          n <= MinBlocks /\ \A i \in 1 .. n : IsPolicy(r[i]) \/ Len(r[i].content) <= Max({2, MaxMsgLen})
    BY <1>8, <1>14
  <2>2. \A i \in 1 .. n : /\ IsPolicy(messages[Len(messages) - n + i]) => r[i] = messages[Len(messages) - n + i]
                          /\ i > n - MinBlocks => r[i].content # <<Note>>
    BY <1>13, <1>14
  <2>3. 2 + 1 = 3
    OBVIOUS
  <2> QED
    BY <1>6, <1>12, <1>15, <2>1, <2>2, <2>3, Zenon DEF ViewKeepsRecent, r
<1> QED
  BY <1>10, <1>11, <1>16

-----------------------------------------------------------------------------
\* The invariant gives the property.
LEMMA ContextSound ==
  ASSUME AgentAssumption, ContextInv
  PROVE  ContextIsKept
<1>1. agent # "refused" /\ AgentTypes
  BY DEF ContextInv, AgentTypes
<1>2. CASE agent = "start"
  BY <1>1, <1>2 DEF ContextIsKept, TokensAreGenerated, ViewKeepsRecent
<1>3. CASE agent # "start"
  <2>1. Conversation /\ Requested /\ Agreement
    BY <1>3 DEF ContextInv
  <2>2. ViewKeepsRecent
    <3>1. CASE agent = "generate"
      BY <1>1, <2>1, <3>1, ViewIs DEF InTurn
    <3>2. CASE agent # "generate"
      BY <3>2 DEF ViewKeepsRecent
    <3> QED
      BY <3>1, <3>2
  <2>3. TokensAreGenerated
    <3>1. SUFFICES ASSUME agent = "done", ~WasCancelled, ~appworld_style_truncation, learning_max >= MaxModelLen
                   PROVE  LET start(j) == Len(asked[j])
                              own(j) == start(j) + 1 .. start(j) + Len(AnswerTo(j).generated)
                          IN /\ \A j \in DOMAIN asked :
                                  IsPrefix(asked[j] \o AnswerTo(j).generated, Bare(learned))
                             /\ Outputs = UNION {own(j) : j \in DOMAIN asked}
                             /\ EndAsRendered(messages) => IsPrefix(Bare(learned), ChatTemplate(messages))
      BY <1>1 DEF TokensAreGenerated, EndAsRendered
    <3>2. /\ Prompted(messages) /\ messages \in Seq(Messages) /\ messages[1].role = "system"
          /\ asked \in Seq(Seq(Token)) /\ TurnsIn(messages, asked) /\ Agrees(messages, asked)
      BY <1>1, <2>1, <3>1, HistoryIsPrompted DEF AgentTypes, Conversation, Agreement, Prompted
    <3>3. /\ learning_max \in Nat /\ MaxModelLen \in Nat /\ MaxModelLen <= learning_max
          /\ \A j \in DOMAIN asked : Len(asked[j]) + Len(messages[TurnOf(j)].generated) <= MaxModelLen
      BY <1>1, <2>1, <3>1 DEF AgentTypes, AgentAssumption, Requested, Fits
    <3>4. learned = SubSeq(get_tokens(messages), 1, Min({learning_max, Len(get_tokens(messages))}))
      BY <2>1, <3>1 DEF Agreement
    <3>5. /\ \A j \in DOMAIN asked : IsPrefix(asked[j] \o messages[TurnOf(j)].generated, Bare(learned))
          /\ MarkedOf(learned) = UNION {Own(messages, asked, j) : j \in DOMAIN asked}
          /\ EndAsRendered(messages) => IsPrefix(Bare(learned), Rendering(messages))
      BY <3>2, <3>3, <3>4, CutAgrees
    <3>6. \A j \in DOMAIN asked : AnswerTo(j) = messages[TurnOf(j)]
      <4>1. \A j \in DOMAIN asked : j \in Nat
        BY <3>2, LenProperties, SMTT(30)
      <4>2. \A j \in Nat : 2 + 2 * j - 1 = 2 * j + 1
        OBVIOUS
      <4>3. Len(prompt_messages) = 2
        BY PromptIs
      <4> QED
        BY <4>1, <4>2, <4>3, Zenon DEF AnswerTo, TurnOf
    <3>7. ChatTemplate(messages) = Rendering(messages)
      BY <3>2, TemplateRenders
    <3>8. Outputs = UNION {Len(asked[j]) + 1 .. Len(asked[j]) + Len(AnswerTo(j).generated) : j \in DOMAIN asked}
      <4>1. Outputs = MarkedOf(learned)
        BY DEF Outputs, MarkedOf
      <4>2. \A j \in DOMAIN asked : Own(messages, asked, j)
                                      = Len(asked[j]) + 1 .. Len(asked[j]) + Len(AnswerTo(j).generated)
        BY <3>6 DEF Own
      <4> QED
        BY <3>5, <4>1, <4>2
    <3> QED
      BY <3>5, <3>6, <3>7, <3>8
  <2> QED
    BY <2>2, <2>3 DEF ContextIsKept
<1> QED
  BY <1>2, <1>3

LEMMA ContextStarts == AgentInit => ContextInv
<1> SUFFICES ASSUME AgentInit PROVE ContextInv
  OBVIOUS
<1>1. <<>> \in Seq(Messages) /\ <<>> \in Seq(Token) /\ <<>> \in Seq(Candidates) /\ <<>> \in Seq(Seq(Token))
  BY EmptySeq
<1> QED
  BY <1>1 DEF AgentInit, ContextInv, AgentTypes, AgentSites

\* The prompt agrees whatever the class of the model.
LEMMA PromptAgreement == Agrees(prompt_messages, <<>>)
BY PromptIs, PromptAgrees

LEMMA PromptAgreementNext == (Agrees(prompt_messages, <<>>))'
BY PromptAgreement, PTL

\* What is computed from a conversation depends on the class of the model alone.
LEMMA FamilyKept ==
  ASSUME family' = family
  PROVE  /\ \A c : get_tokens(c)' = get_tokens(c)
         /\ \A c : request(c)' = request(c)
         /\ \A c, r : Agrees(c, r)' <=> Agrees(c, r)
<1>1. ASSUME NEW c PROVE ChatTemplate(c)' = ChatTemplate(c)
  BY DEF ChatTemplate
<1>2. ASSUME NEW c PROVE tokenized(c)' = tokenized(c)
  BY <1>1, Zenon DEF tokenized
<1>0. GenerationPrompt' = GenerationPrompt
  BY DEF GenerationPrompt
<1>3. ASSUME NEW c PROVE message_tokens(c)' = message_tokens(c)
  BY <1>0, <1>2, Zenon DEF message_tokens, answer_tokens
<1>4. ASSUME NEW c PROVE get_tokens(c)' = get_tokens(c)
  BY <1>2, <1>3, Zenon DEF get_tokens
<1>5. ASSUME NEW c PROVE request(c)' = request(c)
  BY <1>0, <1>4, Zenon DEF request
<1>6. ASSUME NEW c, NEW r PROVE Agrees(c, r)' <=> Agrees(c, r)
  BY <1>4, Zenon DEF Agrees, EndAsRendered
<1> QED
  BY <1>4, <1>5, <1>6

LEMMA FreshKeeps ==
  ASSUME ContextInv, Fresh, agent' = "generate", learning_max' = learning_max
  PROVE  ContextInv'
<1>1. /\ messages' = prompt_messages /\ output' = <<>> /\ possible' = <<>> /\ interaction' = 0 /\ asked' = <<>>
  BY DEF Fresh
<1>2. DOMAIN <<>> = {} /\ Len(<<>>) = 0
  OBVIOUS
<1>3. AgentTypes'
  BY <1>1, PromptIs, EmptySeq DEF ContextInv, AgentTypes, AgentSites
<1>4. \A i \in DOMAIN messages' : /\ ~IsPolicy(messages'[i]) /\ ~messages'[i].cancelled /\ messages'[i].content # <<Note>>
                                  /\ ~(i > 2)
  BY <1>1, PromptIs
<1>5. Conversation'
  <2>1. messages' # <<>> /\ Len(messages') = 2
    BY <1>1, PromptIs DEF Prompted
  <2>2. TurnsIn(messages', asked')
    BY <1>1, <1>2, Zenon DEF TurnsIn
  <2>3. Len(messages') = 2 * Len(asked') + 2
    BY <1>1, <1>2, <2>1
  <2>4. ~Acting'
    BY DEF Acting
  <2> QED
    BY <1>1, <1>4, <2>1, <2>2, <2>3, <2>4 DEF Conversation
<1>6. Requested'
  BY <1>1, <1>2, Zenon DEF Requested
<1>7. Agreement'
  <2>1. Agrees(messages, asked)'
    BY <1>1, PromptAgreementNext, Zenon
  <2> QED
    BY <2>1 DEF Agreement
<1> QED
  BY <1>3, <1>5, <1>6, <1>7 DEF ContextInv

\* A history with one more message.
LEMMA HistoryGrows ==
  ASSUME AgentTypes, Conversation, NEW m \in Messages, messages' = Append(messages, m)
  PROVE  /\ messages' \in Seq(Messages) /\ messages' # <<>> /\ Len(messages') = Len(messages) + 1
         /\ DOMAIN messages' = 1 .. Len(messages) + 1 /\ Len(messages) + 1 \in DOMAIN messages'
         /\ messages'[Len(messages) + 1] = m
         /\ \A i \in DOMAIN messages : i \in DOMAIN messages' /\ messages'[i] = messages[i]
         /\ \A i \in DOMAIN messages' : i \in DOMAIN messages \/ i = Len(messages) + 1
         /\ messages'[1] = prompt_messages[1] /\ messages'[2] = prompt_messages[2]
         /\ Len(messages) >= 2 /\ Len(messages) \in Nat
<1>1. messages \in Seq(Messages) /\ Len(messages) \in Nat /\ Len(messages) >= 2 /\ DOMAIN messages = 1 .. Len(messages)
  BY LenProperties DEF AgentTypes, Conversation
<1>2. /\ messages' \in Seq(Messages) /\ messages' # <<>> /\ Len(messages') = Len(messages) + 1
      /\ messages'[Len(messages) + 1] = m
      /\ \A i \in 1 .. Len(messages) : messages'[i] = messages[i]
  BY <1>1, AppendProperties
<1>3. DOMAIN messages' = 1 .. Len(messages) + 1
  BY <1>2, LenProperties
<1>4. \A x \in Nat : /\ x >= 2 => 1 \in 1 .. x /\ 2 \in 1 .. x
                     /\ x + 1 \in 1 .. x + 1
                     /\ \A i \in 1 .. x : i \in 1 .. x + 1
                     /\ \A i \in 1 .. x + 1 : i \in 1 .. x \/ i = x + 1
  OBVIOUS
<1>5. messages'[1] = prompt_messages[1] /\ messages'[2] = prompt_messages[2]
  <2>1. messages[1] = prompt_messages[1] /\ messages[2] = prompt_messages[2]
    BY DEF Conversation
  <2> QED
    BY <1>1, <1>2, <1>4, <2>1, Zenon
<1> QED
  BY <1>1, <1>2, <1>3, <1>4, <1>5, Zenon

\* What an observation adds is not a note alone.
LEMMA ObserveKeeps == AgentAssumption /\ ContextInv /\ Observe => ContextInv'
<1> SUFFICES ASSUME AgentAssumption, ContextInv, Observe PROVE ContextInv'
  OBVIOUS
<1>1. agent = "observe" /\ AgentTypes /\ Conversation /\ Requested /\ Agreement
  BY DEF Observe, ContextInv
<1>2. /\ UNCHANGED <<family, appworld_style_truncation, learning_max, output, possible, interaction, asked, learned>>
  BY DEF Observe, agentSettings
<1>3. CASE agent' = "failed" /\ UNCHANGED messages
  <2>1. AgentTypes'
    BY <1>1, <1>2, <1>3 DEF AgentTypes, AgentSites
  <2>2. Conversation' /\ Requested'
    BY <1>1, <1>2, <1>3 DEF Conversation, Requested, InTurn, Acting
  <2>3. WasCancelled' = WasCancelled
    BY <1>3 DEF WasCancelled
  <2>4. Agrees(messages, asked)' <=> Agrees(messages, asked)
    BY <1>2, <1>3, FamilyKept, Zenon
  <2>5. Agreement'
    BY <1>1, <1>2, <1>3, <2>3, <2>4 DEF Agreement
  <2> QED
    BY <2>1, <2>2, <2>5 DEF ContextInv
<1>4. CASE agent' = "generate" /\ \E s \in Seq(Token) : messages' = Append(messages, Message("user", s)) /\ s # <<Note>>
  <2>1. PICK s \in Seq(Token) : messages' = Append(messages, Message("user", s)) /\ s # <<Note>>
    BY <1>4
  <2> DEFINE m == Message("user", s)
  <2>2. m \in Messages /\ m.role = "user" /\ ~m.cancelled /\ m.content # <<Note>> /\ ~IsPolicy(m)
    BY <2>1, MessageTyped DEF IsPolicy
  <2>3. messages' = Append(messages, m)
    BY <2>1
  <2> HIDE DEF m
  <2>4. /\ messages' \in Seq(Messages) /\ messages' # <<>> /\ Len(messages') = Len(messages) + 1
        /\ DOMAIN messages' = 1 .. Len(messages) + 1
        /\ messages'[Len(messages) + 1] = m
        /\ \A i \in DOMAIN messages : i \in DOMAIN messages' /\ messages'[i] = messages[i]
        /\ \A i \in DOMAIN messages' : i \in DOMAIN messages \/ i = Len(messages) + 1
        /\ messages'[1] = prompt_messages[1] /\ messages'[2] = prompt_messages[2]
        /\ Len(messages) >= 2 /\ Len(messages) \in Nat
    BY <1>1, <2>2, <2>3, HistoryGrows
  <2>5. AgentTypes'
    BY <1>1, <1>2, <1>4, <2>4 DEF AgentTypes, AgentSites
  <2>6. /\ \A i \in DOMAIN messages : ~messages[i].cancelled /\ messages[i].content # <<Note>>
        /\ Len(messages) = 2 * Len(asked) + 1 /\ possible = <<>> /\ TurnsIn(messages, asked)
        /\ \A i \in DOMAIN messages : IsPolicy(messages[i]) /\ ~messages[i].cancelled => Whole(messages[i])
        /\ \A i \in DOMAIN messages : i > 2 => messages[i].role # "system"
    BY <1>1 DEF Conversation, InTurn, Acting
  <2>7. \A i \in DOMAIN messages' : /\ ~messages'[i].cancelled /\ messages'[i].content # <<Note>>
                                    /\ IsPolicy(messages'[i]) /\ ~messages'[i].cancelled => Whole(messages'[i])
                                    /\ i > 2 => messages'[i].role # "system"
    BY <2>2, <2>4, <2>6
  <2>8. TurnsIn(messages', asked')
    BY <1>2, <2>4, <2>6, Zenon DEF TurnsIn
  <2>9. Len(messages') = 2 * Len(asked') + 2
    <3>1. Len(asked) \in Nat
      BY <1>1, LenProperties DEF AgentTypes
    <3>2. \A x, y \in Nat : x = 2 * y + 1 => x + 1 = 2 * y + 2
      OBVIOUS
    <3> QED
      BY <1>2, <2>4, <2>6, <3>1, <3>2, Zenon
  <2>10. Conversation'
    <3>1. Len(messages') >= 2
      BY <2>4
    <3> QED
      BY <1>4, <2>4, <2>7, <2>8, <2>9, <3>1 DEF Conversation, InTurn, Acting
  <2>11. Requested'
    <3>1. DOMAIN possible' = {}
      BY <1>2, <2>6
    <3>2. \A j \in DOMAIN asked' : Fits(asked'[j], messages'[TurnOf(j)])
      BY <1>1, <1>2, <2>4, <2>6 DEF Requested, TurnsIn
    <3> QED
      BY <3>1, <3>2, Zenon DEF Requested
  <2>12. Agreement'
    <3>1. ~WasCancelled
      BY <2>6 DEF WasCancelled
    <3>2. ASSUME ~appworld_style_truncation PROVE Agrees(Append(messages, m), asked)
      <4>1. Prompted(messages) /\ TurnsIn(messages, asked) /\ asked \in Seq(Seq(Token))
        BY <1>1, <2>6, HistoryIsPrompted DEF AgentTypes
      <4>2. Agrees(messages, asked)
        BY <1>1, <3>1, <3>2 DEF Agreement
      <4> QED
        BY <2>2, <4>1, <4>2, ObservationAgrees
    <3>3. Agrees(messages, asked)' <=> Agrees(Append(messages, m), asked)
      BY <1>2, <2>3, FamilyKept, Zenon
    <3> QED
      BY <1>2, <1>4, <3>2, <3>3 DEF Agreement
  <2> QED
    BY <2>5, <2>10, <2>11, <2>12 DEF ContextInv
<1>5. (agent' = "generate" /\ \E s \in Seq(Token) : messages' = Append(messages, Message("user", s)) /\ s # <<Note>>)
        \/ (agent' = "failed" /\ UNCHANGED messages)
  <2>1. output \in Seq(Token) /\ Mark("reminder") \in Token /\ Note \in Token /\ Mark("reminder") # Note
    BY <1>1, TokensTyped DEF AgentTypes
  <2>2. ASSUME NEW s \in Seq(Token), NEW t \in Seq(Token), Len(t) \in Nat \ {0}, t[Len(t)] # Note
        PROVE  s \o t \in Seq(Token) /\ s \o t # <<Note>>
    <3>1. /\ s \o t \in Seq(Token) /\ Len(s \o t) = Len(s) + Len(t) /\ Len(s) \in Nat
          /\ \A i \in 1 .. Len(s) + Len(t) : (s \o t)[i] = IF i <= Len(s) THEN s[i] ELSE t[i - Len(s)]
      BY ConcatProperties, LenProperties
    <3>2. (s \o t)[Len(s) + Len(t)] = t[Len(t)]
      BY <2>2, <3>1
    <3>3. Len(<<Note>>) = 1 /\ <<Note>>[1] = Note
      OBVIOUS
    <3> QED
      BY <2>2, <3>1, <3>2, <3>3
  <2>3. CASE Len(output) <= MaxOutput /\ agent' = "generate"
             /\ messages' = Append(messages, Message("user", output \o <<Mark("reminder")>>))
    <3> DEFINE t == <<Mark("reminder")>>
    <3>1. t \in Seq(Token) /\ Len(t) \in Nat \ {0} /\ t[Len(t)] # Note
      BY <2>1
    <3>2. output \o t \in Seq(Token) /\ output \o t # <<Note>>
      BY <2>1, <2>2, <3>1
    <3> QED
      BY <2>3, <3>2
  <2>4. CASE Len(output) > MaxOutput /\ agent' = "generate"
             /\ \E n \in 1 .. MaxOutput - 1 :
                  messages' = Append(messages, Message("user", SubSeq(output, 1, n) \o <<Note, Mark("reminder")>>))
    <3>1. PICK n \in 1 .. MaxOutput - 1 :
            messages' = Append(messages, Message("user", SubSeq(output, 1, n) \o <<Note, Mark("reminder")>>))
      BY <2>4
    <3> DEFINE t == <<Note, Mark("reminder")>>
               s == SubSeq(output, 1, n)
    <3>2. t \in Seq(Token) /\ Len(t) \in Nat \ {0} /\ t[Len(t)] # Note
      BY <2>1
    <3>3. s \in Seq(Token)
      <4>1. MaxOutput \in Nat /\ Len(output) \in Nat /\ n \in Int
        BY <2>1, LenProperties DEF AgentAssumption
      <4>2. \A i \in 1 .. n : output[i] \in Token
        BY <2>1, <2>4, <4>1, ElementOfSeq, SMTT(30)
      <4> QED
        BY <4>1, <4>2, SubSeqProperties, SMTT(30)
    <3>4. s \o t \in Seq(Token) /\ s \o t # <<Note>>
      BY <2>2, <3>2, <3>3
    <3> QED
      BY <2>4, <3>1, <3>4
  <2> QED
    BY <2>3, <2>4 DEF Observe
<1> QED
  BY <1>3, <1>4, <1>5

\* Where the history, its requests and the settings stay as they are.
LEMMA HistoryStays ==
  ASSUME UNCHANGED <<family, appworld_style_truncation, messages, asked>>
  PROVE  /\ WasCancelled' = WasCancelled /\ get_tokens(messages)' = get_tokens(messages)
         /\ Agrees(messages, asked)' <=> Agrees(messages, asked)
         /\ TurnsIn(messages, asked)' <=> TurnsIn(messages, asked)
         /\ request(view)' = request(view)
<1>1. WasCancelled' = WasCancelled
  BY DEF WasCancelled
<1>2. get_tokens(messages)' = get_tokens(messages) /\ (Agrees(messages, asked)' <=> Agrees(messages, asked))
  BY FamilyKept, Zenon
<1>3. TurnsIn(messages, asked)' <=> TurnsIn(messages, asked)
  BY DEF TurnsIn
<1>4. request(view)' = request(view)
  <2>1. view' = view
    BY DEF view
  <2> QED
    BY <2>1, FamilyKept, Zenon
<1> QED
  BY <1>1, <1>2, <1>3, <1>4

LEMMA RetryKeeps == ContextInv /\ Retry => ContextInv'
<1> SUFFICES ASSUME ContextInv, Retry PROVE ContextInv'
  OBVIOUS
<1>1. agent \in {"generate", "execute"} /\ AgentTypes /\ Conversation /\ Requested /\ Agreement
  BY DEF Retry, ContextInv
<1>2. UNCHANGED <<family, appworld_style_truncation, learning_max, learned>>
  BY DEF Retry, agentSettings
<1>3. CASE agent' = "generate" /\ Fresh
  BY <1>2, <1>3, FreshKeeps
<1>4. CASE agent' = "failed" /\ UNCHANGED <<messages, output, possible, attempt, interaction, asked>>
  <2>1. AgentTypes'
    BY <1>1, <1>2, <1>4 DEF AgentTypes, AgentSites
  <2>2. Conversation' /\ Requested'
    BY <1>1, <1>2, <1>4 DEF Conversation, Requested, InTurn, Acting
  <2>3. Agreement'
    BY <1>1, <1>2, <1>4, HistoryStays DEF Agreement
  <2> QED
    BY <2>1, <2>2, <2>3 DEF ContextInv
<1> QED
  BY <1>3, <1>4 DEF Retry

LEMMA ExecuteKeeps == AgentAssumption /\ ContextInv /\ Execute => ContextInv'
<1> SUFFICES ASSUME AgentAssumption, ContextInv, Execute PROVE ContextInv'
  OBVIOUS
<1>1. agent = "execute" /\ AgentTypes /\ Conversation /\ Requested /\ Agreement
  BY DEF Execute, ContextInv
<1>2. /\ UNCHANGED <<family, appworld_style_truncation, learning_max, messages, possible, asked, learned>>
      /\ agent' \in {"over", "observe"} /\ interaction' = interaction + 1
  BY DEF Execute, agentSettings
<1>3. output' \in Seq(Token)
  <2>1. PICK n \in {1, LongestOutput} : output' = Text(100 + interaction, n)
    BY DEF Execute
  <2>2. n \in Nat /\ 100 + interaction \in Nat
    BY <1>1 DEF AgentAssumption, AgentTypes
  <2> QED
    BY <2>1, <2>2, TextTyped
<1>4. AgentTypes'
  BY <1>1, <1>2, <1>3 DEF AgentTypes, AgentSites
<1>5. Conversation' /\ Requested'
  BY <1>1, <1>2 DEF Conversation, Requested, InTurn, Acting
<1>6. Agreement'
  BY <1>1, <1>2, HistoryStays DEF Agreement
<1> QED
  BY <1>4, <1>5, <1>6 DEF ContextInv

LEMMA GetTensorsKeeps == AgentAssumption /\ ContextInv /\ GetTensors => ContextInv'
<1> SUFFICES ASSUME AgentAssumption, ContextInv, GetTensors PROVE ContextInv'
  OBVIOUS
<1>1. agent = "learn" /\ agent' = "done" /\ AgentTypes /\ Conversation /\ Requested /\ Agreement
  BY DEF GetTensors, ContextInv
<1>2. /\ UNCHANGED <<family, appworld_style_truncation, messages, output, possible, asked, interaction>>
      /\ learning_max' \in Nat /\ learned' = SubSeq(learned, 1, Min({learning_max', Len(learned)}))
  BY DEF GetTensors, AgentAssumption
<1>3. AgentTypes'
  BY <1>1, <1>2 DEF AgentTypes, AgentSites
<1>4. Conversation' /\ Requested'
  BY <1>1, <1>2 DEF Conversation, Requested, InTurn, Acting
<1>5. Agreement'
  BY <1>1, <1>2, HistoryStays DEF Agreement
<1> QED
  BY <1>3, <1>4, <1>5 DEF ContextInv

LEMMA AgentStartsKeeps == ContextInv /\ AgentStarts => ContextInv'
BY FreshKeeps DEF AgentStarts

LEMMA StutterKeeps == ContextInv /\ UNCHANGED agentVars => ContextInv'
<1> SUFFICES ASSUME ContextInv, UNCHANGED agentVars PROVE ContextInv'
  OBVIOUS
<1>1. UNCHANGED <<agent, family, appworld_style_truncation, learning_max, messages, output, possible, interaction,
                  asked, learned>>
  BY DEF agentVars
<1>2. AgentTypes'
  BY <1>1 DEF ContextInv, AgentTypes
<1>3. ASSUME agent # "start" PROVE Conversation' /\ Requested' /\ Agreement'
  <2>1. Conversation /\ Requested /\ Agreement
    BY <1>3 DEF ContextInv
  <2>2. Conversation'
    BY <1>1, <2>1 DEF Conversation, InTurn, Acting, TurnsIn
  <2>3. Requested'
    BY <1>1, <2>1, HistoryStays DEF Requested, InTurn, SoundCandidate
  <2>4. Agreement'
    BY <1>1, <2>1, HistoryStays DEF Agreement
  <2> QED
    BY <2>2, <2>3, <2>4
<1> QED
  BY <1>1, <1>2, <1>3 DEF ContextInv

\* A whole answer is one that get_tokens takes.
LEMMA WholeIsTaken ==
  ASSUME NEW m, IsPolicy(m) => Whole(m)
  PROVE  ~Refused(m)
BY DEF Refused, Whole

LEMMA EpisodeTakenKeeps == ContextInv /\ EpisodeTaken => ContextInv'
<1> SUFFICES ASSUME ContextInv, EpisodeTaken PROVE ContextInv'
  OBVIOUS
<1>1. agent = "over" /\ AgentTypes /\ Conversation /\ Requested /\ Agreement
  BY DEF EpisodeTaken, ContextInv
<1>2. /\ UNCHANGED <<family, appworld_style_truncation, learning_max, output, possible, interaction, asked>>
      /\ messages' = Append(messages, Message("user", output))
  BY DEF EpisodeTaken, agentSettings
<1>3. agent' = "learn" /\ (~WasCancelled => learned' = get_tokens(messages'))
  <2>1. ASSUME ~WasCancelled, NEW i \in DOMAIN messages PROVE ~Refused(messages[i])
    BY <1>1, <2>1, WholeIsTaken DEF Conversation, WasCancelled
  <2> QED
    BY <2>1, Zenon DEF EpisodeTaken
<1> DEFINE m == Message("user", output)
<1>4. m \in Messages /\ m.role = "user" /\ ~m.cancelled /\ ~IsPolicy(m) /\ m.generated = <<>>
  BY <1>1, MessageTyped DEF IsPolicy, AgentTypes
<1>5. messages' = Append(messages, m)
  BY <1>2
<1> HIDE DEF m
<1>6. /\ messages' \in Seq(Messages) /\ messages' # <<>> /\ Len(messages') = Len(messages) + 1
      /\ messages'[Len(messages) + 1] = m
      /\ \A i \in DOMAIN messages : i \in DOMAIN messages' /\ messages'[i] = messages[i]
      /\ \A i \in DOMAIN messages' : i \in DOMAIN messages \/ i = Len(messages) + 1
      /\ messages'[1] = prompt_messages[1] /\ messages'[2] = prompt_messages[2]
      /\ Len(messages) >= 2 /\ Len(messages) \in Nat
  BY <1>1, <1>4, <1>5, HistoryGrows
<1>7. AgentTypes'
  BY <1>1, <1>2, <1>3, <1>6 DEF AgentTypes, AgentSites
<1>8. /\ TurnsIn(messages, asked)
      /\ \A i \in DOMAIN messages : IsPolicy(messages[i]) /\ ~messages[i].cancelled => Whole(messages[i])
      /\ \A i \in DOMAIN messages : i > 2 => messages[i].role # "system"
  BY <1>1 DEF Conversation
<1>9. TurnsIn(messages', asked')
  BY <1>2, <1>6, <1>8, Zenon DEF TurnsIn
<1>10. Conversation'
  <2>1. \A i \in DOMAIN messages' : /\ IsPolicy(messages'[i]) /\ ~messages'[i].cancelled => Whole(messages'[i])
                                    /\ i > 2 => messages'[i].role # "system"
    BY <1>4, <1>6, <1>8
  <2>2. Len(messages') >= 2
    BY <1>6
  <2> QED
    BY <1>3, <1>6, <1>9, <2>1, <2>2 DEF Conversation, InTurn, Acting
<1>11. Requested'
  <2>1. \A j \in DOMAIN asked' : Fits(asked'[j], messages'[TurnOf(j)])
    BY <1>1, <1>2, <1>6, <1>8 DEF Requested, TurnsIn
  <2> QED
    BY <1>3, <2>1 DEF Requested, InTurn
<1>12. Agreement'
  <2>1. WasCancelled' <=> WasCancelled
    BY <1>4, <1>6 DEF WasCancelled
  <2>2. ASSUME ~WasCancelled, ~appworld_style_truncation PROVE Agrees(Append(messages, m), asked)
    <3>1. Prompted(messages) /\ asked \in Seq(Seq(Token))
      BY <1>1, HistoryIsPrompted DEF AgentTypes
    <3>2. Agrees(messages, asked)
      BY <1>1, <2>2 DEF Agreement
    <3> QED
      BY <1>4, <1>8, <3>1, <3>2, ObservationAgrees
  <2>3. Agrees(messages, asked)' <=> Agrees(Append(messages, m), asked)
    BY <1>2, <1>5, FamilyKept, Zenon
  <2>4. ~WasCancelled => learned' = get_tokens(messages)'
    <3>1. get_tokens(messages)' = get_tokens(messages')
      BY <1>2, FamilyKept, Zenon
    <3> QED
      BY <1>3, <3>1
  <2> QED
    BY <1>2, <1>3, <2>1, <2>2, <2>3, <2>4 DEF Agreement
<1> QED
  BY <1>7, <1>10, <1>11, <1>12 DEF ContextInv

\* The message chosen is one of the candidates.
LEMMA ChosenIsCandidate ==
  ASSUME AgentTypes, possible # <<>>
  PROVE  \E i \in DOMAIN possible : choose_msg = possible[i]
<1> DEFINE valid == {i \in DOMAIN possible : possible[i].valid}
           best == {i \in valid : \A j \in valid : possible[j].passes <= possible[i].passes}
<1>1. possible \in Seq(Candidates) /\ Len(possible) \in Nat /\ DOMAIN possible = 1 .. Len(possible) /\ Len(possible) # 0
  BY LenProperties, EmptySeq DEF AgentTypes
<1>2. 1 \in DOMAIN possible /\ DOMAIN possible \in SUBSET Nat
  BY <1>1
<1>3. ASSUME valid # {} PROVE Min(valid) \in valid /\ best # {}
  <2>1. Min(valid) \in valid
    BY <1>2, <1>3, MinIsLeast
  <2>2. \A i \in valid : possible[i].passes \in {0, 1}
    <3>1. \A i \in valid : possible[i] \in Candidates
      BY <1>1, ElementOfSeq
    <3> QED
      BY <3>1 DEF Candidates
  <2>3. best # {}
    <3>1. CASE \E i \in valid : possible[i].passes = 1
      <4>1. PICK i \in valid : possible[i].passes = 1
        BY <3>1
      <4>2. \A j \in valid : possible[j].passes <= 1
        BY <2>2
      <4>3. i \in best
        BY <4>1, <4>2
      <4> QED
        BY <4>3
    <3>2. CASE \A i \in valid : possible[i].passes = 0
      <4>1. PICK i \in valid : TRUE
        BY <1>3
      <4>2. i \in best
        BY <3>2, <4>1
      <4> QED
        BY <4>2
    <3> QED
      BY <2>2, <3>1, <3>2
  <2> QED
    BY <2>1, <2>3
<1>4. ASSUME best # {} PROVE Min(best) \in best
  BY <1>2, <1>4, MinIsLeast
<1>5. choose_msg = possible[IF valid = {} THEN 1 ELSE IF search_method = "syntax_reward" THEN Min(best) ELSE Min(valid)]
  BY DEF choose_msg
<1>6. best \subseteq valid /\ valid \subseteq DOMAIN possible
  OBVIOUS
<1> HIDE DEF best, valid
<1> QED
  BY <1>2, <1>3, <1>4, <1>5, <1>6

LEMMA ChooseKeeps == AgentAssumption /\ ContextInv /\ Choose => ContextInv'
<1> SUFFICES ASSUME AgentAssumption, ContextInv, Choose PROVE ContextInv'
  OBVIOUS
<1>1. agent = "choose" /\ InTurn /\ AgentTypes /\ Conversation /\ Requested /\ Agreement
  BY DEF Choose, ContextInv, InTurn
<1>2. /\ UNCHANGED <<family, appworld_style_truncation, learning_max, interaction, learned>>
      /\ possible' = <<>> /\ agent' \in {"over", "execute"}
      /\ output' = output \/ output' = <<Note>>
  BY DEF Choose, agentSettings
<1>3. possible' \in Seq(Candidates) /\ output' \in Seq(Token)
  <2>1. <<Note>> \in Seq(Token)
    BY TokensTyped
  <2> QED
    BY <1>1, <1>2, <2>1, EmptySeq DEF AgentTypes
<1>4. CASE possible = <<>>
  <2>1. agent' = "over" /\ UNCHANGED <<messages, asked>>
    BY <1>4 DEF Choose
  <2>2. AgentTypes'
    BY <1>1, <1>2, <1>3, <2>1 DEF AgentTypes, AgentSites
  <2>3. Conversation' /\ Requested'
    BY <1>1, <1>2, <2>1 DEF Conversation, Requested, InTurn, Acting
  <2>4. Agreement'
    BY <1>1, <1>2, <2>1, HistoryStays DEF Agreement
  <2> QED
    BY <2>2, <2>3, <2>4 DEF ContextInv
<1>5. CASE possible # <<>>
  <2>1. PICK i \in DOMAIN possible : choose_msg = possible[i]
    BY <1>1, <1>5, ChosenIsCandidate
  <2> DEFINE m == choose_msg.message
             r == choose_msg.asked
  <2>2. /\ m \in Messages /\ r \in Seq(Token) /\ IsPolicy(m) /\ m.content # <<Note>>
        /\ ~m.cancelled => Whole(m)
        /\ Fits(r, m) /\ r = request(view)
    <3>1. possible[i] \in Candidates
      BY <1>1, ElementOfSeq DEF AgentTypes
    <3>2. SoundCandidate(possible[i])
      BY <1>1 DEF Requested
    <3>3. possible[i].message \in Messages /\ possible[i].asked \in Seq(Token)
      BY <3>1 DEF Candidates
    <3> QED
      BY <2>1, <3>2, <3>3, Zenon DEF SoundCandidate
  <2>3. /\ messages' = Append(messages, m) /\ asked' = Append(asked, r)
        /\ agent' = "execute" => ~m.cancelled
    BY <1>5 DEF Choose
  <2> HIDE DEF m, r
  <2>4. /\ messages' \in Seq(Messages) /\ messages' # <<>> /\ Len(messages') = Len(messages) + 1
        /\ Len(messages) + 1 \in DOMAIN messages' /\ messages'[Len(messages) + 1] = m
        /\ \A k \in DOMAIN messages : k \in DOMAIN messages' /\ messages'[k] = messages[k]
        /\ \A k \in DOMAIN messages' : k \in DOMAIN messages \/ k = Len(messages) + 1
        /\ messages'[1] = prompt_messages[1] /\ messages'[2] = prompt_messages[2]
        /\ Len(messages) >= 2 /\ Len(messages) \in Nat
    BY <1>1, <2>2, <2>3, HistoryGrows
  <2>5. /\ asked \in Seq(Seq(Token)) /\ asked' \in Seq(Seq(Token))
        /\ Len(asked) \in Nat /\ Len(asked') = Len(asked) + 1 /\ asked'[Len(asked) + 1] = r
        /\ \A j \in DOMAIN asked : asked'[j] = asked[j]
        /\ \A j \in DOMAIN asked' : j \in DOMAIN asked \/ j = Len(asked) + 1
    <3>1. asked \in Seq(Seq(Token))
      BY <1>1 DEF AgentTypes
    <3>2. /\ asked' \in Seq(Seq(Token)) /\ Len(asked) \in Nat /\ Len(asked') = Len(asked) + 1
          /\ asked'[Len(asked) + 1] = r /\ \A j \in 1 .. Len(asked) : asked'[j] = asked[j]
          /\ DOMAIN asked = 1 .. Len(asked)
      BY <2>2, <2>3, <3>1, AppendProperties, LenProperties
    <3>3. DOMAIN asked' = 1 .. Len(asked) + 1
      BY <3>2, LenProperties
    <3>4. \A x \in Nat : \A j \in 1 .. x + 1 : j \in 1 .. x \/ j = x + 1
      OBVIOUS
    <3> QED
      BY <3>1, <3>2, <3>3, <3>4, Zenon
  <2>6. AgentTypes'
    BY <1>1, <1>2, <1>3, <2>4, <2>5 DEF AgentTypes, AgentSites
  <2>7. /\ TurnsIn(messages, asked) /\ Len(messages) = 2 * Len(asked) + 2
        /\ \A k \in DOMAIN messages : /\ ~messages[k].cancelled /\ messages[k].content # <<Note>>
                                      /\ IsPolicy(messages[k]) => Whole(messages[k])
                                      /\ k > 2 => messages[k].role # "system"
    BY <1>1 DEF Conversation
  <2>8. TurnOf(Len(asked) + 1) = Len(messages) + 1 /\ Len(messages') = 2 * Len(asked') + 1
    <3>1. \A x, y \in Nat : x = 2 * y + 2 => x + 1 = 2 * (y + 1) + 1
      OBVIOUS
    <3>2. Len(messages) + 1 = 2 * (Len(asked) + 1) + 1
      BY <2>4, <2>5, <2>7, <3>1, Zenon
    <3> QED
      BY <2>4, <2>5, <3>2, Zenon DEF TurnOf
  <2>9. /\ TurnsIn(messages', asked')
        /\ \A j \in DOMAIN asked : messages'[TurnOf(j)] = messages[TurnOf(j)]
    BY <2>4, <2>5, <2>7, <2>8 DEF TurnsIn
  <2>10. Conversation'
    <3>1. \A k \in DOMAIN messages' : /\ IsPolicy(messages'[k]) /\ ~messages'[k].cancelled => Whole(messages'[k])
                                      /\ k > 2 => messages'[k].role # "system"
                                      /\ messages'[k].content # <<Note>>
                                      /\ agent' = "execute" => ~messages'[k].cancelled
      BY <2>2, <2>3, <2>4, <2>7, ZenonT(30) DEF IsPolicy
    <3>2. Len(messages') >= 2
      BY <2>4
    <3> QED
      BY <1>2, <2>4, <2>8, <2>9, <3>1, <3>2 DEF Conversation, InTurn, Acting
  <2>11. Requested'
    <3>1. \A j \in DOMAIN asked : Fits(asked[j], messages[TurnOf(j)])
      BY <1>1 DEF Requested
    <3>2. Fits(asked'[Len(asked) + 1], messages'[TurnOf(Len(asked) + 1)])
      BY <2>2, <2>4, <2>5, <2>8
    <3>3. \A j \in DOMAIN asked' : Fits(asked'[j], messages'[TurnOf(j)])
      BY <2>5, <2>9, <3>1, <3>2, Zenon
    <3> QED
      BY <1>2, <3>3 DEF Requested, InTurn
  <2>12. Agreement'
    <3>1. ~WasCancelled' => ~m.cancelled
      BY <2>4 DEF WasCancelled
    <3>2. ASSUME ~m.cancelled, ~appworld_style_truncation
          PROVE  Agrees(Append(messages, m), Append(asked, r))
      <4>1. Prompted(messages) /\ ~WasCancelled
        BY <1>1, <2>7, HistoryIsPrompted DEF WasCancelled
      <4>2. Agrees(messages, asked)
        BY <1>1, <3>2, <4>1 DEF Agreement
      <4>3. r = request(messages)
        BY <2>2, <3>2 DEF view
      <4>4. Agrees(Append(messages, m), Append(asked, request(messages)))
        BY <2>2, <2>5, <2>7, <3>2, <4>1, <4>2, AnswerAgrees
      <4> QED
        BY <4>3, <4>4
    <3>3. Agrees(messages, asked)' <=> Agrees(Append(messages, m), Append(asked, r))
      BY <1>2, <2>3, FamilyKept, Zenon
    <3> QED
      BY <1>2, <3>1, <3>2, <3>3 DEF Agreement
  <2> QED
    BY <2>6, <2>10, <2>11, <2>12 DEF ContextInv
<1> QED
  BY <1>4, <1>5

\* What the model may answer is whole unless it is cancelled, and within the limit.
LEMMA StoppedAnswer ==
  ASSUME NEW stop \in StopTokens, NEW t \in Seq(Token), \A k \in 1 .. Len(t) : t[k] # Note
  PROVE  /\ t \o <<stop>> \in Seq(Token) /\ Len(t \o <<stop>>) = Len(t) + 1
         /\ Last(t \o <<stop>>) = stop /\ Front(t \o <<stop>>) = t /\ t \o <<stop>> # <<>> /\ t \o <<stop>> # <<Note>>
         /\ t # <<Note>>
<1> DEFINE g == t \o <<stop>>
<1>1. <<stop>> \in Seq(Token) /\ Len(<<stop>>) = 1 /\ <<stop>>[1] = stop /\ Len(t) \in Nat /\ stop # Note
  BY TokensTyped, LenProperties
<1>2. /\ g \in Seq(Token) /\ Len(g) = Len(t) + 1 /\ \A i \in 1 .. Len(t) : g[i] = t[i]
      /\ g[Len(t) + 1] = stop
  BY <1>1, ConcatProperties
<1> HIDE DEF g
<1>3. Last(g) = stop /\ g # <<>>
  BY <1>1, <1>2 DEF Last
<1>4. Front(g) = t
  <2>1. Front(g) = SubSeq(g, 1, Len(t))
    BY <1>1, <1>2 DEF Front
  <2>2. \A i \in 1 .. Len(t) : g[i] \in Token
    BY <1>1, <1>2, ElementOfSeq
  <2>3. /\ SubSeq(g, 1, Len(t)) \in Seq(Token) /\ Len(SubSeq(g, 1, Len(t))) = Len(t)
        /\ \A i \in 1 .. Len(t) : SubSeq(g, 1, Len(t))[i] = t[i]
    BY <1>1, <1>2, <2>2, SubSeqProperties
  <2> QED
    BY <2>1, <2>3, SeqEqual
<1>5. \A s \in Seq(Token) : Len(s) = 1 /\ s[1] # Note => s # <<Note>>
  OBVIOUS
<1>6. t # <<Note>> /\ g # <<Note>>
  <2>1. Len(<<Note>>) = 1 /\ <<Note>>[1] = Note
    OBVIOUS
  <2> QED
    BY <1>1, <1>2, <2>1
<1> QED
  BY <1>2, <1>3, <1>4, <1>6 DEF g

LEMMA CompletionSound ==
  ASSUME AgentTypes, NEW limit \in Nat, limit > 1, NEW m \in Completions(limit)
  PROVE  /\ m \in Messages /\ IsPolicy(m) /\ m.content # <<Note>> /\ (~m.cancelled => Whole(m))
         /\ Len(m.generated) <= limit
<1>1. interaction + 1 \in Nat
  BY DEF AgentTypes
<1>2. ASSUME NEW n \in Nat, NEW stop \in StopTokens
      PROVE  LET t == Text(interaction + 1, n)
             IN /\ t \in Seq(Token) /\ Len(t) = n /\ t # <<Note>> /\ t \o <<>> = t
                /\ n > 0 => Last(t) \notin StopTokens
                /\ t \o <<stop>> \in Seq(Token) /\ Len(t \o <<stop>>) = n + 1
                /\ Last(t \o <<stop>>) = stop /\ Front(t \o <<stop>>) = t
                /\ t \o <<stop>> # <<>> /\ t \o <<stop>> # <<Note>>
  <2> DEFINE t == Text(interaction + 1, n)
  <2>1. t \in Seq(Token) /\ Len(t) = n /\ \A k \in 1 .. n : t[k] # Note /\ t[k] \notin StopTokens
    BY <1>1, TextTyped
  <2> HIDE DEF t
  <2>2. t \o <<>> = t
    BY <2>1, ConcatEmptySeq
  <2>3. n > 0 => Last(t) \notin StopTokens
    BY <2>1 DEF Last
  <2>4. /\ t \o <<stop>> \in Seq(Token) /\ Len(t \o <<stop>>) = n + 1
        /\ Last(t \o <<stop>>) = stop /\ Front(t \o <<stop>>) = t /\ t \o <<stop>> # <<>> /\ t \o <<stop>> # <<Note>>
        /\ t # <<Note>>
    BY <2>1, StoppedAnswer
  <2> QED
    BY <2>1, <2>2, <2>3, <2>4 DEF t
\* An answer that a stop token ends.
<1>3. ASSUME NEW n \in Nat, NEW limited \in BOOLEAN, NEW stop \in StopTokens, m = Answer(n, <<stop>>, limited, FALSE),
             n + 1 <= limit
      PROVE  /\ m \in Messages /\ IsPolicy(m) /\ m.content # <<Note>> /\ Whole(m)
             /\ Len(m.generated) <= limit
  <2> DEFINE t == Text(interaction + 1, n)
  <2>1. m = [role |-> "assistant", generated |-> t \o <<stop>>, stopped |-> limited, cancelled |-> FALSE, content |-> t]
    BY <1>3 DEF Answer
  <2>2. /\ t \in Seq(Token) /\ t # <<Note>> /\ t \o <<stop>> \in Seq(Token) /\ Len(t \o <<stop>>) = n + 1
        /\ Last(t \o <<stop>>) = stop /\ Front(t \o <<stop>>) = t /\ t \o <<stop>> # <<>>
    BY <1>2
  <2> DEFINE g == t \o <<stop>>
  <2>3. /\ m = [role |-> "assistant", generated |-> g, stopped |-> limited, cancelled |-> FALSE, content |-> t]
        /\ t \in Seq(Token) /\ t # <<Note>> /\ g \in Seq(Token) /\ Len(g) = n + 1
        /\ Last(g) = stop /\ Front(g) = t /\ g # <<>>
    BY <2>1, <2>2
  <2> HIDE DEF t, g
  <2>4. m \in Messages /\ m.generated = g /\ m.content = t /\ m.role = "assistant"
    BY <2>3 DEF Messages
  <2> QED
    BY <1>3, <2>3, <2>4 DEF IsPolicy, Whole, Unended, Altered, Stops
\* One that ends otherwise.
<1>4. ASSUME NEW n \in Nat, NEW limited \in BOOLEAN, m = Answer(n, <<>>, limited, FALSE), n <= limit, n = 0 \/ limited
      PROVE  /\ m \in Messages /\ IsPolicy(m) /\ m.content # <<Note>> /\ Whole(m)
             /\ Len(m.generated) <= limit
  <2> DEFINE t == Text(interaction + 1, n)
  <2>1. m = [role |-> "assistant", generated |-> t \o <<>>, stopped |-> limited, cancelled |-> FALSE, content |-> t]
    BY <1>4 DEF Answer
  <2>2. t \in Seq(Token) /\ Len(t) = n /\ t # <<Note>> /\ t \o <<>> = t /\ (n > 0 => Last(t) \notin StopTokens)
    BY <1>2, TokensTyped
  <2>3. m = [role |-> "assistant", generated |-> t, stopped |-> limited, cancelled |-> FALSE, content |-> t]
    BY <2>1, <2>2
  <2> HIDE DEF t
  <2>4. m \in Messages /\ m.generated = t /\ m.content = t /\ m.role = "assistant" /\ m.stopped = limited
    BY <2>2, <2>3 DEF Messages
  <2>5. n = 0 => t = <<>>
    BY <2>2, EmptySeq
  <2>6. ~Stops(m)
    <3>1. n > 0 => Last(m.generated) \notin StopTokens
      BY <2>2, <2>4
    <3>2. n = 0 => m.generated = <<>>
      BY <2>4, <2>5
    <3> QED
      BY <3>1, <3>2 DEF Stops
  <2> QED
    BY <1>4, <2>2, <2>4, <2>5, <2>6 DEF IsPolicy, Whole, Unended, Altered
\* One that is cancelled.
<1>5. ASSUME NEW stop \in {<<>>, <<Eom>>}, m = Answer(1, stop, FALSE, TRUE)
      PROVE  /\ m \in Messages /\ IsPolicy(m) /\ m.content # <<Note>> /\ m.cancelled
             /\ Len(m.generated) <= limit
  <2> DEFINE t == Text(interaction + 1, 1)
             g == t \o stop
  <2>1. m = [role |-> "assistant", generated |-> g, stopped |-> FALSE, cancelled |-> TRUE, content |-> g]
    BY <1>5 DEF Answer
  <2>2. g \in Seq(Token) /\ Len(g) <= 2 /\ g # <<Note>>
    <3>1. /\ t \o <<Eom>> \in Seq(Token) /\ Len(t \o <<Eom>>) = 1 + 1 /\ t \o <<Eom>> # <<Note>>
          /\ t \o <<>> \in Seq(Token) /\ Len(t \o <<>>) = 1 /\ t \o <<>> # <<Note>>
      BY <1>2, TokensTyped
    <3> HIDE DEF t
    <3>2. g = t \o <<Eom>> \/ g = t \o <<>>
      BY <1>5, Zenon
    <3> HIDE DEF g
    <3> QED
      BY <3>1, <3>2
  <2> HIDE DEF g
  <2> QED
    BY <2>1, <2>2 DEF Messages, IsPolicy
<1>6. Min({2, limit - 1}) \in Nat /\ Min({2, limit - 1}) + 1 <= limit
  <2>1. {2, limit - 1} \in SUBSET Nat /\ {2, limit - 1} # {}
    OBVIOUS
  <2> DEFINE least == Min({2, limit - 1})
  <2>2. least \in {2, limit - 1} /\ \A k \in {2, limit - 1} : least <= k
    BY <2>1, MinIsLeast
  <2> HIDE DEF least
  <2>3. least \in Nat /\ least + 1 <= limit
    BY <2>2
  <2> QED
    BY <2>3 DEF least
<1>7. \/ m = Answer(0, <<Eom>>, FALSE, FALSE) \/ m = Answer(limit - 1, <<Eom>>, TRUE, FALSE)
      \/ \E stop \in StopTokens : m = Answer(Min({2, limit - 1}), <<stop>>, FALSE, FALSE)
      \/ m = Answer(limit, <<>>, TRUE, FALSE) \/ m = Answer(0, <<>>, FALSE, FALSE)
      \/ \E stop \in {<<>>, <<Eom>>} : m = Answer(1, stop, FALSE, TRUE)
  BY Zenon DEF Completions
<1>8. CASE \E stop \in StopTokens : m = Answer(Min({2, limit - 1}), <<stop>>, FALSE, FALSE)
  BY <1>3, <1>6, <1>8, Zenon
<1>9. CASE m = Answer(limit, <<>>, TRUE, FALSE)
  <2>1. limit <= limit
    OBVIOUS
  <2> QED
    BY <1>4, <1>9, <2>1, Zenon
<1>10. CASE m = Answer(limit - 1, <<Eom>>, TRUE, FALSE)
  <2>1. limit - 1 \in Nat /\ limit - 1 + 1 <= limit /\ Eom \in StopTokens
    BY TokensTyped
  <2> QED
    BY <1>3, <1>10, <2>1, Zenon
<1>11. CASE m = Answer(0, <<>>, FALSE, FALSE)
  <2>1. 0 \in Nat /\ 0 <= limit
    OBVIOUS
  <2> QED
    BY <1>4, <1>11, <2>1, Zenon
<1>12. CASE m = Answer(0, <<Eom>>, FALSE, FALSE)
  <2>1. 0 \in Nat /\ 0 + 1 <= limit /\ Eom \in StopTokens
    BY TokensTyped
  <2> QED
    BY <1>3, <1>12, <2>1, Zenon
<1>13. CASE \E stop \in {<<>>, <<Eom>>} : m = Answer(1, stop, FALSE, TRUE)
  BY <1>5, <1>13, Zenon
<1> QED
  BY <1>7, <1>8, <1>9, <1>10, <1>11, <1>12, <1>13

\* A turn that goes on, with one more candidate or without.
LEMMA TurnGoesOn ==
  ASSUME ContextInv, agent = "generate", agent' \in {"choose", "generate"},
         UNCHANGED <<agentSettings, messages, output, interaction, asked, learned>>,
         possible' \in Seq(Candidates), \A i \in DOMAIN possible' : SoundCandidate(possible'[i])
  PROVE  ContextInv'
<1>1. AgentTypes /\ Conversation /\ Requested /\ Agreement /\ InTurn /\ InTurn' /\ ~Acting'
  BY DEF ContextInv, InTurn, Acting
<1>2. UNCHANGED <<family, appworld_style_truncation, learning_max, messages, output, interaction, asked, learned>>
  BY DEF agentSettings
<1>3. AgentTypes'
  BY <1>1, <1>2 DEF AgentTypes, AgentSites
<1>4. Conversation'
  BY <1>1, <1>2 DEF Conversation, TurnsIn
<1>5. Requested'
  <2>1. request(view)' = request(view)
    BY <1>2, HistoryStays
  <2>2. \A i \in DOMAIN possible' : SoundCandidate(possible[i])'
    BY <2>1 DEF SoundCandidate
  <2>3. \A j \in DOMAIN asked' : Fits(asked'[j], messages'[TurnOf(j)])
    BY <1>1, <1>2 DEF Requested
  <2> QED
    BY <2>2, <2>3 DEF Requested
<1>6. Agreement'
  BY <1>1, <1>2, HistoryStays DEF Agreement
<1> QED
  BY <1>3, <1>4, <1>5, <1>6 DEF ContextInv

LEMMA GenerateKeeps == AgentAssumption /\ ContextInv /\ Generate => ContextInv'
<1> SUFFICES ASSUME AgentAssumption, ContextInv, Generate PROVE ContextInv'
  OBVIOUS
<1>1. agent = "generate" /\ InTurn /\ AgentTypes /\ Conversation /\ Requested
  BY DEF Generate, ContextInv, InTurn
<1>2. UNCHANGED <<agentSettings, messages, output, interaction, asked, learned>>
  BY DEF Generate
<1>3. Prompted(view) /\ \A i \in DOMAIN view : ~Refused(view[i])
  BY <1>1, ViewIs, WholeIsTaken
<1> DEFINE r == request(view)
           limit == max_new(r)
<1>4. r \in Seq(Token) /\ Len(r) \in Nat
  BY <1>3, RequestTyped, LenProperties
<1>5. possible \in Seq(Candidates) /\ \A i \in DOMAIN possible : SoundCandidate(possible[i])
  BY <1>1 DEF AgentTypes, Requested
<1>6. \/ possible' = possible \o <<>>
      \/ limit > 1 /\ \E m \in Completions(limit) : \E result \in test_code(m) :
           possible' = possible \o <<[message |-> m, valid |-> result.valid, passes |-> result.passes, asked |-> r]>>
  <2>1. \/ possible' = possible \o <<>>
        \/ ~(limit <= 1) /\ \E m \in Completions(limit) : \E result \in test_code(m) :
             possible' = possible \o <<[message |-> m, valid |-> result.valid, passes |-> result.passes, asked |-> r]>>
    BY <1>3, Zenon DEF Generate
  <2>2. ~(limit <= 1) => limit > 1
    <3>1. limit \in Int
      BY <1>4 DEF max_new, AgentAssumption
    <3> QED
      BY <3>1
  <2> QED
    BY <2>1, <2>2, Zenon
<1>7. agent' \in {"choose", "generate"}
  BY <1>3 DEF Generate
<1>8. CASE possible' = possible \o <<>>
  <2>1. possible' = possible
    BY <1>5, <1>8, ConcatEmptySeq
  <2> QED
    BY <1>1, <1>2, <1>5, <1>7, <2>1, TurnGoesOn
<1>9. CASE limit > 1 /\ \E m \in Completions(limit) : \E result \in test_code(m) :
             possible' = possible \o <<[message |-> m, valid |-> result.valid, passes |-> result.passes, asked |-> r]>>
  <2>1. PICK m \in Completions(limit) : \E result \in test_code(m) :
          possible' = possible \o <<[message |-> m, valid |-> result.valid, passes |-> result.passes, asked |-> r]>>
    BY <1>9
  <2>2. PICK result \in test_code(m) :
          possible' = possible \o <<[message |-> m, valid |-> result.valid, passes |-> result.passes, asked |-> r]>>
    BY <2>1
  <2> DEFINE candidate == [message |-> m, valid |-> result.valid, passes |-> result.passes, asked |-> r]
  <2>3. limit \in Nat /\ (\A n \in Nat : n <= limit => Len(r) + n <= MaxModelLen)
    <3>1. MaxModelLen \in Nat /\ MaxNewTokens \in Nat
      BY DEF AgentAssumption
    <3>2. limit = IF Len(r) + MaxNewTokens >= MaxModelLen THEN MaxModelLen - Len(r) - 1 ELSE MaxNewTokens
      BY DEF max_new
    <3> HIDE DEF r, limit
    <3>3. \A x, y, z \in Nat : \A l \in Int :
            l > 1 /\ l = (IF x + y >= z THEN z - x - 1 ELSE y) => l \in Nat /\ \A n \in Nat : n <= l => x + n <= z
      OBVIOUS
    <3>4. limit \in Int
      BY <1>4, <3>1, <3>2
    <3> QED
      BY <1>4, <1>9, <3>1, <3>2, <3>3, <3>4
  <2>4. /\ m \in Messages /\ IsPolicy(m) /\ m.content # <<Note>> /\ (~m.cancelled => Whole(m))
        /\ Len(m.generated) <= limit /\ Len(m.generated) \in Nat
    BY <1>1, <1>9, <2>1, <2>3, CompletionSound, MessageParts
  <2>5. result.valid \in BOOLEAN /\ result.passes \in {0, 1}
    BY <2>2 DEF test_code
  <2>6. Len(r) + Len(m.generated) <= MaxModelLen
    BY <2>3, <2>4, Zenon
  <2> HIDE DEF r, limit
  <2>7. candidate \in Candidates
    BY <1>4, <2>4, <2>5 DEF Candidates
  <2>8. SoundCandidate(candidate)
    <3>1. candidate.message = m /\ candidate.asked = r
      OBVIOUS
    <3> HIDE DEF candidate
    <3> QED
      BY <2>4, <2>6, <3>1 DEF SoundCandidate, Fits, r
  <2> HIDE DEF candidate
  <2>9. possible' = Append(possible, candidate)
    <3>1. possible' = possible \o <<candidate>>
      BY <2>2 DEF candidate
    <3>2. \A s \in Seq(Candidates) : \A x \in Candidates : s \o <<x>> = Append(s, x)
      OBVIOUS
    <3> QED
      BY <1>5, <2>7, <3>1, <3>2, Zenon
  <2>10. /\ possible' \in Seq(Candidates) /\ Len(possible') = Len(possible) + 1 /\ Len(possible) \in Nat
         /\ possible'[Len(possible) + 1] = candidate /\ DOMAIN possible = 1 .. Len(possible)
         /\ \A i \in 1 .. Len(possible) : possible'[i] = possible[i]
    BY <1>5, <2>7, <2>9, AppendProperties, LenProperties
  <2>11. DOMAIN possible' = 1 .. Len(possible) + 1
    BY <2>10, LenProperties
  <2>12. \A i \in DOMAIN possible' : SoundCandidate(possible'[i])
    <3>1. \A x \in Nat : \A j \in 1 .. x + 1 : j \in 1 .. x \/ j = x + 1
      OBVIOUS
    <3> QED
      BY <1>5, <2>8, <2>10, <2>11, <3>1, Zenon
  <2> QED
    BY <1>1, <1>2, <1>7, <2>10, <2>12, TurnGoesOn
<1> QED
  BY <1>6, <1>8, <1>9

(***************************************************************************)
(* The learner sees each answer as the model gave it, after the tokens it  *)
(* was asked with, and the view keeps what is recent: for every number of  *)
(* interactions, every limit of the model, of the learner and of the view, *)
(* with search or truncation or neither, whatever the model answers.       *)
(***************************************************************************)
THEOREM ContextKept == AgentSpec => []ContextIsKept
<1>1. AgentInit => ContextInv
  BY ContextStarts
<1>2. ContextInv /\ [AgentNext]_agentVars => ContextInv'
  BY AgentAssumption, StutterKeeps, AgentStartsKeeps, ObserveKeeps, GenerateKeeps, ChooseKeeps, ExecuteKeeps,
     RetryKeeps, EpisodeTakenKeeps, GetTensorsKeeps, Zenon DEF AgentNext
<1>3. ContextInv => ContextIsKept
  BY AgentAssumption, ContextSound, Zenon
<1> QED
  BY <1>1, <1>2, <1>3, PTL DEF AgentSpec
=================================================================================
