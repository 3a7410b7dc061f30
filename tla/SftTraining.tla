------------------------------- MODULE SftTraining -------------------------------
(***************************************************************************)
(* Two-stage supervised fine-tuning: the script that starts a stage,       *)
(* resumes it or skips it (scripts/sft/run_qwen35_two_stage_train.sh), the *)
(* training loop with the callback that marks its checkpoints              *)
(* (phi_agents/sft/trainer.py) and the choice between the two epochs of    *)
(* the second stage (scripts/sft/select_qwen35_d3.py).  The loop itself is *)
(* the transformers Trainer: it saves into checkpoint-<step>, over what is *)
(* there, and rotates before it calls on_save.  A run may be killed        *)
(* anywhere, by a signal or for lack of memory.                            *)
(***************************************************************************)
EXTENDS Integers, FiniteSets, FiniteSetsExt

CONSTANTS
  Windows,           \* training windows of a stage
  WorldSize, BatchSize, Accumulation,  \* processes, windows per process, micro batches per step
  SaveSteps,         \* save_steps
  SaveTotalLimit,    \* save_total_limit
  TrainKills         \* bound: killed runs

ASSUME SftAssumption ==
  /\ {Windows, WorldSize, BatchSize, Accumulation, SaveSteps, SaveTotalLimit} \subseteq Nat \ {0}
  /\ TrainKills \in Nat

Stages == {"d12", "d3"}
Epochs(which) == IF which = "d12" THEN 1 ELSE 2

\* training_schedule_preflight: the optimizer steps that one epoch takes.
Ceil(n, d) == (n + d - 1) \div d
StepsPerEpoch == Ceil(Ceil(Ceil(Windows, WorldSize), BatchSize), Accumulation)
MaxSteps == 2 * StepsPerEpoch

VARIABLES
  stage,         \* the stage whose output directory is looked at
  trainer,       \* where its run is
  step,          \* global_step
  measured,      \* epochs whose validation loss is in the log of the run
  cause,         \* what the save under way was asked by: "step" or "epoch"
  checkpoints,   \* by step: [state, complete, measured]
  pointer,       \* epoch-<n>.json: the steps they name, 0 if missing
  final,         \* final_adapter
  furthest,      \* history: the furthest checkpoint that was finished
  chosen,        \* selected_adapter.json: epoch, or 0
  trainKills

sftVars == <<stage, trainer, step, measured, cause, checkpoints, pointer, final, furthest, chosen, trainKills>>
SftFiles == <<checkpoints, pointer, final, furthest, chosen>>

Checkpoint == [state : {"missing", "torn", "whole"}, complete : BOOLEAN, measured : SUBSET {1, 2}]
NoCheckpoint == [state |-> "missing", complete |-> FALSE, measured |-> {}]

SftTypeOK ==
  /\ stage \in Stages
  /\ trainer \in {"down", "configure", "windows", "schedule", "load", "build", "step", "epoch", "save", "write", "point", "mark", "final", "metrics", "failed"}
  /\ step \in 0 .. MaxSteps
  /\ measured \subseteq {1, 2}
  /\ cause \in {"step", "epoch"}
  /\ checkpoints \in [1 .. MaxSteps -> Checkpoint]
  /\ pointer \in [{1, 2} -> 0 .. MaxSteps]
  /\ final \in {"missing", "torn", "whole"}
  /\ furthest \in 0 .. MaxSteps
  /\ chosen \in 0 .. 2
  /\ trainKills \in 0 .. TrainKills

SftInit ==
  /\ stage = "d12"
  /\ trainer = "down"
  /\ step = 0
  /\ measured = {}
  /\ cause = "step"
  /\ checkpoints = [s \in 1 .. MaxSteps |-> NoCheckpoint]
  /\ pointer = [e \in {1, 2} |-> 0]
  /\ final = "missing"
  /\ furthest = 0
  /\ chosen = 0
  /\ trainKills = 0

-----------------------------------------------------------------------------
TotalSteps == StepsPerEpoch * Epochs(stage)
AtEpochEnd == step % StepsPerEpoch = 0
Resumable == {s \in 1 .. MaxSteps : checkpoints[s].complete}

\* The script: a stage that has a final adapter is complete, whatever is in the
\* file; otherwise the latest complete checkpoint is resumed.
StageStarts ==
  /\ trainer \in {"down", "failed"}
  /\ final = "missing"
  /\ step' = IF Resumable = {} THEN 0 ELSE Max(Resumable)
  /\ measured' = IF Resumable = {} THEN {} ELSE checkpoints[Max(Resumable)].measured
  /\ trainer' = "configure"
  /\ UNCHANGED <<stage, cause, SftFiles, trainKills>>

\* A phase of train() before the first step goes on or raises, which ends the run.
Phase(from, to) ==
  /\ trainer = from
  /\ trainer' \in {to, "failed"}
  /\ UNCHANGED <<stage, step, measured, cause, SftFiles, trainKills>>

\* The model profile supports sparse logits and the batch is 1; FSDP has two ranks.
CheckConfig == Phase("configure", "windows")
\* Every sample is windowed and its supervision audited.
PrepareWindows == Phase("windows", "schedule")
\* The schedule is computed and goes into the manifest with the digests of the data.
ConfirmSchedule == Phase("schedule", "load")
\* The base model, without Flash Attention if that fails, and a LoRA adapter: a fresh
\* one or the initial one. Nothing else may be trainable.
LoadModel == Phase("load", "build")

\* The Trainer, and with it the checkpoint to resume: a torn one cannot be loaded.
\* It goes on after the epochs the checkpoint has finished.
BuildTrainer ==
  /\ trainer = "build"
  /\ \/ trainer' = "failed"
     \/ /\ step > 0 => checkpoints[step].state # "torn"
        /\ trainer' = IF step = TotalSteps THEN "final" ELSE "step"
  /\ UNCHANGED <<stage, step, measured, cause, SftFiles, trainKills>>

\* The second stage starts from the final adapter of the first, which has to
\* load; its output directory is another one.
SecondStage ==
  /\ stage = "d12" /\ trainer = "down" /\ final = "whole"
  /\ stage' = "d3"
  /\ checkpoints' = [s \in 1 .. MaxSteps |-> NoCheckpoint]
  /\ pointer' = [e \in {1, 2} |-> 0]
  /\ final' = "missing"
  /\ furthest' = 0
  /\ UNCHANGED <<trainer, step, measured, cause, chosen, trainKills>>

\* An optimizer step; on_step_end asks for a save at every save_steps, and the
\* Trainer itself after the last step.
SavesStep(s) == s % SaveSteps = 0 \/ s = TotalSteps
TrainStep ==
  /\ trainer = "step"
  /\ step' = step + 1
  /\ cause' = "step"
  /\ trainer' = CASE SavesStep(step') -> "save"
                  [] ~SavesStep(step') /\ step' % StepsPerEpoch = 0 -> "epoch"
                  [] OTHER -> "step"
  /\ UNCHANGED <<stage, measured, SftFiles, trainKills>>

\* The end of an epoch: the validation loss, then a save (on_epoch_end).
EpochEnds ==
  /\ trainer = "epoch"
  /\ measured' = measured \cup {step \div StepsPerEpoch}
  /\ cause' = "epoch"
  /\ trainer' = "save"
  /\ UNCHANGED <<stage, step, SftFiles, trainKills>>

\* Mutant of SaveCheckpointBegins: .complete is written before the checkpoint.
SaveCheckpointBeginsMarked ==
  /\ trainer = "save"
  /\ checkpoints' = [checkpoints EXCEPT ![step].state = "torn", ![step].complete = TRUE]
  /\ trainer' = "write"
  /\ UNCHANGED <<stage, step, measured, cause, pointer, final, furthest, chosen, trainKills>>

SaveCheckpointBegins ==
  /\ trainer = "save"
  /\ checkpoints' = [checkpoints EXCEPT ![step].state = "torn"]
  /\ trainer' = "write"
  /\ UNCHANGED <<stage, step, measured, cause, pointer, final, furthest, chosen, trainKills>>

\* The checkpoint is written, its state last; then the oldest ones go.
WriteAndRotate ==
  /\ trainer = "write"
  /\ LET written == [checkpoints EXCEPT ![step].state = "whole", ![step].measured = measured]
         present == {s \in 1 .. MaxSteps : written[s].state # "missing"}
         old == {s \in present : Cardinality({r \in present : r > s}) >= SaveTotalLimit}
     IN checkpoints' = [s \in 1 .. MaxSteps |-> IF s \in old THEN NoCheckpoint ELSE written[s]]
  /\ trainer' = "point"
  /\ UNCHANGED <<stage, step, measured, cause, pointer, final, furthest, chosen, trainKills>>

\* on_save: at an epoch boundary the pointer to the checkpoint ...
WritePointer ==
  /\ trainer = "point"
  /\ pointer' = IF AtEpochEnd THEN [pointer EXCEPT ![step \div StepsPerEpoch] = step] ELSE pointer
  /\ trainer' = "mark"
  /\ UNCHANGED <<stage, step, measured, cause, checkpoints, final, furthest, chosen, trainKills>>

\* ... and .complete at last.
MarkComplete ==
  /\ trainer = "mark"
  /\ checkpoints' = [checkpoints EXCEPT ![step].complete = TRUE]
  /\ furthest' = Max({furthest, step})
  /\ trainer' = CASE AtEpochEnd /\ cause = "step" -> "epoch"
                  [] step = TotalSteps /\ cause = "epoch" -> "final"
                  [] OTHER -> "step"
  /\ UNCHANGED <<stage, step, measured, cause, pointer, final, chosen, trainKills>>

FinalBegins ==
  /\ trainer = "final"
  /\ final' = "torn"
  /\ trainer' = "metrics"
  /\ UNCHANGED <<stage, step, measured, cause, checkpoints, pointer, furthest, chosen, trainKills>>

FinalWritten ==
  /\ trainer = "metrics"
  /\ final' = "whole"
  /\ trainer' = "down"
  /\ UNCHANGED <<stage, step, measured, cause, checkpoints, pointer, furthest, chosen, trainKills>>

TrainKilled ==
  /\ trainer \notin {"down", "failed"}
  /\ trainKills < TrainKills
  /\ trainKills' = trainKills + 1
  /\ trainer' = "down"
  /\ UNCHANGED <<stage, step, measured, cause, SftFiles>>

\* select: each epoch's pointer, the log of the checkpoint it names, the loss of
\* that epoch in it; it refuses when one is missing. Any loss may be the lower.
Measured(epoch) ==
  pointer[epoch] # 0 /\ checkpoints[pointer[epoch]].state # "missing"
                     /\ epoch \in checkpoints[pointer[epoch]].measured
SelectEpoch ==
  /\ stage = "d3" /\ final # "missing" /\ trainer = "down"
  /\ Measured(1) /\ Measured(2)
  /\ chosen' \in {1, 2}
  /\ UNCHANGED <<stage, trainer, step, measured, cause, checkpoints, pointer, final, furthest, trainKills>>

SftNext ==
  \/ StageStarts \/ CheckConfig \/ PrepareWindows \/ ConfirmSchedule \/ LoadModel \/ BuildTrainer
  \/ SecondStage \/ TrainStep \/ EpochEnds
  \/ SaveCheckpointBegins \/ WriteAndRotate \/ WritePointer \/ MarkComplete
  \/ FinalBegins \/ FinalWritten \/ TrainKilled \/ SelectEpoch
SftSpec == SftInit /\ [][SftNext]_sftVars

-----------------------------------------------------------------------------
SavedTwice(s) == SavesStep(s) /\ s % StepsPerEpoch = 0
(***************************************************************************)
(* Whatever is killed, the checkpoint the script would resume is the       *)
(* furthest one that was ever finished, and it is whole: rotation and a    *)
(* save under way never cost finished work, as long as the trainer keeps   *)
(* two checkpoints.  The one exception is a step that ends an epoch and is *)
(* saved for save_steps or as the last one: it is saved a second time into *)
(* the directory that .complete already marks, so a kill there leaves a    *)
(* torn checkpoint that every later start resumes in vain.                 *)
(***************************************************************************)
ProgressIsKept ==
  /\ furthest > 0 => Resumable # {} /\ Max(Resumable) = furthest
  /\ \A s \in Resumable : checkpoints[s].state = "whole" \/ SavedTwice(s)

(***************************************************************************)
(* An epoch's pointer names a checkpoint with the loss of that epoch when  *)
(* the stage is finished, so that the adapters can be compared; not when   *)
(* rotation has removed the first epoch, nor when the run was killed       *)
(* between the two saves of one step.                                      *)
(***************************************************************************)
EpochsAreComparable ==
  stage = "d3" /\ final = "whole" =>
    \A epoch \in {1, 2} :
      \/ Measured(epoch)
      \/ checkpoints[epoch * StepsPerEpoch].state = "missing"
      \/ SavedTwice(epoch * StepsPerEpoch) /\ trainKills > 0

\* What a stage has earned stays: its progress, and the comparison of its epochs.
StageIsKept == ProgressIsKept /\ EpochsAreComparable
=================================================================================
