----------------------------- MODULE TrainingRun -----------------------------
(***************************************************************************)
(* A training run of ml-loop from its first launch to its last iteration:  *)
(* the trainer's ranks (RLTrainer._run and run in phi_agents/rl/train.py), *)
(* rank 0's manifest store and checkpoint uploader, the launcher that      *)
(* starts the trainer again after it went down, and crashes.               *)
(*                                                                         *)
(* The ranks are modelled on one node: a crash, like the launcher's        *)
(* cleanup, ends all of the trainer's processes, the uploader included.    *)
(***************************************************************************)
EXTENDS IterationManifest, CloudCheckpointer

VARIABLES
  job,          \* the trainer as its launcher sees it
  launches,     \* how often it was started
  batch,        \* iteration whose scenarios the sampler yields next
  pc,           \* where each rank is in _run
  completed,    \* _iterations_completed, the same number on every rank
  active,       \* rank 0's _active_iteration_manifest (0 stands for None)
  reporting,    \* iteration of rank 0's _iteration_metrics (0 stands for None)
  attempt,      \* attempt number begin computed, not yet written
  metrics,      \* training_metrics/iteration-N.json: its status
  diagnostics   \* rollout_diagnostics/iteration-N.json exists

launchVars == <<job, launches>>
rankVars == <<completed, active, reporting, attempt>>
reportVars == <<metrics, diagnostics>>
vars == <<manifestVars, checkpointVars, launchVars, batch, pc, rankVars, reportVars>>

JobStates == {"down", "artifacts", "up", "finished"}

PCs == {"off", "start", "top", "archive", "archive_delete", "write", "rollouts",
        "commit", "commit_barrier", "assert", "diagnostics", "train", "step_end",
        "step_barrier", "save_lora", "save_rank", "rank_saved", "save_state",
        "state_barrier", "on_save", "saved", "metrics", "tail", "stop", "exited",
        "abort", "fail_metrics", "stop_failed"}

TypeOK ==
  /\ ManifestTypeOK
  /\ CheckpointTypeOK
  /\ job \in JobStates
  /\ launches \in 0 .. MaxLaunches
  /\ batch \in Nat
  /\ pc \in [Ranks -> PCs]
  /\ completed \in 0 .. TotalIterations
  /\ active \in 0 .. TotalIterations
  /\ reporting \in 0 .. TotalIterations
  /\ attempt \in Nat
  /\ metrics \in [Iterations -> {"none", "failed", "completed"}]
  /\ diagnostics \in [Iterations -> BOOLEAN]

Off == [r \in Ranks |-> "off"]

Init ==
  /\ ManifestInit
  /\ CheckpointInit
  /\ job = "down"
  /\ launches = 0
  /\ batch = 1
  /\ pc = Off
  /\ completed = 0
  /\ active = 0
  /\ reporting = 0
  /\ attempt = 0
  /\ metrics = [n \in Iterations |-> "none"]
  /\ diagnostics = [n \in Iterations |-> FALSE]

Goto(r, place) == pc' = [pc EXCEPT ![r] = place]
All(place) == \A r \in Ranks : pc[r] = place
\* A collective or a barrier: no rank leaves before every rank has arrived.
Collective(from, leadNext, othersNext) ==
  /\ All(from)
  /\ pc' = [r \in Ranks |-> IF r = Lead THEN leadNext ELSE othersNext]

\* _target_iteration
Target == completed + 1

-----------------------------------------------------------------------------
(* The launcher.                                                           *)

\* Mutant of the checkpoint quarantine: incomplete checkpoints stay in place.
QuarantineNothing == UNCHANGED cloud

\* train_sft_loop15_rtxpro6000.sh moves checkpoints without done.txt away.
QuarantineIncomplete ==
  cloud' = [n \in Iterations |-> IF cloud[n].done THEN cloud[n] ELSE Absent]

CanLaunch == job = "down" /\ launches < MaxLaunches

\* The outer launcher demands a contiguous prefix of checkpoints and starts at
\* the next iteration.  It also looks into each checkpoint for the adapter and
\* trainer_state.pt; nothing it is started on here lacks them (it never prunes).
LaunchOuter ==
  /\ OuterLauncher
  /\ CanLaunch
  /\ \E k \in 0 .. TotalIterations - 1 :
       /\ DoneCheckpoints = 1 .. k
       /\ batch' = k + 1
  /\ QuarantineIncomplete
  /\ job' = "artifacts"
  /\ launches' = launches + 1
  /\ UNCHANGED <<manifestVars, local, uploader, uploadRunning, startEvent, doneEvent,
                 pc, rankVars, reportVars>>

\* Its second step: the reports of the unfinished iteration are moved away.
QuarantineArtifacts ==
  /\ job = "artifacts"
  /\ metrics' = [metrics EXCEPT ![batch] = "none"]
  /\ diagnostics' = [diagnostics EXCEPT ![batch] = FALSE]
  /\ job' = "up"
  /\ pc' = [r \in Ranks |-> "start"]
  /\ UNCHANGED <<manifestVars, checkpointVars, launches, batch, rankVars>>

\* ... and it has nothing to do once the last checkpoint is there.
LaunchComplete ==
  /\ OuterLauncher
  /\ CanLaunch
  /\ DoneCheckpoints = Iterations
  /\ job' = "finished"
  /\ launches' = launches + 1
  /\ UNCHANGED <<manifestVars, checkpointVars, batch, pc, rankVars, reportVars>>

\* train_stage2_guarded_rtxpro6000.sh (or an operator) starts the trainer again
\* with the arguments of the first launch and leaves the run directory as it is.
LaunchGuarded ==
  /\ ~OuterLauncher
  /\ CanLaunch
  /\ batch' = 1
  /\ job' = "up"
  /\ pc' = [r \in Ranks |-> "start"]
  /\ launches' = launches + 1
  /\ UNCHANGED <<manifestVars, checkpointVars, rankVars, reportVars>>

LaunchStep == LaunchOuter \/ QuarantineArtifacts \/ LaunchComplete \/ LaunchGuarded

-----------------------------------------------------------------------------
(* Start-up: every rank loads the last complete checkpoint, if any, from the *)
(* copy rank 0 makes of it in the local directory.                           *)

\* Mutant of Resume: takes any complete checkpoint for the last one.
ResumeFromAny ==
  /\ Collective("start", "top", "top")
  /\ \/ /\ DoneCheckpoints = {}
        /\ completed' = 0
        /\ UNCHANGED local
     \/ \E d \in DoneCheckpoints :
        /\ completed' = d
        /\ local' = [local EXCEPT ![d] = Parts]
  /\ UNCHANGED <<manifestVars, cloud, uploader, uploadRunning, startEvent, doneEvent,
                 launchVars, batch, active, reporting, attempt, reportVars>>

Resume ==
  /\ Collective("start", "top", "top")
  /\ \/ /\ DoneCheckpoints = {}
        /\ completed' = 0
        /\ UNCHANGED local
     \/ \E d \in DoneCheckpoints :
        /\ IsLastDone(d)
        /\ completed' = d
        /\ local' = [local EXCEPT ![d] = Parts]
  /\ UNCHANGED <<manifestVars, cloud, uploader, uploadRunning, startEvent, doneEvent,
                 launchVars, batch, active, reporting, attempt, reportVars>>

-----------------------------------------------------------------------------
(* The two-phase gate of an iteration's rollout batch.                     *)

\* Rank 0 opens its metric accumulator, reads the manifest of the target
\* iteration for the next attempt number, and archives it where needed.
BeginIteration ==
  /\ pc[Lead] = "top"
  /\ completed < TotalIterations
  /\ reporting' = Target
  /\ attempt' = NextAttempt(Target)
  /\ Goto(Lead, IF MustArchive(Target, cloud[Target].done) THEN "archive" ELSE "write")
  /\ UNCHANGED <<manifestVars, checkpointVars, launchVars, batch, completed, active,
                 reportVars>>

ArchiveManifest ==
  /\ pc[Lead] = "archive"
  /\ ArchiveCopy(Target)
  /\ Goto(Lead, "archive_delete")
  /\ UNCHANGED <<checkpointVars, launchVars, batch, rankVars, reportVars>>

DeleteArchived ==
  /\ pc[Lead] = "archive_delete"
  /\ ArchiveDelete(Target)
  /\ Goto(Lead, "write")
  /\ UNCHANGED <<checkpointVars, launchVars, batch, rankVars, reportVars>>

WriteManifest ==
  /\ pc[Lead] = "write"
  /\ WritePending(Target, attempt)
  /\ active' = Target
  /\ Goto(Lead, "rollouts")
  /\ UNCHANGED <<checkpointVars, launchVars, batch, completed, reporting, attempt,
                 reportVars>>

\* The other ranks have no manifest to begin.
EnterIteration(r) ==
  /\ r # Lead
  /\ pc[r] = "top"
  /\ completed < TotalIterations
  /\ Goto(r, "rollouts")
  /\ UNCHANGED <<manifestVars, checkpointVars, launchVars, batch, rankVars, reportVars>>

\* get_rollouts ends in an all-reduce and a barrier of all ranks.
CollectRollouts ==
  /\ Collective("rollouts", "commit", "commit_barrier")
  /\ batch' = batch + 1
  /\ UNCHANGED <<manifestVars, checkpointVars, launchVars, rankVars, reportVars>>

CommitManifest ==
  /\ pc[Lead] = "commit"
  /\ WriteCommitted(Target)
  /\ Goto(Lead, "commit_barrier")
  /\ UNCHANGED <<checkpointVars, launchVars, batch, rankVars, reportVars>>

CommitBarrier ==
  /\ Collective("commit_barrier", "assert", "assert")
  /\ UNCHANGED <<manifestVars, checkpointVars, launchVars, batch, rankVars, reportVars>>

\* assert_committed.  A rank that finds another status raises: rank 0 by
\* Interrupt, another rank by Crash.
AssertCommitted(r) ==
  /\ pc[r] = "assert"
  /\ IsCommitted(Target)
  /\ Goto(r, IF r = Lead THEN "diagnostics" ELSE "train")
  /\ UNCHANGED <<manifestVars, checkpointVars, launchVars, batch, rankVars, reportVars>>

\* _persist_rollout_diagnostics: rank 0 writes the report of the batch ...
PersistDiagnostics ==
  /\ pc[Lead] = "diagnostics"
  /\ Diagnostics => ~diagnostics[Target]
  /\ diagnostics' = [diagnostics EXCEPT ![Target] = Diagnostics]
  /\ Goto(Lead, "train")
  /\ UNCHANGED <<manifestVars, checkpointVars, launchVars, batch, rankVars, metrics>>

\* ... and raises FileExistsError where an earlier attempt has left one.
RefuseDiagnostics ==
  /\ pc[Lead] = "diagnostics"
  /\ Diagnostics /\ diagnostics[Target]
  /\ Goto(Lead, "abort")
  /\ UNCHANGED <<manifestVars, checkpointVars, launchVars, batch, rankVars, reportVars>>

-----------------------------------------------------------------------------
(* Gradient steps, local checkpoint, upload.                               *)

\* Filtering and gradient steps: a sequence of collectives.
Train ==
  /\ Collective("train", "step_end", "step_end")
  /\ UNCHANGED <<manifestVars, checkpointVars, launchVars, batch, rankVars, reportVars>>

\* Mutant of StepEnd: on_step_end does not wait for the running upload.
StepEndNoSync(r) ==
  /\ pc[r] = "step_end"
  /\ UNCHANGED checkpointVars
  /\ Goto(r, "step_barrier")
  /\ UNCHANGED <<manifestVars, launchVars, batch, rankVars, reportVars>>

\* on_step_end: rank 0 waits for the upload of the previous iteration; on the
\* others no upload is ever running.
StepEnd(r) ==
  /\ pc[r] = "step_end"
  /\ IF r = Lead THEN Sync ELSE UNCHANGED checkpointVars
  /\ Goto(r, "step_barrier")
  /\ UNCHANGED <<manifestVars, launchVars, batch, rankVars, reportVars>>

\* ... then all meet, and the iteration counts as completed.
StepBarrier ==
  /\ Collective("step_barrier", "save_lora", "save_lora")
  /\ completed' = completed + 1
  /\ UNCHANGED <<manifestVars, checkpointVars, launchVars, batch, active, reporting,
                 attempt, reportVars>>

SaveLora ==
  /\ Collective("save_lora", "save_rank", "save_rank")
  /\ SaveLocal(completed, "lora")
  /\ UNCHANGED <<manifestVars, launchVars, batch, rankVars, reportVars>>

SaveRankState(r) ==
  /\ pc[r] = "save_rank"
  /\ SaveLocal(completed, r)
  /\ Goto(r, "rank_saved")
  /\ UNCHANGED <<manifestVars, launchVars, batch, rankVars, reportVars>>

RankStatesSaved ==
  /\ Collective("rank_saved", "save_state", "state_barrier")
  /\ UNCHANGED <<manifestVars, checkpointVars, launchVars, batch, rankVars, reportVars>>

SaveTrainerState ==
  /\ pc[Lead] = "save_state"
  /\ SaveLocal(completed, "trainer_state")
  /\ Goto(Lead, "state_barrier")
  /\ UNCHANGED <<manifestVars, launchVars, batch, rankVars, reportVars>>

\* The barriers at the end of _save_lora_checkpoint and the start of on_save.
StateSaved ==
  /\ Collective("state_barrier", "on_save", "top")
  /\ UNCHANGED <<manifestVars, checkpointVars, launchVars, batch, rankVars, reportVars>>

StartUpload ==
  /\ pc[Lead] = "on_save"
  /\ OnSave
  /\ Goto(Lead, "saved")
  /\ UNCHANGED <<manifestVars, launchVars, batch, rankVars, reportVars>>

CloseManifest ==
  /\ pc[Lead] = "saved"
  /\ active' = 0
  /\ Goto(Lead, "metrics")
  /\ UNCHANGED <<manifestVars, checkpointVars, launchVars, batch, completed, reporting,
                 attempt, reportVars>>

PersistMetrics ==
  /\ pc[Lead] = "metrics"
  /\ metrics' = [metrics EXCEPT ![reporting] = "completed"]
  /\ Goto(Lead, "tail")
  /\ UNCHANGED <<manifestVars, checkpointVars, launchVars, batch, rankVars, diagnostics>>

\* The rest of the iteration: memory is freed, new rollouts are requested.
EndIteration ==
  /\ pc[Lead] = "tail"
  /\ reporting' = 0
  /\ Goto(Lead, "top")
  /\ UNCHANGED <<manifestVars, checkpointVars, launchVars, batch, completed, active,
                 attempt, reportVars>>

-----------------------------------------------------------------------------
(* The end of a run.                                                       *)

LeaveLoop(r) ==
  /\ pc[r] = "top"
  /\ completed = TotalIterations
  /\ Goto(r, IF r = Lead THEN "stop" ELSE "exited")
  /\ UNCHANGED <<manifestVars, checkpointVars, launchVars, batch, rankVars, reportVars>>

ResetRanks ==
  /\ pc' = Off
  /\ completed' = 0
  /\ active' = 0
  /\ reporting' = 0
  /\ attempt' = 0

Finish ==
  /\ pc[Lead] = "stop"
  /\ \A r \in Ranks \ {Lead} : pc[r] = "exited"
  /\ Stop
  /\ ResetRanks
  /\ job' = "finished"
  /\ UNCHANGED <<manifestVars, launches, batch, reportVars>>

\* Where rank 0 is inside the try of run() and past its start-up.  (A failure
\* before the first iteration leaves nothing to record: see Crash.)
Interruptible == PCs \ {"off", "start", "stop", "exited", "abort", "fail_metrics",
                        "stop_failed"}

\* An exception or a KeyboardInterrupt reaches rank 0.
Interrupt ==
  /\ launches <= FaultyLaunches
  /\ pc[Lead] \in Interruptible
  /\ Goto(Lead, "abort")
  /\ UNCHANGED <<manifestVars, checkpointVars, launchVars, batch, rankVars, reportVars>>

\* _abort_active_iteration_manifest
AbortManifest ==
  /\ pc[Lead] = "abort"
  /\ IF active = 0 THEN UNCHANGED manifestVars ELSE WriteAborted(active)
  /\ Goto(Lead, "fail_metrics")
  /\ UNCHANGED <<checkpointVars, launchVars, batch, rankVars, reportVars>>

\* Mutant of PersistFailedMetrics: an unknown status is recorded.
PersistFailedMetricsAsAborted ==
  /\ pc[Lead] = "fail_metrics"
  /\ metrics' = IF reporting = 0 \/ metrics[reporting] = "completed" THEN metrics
                ELSE [metrics EXCEPT ![reporting] = "aborted"]
  /\ Goto(Lead, "stop_failed")
  /\ UNCHANGED <<manifestVars, checkpointVars, launchVars, batch, rankVars, diagnostics>>

\* Mutant of PersistFailedMetrics: a completed report is overwritten.
PersistFailedMetricsAlways ==
  /\ pc[Lead] = "fail_metrics"
  /\ metrics' = IF reporting = 0 THEN metrics
                ELSE [metrics EXCEPT ![reporting] = "failed"]
  /\ Goto(Lead, "stop_failed")
  /\ UNCHANGED <<manifestVars, checkpointVars, launchVars, batch, rankVars, diagnostics>>

\* _persist_failed_iteration_metrics: a completed report stays, the failure goes
\* to an audit file of its own.
PersistFailedMetrics ==
  /\ pc[Lead] = "fail_metrics"
  /\ metrics' = IF reporting = 0 \/ metrics[reporting] = "completed" THEN metrics
                ELSE [metrics EXCEPT ![reporting] = "failed"]
  /\ Goto(Lead, "stop_failed")
  /\ UNCHANGED <<manifestVars, checkpointVars, launchVars, batch, rankVars, diagnostics>>

\* The finally clause: the running upload is waited for, then rank 0 exits and
\* the launcher ends the other ranks.
StopFailed ==
  /\ pc[Lead] = "stop_failed"
  /\ Stop
  /\ ResetRanks
  /\ job' = "down"
  /\ UNCHANGED <<manifestVars, launches, batch, reportVars>>

\* The processes are killed, or another rank fails and takes them down.
Crash ==
  /\ launches <= FaultyLaunches
  /\ job \in {"up", "artifacts"}
  /\ LoseVolatile
  /\ ResetRanks
  /\ job' = "down"
  /\ UNCHANGED <<manifestVars, cloud, launches, batch, reportVars>>

-----------------------------------------------------------------------------

UploaderRuns ==
  /\ UploaderStep
  /\ UNCHANGED <<manifestVars, launchVars, batch, pc, rankVars, reportVars>>

RankStep(r) ==
  \/ EnterIteration(r)
  \/ AssertCommitted(r)
  \/ StepEnd(r)
  \/ SaveRankState(r)
  \/ LeaveLoop(r)

TrainerStep ==
  \/ Resume
  \/ BeginIteration
  \/ ArchiveManifest
  \/ DeleteArchived
  \/ WriteManifest
  \/ CollectRollouts
  \/ CommitManifest
  \/ CommitBarrier
  \/ PersistDiagnostics
  \/ RefuseDiagnostics
  \/ Train
  \/ StepBarrier
  \/ SaveLora
  \/ RankStatesSaved
  \/ SaveTrainerState
  \/ StateSaved
  \/ StartUpload
  \/ CloseManifest
  \/ PersistMetrics
  \/ EndIteration
  \/ Finish
  \/ AbortManifest
  \/ PersistFailedMetrics
  \/ StopFailed
  \/ \E r \in Ranks : RankStep(r)

Failure == Interrupt \/ Crash

Next == LaunchStep \/ TrainerStep \/ UploaderRuns \/ Failure

\* A running process runs on; nobody promises to launch the trainer again.
ProcessFairness == WF_vars(TrainerStep) /\ WF_vars(UploaderRuns)
LaunchFairness == WF_vars(LaunchStep)

Safety == Init /\ [][Next]_vars
Spec == Safety /\ ProcessFairness
OperatedSpec == Spec /\ LaunchFairness

-----------------------------------------------------------------------------
(* Safety.                                                                 *)

\* The checkpoint a restart loads (get_last_checkpoint) holds the adapter, the
\* trainer state and every rank's optimizer state: a rank whose file is missing
\* would silently go on with a fresh optimizer (_load_rank_training_state).
ResumeIntegrity ==
  \A n \in Iterations : IsLastDone(n) => cloud[n].files = "whole"

\* Iteration k or a later one can be resumed from.
DurableAtLeast(k) == k = 0 \/ \E d \in DoneCheckpoints : d >= k

\* An interruption costs at most one iteration that was reported as completed:
\* wherever training_metrics says completed, the iteration before is durable,
\* although the report is written while the upload is still under way.
BoundedLoss ==
  \A n \in Iterations : metrics[n] = "completed" => DurableAtLeast(n - 1)

\* A complete checkpoint has the manifest of the batch it was trained on, never
\* a pending one or none: no later attempt has touched it (begin of a retry and
\* the uploader of the attempt before do not meet).
DoneHasBatch ==
  \A n \in DoneCheckpoints : manifests[n].status \in {"committed", "aborted"}

\* Under the outer launcher no retry is refused because of what an attempt before
\* it left in rollout_diagnostics: the launcher's "clear the canonical paths
\* before a real retry" (train_sft_loop15_rtxpro6000.sh).
RetryIsNotRefused ==
  OuterLauncher /\ pc[Lead] = "diagnostics" => ~diagnostics[Target]

\* Under the outer launcher every iteration is trained on its own scenario batch
\* (ManifestAppWorldScenarioSampler: "a run resumed from checkpoint-N starts with
\* manifest iteration N + 1"), whatever the launches before left behind.
ScenarioBatchAligned ==
  All("rollouts") => batch = Target

-----------------------------------------------------------------------------
(* What a step may never do.                                               *)

\* A manifest is replaced by one of another attempt, or removed, only when its
\* last version is in the history: no attempt's record is lost to a crash between
\* the accesses of _archive_existing and _write.
ArchivedBeforeReplaced ==
  \A n \in Iterations :
    HasManifest(n) /\ manifests'[n].attempt # manifests[n].attempt
      => ArchiveRecord(n) \in history'
HistoryIsLossless == [][ArchivedBeforeReplaced]_vars

\* A report of a completed iteration never turns into one of a failed iteration
\* (write_iteration_metric_report; test_rl_training_observability.py).
CompletedNotDowngraded ==
  \A n \in Iterations : metrics[n] = "completed" => metrics'[n] # "failed"
CompletedStaysCompleted == [][CompletedNotDowngraded]_vars

-----------------------------------------------------------------------------
(* Liveness.                                                               *)

\* A started trainer comes to an end: it finishes or goes down, so that the
\* launcher can act.  In particular sync() does not wait for ever.
RunEnds == job = "up" ~> job # "up"

\* With a launcher that starts the trainer again, training completes.
TrainingCompletes == <>(job = "finished")

-----------------------------------------------------------------------------
(* Refinement.                                                             *)

\* The iteration a restart would find.
LastDone == CHOOSE k \in 0 .. TotalIterations :
  IF DoneCheckpoints = {} THEN k = 0 ELSE IsLastDone(k)

\* A trainer that is down, or has not resumed yet, is where its durable state is.
Trained == IF job = "up" /\ pc[Lead] # "start" THEN completed ELSE LastDone

Durable == INSTANCE DurableTraining WITH durable <- LastDone, trained <- Trained
\* However it is interrupted, the run makes progress as DurableTraining says: no
\* durable iteration is lost (by pruning least of all), and training is never
\* more than one iteration ahead of what is durable.
ImplementsDurableTraining == Durable!Spec
=============================================================================
