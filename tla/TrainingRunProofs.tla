-------------------------- MODULE TrainingRunProofs --------------------------
(***************************************************************************)
(* Proofs about TrainingRun for every number of iterations and ranks, every *)
(* max_ckpts and every bound on launches.                                  *)
(***************************************************************************)
EXTENDS TrainingRunInvariant, TLAPS, FiniteSetTheorems

\* The initial state satisfies every part of the invariant.
LEMMA InitIInv == Init => IInv
<1> SUFFICES ASSUME Init PROVE IInv
  OBVIOUS
<1> USE ConfigAssumption DEF Init, ManifestInit, CheckpointInit, Off
<1>1. TypeOK
  <2>1. ManifestTypeOK
    BY DEF ManifestTypeOK
  <2>2. Absent \in Checkpoint /\ NoUploader \in Uploader
    BY DEF Absent, Checkpoint, NoUploader, Uploader
  <2>3. CheckpointTypeOK
    BY <2>2 DEF CheckpointTypeOK, NoLocal
  <2>4. QED
    BY <2>1, <2>3 DEF TypeOK, JobStates, PCs
<1>2. DoneCheckpoints = {} /\ \A n \in Iterations : ~Existing(n)
  BY DEF DoneCheckpoints, Existing, Absent
<1>3. Lifecycle
  BY DEF Lifecycle, Resumed, VolatileReset, All
<1>4. Counting /\ ManifestGate
  BY DEF Counting, ManifestGate, GatePCs, SavePCs, SavedPCs
<1>5. LocalCheckpoint /\ UploadProtocol
  BY DEF LocalCheckpoint, UploadProtocol, NoLocal, NoUploader, SavePCs, GatePCs
<1>6. Directory /\ Durability
  BY <1>2 DEF Directory, Durability, Resumed, NoUploader, SavePCs, GatePCs, SavedPCs
<1>7. ResumeIntegrity /\ BoundedLoss /\ DoneHasBatch
  BY <1>2 DEF ResumeIntegrity, BoundedLoss, DoneHasBatch, IsLastDone
<1> QED
  BY <1>1, <1>3, <1>4, <1>5, <1>6, <1>7 DEF IInv

-----------------------------------------------------------------------------
(* Most steps of the trainer touch neither the checkpoints nor the count of *)
(* completed iterations: they move rank 0 (or another rank) on and write    *)
(* manifests and reports.                                                  *)

QuietStep ==
  \/ BeginIteration \/ ArchiveManifest \/ DeleteArchived \/ WriteManifest
  \/ CollectRollouts \/ CommitManifest \/ CommitBarrier
  \/ PersistDiagnostics \/ RefuseDiagnostics \/ Train
  \/ RankStatesSaved \/ StateSaved
  \/ CloseManifest \/ PersistMetrics \/ EndIteration
  \/ AbortManifest \/ PersistFailedMetrics \/ Interrupt
  \/ \E r \in Ranks : EnterIteration(r) \/ AssertCommitted(r) \/ LeaveLoop(r)

\* The places rank 0 moves between in them.
QuietMove(p, q) ==
  \/ q = p
  \/ p = "top" /\ q \in {"archive", "write", "stop"}
  \/ p = "archive" /\ q = "archive_delete"
  \/ p = "archive_delete" /\ q = "write"
  \/ p = "write" /\ q = "rollouts"
  \/ p = "rollouts" /\ q = "commit"
  \/ p = "commit" /\ q = "commit_barrier"
  \/ p = "commit_barrier" /\ q = "assert"
  \/ p = "assert" /\ q = "diagnostics"
  \/ p = "diagnostics" /\ q = "train"
  \/ p = "train" /\ q = "step_end"
  \/ p = "rank_saved" /\ q = "save_state" /\ All("rank_saved")
  \/ p = "state_barrier" /\ q = "on_save"
  \/ p = "saved" /\ q = "metrics"
  \/ p = "metrics" /\ q = "tail"
  \/ p = "tail" /\ q = "top"
  \/ p \in Interruptible /\ q = "abort"
  \/ p = "abort" /\ q = "fail_metrics"
  \/ p = "fail_metrics" /\ q = "stop_failed"

LEMMA QuietSteps ==
  ASSUME TypeOK, QuietStep
  PROVE  /\ UNCHANGED <<checkpointVars, job, completed>>
         /\ QuietMove(pc[Lead], pc'[Lead])
         /\ \A r \in Ranks : pc'[r] = "rank_saved" => pc[r] = "rank_saved"
         /\ pc[Lead] \in {"off", "start"} /\ All(pc[Lead]) => pc' = pc
<1> USE ConfigAssumption DEF TypeOK, Goto, Collective, All, launchVars, rankVars, QuietMove
<1>1. CASE BeginIteration \/ ArchiveManifest \/ DeleteArchived \/ WriteManifest
  BY <1>1 DEF BeginIteration, ArchiveManifest, DeleteArchived, WriteManifest
<1>2. CASE CollectRollouts \/ CommitManifest \/ CommitBarrier
  BY <1>2 DEF CollectRollouts, CommitManifest, CommitBarrier
<1>3. CASE PersistDiagnostics \/ RefuseDiagnostics \/ Train
  BY <1>3 DEF PersistDiagnostics, RefuseDiagnostics, Train, Interruptible, PCs
<1>4. CASE RankStatesSaved \/ StateSaved
  BY <1>4 DEF RankStatesSaved, StateSaved
<1>5. CASE CloseManifest \/ PersistMetrics \/ EndIteration
  BY <1>5 DEF CloseManifest, PersistMetrics, EndIteration
<1>6. CASE AbortManifest \/ PersistFailedMetrics \/ Interrupt
  BY <1>6 DEF AbortManifest, PersistFailedMetrics, Interrupt, Interruptible, PCs
<1>7. CASE \E r \in Ranks : EnterIteration(r) \/ AssertCommitted(r) \/ LeaveLoop(r)
  BY <1>7 DEF EnterIteration, AssertCommitted, LeaveLoop
<1> QED
  BY <1>1, <1>2, <1>3, <1>4, <1>5, <1>6, <1>7 DEF QuietStep

\* Every step is a quiet one or one of these.
LEMMA Steps ==
  ASSUME [Next]_vars
  PROVE  \/ QuietStep
         \/ LaunchOuter \/ QuarantineArtifacts \/ LaunchComplete \/ LaunchGuarded
         \/ Resume
         \/ \E r \in Ranks : StepEnd(r)
         \/ StepBarrier
         \/ SaveLora
         \/ \E r \in Ranks : SaveRankState(r)
         \/ SaveTrainerState
         \/ StartUpload
         \/ Finish \/ StopFailed \/ Crash
         \/ UploaderRuns
         \/ UNCHANGED vars
BY DEF Next, LaunchStep, TrainerStep, RankStep, Failure, QuietStep

-----------------------------------------------------------------------------

LEMMA LifecycleInductive == IInv /\ [Next]_vars => Lifecycle'
<1> SUFFICES ASSUME IInv, [Next]_vars PROVE Lifecycle'
  OBVIOUS
<1>1. TypeOK /\ Lifecycle /\ Lead \in Ranks
  BY ConfigAssumption DEF IInv
<1> USE <1>1 DEF Lifecycle, Resumed, VolatileReset, All
<1>2. CASE QuietStep
  BY <1>2, QuietSteps DEF QuietMove, Interruptible, PCs, checkpointVars
<1>3. CASE LaunchOuter \/ QuarantineArtifacts \/ LaunchComplete \/ LaunchGuarded
  BY <1>3 DEF LaunchOuter, QuarantineArtifacts, LaunchComplete, LaunchGuarded, CanLaunch,
              checkpointVars, rankVars
<1>4. CASE Resume
  BY <1>4 DEF Resume, Collective, All, launchVars
<1>5. CASE (\E r \in Ranks : StepEnd(r) \/ SaveRankState(r)) \/ SaveTrainerState \/ StartUpload
  BY <1>5 DEF StepEnd, SaveRankState, SaveTrainerState, StartUpload, Goto, TypeOK, launchVars,
              checkpointVars, rankVars
<1>6. CASE StepBarrier \/ SaveLora
  BY <1>6 DEF StepBarrier, SaveLora, Collective, All, launchVars
<1>7. CASE Finish \/ StopFailed \/ Crash
  BY <1>7 DEF Finish, StopFailed, Crash, Stop, LoseVolatile, ResetRanks, Off
<1>8. CASE UploaderRuns
  BY <1>8 DEF UploaderRuns, UploaderStep, UploadStart, UploadCopied, UploadMark, PruneTear,
              PruneRemove, UploadDone, NoUploader, launchVars, rankVars
<1>9. CASE UNCHANGED vars
  BY <1>9 DEF vars, checkpointVars, launchVars, rankVars
<1> QED
  BY <1>2, <1>3, <1>4, <1>5, <1>6, <1>7, <1>8, <1>9, Steps

LEMMA CountingInductive == IInv /\ [Next]_vars => Counting'
<1> SUFFICES ASSUME IInv, [Next]_vars PROVE Counting'
  OBVIOUS
<1>1. TypeOK /\ Lifecycle /\ Counting /\ Lead \in Ranks
  BY ConfigAssumption DEF IInv
<1> USE <1>1, ConfigAssumption
    DEF TypeOK, Counting, GatePCs, SavePCs, SavedPCs, Goto, Collective, All, launchVars, rankVars
<1>2. CASE QuietStep
  <2>1. CASE BeginIteration \/ ArchiveManifest \/ DeleteArchived \/ WriteManifest
    BY <2>1 DEF BeginIteration, ArchiveManifest, DeleteArchived, WriteManifest, Target
  <2>2. CASE CollectRollouts \/ CommitManifest \/ CommitBarrier
    BY <2>2 DEF CollectRollouts, CommitManifest, CommitBarrier
  <2>3. CASE PersistDiagnostics \/ RefuseDiagnostics \/ Train
    BY <2>3 DEF PersistDiagnostics, RefuseDiagnostics, Train
  <2>4. CASE RankStatesSaved \/ StateSaved
    BY <2>4 DEF RankStatesSaved, StateSaved
  <2>5. CASE CloseManifest \/ PersistMetrics \/ EndIteration
    BY <2>5 DEF CloseManifest, PersistMetrics, EndIteration
  <2>6. CASE AbortManifest \/ PersistFailedMetrics \/ Interrupt
    BY <2>6 DEF AbortManifest, PersistFailedMetrics, Interrupt
  <2>7. CASE \E r \in Ranks : EnterIteration(r) \/ AssertCommitted(r) \/ LeaveLoop(r)
    BY <2>7 DEF EnterIteration, AssertCommitted, LeaveLoop
  <2> QED
    BY <1>2, <2>1, <2>2, <2>3, <2>4, <2>5, <2>6, <2>7 DEF QuietStep
<1>3. CASE LaunchOuter \/ QuarantineArtifacts \/ LaunchComplete \/ LaunchGuarded
  BY <1>3 DEF LaunchOuter, QuarantineArtifacts, LaunchComplete, LaunchGuarded
<1>4. CASE Resume
  BY <1>4 DEF Resume
<1>5. CASE (\E r \in Ranks : StepEnd(r) \/ SaveRankState(r)) \/ SaveTrainerState \/ StartUpload
  BY <1>5 DEF StepEnd, SaveRankState, SaveTrainerState, StartUpload
<1>6. CASE StepBarrier \/ SaveLora
  BY <1>6 DEF StepBarrier, SaveLora
<1>7. CASE Finish \/ StopFailed \/ Crash
  BY <1>7 DEF Finish, StopFailed, Crash, ResetRanks, Off
<1>8. CASE UploaderRuns
  BY <1>8 DEF UploaderRuns
<1>9. CASE UNCHANGED vars
  BY <1>9 DEF vars
<1> QED
  BY <1>2, <1>3, <1>4, <1>5, <1>6, <1>7, <1>8, <1>9, Steps

\* A checkpoint of the iteration being begun is never complete: what begin would
\* overwrite without archiving it does not exist.
LEMMA TargetNotDone == IInv /\ Resumed => Target \notin DoneCheckpoints
BY DEF IInv, Directory, Target, TypeOK

LEMMA ManifestGateInductive == IInv /\ [Next]_vars => ManifestGate'
<1> SUFFICES ASSUME IInv, [Next]_vars PROVE ManifestGate'
  OBVIOUS
<1>1. TypeOK /\ Lifecycle /\ Counting /\ ManifestGate /\ Lead \in Ranks
  BY ConfigAssumption DEF IInv
<1> USE <1>1, ConfigAssumption
    DEF TypeOK, ManifestGate, SavePCs, Goto, Collective, All, Target,
        launchVars, rankVars, manifestVars, checkpointVars, HasManifest, IsCommitted, ArchiveRecord
<1>2. CASE QuietStep
  <2>1. CASE BeginIteration
    <3>1. Target \in Iterations /\ ~cloud[Target].done
      BY <2>1, TargetNotDone DEF BeginIteration, Iterations, Lifecycle, Resumed, DoneCheckpoints
    <3>2. manifests[Target].attempt \in Nat
      BY <3>1 DEF ManifestTypeOK, Manifest, NoManifest
    <3>3. MustArchive(Target, cloud[Target].done) <=> HasManifest(Target)
      BY <3>1 DEF MustArchive
    <3>4. /\ pc'[Lead] = IF HasManifest(Target) THEN "archive" ELSE "write"
          /\ UNCHANGED <<manifests, history, completed, uploadRunning>>
      BY <2>1, <3>3 DEF BeginIteration
    <3>5. attempt' > 0
      BY <2>1, <3>2 DEF BeginIteration, NextAttempt
    <3>6. QED
      BY <3>4, <3>5
  <2>2. CASE ArchiveManifest \/ DeleteArchived \/ WriteManifest
    <3>1. Target \in Iterations /\ Target # completed
      BY <2>2 DEF ArchiveManifest, DeleteArchived, WriteManifest, Counting, GatePCs, Iterations
    <3>2. CASE ArchiveManifest
      BY <3>2 DEF ArchiveManifest, ArchiveCopy
    <3>3. CASE DeleteArchived
      BY <3>1, <3>3 DEF DeleteArchived, ArchiveDelete, ManifestTypeOK
    <3>4. CASE WriteManifest
      BY <3>1, <3>4 DEF WriteManifest, WritePending, Write, ManifestTypeOK
    <3>5. QED
      BY <2>2, <3>2, <3>3, <3>4
  <2>3. CASE CollectRollouts \/ CommitManifest \/ CommitBarrier
    <3>1. CASE CommitManifest
      <4>1. Target # completed
        OBVIOUS
      <4>2. UNCHANGED <<uploadRunning, completed>> /\ pc'[Lead] = "commit_barrier"
        BY <3>1 DEF CommitManifest
      <4>3. \A n \in Iterations : n # Target => manifests'[n] = manifests[n]
        BY <3>1 DEF CommitManifest, WriteCommitted, Write, ManifestTypeOK
      <4>4. uploadRunning => completed \in Iterations
        BY DEF IInv, LocalCheckpoint, Iterations
      <4>5. QED
        BY <4>1, <4>2, <4>3, <4>4
    <3>2. QED
      BY <2>3, <3>1 DEF CollectRollouts, CommitBarrier
  <2>4. CASE PersistDiagnostics \/ RefuseDiagnostics \/ Train
    BY <2>4 DEF PersistDiagnostics, RefuseDiagnostics, Train
  <2>5. CASE RankStatesSaved \/ StateSaved
    BY <2>5 DEF RankStatesSaved, StateSaved
  <2>6. CASE CloseManifest \/ PersistMetrics \/ EndIteration
    BY <2>6 DEF CloseManifest, PersistMetrics, EndIteration
  <2>7. CASE AbortManifest \/ PersistFailedMetrics \/ Interrupt
    <3>1. CASE AbortManifest
      <4>1. uploadRunning => completed \in Iterations
        BY DEF IInv, LocalCheckpoint, Iterations
      <4>2. QED
        BY <3>1, <4>1 DEF AbortManifest, WriteAborted, Write, ManifestTypeOK
    <3>2. QED
      BY <2>7, <3>1 DEF PersistFailedMetrics, Interrupt
  <2>8. CASE \E r \in Ranks : EnterIteration(r) \/ AssertCommitted(r) \/ LeaveLoop(r)
    BY <2>8 DEF EnterIteration, AssertCommitted, LeaveLoop
  <2> QED
    BY <1>2, <2>1, <2>2, <2>3, <2>4, <2>5, <2>6, <2>7, <2>8 DEF QuietStep
<1>3. CASE LaunchOuter \/ QuarantineArtifacts \/ LaunchComplete \/ LaunchGuarded
  BY <1>3 DEF LaunchOuter, QuarantineArtifacts, LaunchComplete, LaunchGuarded
<1>4. CASE Resume
  BY <1>4 DEF Resume, Lifecycle, Resumed, VolatileReset
<1>5. CASE \E r \in Ranks : StepEnd(r)
  BY <1>5, ZenonT(30) DEF StepEnd, Sync
<1>6. CASE StepBarrier
  BY <1>6 DEF StepBarrier, IInv, UploadProtocol
<1>7. CASE SaveLora \/ SaveTrainerState \/ \E r \in Ranks : SaveRankState(r)
  BY <1>7 DEF SaveLora, SaveRankState, SaveTrainerState, SaveLocal
<1>8. CASE StartUpload
  BY <1>8 DEF StartUpload, OnSave
<1>9. CASE Finish \/ StopFailed \/ Crash
  BY <1>9 DEF Finish, StopFailed, Crash, Stop, LoseVolatile, ResetRanks, Off
<1>10. CASE UploaderRuns
  BY <1>10 DEF UploaderRuns, UploaderStep, UploadStart, UploadCopied, UploadMark, PruneTear,
               PruneRemove, UploadDone
<1>11. CASE UNCHANGED vars
  BY <1>11 DEF vars
<1> QED
  BY <1>2, <1>3, <1>4, <1>5, <1>6, <1>7, <1>8, <1>9, <1>10, <1>11, Steps

-----------------------------------------------------------------------------
(* Types.                                                                  *)

\* Only begin, commit and abort write manifests.
LEMMA ManifestSteps ==
  ASSUME [Next]_vars
  PROVE  \/ UNCHANGED manifestVars
         \/ ArchiveManifest \/ DeleteArchived \/ WriteManifest
         \/ CommitManifest \/ AbortManifest
<1> USE DEF vars
<1>1. CASE LaunchStep
  BY <1>1 DEF LaunchStep, LaunchOuter, QuarantineArtifacts, LaunchComplete, LaunchGuarded
<1>2. CASE UploaderRuns \/ Failure
  BY <1>2 DEF UploaderRuns, Failure, Interrupt, Crash
<1>3. CASE \E r \in Ranks : RankStep(r)
  BY <1>3 DEF RankStep, EnterIteration, AssertCommitted, StepEnd, SaveRankState, LeaveLoop
<1>4. CASE Resume \/ BeginIteration \/ CollectRollouts \/ CommitBarrier \/ PersistDiagnostics
           \/ RefuseDiagnostics \/ Train \/ StepBarrier \/ SaveLora \/ RankStatesSaved
           \/ SaveTrainerState
  BY <1>4 DEF Resume, BeginIteration, CollectRollouts, CommitBarrier, PersistDiagnostics,
              RefuseDiagnostics, Train, StepBarrier, SaveLora, RankStatesSaved, SaveTrainerState
<1>5. CASE StateSaved \/ StartUpload \/ CloseManifest \/ PersistMetrics \/ EndIteration
           \/ Finish \/ PersistFailedMetrics \/ StopFailed
  BY <1>5 DEF StateSaved, StartUpload, CloseManifest, PersistMetrics, EndIteration, Finish,
              PersistFailedMetrics, StopFailed
<1> QED
  BY <1>1, <1>2, <1>3, <1>4, <1>5 DEF Next, TrainerStep

LEMMA ManifestTypeInductive == IInv /\ [Next]_vars => ManifestTypeOK'
<1> SUFFICES ASSUME IInv, [Next]_vars PROVE ManifestTypeOK'
  OBVIOUS
<1>1. ManifestTypeOK /\ completed \in Nat /\ active \in 0 .. TotalIterations /\ attempt \in Nat
  BY ConfigAssumption DEF IInv, TypeOK
<1>2. pc[Lead] \in GatePCs => Target \in Iterations
  BY <1>1, ConfigAssumption DEF IInv, Counting, Iterations, Target
<1>3. NoManifest.attempt = 0 /\ NoManifest \notin Manifest
  BY DEF NoManifest, Manifest
<1>4. ASSUME NEW n \in Iterations PROVE CurrentAttempt(n) \in Nat \ {0}
  BY <1>1, <1>3 DEF CurrentAttempt, HasManifest, ManifestTypeOK, Manifest
<1>5. ASSUME NEW n \in Iterations, NEW s \in Statuses, NEW a \in Nat \ {0}, Write(n, s, a)
      PROVE  ManifestTypeOK'
  <2>1. [status |-> s, attempt |-> a] \in Manifest
    BY <1>5 DEF Manifest
  <2>2. QED
    BY <1>1, <1>5, <2>1 DEF ManifestTypeOK, Write
<1>6. CASE UNCHANGED manifestVars
  BY <1>1, <1>6 DEF ManifestTypeOK, manifestVars
<1>7. CASE ArchiveManifest
  <2>1. Target \in Iterations /\ HasManifest(Target)
    BY <1>2, <1>7 DEF ArchiveManifest, GatePCs, IInv, ManifestGate
  <2>2. manifests[Target] \in Manifest
    BY <1>1, <2>1 DEF ManifestTypeOK, HasManifest
  <2>3. ArchiveRecord(Target) \in Archived
    BY <2>1, <2>2 DEF ArchiveRecord, Archived, Manifest
  <2>4. QED
    BY <1>1, <1>7, <2>3 DEF ArchiveManifest, ArchiveCopy, ManifestTypeOK
<1>8. CASE DeleteArchived
  BY <1>1, <1>2, <1>8 DEF DeleteArchived, ArchiveDelete, ManifestTypeOK, GatePCs
<1>9. CASE WriteManifest
  BY <1>1, <1>2, <1>5, <1>9
     DEF WriteManifest, WritePending, GatePCs, IInv, ManifestGate, Statuses
<1>10. CASE CommitManifest
  BY <1>2, <1>4, <1>5, <1>10 DEF CommitManifest, WriteCommitted, GatePCs, Statuses
<1>11. CASE AbortManifest
  <2>1. CASE active = 0
    BY <1>6, <1>11, <2>1 DEF AbortManifest
  <2>2. CASE active \in Iterations
    BY <1>4, <1>5, <1>11, <2>2 DEF AbortManifest, WriteAborted, Statuses, Iterations
  <2>3. QED
    BY <1>1, <2>1, <2>2, ConfigAssumption DEF Iterations
<1> QED
  BY <1>6, <1>7, <1>8, <1>9, <1>10, <1>11, ManifestSteps


LEMMA CheckpointTypeInductive == IInv /\ [Next]_vars => CheckpointTypeOK'
<1> SUFFICES ASSUME IInv, [Next]_vars PROVE CheckpointTypeOK'
  OBVIOUS
<1>1. /\ TypeOK /\ CheckpointTypeOK /\ Lead \in Ranks
      /\ completed \in 0 .. TotalIterations /\ pc \in [Ranks -> PCs]
  BY ConfigAssumption DEF IInv, TypeOK
<1>2. Absent \in Checkpoint /\ NoUploader \in Uploader /\ NoLocal \in [Iterations -> SUBSET Parts]
  BY ConfigAssumption DEF Absent, Checkpoint, NoUploader, Uploader, NoLocal
<1> USE <1>1
<1>3. CASE QuietStep
  BY <1>3, QuietSteps DEF CheckpointTypeOK, checkpointVars
<1>4. CASE LaunchOuter \/ QuarantineArtifacts \/ LaunchComplete \/ LaunchGuarded
  BY <1>2, <1>4 DEF LaunchOuter, QuarantineIncomplete, QuarantineArtifacts, LaunchComplete,
                    LaunchGuarded, CheckpointTypeOK, checkpointVars
<1>5. CASE Resume
  BY <1>5 DEF Resume, CheckpointTypeOK, DoneCheckpoints
<1>6. CASE \E r \in Ranks : StepEnd(r)
  BY <1>6 DEF StepEnd, Sync, CheckpointTypeOK, checkpointVars
<1>7. CASE StepBarrier \/ UNCHANGED vars
  BY <1>7 DEF StepBarrier, vars, CheckpointTypeOK, checkpointVars
<1>8. ASSUME NEW part \in Parts, SaveLocal(completed, part) PROVE CheckpointTypeOK'
  BY <1>8 DEF SaveLocal, CheckpointTypeOK
<1>9. CASE SaveLora \/ SaveTrainerState \/ \E r \in Ranks : SaveRankState(r)
  BY <1>8, <1>9 DEF SaveLora, SaveTrainerState, SaveRankState, Parts
<1>10. CASE StartUpload
  <2>1. uploader' \in Uploader
    BY <1>2, <1>10 DEF StartUpload, OnSave, CheckpointTypeOK, Uploader
  <2>2. QED
    BY <1>10, <2>1 DEF StartUpload, OnSave, CheckpointTypeOK
<1>11. CASE Finish \/ StopFailed \/ Crash
  BY <1>2, <1>11 DEF Finish, StopFailed, Crash, Stop, LoseVolatile, CheckpointTypeOK
<1>12. CASE UploaderRuns
  <2>1. CASE UploadStart
    <3>1. PICK n \in Iterations :
            IF Existing(n)
              THEN uploader' = [uploader EXCEPT !.state = "dead"] /\ UNCHANGED cloud
              ELSE /\ uploader' = [state |-> "copying", target |-> n, full |-> local[n] = Parts]
                   /\ cloud' = [cloud EXCEPT ![n] = [files |-> "torn", done |-> FALSE]]
      BY <2>1 DEF UploadStart
    <3>2. [uploader EXCEPT !.state = "dead"] \in Uploader
      BY DEF CheckpointTypeOK, Uploader
    <3>3. [state |-> "copying", target |-> n, full |-> local[n] = Parts] \in Uploader
      BY DEF Uploader, Iterations
    <3>4. [files |-> "torn", done |-> FALSE] \in Checkpoint
      BY DEF Checkpoint
    <3>5. uploader' \in Uploader /\ cloud' \in [Iterations -> Checkpoint]
      BY <3>1, <3>2, <3>3, <3>4 DEF CheckpointTypeOK
    <3>6. QED
      BY <2>1, <3>5 DEF UploadStart, CheckpointTypeOK
  <2>2. CASE UploadCopied \/ UploadMark \/ UploadDone
    <3>1. uploader' \in Uploader
      BY <2>2 DEF UploadCopied, UploadMark, UploadDone, CheckpointTypeOK, Uploader
    <3>2. cloud' \in [Iterations -> Checkpoint]
      <4>1. \A c \in Checkpoint : /\ [c EXCEPT !.files = "whole"] \in Checkpoint
                                 /\ [c EXCEPT !.done = TRUE] \in Checkpoint
        BY DEF Checkpoint
      <4>2. QED
        BY <2>2, <4>1 DEF UploadCopied, UploadMark, UploadDone, CheckpointTypeOK
    <3>3. QED
      BY <2>2, <3>1, <3>2 DEF UploadCopied, UploadMark, UploadDone, CheckpointTypeOK
  <2>3. CASE \E n \in Iterations : PruneTear(n) \/ PruneRemove(n)
    <3>1. cloud' \in [Iterations -> Checkpoint]
      <4>1. \A kept \in BOOLEAN : [files |-> "torn", done |-> kept] \in Checkpoint
        BY DEF Checkpoint
      <4>2. ASSUME NEW n \in Iterations, PruneTear(n) PROVE cloud' \in [Iterations -> Checkpoint]
        <5>1. cloud[n].done \in BOOLEAN
          BY DEF CheckpointTypeOK, Checkpoint
        <5>2. PICK kept \in BOOLEAN :
                cloud' = [cloud EXCEPT ![n] = [files |-> "torn", done |-> kept]]
          BY <4>2, <5>1 DEF PruneTear
        <5>3. QED
          BY <4>1, <5>2 DEF CheckpointTypeOK
      <4>3. QED
        BY <1>2, <2>3, <4>2 DEF PruneRemove, CheckpointTypeOK
    <3>2. QED
      BY <2>3, <3>1 DEF PruneTear, PruneRemove, CheckpointTypeOK
  <2>4. QED
    BY <1>12, <2>1, <2>2, <2>3 DEF UploaderRuns, UploaderStep
<1> QED
  BY <1>3, <1>4, <1>5, <1>6, <1>7, <1>9, <1>10, <1>11, <1>12, Steps

\* The variables of the trainer and its launcher.
RunTypeOK ==
  /\ job \in JobStates
  /\ launches \in 0 .. MaxLaunches
  /\ batch \in Nat
  /\ pc \in [Ranks -> PCs]
  /\ completed \in 0 .. TotalIterations
  /\ active \in 0 .. TotalIterations
  /\ reporting \in 0 .. TotalIterations
  /\ attempt \in Nat
  /\ metrics \in [Iterations -> {"none", "failed", "completed"}]
  /\ diagnostics \in [Iterations -> BOOLEAN]

LEMMA RunTypeInductive == IInv /\ [Next]_vars => RunTypeOK'
<1> SUFFICES ASSUME IInv, [Next]_vars PROVE RunTypeOK'
  OBVIOUS
<1>1. RunTypeOK /\ ManifestTypeOK /\ CheckpointTypeOK /\ Counting /\ Lead \in Ranks
  BY ConfigAssumption DEF IInv, TypeOK, RunTypeOK
<1> USE <1>1, ConfigAssumption
    DEF RunTypeOK, Goto, Collective, launchVars, rankVars, reportVars, Target, Iterations
<1>2. CASE LaunchOuter \/ QuarantineArtifacts \/ LaunchComplete \/ LaunchGuarded
  <2>1. CASE LaunchOuter
    BY <2>1 DEF LaunchOuter, CanLaunch, JobStates
  <2>2. CASE QuarantineArtifacts
    BY <2>2 DEF QuarantineArtifacts, PCs, JobStates
  <2>3. CASE LaunchComplete \/ LaunchGuarded
    BY <2>3 DEF LaunchComplete, LaunchGuarded, CanLaunch, PCs, JobStates
  <2>4. QED
    BY <1>2, <2>1, <2>2, <2>3
<1>3. CASE Resume \/ ArchiveManifest \/ DeleteArchived \/ WriteManifest
  BY <1>3, SMTT(30) DEF Resume, ArchiveManifest, DeleteArchived, WriteManifest, DoneCheckpoints, PCs,
              Counting, GatePCs
<1>4. CASE BeginIteration
  <2>1. Target \in Iterations /\ manifests[Target].attempt \in Nat
    BY <1>4 DEF BeginIteration, ManifestTypeOK, Manifest, NoManifest
  <2>2. attempt' \in Nat /\ pc' \in [Ranks -> PCs]
    BY <1>4, <2>1 DEF BeginIteration, NextAttempt, PCs
  <2>3. QED
    BY <1>4, <2>1, <2>2 DEF BeginIteration
<1>5. CASE CollectRollouts \/ CommitManifest \/ CommitBarrier \/ Train
  BY <1>5 DEF CollectRollouts, CommitManifest, CommitBarrier, Train, PCs
<1>6. CASE PersistDiagnostics \/ RefuseDiagnostics
  BY <1>6, ZenonT(30) DEF PersistDiagnostics, RefuseDiagnostics, PCs
<1>7. CASE StepBarrier
  <2>1. completed < TotalIterations
    BY <1>7 DEF StepBarrier, All, Counting, GatePCs
  <2>2. QED
    BY <1>7, <2>1 DEF StepBarrier, PCs
<1>8. CASE SaveLora \/ RankStatesSaved \/ SaveTrainerState \/ StateSaved \/ StartUpload
  BY <1>8, SMTT(30) DEF SaveLora, RankStatesSaved, SaveTrainerState, StateSaved, StartUpload, PCs
<1>9. CASE CloseManifest \/ PersistMetrics \/ EndIteration
  BY <1>9, SMTT(30) DEF CloseManifest, PersistMetrics, EndIteration, PCs
<1>10. CASE AbortManifest \/ PersistFailedMetrics \/ Interrupt
  BY <1>10, ZenonT(30) DEF AbortManifest, PersistFailedMetrics, Interrupt, PCs
<1>11. CASE Finish \/ StopFailed \/ Crash
  BY <1>11 DEF Finish, StopFailed, Crash, ResetRanks, Off, PCs, JobStates
<1>12. CASE \E r \in Ranks : RankStep(r)
  BY <1>12 DEF RankStep, EnterIteration, AssertCommitted, StepEnd, SaveRankState, LeaveLoop, PCs
<1>13. CASE UploaderRuns \/ UNCHANGED vars
  BY <1>13 DEF UploaderRuns, vars
<1> QED
  BY <1>2, <1>3, <1>4, <1>5, <1>6, <1>7, <1>8, <1>9, <1>10, <1>11, <1>12, <1>13
     DEF Next, LaunchStep, TrainerStep, Failure

LEMMA TypeInductive == IInv /\ [Next]_vars => TypeOK'
BY ManifestTypeInductive, CheckpointTypeInductive, RunTypeInductive DEF TypeOK, RunTypeOK


-----------------------------------------------------------------------------
(* The trainer and the uploader.                                           *)

LEMMA LocalCheckpointInductive == IInv /\ [Next]_vars => LocalCheckpoint'
<1> SUFFICES ASSUME IInv, [Next]_vars PROVE LocalCheckpoint'
  OBVIOUS
<1>1. /\ TypeOK /\ Lifecycle /\ Counting /\ LocalCheckpoint /\ UploadProtocol /\ Lead \in Ranks
      /\ local \in [Iterations -> SUBSET Parts] /\ pc \in [Ranks -> PCs]
      /\ completed \in 0 .. TotalIterations /\ TotalIterations \in Nat
  BY ConfigAssumption DEF IInv, TypeOK, CheckpointTypeOK
<1> USE <1>1 DEF LocalCheckpoint, SavePCs, Iterations
<1>2. CASE QuietStep
  <2>1. /\ UNCHANGED <<local, uploadRunning, completed>>
        /\ QuietMove(pc[Lead], pc'[Lead])
        /\ \A r \in Ranks : pc'[r] = "rank_saved" => pc[r] = "rank_saved"
    BY <1>2, QuietSteps DEF checkpointVars
  <2>2. CASE pc[Lead] = "rank_saved" /\ pc'[Lead] = "save_state"
    <3>1. Ranks \subseteq local[completed] /\ "lora" \in local[completed]
      BY <2>1, <2>2 DEF QuietMove, All
    <3>2. QED
      BY <2>1, <2>2, <3>1
  <2>3. CASE pc[Lead] = "rank_saved" /\ pc'[Lead] # "save_state"
    BY <2>1, <2>3 DEF QuietMove
  <2>4. CASE pc[Lead] # "rank_saved"
    BY <2>1, <2>4 DEF QuietMove
  <2> QED
    BY <2>2, <2>3, <2>4
<1>3. CASE LaunchOuter \/ QuarantineArtifacts \/ LaunchComplete \/ LaunchGuarded
  BY <1>3 DEF LaunchOuter, QuarantineArtifacts, LaunchComplete, LaunchGuarded, checkpointVars,
              rankVars
<1>4. CASE Resume
  <2>1. local = NoLocal /\ ~uploadRunning
    BY <1>4 DEF Resume, Collective, All, Lifecycle, Resumed, VolatileReset
  <2>2. \A r \in Ranks : pc'[r] = "top"
    BY <1>4 DEF Resume, Collective
  <2>3. ~uploadRunning' /\ completed' \in Nat
    BY <1>4, <2>1 DEF Resume, DoneCheckpoints
  <2>4. \A n \in Iterations : n > completed' => local'[n] = {}
    <3>1. CASE completed' = 0 /\ UNCHANGED local
      BY <2>1, <3>1 DEF NoLocal
    <3>2. CASE \E d \in DoneCheckpoints : completed' = d /\ local' = [local EXCEPT ![d] = Parts]
      BY <2>1, <3>2 DEF NoLocal, DoneCheckpoints
    <3>3. QED
      BY <1>4, <3>1, <3>2 DEF Resume
  <2>5. QED
    BY <2>2, <2>3, <2>4
<1>5. CASE \E r \in Ranks : StepEnd(r)
  BY <1>5 DEF StepEnd, Sync, Goto, checkpointVars, rankVars
<1>6. CASE StepBarrier
  BY <1>6 DEF StepBarrier, Collective, All, UploadProtocol, checkpointVars
<1>7. CASE SaveLora
  <2>1. ~uploadRunning /\ completed \in Iterations
    BY <1>7 DEF SaveLora, Collective, All, UploadProtocol, Counting
  <2>2. /\ local'[completed] = local[completed] \cup {"lora"}
        /\ \A n \in Iterations : n # completed => local'[n] = local[n]
        /\ \A r \in Ranks : pc'[r] = "save_rank"
        /\ UNCHANGED <<uploadRunning, completed>>
    BY <1>7, <2>1 DEF SaveLora, SaveLocal, Collective, rankVars
  <2>3. QED
    BY <2>1, <2>2
<1>8. CASE \E r \in Ranks : SaveRankState(r)
  <2>1. PICK s \in Ranks : SaveRankState(s)
    BY <1>8
  <2>2. completed \in Iterations /\ s \in Parts
    BY <2>1 DEF SaveRankState, Counting, Parts
  <2>3. /\ local'[completed] = local[completed] \cup {s}
        /\ \A n \in Iterations : n # completed => local'[n] = local[n]
        /\ UNCHANGED <<uploadRunning, completed>>
    BY <2>1, <2>2 DEF SaveRankState, SaveLocal, rankVars
  <2>4. /\ pc[s] = "save_rank" /\ pc'[s] = "rank_saved"
        /\ \A r \in Ranks : r # s => pc'[r] = pc[r]
    BY <2>1 DEF SaveRankState, Goto
  <2>5. local[completed] \subseteq local'[completed] /\ local'[completed] \subseteq Parts
    BY <2>2, <2>3
  <2>6. \A r \in Ranks : pc'[r] = "rank_saved" => r \in local'[completed]
    BY <2>3, <2>4
  <2>7. Lead # s \/ (pc[Lead] = "save_rank" /\ pc'[Lead] = "rank_saved")
    BY <2>4
  <2>8. uploadRunning => local'[completed] = Parts
    BY <2>5
  <2>9. \A n \in Iterations : n > completed => local'[n] = {}
    BY <2>3
  <2>10. QED
    BY <2>3, <2>4, <2>5, <2>6, <2>7, <2>8, <2>9
<1>9. CASE SaveTrainerState
  <2>1. ~uploadRunning /\ completed \in Iterations
    BY <1>9 DEF SaveTrainerState, UploadProtocol, Counting
  <2>2. QED
    BY <1>9, <2>1 DEF SaveTrainerState, SaveLocal, Goto, rankVars
<1>10. CASE StartUpload
  <2>1. completed \in Iterations
    BY <1>10 DEF StartUpload, Counting
  <2>2. local[completed] = Parts
    BY <1>10, <2>1 DEF StartUpload, Parts
  <2>3. QED
    BY <1>10, <2>1, <2>2 DEF StartUpload, OnSave, Goto, rankVars
<1>11. CASE Finish \/ StopFailed \/ Crash
  BY <1>11 DEF Finish, StopFailed, Crash, Stop, LoseVolatile, ResetRanks, Off, NoLocal
<1>12. CASE UploaderRuns
  BY <1>12 DEF UploaderRuns, UploaderStep, UploadStart, UploadCopied, UploadMark, PruneTear,
               PruneRemove, UploadDone, rankVars
<1>13. CASE UNCHANGED vars
  BY <1>13 DEF vars, checkpointVars, rankVars
<1> QED
  BY <1>2, <1>3, <1>4, <1>5, <1>6, <1>7, <1>8, <1>9, <1>10, <1>11, <1>12, <1>13, Steps

\* While an upload is running, the newest local checkpoint is that of the iteration
\* completed last, and it has all its files.
LEMMA NewestLocal ==
  ASSUME IInv, uploadRunning, NEW n \in Iterations,
         local[n] # {}, \A m \in Iterations : m > n => local[m] = {}
  PROVE  n = completed /\ local[n] = Parts
<1>1. completed \in Iterations /\ local[completed] = Parts
  BY DEF IInv, LocalCheckpoint, TypeOK, Iterations
<1>2. n <= completed
  BY <1>1, ConfigAssumption DEF IInv, LocalCheckpoint, Iterations
<1>3. ~(completed > n)
  BY <1>1 DEF Parts
<1>4. QED
  BY <1>1, <1>2, <1>3, ConfigAssumption DEF Iterations

LEMMA UploadProtocolInductive == IInv /\ [Next]_vars => UploadProtocol'
<1> SUFFICES ASSUME IInv, [Next]_vars PROVE UploadProtocol'
  OBVIOUS
<1>1. /\ TypeOK /\ Lifecycle /\ LocalCheckpoint /\ UploadProtocol /\ Lead \in Ranks
      /\ uploader \in Uploader /\ pc \in [Ranks -> PCs]
      /\ completed \in 0 .. TotalIterations /\ TotalIterations \in Nat
  BY ConfigAssumption DEF IInv, TypeOK, CheckpointTypeOK
<1> USE <1>1 DEF UploadProtocol, SavePCs
<1>2. CASE QuietStep
  <2>1. UNCHANGED <<checkpointVars, completed>> /\ QuietMove(pc[Lead], pc'[Lead])
    BY <1>2, QuietSteps
  <2>2. QED
    BY <2>1 DEF QuietMove, checkpointVars
<1>3. CASE LaunchOuter \/ QuarantineArtifacts \/ LaunchComplete \/ LaunchGuarded
  BY <1>3 DEF LaunchOuter, QuarantineArtifacts, LaunchComplete, LaunchGuarded, checkpointVars,
              rankVars
<1>4. CASE Resume
  BY <1>4 DEF Resume, Collective, All, Lifecycle, Resumed, VolatileReset, NoUploader
<1>5. CASE \E r \in Ranks : StepEnd(r)
  BY <1>5 DEF StepEnd, Sync, SyncReady, Goto, checkpointVars, rankVars
<1>6. CASE StepBarrier
  BY <1>6 DEF StepBarrier, Collective, All, checkpointVars
<1>7. CASE SaveLora \/ SaveTrainerState
  BY <1>7 DEF SaveLora, SaveTrainerState, SaveLocal, Goto, Collective, All, rankVars
<1>8. CASE \E r \in Ranks : SaveRankState(r)
  BY <1>8 DEF SaveRankState, SaveLocal, Goto, rankVars
<1>9. CASE StartUpload
  <2>1. ~uploadRunning /\ uploader.state \in {"none", "idle"}
    BY <1>9 DEF StartUpload, Uploader
  <2>2. uploader'.state = "idle" /\ ~doneEvent'
    BY <1>9, <2>1 DEF StartUpload, OnSave, NoUploader
  <2>3. QED
    BY <1>9, <2>2 DEF StartUpload, OnSave, Goto
<1>10. CASE Finish \/ StopFailed \/ Crash
  BY <1>10 DEF Finish, StopFailed, Crash, Stop, LoseVolatile, ResetRanks, Off, NoUploader
<1>11. CASE UploaderRuns
  <2>1. CASE UploadStart
    <3>1. PICK n \in Iterations :
            /\ local[n] # {}
            /\ \A m \in Iterations : m > n => local[m] = {}
            /\ \/ uploader' = [uploader EXCEPT !.state = "dead"]
               \/ uploader' = [state |-> "copying", target |-> n, full |-> local[n] = Parts]
      BY <2>1 DEF UploadStart
    <3>2. n = completed /\ local[n] = Parts
      BY <2>1, <3>1, NewestLocal DEF UploadStart
    <3>3. uploader'.state = "dead"
          \/ (uploader'.state = "copying" /\ uploader'.target = completed /\ uploader'.full = TRUE)
      <4>1. CASE uploader' = [uploader EXCEPT !.state = "dead"]
        BY <4>1 DEF Uploader
      <4>2. CASE uploader' = [state |-> "copying", target |-> n, full |-> local[n] = Parts]
        BY <3>2, <4>2
      <4>3. QED
        BY <3>1, <4>1, <4>2
    <3>4. QED
      BY <1>11, <2>1, <3>3 DEF UploaderRuns, UploadStart, rankVars
  <2>2. CASE UploadCopied \/ UploadMark \/ UploadDone
    BY <1>11, <2>2 DEF UploaderRuns, UploadCopied, UploadMark, UploadDone, Uploader, rankVars
  <2>3. CASE \E n \in Iterations : PruneTear(n) \/ PruneRemove(n)
    BY <1>11, <2>3 DEF UploaderRuns, PruneTear, PruneRemove, rankVars
  <2>4. QED
    BY <1>11, <2>1, <2>2, <2>3 DEF UploaderRuns, UploaderStep
<1>12. CASE UNCHANGED vars
  BY <1>12 DEF vars, checkpointVars, rankVars
<1> QED
  BY <1>2, <1>3, <1>4, <1>5, <1>6, <1>7, <1>8, <1>9, <1>10, <1>11, <1>12, Steps


-----------------------------------------------------------------------------
(* The durable directory.                                                  *)

\* The uploader works while rank 0 counts an upload as running, on the checkpoint
\* of the iteration completed last.
LEMMA UploaderWorks ==
  ASSUME IInv, UploaderStep
  PROVE  uploadRunning /\ completed \in Iterations
<1>1. uploadRunning
  BY DEF IInv, UploadProtocol, UploaderStep, UploadStart, UploadCopied, UploadMark, PruneTear,
         PruneRemove, UploadDone
<1>2. QED
  BY <1>1 DEF IInv, LocalCheckpoint, TypeOK, Iterations

\* Only checkpoints before the one just uploaded are pruned.
LEMMA PrunableBelow ==
  ASSUME IInv, uploadRunning, NEW n \in Iterations, Prunable(n)
  PROVE  n < completed
<1> DEFINE Above == {m \in Iterations : m > n /\ Existing(m)}
<1>1. Above # {}
  <2>1. Cardinality(Above) >= MaxCkpts /\ MaxCkpts > 0
    BY DEF Prunable
  <2>2. Cardinality({}) = 0
    BY FS_EmptySet
  <2>3. QED
    BY <2>1, <2>2, ConfigAssumption
<1>2. PICK m \in Iterations : m > n /\ Existing(m)
  BY <1>1
<1>3. m <= completed
  BY <1>2 DEF IInv, Directory
<1>4. QED
  BY <1>2, <1>3, ConfigAssumption DEF IInv, TypeOK, Iterations

\* What the uploader may do to the directory: add the checkpoint of the iteration
\* completed last, complete it, and prune older ones once it is complete.
UploaderChange ==
  /\ \A n \in Iterations : Existing(n)' => Existing(n) \/ n = completed
  /\ \A n \in DoneCheckpoints' : n = completed \/ n \in DoneCheckpoints
  /\ DoneCheckpoints' = DoneCheckpoints \/ completed \in DoneCheckpoints'
  /\ completed \in DoneCheckpoints' => cloud'[completed].files = "whole"
  /\ completed \notin DoneCheckpoints' => \A n \in DoneCheckpoints : cloud'[n] = cloud[n]
  /\ \A n \in DoneCheckpoints' : Existing(n)'
  /\ uploader'.state = "copying" => cloud'[completed].files = "torn"
  /\ uploader'.state \in {"marking", "pruning"} => cloud'[completed].files = "whole"
  /\ uploader'.state = "pruning" \/ doneEvent' => cloud'[completed].done

LEMMA UploaderChanges ==
  ASSUME IInv, UploaderStep
  PROVE  UploaderChange
<1>1. /\ uploadRunning /\ completed \in Iterations
      /\ cloud \in [Iterations -> Checkpoint] /\ uploader \in Uploader
  BY UploaderWorks DEF IInv, TypeOK, CheckpointTypeOK
<1>2. UploadProtocol /\ Directory
  BY DEF IInv
<1>3. completed \in DoneCheckpoints => cloud[completed].files = "whole"
  <2>1. \A m \in DoneCheckpoints : m <= completed
    BY <1>1, <1>2 DEF Directory, DoneCheckpoints
  <2>2. QED
    BY <1>1, <2>1 DEF IInv, ResumeIntegrity, IsLastDone
<1> USE <1>1 DEF UploaderChange, DoneCheckpoints, Existing
<1>4. CASE UploadStart
  <2>1. PICK n \in Iterations :
          /\ local[n] # {}
          /\ \A m \in Iterations : m > n => local[m] = {}
          /\ IF Existing(n)
               THEN uploader' = [uploader EXCEPT !.state = "dead"] /\ UNCHANGED cloud
               ELSE /\ uploader' = [state |-> "copying", target |-> n, full |-> local[n] = Parts]
                    /\ cloud' = [cloud EXCEPT ![n] = [files |-> "torn", done |-> FALSE]]
    BY <1>4 DEF UploadStart
  <2>2. ~doneEvent' /\ uploader.state = "idle"
    BY <1>2, <1>4 DEF UploadProtocol, UploadStart
  <2>3. CASE Existing(n)
    <3>1. uploader'.state = "dead" /\ cloud' = cloud
      BY <2>1, <2>3 DEF Uploader
    <3>2. QED
      BY <1>2, <1>3, <2>2, <3>1 DEF Directory
  <2>4. CASE ~Existing(n)
    <3>1. n = completed
      BY <2>1, NewestLocal
    <3>2. QED
      BY <1>2, <2>1, <2>2, <2>4, <3>1 DEF Directory, Checkpoint
  <2>5. QED
    BY <2>3, <2>4
<1>5. CASE UploadCopied
  <2>1. uploader.target = completed /\ uploader.full /\ uploader'.state = "marking"
    BY <1>2, <1>5 DEF UploadProtocol, UploadCopied, Uploader
  <2>2. cloud' = [cloud EXCEPT ![completed].files = "whole"] /\ ~doneEvent'
    BY <1>2, <1>5, <2>1 DEF UploadProtocol, UploadCopied
  <2>3. /\ cloud'[completed].files = "whole" /\ cloud'[completed].done = cloud[completed].done
        /\ \A n \in Iterations : n # completed => cloud'[n] = cloud[n]
    BY <2>2 DEF Checkpoint
  <2>4. QED
    BY <1>2, <2>1, <2>2, <2>3 DEF Directory
<1>6. CASE UploadMark
  <2>1. uploader.target = completed /\ uploader'.state = "pruning"
    BY <1>2, <1>6 DEF UploadProtocol, UploadMark, Uploader
  <2>2. cloud' = [cloud EXCEPT ![completed].done = TRUE] /\ ~doneEvent'
    BY <1>2, <1>6, <2>1 DEF UploadProtocol, UploadMark
  <2>3. /\ cloud'[completed].files = "whole" /\ cloud'[completed].done
        /\ \A n \in Iterations : n # completed => cloud'[n] = cloud[n]
    BY <1>2, <1>6, <2>2 DEF Checkpoint, Directory, UploadMark
  <2>4. QED
    BY <1>2, <2>1, <2>2, <2>3 DEF Directory
<1>7. CASE \E n \in Iterations : PruneTear(n) \/ PruneRemove(n)
  <2>1. PICK n \in Iterations : PruneTear(n) \/ PruneRemove(n)
    BY <1>7
  <2>2. n # completed /\ Existing(n)
    BY <2>1, PrunableBelow DEF PruneTear, PruneRemove, IsOldestPrunable, Prunable, Iterations
  <2>3. uploader.state = "pruning" /\ UNCHANGED <<uploader, doneEvent>>
    BY <2>1 DEF PruneTear, PruneRemove
  <2>4. /\ \A m \in Iterations : m # n => cloud'[m] = cloud[m]
        /\ cloud'[n].done => cloud[n].done /\ cloud'[n].files = "torn"
    <3>1. CASE PruneTear(n)
      <4>1. PICK kept \in {cloud[n].done, FALSE} :
              cloud' = [cloud EXCEPT ![n] = [files |-> "torn", done |-> kept]]
        BY <3>1 DEF PruneTear
      <4>2. kept => cloud[n].done
        BY <4>1
      <4>3. QED
        BY <4>1, <4>2
    <3>2. CASE PruneRemove(n)
      BY <3>2 DEF PruneRemove, Absent
    <3>3. QED
      BY <2>1, <3>1, <3>2
  <2>5. QED
    BY <1>2, <1>3, <2>2, <2>3, <2>4 DEF Directory
<1>8. CASE UploadDone
  <2>1. uploader.state = "pruning" /\ uploader'.state = "idle" /\ cloud' = cloud
    BY <1>8 DEF UploadDone, Uploader
  <2>2. QED
    BY <1>2, <1>3, <2>1 DEF Directory
<1>9. QED
  BY <1>4, <1>5, <1>6, <1>7, <1>8 DEF UploaderStep


LEMMA SameDirectory ==
  ASSUME UNCHANGED cloud
  PROVE  /\ DoneCheckpoints \subseteq Iterations
         /\ DoneCheckpoints' = DoneCheckpoints
         /\ \A n \in Iterations : Existing(n)' <=> Existing(n)
BY DEF DoneCheckpoints, Existing

\* The quarantine of the outer launcher keeps what is complete, and nothing else.
LEMMA QuarantineKeepsDone ==
  ASSUME QuarantineIncomplete
  PROVE  /\ DoneCheckpoints \subseteq Iterations
         /\ DoneCheckpoints' = DoneCheckpoints
         /\ \A n \in Iterations : Existing(n)' => Existing(n) /\ n \in DoneCheckpoints
         /\ \A n \in DoneCheckpoints : cloud'[n] = cloud[n]
BY DEF QuarantineIncomplete, DoneCheckpoints, Existing, Absent

\* Some iteration is the last durable one as long as there is one.
LEMMA UploaderKeepsLast ==
  ASSUME IInv, UploaderStep, UNCHANGED completed
  PROVE  /\ \A n \in Iterations : Existing(n)' => n <= completed
         /\ DoneCheckpoints' = {} \/ \E d \in DoneCheckpoints' : IsLastDone(d)'
         /\ \A k \in 0 .. completed : DurableAtLeast(k) => DurableAtLeast(k)'
<1>1. uploadRunning /\ completed \in Iterations /\ UploaderChange
  BY UploaderWorks, UploaderChanges
<1>2. Directory
  BY DEF IInv
<1>3. \A n \in Iterations : Existing(n)' => n <= completed
  BY <1>1, <1>2, ConfigAssumption DEF UploaderChange, Directory, Iterations
<1>4. \A n \in DoneCheckpoints' : n <= completed
  BY <1>1, <1>3 DEF UploaderChange, DoneCheckpoints
<1>5. CASE completed \in DoneCheckpoints'
  BY <1>1, <1>3, <1>4, <1>5 DEF IsLastDone, DurableAtLeast
<1>6. CASE DoneCheckpoints' = DoneCheckpoints
  BY <1>2, <1>3, <1>6 DEF Directory, IsLastDone, DurableAtLeast
<1>7. QED
  BY <1>1, <1>5, <1>6 DEF UploaderChange

LEMMA DirectoryInductive == IInv /\ [Next]_vars => Directory'
<1> SUFFICES ASSUME IInv, [Next]_vars PROVE Directory'
  OBVIOUS
<1>1. /\ TypeOK /\ Lifecycle /\ Counting /\ UploadProtocol /\ Directory /\ Durability
      /\ Lead \in Ranks /\ pc \in [Ranks -> PCs]
      /\ completed \in 0 .. TotalIterations /\ TotalIterations \in Nat
  BY ConfigAssumption DEF IInv, TypeOK
<1> USE <1>1 DEF Directory, Resumed, SavePCs, DurableAtLeast, IsLastDone, Existing, Iterations
<1>2. CASE QuietStep
  <2>1. UNCHANGED <<checkpointVars, job, completed>> /\ QuietMove(pc[Lead], pc'[Lead])
    BY <1>2, QuietSteps
  <2>2. /\ pc'[Lead] \in SavePCs => pc[Lead] \in SavePCs
        /\ pc'[Lead] # "start" => pc[Lead] # "start"
    BY <2>1 DEF QuietMove, Interruptible, PCs
  <2>3. QED
    BY <2>1, <2>2, SameDirectory DEF checkpointVars
<1>3. CASE LaunchOuter
  <2>1. /\ ~uploadRunning /\ uploader.state = "none" /\ ~doneEvent /\ pc[Lead] = "off"
    BY <1>3 DEF LaunchOuter, CanLaunch, Lifecycle, VolatileReset, NoUploader
  <2>2. UNCHANGED <<uploadRunning, uploader, doneEvent, pc>> /\ job' # "up"
    BY <1>3 DEF LaunchOuter
  <2>3. QuarantineIncomplete /\ UNCHANGED completed
    BY <1>3 DEF LaunchOuter, rankVars
  <2>4. QED
    BY <2>1, <2>2, <2>3, QuarantineKeepsDone
<1>4. CASE QuarantineArtifacts \/ LaunchComplete \/ LaunchGuarded
  <2>1. /\ UNCHANGED <<checkpointVars, completed>> /\ pc[Lead] = "off"
        /\ pc'[Lead] \in {"off", "start"} /\ (job' = "up" => pc'[Lead] = "start")
    BY <1>4 DEF QuarantineArtifacts, LaunchComplete, LaunchGuarded, CanLaunch, Lifecycle, rankVars
  <2>2. QED
    BY <2>1, SameDirectory DEF checkpointVars
<1>5. CASE Resume
  <2>1. ~uploadRunning /\ uploader.state = "none" /\ ~doneEvent
    BY <1>5 DEF Resume, Collective, All, Lifecycle, VolatileReset, NoUploader
  <2>2. pc'[Lead] = "top" /\ UNCHANGED <<cloud, uploader, uploadRunning, doneEvent>>
    BY <1>5 DEF Resume, Collective
  <2>3. /\ completed' \in Nat
        /\ \A d \in DoneCheckpoints : d <= completed'
    BY <1>5 DEF Resume, DoneCheckpoints
  <2>4. \A n \in Iterations : Existing(n) => n <= completed' + 1
    BY <2>3 DEF DoneCheckpoints
  <2>5. QED
    BY <2>1, <2>2, <2>3, <2>4, SameDirectory
<1>6. CASE \E r \in Ranks : StepEnd(r)
  <2>1. /\ UNCHANGED <<cloud, uploader, job, completed>>
        /\ pc'[Lead] = pc[Lead] \/ pc'[Lead] = "step_barrier"
        /\ pc[Lead] \notin {"off", "start"}
        /\ uploadRunning' => uploadRunning
        /\ doneEvent' => doneEvent
    BY <1>6 DEF StepEnd, Sync, Goto, Lifecycle, All, checkpointVars, rankVars, launchVars
  <2>2. QED
    BY <2>1, SameDirectory
<1>7. CASE StepBarrier
  <2>1. /\ pc[Lead] = "step_barrier" /\ completed' = completed + 1
        /\ UNCHANGED <<checkpointVars, job>>
    BY <1>7 DEF StepBarrier, Collective, All, launchVars
  <2>2. ~uploadRunning /\ ~doneEvent /\ uploader.state \notin {"copying", "marking", "pruning"}
    BY <2>1 DEF UploadProtocol
  <2>3. job = "up"
    BY <2>1 DEF Lifecycle
  <2>4. QED
    BY <2>1, <2>2, <2>3, SameDirectory DEF checkpointVars
<1>8. CASE SaveLora \/ SaveTrainerState \/ \E r \in Ranks : SaveRankState(r)
  <2>1. /\ UNCHANGED <<cloud, uploader, uploadRunning, doneEvent, job, completed>>
        /\ pc[Lead] \notin {"off", "start"}
        /\ pc'[Lead] = pc[Lead] \/ pc[Lead] \in SavePCs
    BY <1>8 DEF SaveLora, SaveTrainerState, SaveRankState, SaveLocal, Goto, Collective, All,
                Lifecycle, rankVars, launchVars
  <2>2. QED
    BY <2>1, SameDirectory
<1>9. CASE StartUpload
  <2>1. /\ pc[Lead] = "on_save" /\ pc'[Lead] = "saved"
        /\ uploader'.state \in {uploader.state, "idle"} /\ (doneEvent' => doneEvent)
        /\ UNCHANGED <<cloud, job, completed>>
    BY <1>9 DEF StartUpload, OnSave, Goto, NoUploader, rankVars, launchVars
  <2>2. QED
    BY <2>1, SameDirectory
<1>10. CASE Finish \/ StopFailed \/ Crash
  <2>1. /\ ~uploadRunning' /\ uploader'.state = "none" /\ ~doneEvent' /\ pc'[Lead] = "off"
        /\ job' # "up" /\ UNCHANGED cloud
    BY <1>10 DEF Finish, StopFailed, Crash, Stop, LoseVolatile, ResetRanks, Off, NoUploader
  <2>2. QED
    BY <2>1, SameDirectory
<1>11. CASE UploaderRuns
  <2>1. UploaderStep /\ UNCHANGED <<job, pc, completed>>
    BY <1>11 DEF UploaderRuns, launchVars, rankVars
  <2>2. UploaderChange /\ completed \in Iterations /\ uploadRunning
    BY <2>1, UploaderChanges, UploaderWorks
  <2>3. /\ \A n \in Iterations : Existing(n)' => n <= completed
        /\ DoneCheckpoints' = {} \/ \E d \in DoneCheckpoints' : IsLastDone(d)'
        /\ \A k \in 0 .. completed : DurableAtLeast(k) => DurableAtLeast(k)'
    BY <2>1, UploaderKeepsLast
  <2>4. ASSUME NEW n \in Iterations, Existing(n)' PROVE DurableAtLeast(n - 1)'
    <3>1. n - 1 \in 0 .. completed
      BY <2>3, <2>4
    <3>2. DurableAtLeast(n - 1)
      <4>1. CASE Existing(n)
        BY <4>1
      <4>2. CASE n = completed
        BY <2>2, <4>2 DEF Durability
      <4>3. QED
        BY <2>2, <2>4, <4>1, <4>2 DEF UploaderChange
    <3>3. QED
      BY <2>3, <3>1, <3>2
  <2>5. \A n \in DoneCheckpoints' : n \in Iterations /\ n <= completed
    BY <2>2, <2>3 DEF UploaderChange, DoneCheckpoints
  <2>6. QED
    BY <2>1, <2>2, <2>3, <2>4, <2>5 DEF UploaderChange
<1>12. CASE UNCHANGED vars
  BY <1>12, SameDirectory DEF vars, checkpointVars, rankVars, launchVars
<1> QED
  BY <1>2, <1>3, <1>4, <1>5, <1>6, <1>7, <1>8, <1>9, <1>10, <1>11, <1>12, Steps


-----------------------------------------------------------------------------
(* How far the trainer is ahead of the durable directory.                  *)

\* Only _persist_iteration_metrics reports an iteration as completed.
LEMMA MetricsSteps ==
  ASSUME TypeOK, [Next]_vars
  PROVE  \/ PersistMetrics
         \/ \A n \in Iterations : metrics'[n] = "completed" => metrics[n] = "completed"
<1> USE DEF vars, reportVars
<1>1. CASE LaunchStep
  BY <1>1 DEF LaunchStep, LaunchOuter, QuarantineArtifacts, LaunchComplete, LaunchGuarded, TypeOK
<1>2. CASE UploaderRuns \/ Failure
  BY <1>2 DEF UploaderRuns, Failure, Interrupt, Crash
<1>3. CASE \E r \in Ranks : RankStep(r)
  BY <1>3 DEF RankStep, EnterIteration, AssertCommitted, StepEnd, SaveRankState, LeaveLoop
<1>4. CASE Resume \/ BeginIteration \/ ArchiveManifest \/ DeleteArchived \/ WriteManifest
           \/ CollectRollouts \/ CommitManifest \/ CommitBarrier \/ PersistDiagnostics
           \/ RefuseDiagnostics \/ Train \/ StepBarrier
  BY <1>4 DEF Resume, BeginIteration, ArchiveManifest, DeleteArchived, WriteManifest,
              CollectRollouts, CommitManifest, CommitBarrier, PersistDiagnostics,
              RefuseDiagnostics, Train, StepBarrier
<1>5. CASE SaveLora \/ RankStatesSaved \/ SaveTrainerState \/ StateSaved \/ StartUpload
           \/ CloseManifest \/ EndIteration \/ Finish \/ AbortManifest \/ StopFailed
  BY <1>5 DEF SaveLora, RankStatesSaved, SaveTrainerState, StateSaved, StartUpload,
              CloseManifest, EndIteration, Finish, AbortManifest, StopFailed
<1>6. CASE PersistFailedMetrics
  BY <1>6 DEF PersistFailedMetrics, TypeOK
<1> QED
  BY <1>1, <1>2, <1>3, <1>4, <1>5, <1>6 DEF Next, TrainerStep

LEMMA DurableBelow ==
  ASSUME NEW k \in Nat, NEW m \in Nat, m <= k, DurableAtLeast(k)
  PROVE  DurableAtLeast(m)
BY DEF DurableAtLeast, DoneCheckpoints, Iterations

\* While rank 0 is in an iteration, its predecessor is durable.
LEMMA ReportedIsBacked ==
  ASSUME IInv, pc[Lead] \in SavedPCs
  PROVE  DurableAtLeast(completed - 1)
<1>1. completed \in Nat \ {0}
  BY DEF IInv, TypeOK, Counting
<1>2. CASE uploadRunning
  BY <1>2 DEF IInv, Durability
<1>3. CASE ~uploadRunning
  <2>1. DurableAtLeast(completed)
    BY <1>3 DEF IInv, Durability
  <2>2. QED
    BY <1>1, <2>1, DurableBelow
<1>4. QED
  BY <1>2, <1>3

\* What is reported is at most one iteration ahead of what a restart loads.
LEMMA ReportedBelow ==
  ASSUME IInv, NEW c \in Nat, \A d \in DoneCheckpoints : d <= c,
         NEW n \in Iterations, metrics[n] = "completed"
  PROVE  n <= c + 1
<1>1. DurableAtLeast(n - 1) /\ DoneCheckpoints \subseteq Nat /\ n \in Nat
  BY DEF IInv, BoundedLoss, DoneCheckpoints, Iterations
<1>2. CASE n - 1 = 0
  BY <1>1, <1>2
<1>3. ASSUME NEW d \in DoneCheckpoints, d >= n - 1 PROVE n <= c + 1
  BY <1>1, <1>3
<1>4. QED
  BY <1>1, <1>2, <1>3 DEF DurableAtLeast

LEMMA DurabilityInductive == IInv /\ [Next]_vars => Durability'
<1> SUFFICES ASSUME IInv, [Next]_vars PROVE Durability'
  OBVIOUS
<1>1. /\ TypeOK /\ Lifecycle /\ Counting /\ UploadProtocol /\ Directory /\ Durability
      /\ Lead \in Ranks /\ pc \in [Ranks -> PCs]
      /\ completed \in 0 .. TotalIterations /\ TotalIterations \in Nat
  BY ConfigAssumption DEF IInv, TypeOK
<1> DEFINE Ahead == pc[Lead] \in {"top", "stop"} \cup GatePCs \cup SavedPCs /\ ~uploadRunning
                      => DurableAtLeast(completed)
           Behind == pc[Lead] \in SavePCs \/ uploadRunning => DurableAtLeast(completed - 1)
           Reported == \A n \in Iterations :
                         metrics[n] = "completed" /\ Resumed => n <= completed + 1
<1> SUFFICES Ahead' /\ Behind' /\ Reported'
  BY DEF Durability
<1>2. \/ PersistMetrics
      \/ \A n \in Iterations : metrics'[n] = "completed" => metrics[n] = "completed"
  BY <1>1, MetricsSteps
<1> USE <1>1 DEF DurableAtLeast, Durability, Resumed, GatePCs, SavePCs, SavedPCs
<1>3. CASE QuietStep
  <2>1. /\ UNCHANGED <<cloud, uploadRunning, job, completed>> /\ QuietMove(pc[Lead], pc'[Lead])
        /\ DoneCheckpoints' = DoneCheckpoints
    BY <1>3, QuietSteps, SameDirectory DEF checkpointVars
  <2>2. Ahead' /\ Behind'
    BY <2>1 DEF QuietMove
  <2>3. pc'[Lead] # "start" => pc[Lead] # "start"
    BY <2>1 DEF QuietMove, Interruptible, PCs
  <2>4. CASE PersistMetrics
    <3>1. reporting = completed /\ Resumed
      BY <2>4 DEF PersistMetrics, Counting, Lifecycle
    <3>2. metrics' = [metrics EXCEPT ![reporting] = "completed"]
      BY <2>4 DEF PersistMetrics
    <3>3. \A n \in Iterations : metrics'[n] = "completed" => metrics[n] = "completed" \/ n = completed
      BY <3>1, <3>2 DEF TypeOK
    <3>4. QED
      BY <2>1, <2>2, <3>1, <3>3 DEF Iterations
  <2>5. CASE ~PersistMetrics
    BY <1>2, <2>1, <2>2, <2>3, <2>5
  <2>6. QED
    BY <2>4, <2>5
<1>4. CASE LaunchOuter \/ QuarantineArtifacts \/ LaunchComplete \/ LaunchGuarded
  <2>1. /\ pc'[Lead] \in {"off", "start"} /\ (job' = "up" => pc'[Lead] = "start")
        /\ ~uploadRunning'
    BY <1>4 DEF LaunchOuter, QuarantineArtifacts, LaunchComplete, LaunchGuarded, CanLaunch,
                Lifecycle, VolatileReset, checkpointVars
  <2>2. QED
    BY <2>1
<1>5. CASE Resume
  <2>1. ~uploadRunning' /\ pc'[Lead] = "top" /\ DoneCheckpoints' = DoneCheckpoints
        /\ metrics' = metrics
    BY <1>5, SameDirectory
       DEF Resume, Collective, All, Lifecycle, VolatileReset, reportVars
  <2>2. /\ completed' = 0 \/ completed' \in DoneCheckpoints
        /\ completed' \in Nat
        /\ \A d \in DoneCheckpoints : d <= completed'
    BY <1>5 DEF Resume, IsLastDone, DoneCheckpoints, Iterations
  <2>3. Ahead' /\ Behind'
    BY <2>1, <2>2
  <2>4. \A n \in Iterations : metrics[n] = "completed" => n <= completed' + 1
    BY <2>2, ReportedBelow
  <2>5. QED
    BY <2>1, <2>3, <2>4
<1>6. CASE \E r \in Ranks : StepEnd(r)
  <2>1. PICK s \in Ranks : StepEnd(s)
    BY <1>6
  <2>2. /\ UNCHANGED <<cloud, job, completed, metrics>> /\ pc[Lead] \notin {"off", "start"}
        /\ DoneCheckpoints' = DoneCheckpoints
    BY <2>1, SameDirectory DEF StepEnd, Sync, Lifecycle, All, checkpointVars, rankVars, launchVars,
                reportVars
  <2>3. CASE s = Lead
    <3>1. /\ pc[Lead] = "step_end" /\ pc'[Lead] = "step_barrier" /\ ~uploadRunning' /\ SyncReady
      BY <2>1, <2>3 DEF StepEnd, Sync, Goto
    <3>2. DurableAtLeast(completed)
      <4>1. CASE uploadRunning
        <5>1. completed \in DoneCheckpoints
          BY <3>1, <4>1 DEF SyncReady, Directory, DoneCheckpoints, IInv, LocalCheckpoint, Iterations
        <5>2. QED
          BY <5>1
      <4>2. CASE ~uploadRunning
        BY <3>1, <4>2
      <4>3. QED
        BY <4>1, <4>2
    <3>3. QED
      BY <2>2, <3>1, <3>2
  <2>4. CASE s # Lead
    <3>1. UNCHANGED uploadRunning /\ pc'[Lead] = pc[Lead]
      BY <2>1, <2>4 DEF StepEnd, Goto, checkpointVars
    <3>2. QED
      BY <2>2, <3>1
  <2>5. QED
    BY <2>3, <2>4
<1>7. CASE StepBarrier
  <2>1. /\ pc[Lead] = "step_barrier" /\ pc'[Lead] = "save_lora" /\ completed' = completed + 1
        /\ UNCHANGED <<uploadRunning, job, metrics>> /\ DoneCheckpoints' = DoneCheckpoints
    BY <1>7, SameDirectory DEF StepBarrier, Collective, All, launchVars, checkpointVars, reportVars
  <2>2. ~uploadRunning /\ job = "up"
    BY <2>1 DEF UploadProtocol, Lifecycle
  <2>3. DurableAtLeast(completed)
    BY <2>1, <2>2
  <2>4. Ahead' /\ Behind'
    BY <2>1, <2>2, <2>3
  <2>5. Reported'
    BY <2>1, <2>2 DEF Iterations
  <2>6. QED
    BY <2>4, <2>5
<1>8. CASE SaveLora \/ SaveTrainerState \/ StartUpload \/ \E r \in Ranks : SaveRankState(r)
  <2>1. /\ UNCHANGED <<cloud, job, completed, metrics>> /\ pc[Lead] \notin {"off", "start"}
        /\ DoneCheckpoints' = DoneCheckpoints
    BY <1>8, SameDirectory DEF SaveLora, SaveTrainerState, StartUpload, SaveRankState, SaveLocal,
                OnSave, Lifecycle, All, Collective, rankVars, launchVars, reportVars
  <2>2. \/ UNCHANGED uploadRunning /\ pc'[Lead] = pc[Lead]
        \/ UNCHANGED uploadRunning /\ pc[Lead] \in SavePCs /\ pc'[Lead] \in SavePCs
        \/ uploadRunning' /\ pc[Lead] \in SavePCs
    BY <1>8 DEF SaveLora, SaveTrainerState, StartUpload, SaveRankState, SaveLocal,
                OnSave, Goto, All, Collective
  <2>3. QED
    BY <2>1, <2>2
<1>9. CASE Finish \/ StopFailed \/ Crash
  <2>1. ~uploadRunning' /\ pc'[Lead] = "off" /\ job' # "up"
    BY <1>9 DEF Finish, StopFailed, Crash, Stop, LoseVolatile, ResetRanks, Off
  <2>2. QED
    BY <2>1
<1>10. CASE UploaderRuns
  <2>1. UploaderStep /\ UNCHANGED <<job, pc, completed, metrics>>
    BY <1>10 DEF UploaderRuns, launchVars, rankVars, reportVars
  <2>2. uploadRunning /\ completed \in Iterations
    BY <2>1, UploaderWorks
  <2>3. UNCHANGED uploadRunning
    BY <2>1 DEF UploaderStep, UploadStart, UploadCopied, UploadMark, PruneTear, PruneRemove,
                UploadDone
  <2>4. DurableAtLeast(completed - 1)'
    BY <2>1, <2>2, UploaderKeepsLast DEF Iterations
  <2>5. QED
    BY <2>1, <2>2, <2>3, <2>4
<1>11. CASE UNCHANGED vars
  <2>1. /\ UNCHANGED <<uploadRunning, job, pc, completed, metrics>>
        /\ DoneCheckpoints' = DoneCheckpoints
    BY <1>11, SameDirectory DEF vars, checkpointVars, rankVars, launchVars, reportVars
  <2>2. QED
    BY <2>1
<1> QED
  BY <1>3, <1>4, <1>5, <1>6, <1>7, <1>8, <1>9, <1>10, <1>11, Steps


-----------------------------------------------------------------------------
(* The safety properties are preserved, given the other parts.             *)

\* The directory changes only by the quarantine of the outer launcher and by the
\* uploader.
LEMMA CloudSteps ==
  ASSUME TypeOK, [Next]_vars
  PROVE  \/ UNCHANGED cloud
         \/ LaunchOuter
         \/ UploaderRuns
<1> USE DEF checkpointVars
<1>1. CASE QuietStep
  BY <1>1, QuietSteps
<1>2. CASE QuarantineArtifacts \/ LaunchComplete \/ LaunchGuarded \/ Resume \/ StepBarrier
  BY <1>2 DEF QuarantineArtifacts, LaunchComplete, LaunchGuarded, Resume, StepBarrier
<1>3. CASE SaveLora \/ SaveTrainerState \/ StartUpload
           \/ \E r \in Ranks : StepEnd(r) \/ SaveRankState(r)
  BY <1>3 DEF SaveLora, SaveTrainerState, StartUpload, StepEnd, SaveRankState, SaveLocal, OnSave,
              Sync
<1>4. CASE Finish \/ StopFailed \/ Crash \/ UNCHANGED vars
  BY <1>4 DEF Finish, StopFailed, Crash, Stop, vars
<1> QED
  BY <1>1, <1>2, <1>3, <1>4, Steps

LEMMA ResumeIntegrityInductive == IInv /\ [Next]_vars => ResumeIntegrity'
<1> SUFFICES ASSUME IInv, [Next]_vars PROVE ResumeIntegrity'
  OBVIOUS
<1>1. TypeOK /\ ResumeIntegrity
  BY DEF IInv
<1> USE <1>1 DEF ResumeIntegrity, IsLastDone
<1>2. CASE UNCHANGED cloud
  BY <1>2, SameDirectory
<1>3. CASE LaunchOuter
  BY <1>3, QuarantineKeepsDone DEF LaunchOuter
<1>4. CASE UploaderRuns
  <2>1. UploaderStep /\ UNCHANGED completed
    BY <1>4 DEF UploaderRuns, rankVars
  <2>2. UploaderChange /\ completed \in Iterations
        /\ \A n \in DoneCheckpoints' : n \in Iterations /\ n <= completed
    BY <2>1, UploaderChanges, UploaderWorks, UploaderKeepsLast
       DEF UploaderChange, DoneCheckpoints
  <2>3. CASE completed \in DoneCheckpoints'
    BY <2>2, <2>3 DEF UploaderChange, Iterations
  <2>4. CASE completed \notin DoneCheckpoints'
    BY <2>2, <2>4 DEF UploaderChange
  <2>5. QED
    BY <2>3, <2>4
<1>5. QED
  BY <1>1, <1>2, <1>3, <1>4, CloudSteps

LEMMA BoundedLossInductive == IInv /\ [Next]_vars => BoundedLoss'
<1> SUFFICES ASSUME IInv, [Next]_vars,
                    NEW n \in Iterations, metrics'[n] = "completed"
             PROVE  DurableAtLeast(n - 1)'
  BY DEF BoundedLoss
<1>1. TypeOK /\ BoundedLoss /\ completed \in Nat
  BY DEF IInv, TypeOK
<1>2. DurableAtLeast(n - 1)
  <2>1. CASE metrics[n] = "completed"
    BY <1>1, <2>1 DEF BoundedLoss
  <2>2. CASE metrics[n] # "completed"
    <3>1. PersistMetrics
      BY <1>1, <2>2, MetricsSteps
    <3>2. n = reporting /\ pc[Lead] \in SavedPCs
      BY <1>1, <2>2, <3>1 DEF PersistMetrics, TypeOK, SavedPCs
    <3>3. n = completed
      BY <3>2 DEF IInv, Counting
    <3>4. QED
      BY <3>2, <3>3, ReportedIsBacked
  <2>3. QED
    BY <2>1, <2>2
<1>3. CASE UNCHANGED cloud
  BY <1>2, <1>3, SameDirectory DEF DurableAtLeast
<1>4. CASE LaunchOuter
  BY <1>2, <1>4, QuarantineKeepsDone DEF LaunchOuter, DurableAtLeast
<1>5. CASE UploaderRuns
  <2>1. UploaderStep /\ UNCHANGED <<completed, metrics>>
    BY <1>5 DEF UploaderRuns, rankVars, reportVars
  <2>2. Resumed
    BY <2>1, UploaderWorks DEF IInv, Lifecycle, VolatileReset
  <2>3. n - 1 \in 0 .. completed
    BY <1>1, <2>1, <2>2 DEF IInv, Durability, Iterations
  <2>4. QED
    BY <1>2, <2>1, <2>3, UploaderKeepsLast
<1>6. QED
  BY <1>1, <1>3, <1>4, <1>5, CloudSteps

LEMMA DoneHasBatchInductive == IInv /\ [Next]_vars => DoneHasBatch'
<1> SUFFICES ASSUME IInv, [Next]_vars,
                    NEW n \in DoneCheckpoints'
             PROVE  manifests'[n].status \in {"committed", "aborted"}
  BY DEF DoneHasBatch
<1>1. TypeOK /\ Lifecycle /\ ManifestGate /\ DoneHasBatch /\ n \in Iterations
      /\ manifests \in [Iterations -> Manifest \cup {NoManifest}]
  BY DEF IInv, DoneCheckpoints, TypeOK, ManifestTypeOK
<1>2. manifests[n].status \in {"committed", "aborted"}
      /\ (n \in DoneCheckpoints \/ UNCHANGED manifests)
  <2>1. CASE n \in DoneCheckpoints
    BY <1>1, <2>1 DEF DoneHasBatch
  <2>2. CASE n \notin DoneCheckpoints
    <3>1. UploaderRuns
      BY <1>1, <2>2, CloudSteps, SameDirectory, QuarantineKeepsDone DEF LaunchOuter
    <3>2. UploaderStep /\ UNCHANGED manifests
      BY <3>1 DEF UploaderRuns, manifestVars
    <3>3. n = completed /\ uploadRunning
      BY <2>2, <3>2, UploaderChanges, UploaderWorks DEF UploaderChange
    <3>4. QED
      BY <1>1, <3>2, <3>3 DEF ManifestGate
  <2>3. QED
    BY <2>1, <2>2
<1>3. CASE UNCHANGED manifestVars
  BY <1>2, <1>3 DEF manifestVars
<1>4. CASE ArchiveManifest \/ DeleteArchived \/ WriteManifest \/ CommitManifest
  <2>1. Resumed /\ UNCHANGED cloud
    BY <1>1, <1>4 DEF ArchiveManifest, DeleteArchived, WriteManifest, CommitManifest, Lifecycle,
                      Resumed, checkpointVars
  <2>2. n # Target
    BY <2>1, TargetNotDone, SameDirectory
  <2>3. manifests'[n] = manifests[n]
    BY <1>1, <1>4, <2>2
       DEF ArchiveManifest, DeleteArchived, WriteManifest, CommitManifest, ArchiveCopy,
           ArchiveDelete, WritePending, WriteCommitted, Write
  <2>4. QED
    BY <1>2, <2>3
<1>5. CASE AbortManifest
  <2>1. UNCHANGED manifests
        \/ manifests' = [manifests EXCEPT ![active] =
                           [status |-> "aborted", attempt |-> CurrentAttempt(active)]]
    BY <1>5 DEF AbortManifest, manifestVars, WriteAborted, Write
  <2>2. QED
    BY <1>1, <1>2, <2>1
<1>6. QED
  BY <1>3, <1>4, <1>5, ManifestSteps

LEMMA IInvInductive == IInv /\ [Next]_vars => IInv'
BY TypeInductive, LifecycleInductive, CountingInductive, ManifestGateInductive,
   LocalCheckpointInductive, UploadProtocolInductive, DirectoryInductive, DurabilityInductive,
   ResumeIntegrityInductive, BoundedLossInductive, DoneHasBatchInductive
   DEF IInv

LEMMA IInvInvariant == Safety => []IInv
BY InitIInv, IInvInductive, PTL DEF Safety


-----------------------------------------------------------------------------
(* The scenario batch of an iteration.                                     *)

\* A prefix of the checkpoints has its last one at its end.
LEMMA LastOfPrefix ==
  ASSUME NEW k \in Nat, DoneCheckpoints = 1 .. k
  PROVE  /\ DoneCheckpoints = {} => k = 0
         /\ \A d \in DoneCheckpoints : IsLastDone(d) => d = k
<1>1. k # 0 => k \in DoneCheckpoints
  OBVIOUS
<1>2. QED
  BY <1>1 DEF IsLastDone

LEMMA BatchesInit == Init => Batches
BY ConfigAssumption
   DEF Init, Off, Batches, DrawPCs, GatePCs, SavePCs, SavedPCs

LEMMA BatchesInductive == IInv /\ Batches /\ [Next]_vars => Batches'
<1> SUFFICES ASSUME IInv, Batches, [Next]_vars, OuterLauncher PROVE Batches'
  BY DEF Batches
<1>1. /\ TypeOK /\ Lifecycle /\ Lead \in Ranks /\ pc \in [Ranks -> PCs]
      /\ batch \in Nat /\ completed \in Nat
  BY ConfigAssumption DEF IInv, TypeOK
<1> USE <1>1 DEF Batches, DrawPCs, GatePCs, SavePCs, SavedPCs
<1>2. CASE QuietStep
  <2>1. /\ UNCHANGED <<checkpointVars, job, completed>> /\ QuietMove(pc[Lead], pc'[Lead])
        /\ pc[Lead] \in {"off", "start"} /\ All(pc[Lead]) => pc' = pc
    BY <1>2, QuietSteps
  <2>2. DoneCheckpoints' = DoneCheckpoints
    BY <2>1, SameDirectory DEF checkpointVars
  <2>3. pc'[Lead] = "start" => pc[Lead] = "start"
    BY <2>1 DEF QuietMove
  <2>4. CASE CollectRollouts
    <3>1. /\ pc[Lead] = "rollouts" /\ pc'[Lead] = "commit" /\ batch' = batch + 1
          /\ UNCHANGED <<completed, job>> /\ job = "up"
      BY <2>1, <2>4 DEF CollectRollouts, Collective, All, Lifecycle
    <3>2. QED
      BY <2>2, <3>1
  <2>5. CASE ~CollectRollouts
    <3>1. UNCHANGED batch
      BY <1>2, <2>5
         DEF QuietStep, BeginIteration, ArchiveManifest, DeleteArchived, WriteManifest,
             CommitManifest, CommitBarrier, PersistDiagnostics, RefuseDiagnostics, Train,
             RankStatesSaved, StateSaved, CloseManifest, PersistMetrics, EndIteration,
             AbortManifest, PersistFailedMetrics, Interrupt, EnterIteration,
             AssertCommitted, LeaveLoop
    <3>2. pc[Lead] = "rollouts" => pc'[Lead] \in {"rollouts", "abort"}
      <4> USE DEF Goto, Collective, All
      <4>1. CASE BeginIteration \/ ArchiveManifest \/ DeleteArchived \/ WriteManifest
        BY <4>1 DEF BeginIteration, ArchiveManifest, DeleteArchived, WriteManifest
      <4>2. CASE CommitManifest \/ CommitBarrier
        BY <4>2 DEF CommitManifest, CommitBarrier
      <4>3. CASE PersistDiagnostics \/ RefuseDiagnostics \/ Train
        BY <4>3 DEF PersistDiagnostics, RefuseDiagnostics, Train
      <4>4. CASE RankStatesSaved \/ StateSaved \/ CloseManifest
        BY <4>4 DEF RankStatesSaved, StateSaved, CloseManifest
      <4>5. CASE PersistMetrics \/ EndIteration
        BY <4>5 DEF PersistMetrics, EndIteration
      <4>6. CASE AbortManifest \/ PersistFailedMetrics \/ Interrupt
        BY <4>6 DEF AbortManifest, PersistFailedMetrics, Interrupt
      <4>7. CASE \E r \in Ranks : EnterIteration(r) \/ AssertCommitted(r) \/ LeaveLoop(r)
        BY <4>7 DEF EnterIteration, AssertCommitted, LeaveLoop
      <4>8. QED
        BY <1>2, <2>5, <4>1, <4>2, <4>3, <4>4, <4>5, <4>6, <4>7 DEF QuietStep
    <3>3. QED
      BY <2>1, <2>2, <2>3, <3>1, <3>2 DEF QuietMove, Interruptible, PCs
  <2>6. QED
    BY <2>4, <2>5
<1>3. CASE LaunchOuter
  <2>1. PICK k \in 0 .. TotalIterations - 1 : DoneCheckpoints = 1 .. k /\ batch' = k + 1
    BY <1>3 DEF LaunchOuter
  <2>2. DoneCheckpoints' = DoneCheckpoints /\ pc'[Lead] = "off"
    BY <1>3, QuarantineKeepsDone DEF LaunchOuter, CanLaunch, Lifecycle
  <2>3. batch' - 1 = k
    BY <2>1
  <2>4. QED
    BY <2>1, <2>2, <2>3
<1>4. CASE QuarantineArtifacts \/ LaunchComplete \/ LaunchGuarded
  <2>1. LaunchGuarded => FALSE
    BY DEF LaunchGuarded
  <2>2. /\ UNCHANGED <<cloud, batch>>
        /\ \/ job = "artifacts" /\ job' = "up" /\ pc'[Lead] = "start"
           \/ job' = "finished" /\ pc'[Lead] = "off"
    BY <1>4, <2>1
       DEF QuarantineArtifacts, LaunchComplete, CanLaunch, Lifecycle, checkpointVars
  <2>3. QED
    BY <2>2, SameDirectory
<1>5. CASE Resume
  <2>1. pc[Lead] = "start" /\ pc'[Lead] = "top" /\ UNCHANGED <<job, batch, cloud>> /\ job = "up"
    BY <1>5 DEF Resume, Collective, All, Lifecycle, launchVars
  <2>2. DoneCheckpoints = 1 .. batch - 1
    BY <2>1
  <2>3. completed' = batch - 1
    BY <1>5, <2>2, LastOfPrefix DEF Resume
  <2>4. QED
    BY <2>1, <2>3
<1>6. CASE (\E r \in Ranks : StepEnd(r) \/ SaveRankState(r)) \/ SaveTrainerState \/ StartUpload
  <2>1. UNCHANGED <<cloud, batch, job, completed>>
    BY <1>6 DEF StepEnd, SaveRankState, SaveTrainerState, StartUpload, Sync, OnSave, SaveLocal,
                checkpointVars, rankVars, launchVars
  <2>2. \/ pc'[Lead] = pc[Lead]
        \/ pc[Lead] = "step_end" /\ pc'[Lead] = "step_barrier"
        \/ pc[Lead] \in SavePCs /\ pc'[Lead] \in SavePCs \cup {"saved"}
    BY <1>6 DEF StepEnd, SaveRankState, SaveTrainerState, StartUpload, Goto
  <2>3. QED
    BY <2>1, <2>2, SameDirectory
<1>7. CASE StepBarrier \/ SaveLora
  <2>1. UNCHANGED <<cloud, batch, job>>
    BY <1>7 DEF StepBarrier, SaveLora, SaveLocal, checkpointVars, launchVars
  <2>2. \/ pc[Lead] = "step_barrier" /\ pc'[Lead] = "save_lora" /\ completed' = completed + 1
        \/ pc[Lead] = "save_lora" /\ pc'[Lead] = "save_rank" /\ completed' = completed
    BY <1>7 DEF StepBarrier, SaveLora, Collective, All, rankVars
  <2>3. job = "up"
    BY <2>2 DEF Lifecycle
  <2>4. QED
    BY <2>1, <2>2, <2>3
<1>8. CASE Finish \/ StopFailed \/ Crash
  BY <1>8 DEF Finish, StopFailed, Crash, ResetRanks, Off
<1>9. CASE UploaderRuns
  <2>1. UploaderStep /\ UNCHANGED <<job, batch, pc, completed>>
    BY <1>9 DEF UploaderRuns, launchVars, rankVars
  <2>2. Resumed
    BY <2>1 DEF Lifecycle, VolatileReset, NoUploader, UploaderStep, UploadStart, UploadCopied,
                UploadMark, PruneTear, PruneRemove, UploadDone
  <2>3. QED
    BY <2>1, <2>2 DEF Resumed
<1>10. CASE UNCHANGED vars
  BY <1>10, SameDirectory DEF vars, checkpointVars, launchVars, rankVars
<1> QED
  BY <1>2, <1>3, <1>4, <1>5, <1>6, <1>7, <1>8, <1>9, <1>10, Steps

-----------------------------------------------------------------------------
(* Invariants of the specification.                                        *)

\* The variables keep their types, whatever the trainer, the uploader, the launcher
\* and a crash do and in which order.
THEOREM TypeCorrect == Safety => []TypeOK
BY IInvInvariant, PTL DEF IInv

\* A restart never loads a torn checkpoint: get_last_checkpoint finds only complete
\* ones, although the uploader copies and prunes directories while the trainer may
\* be killed (cloud_checkpointer.py).
THEOREM ResumeIsSound == Safety => []ResumeIntegrity
BY IInvInvariant, PTL DEF IInv

\* A completed report of iteration n is written only once iteration n - 1 can be
\* resumed from, so a crash costs at most one reported iteration (train.py, _run).
THEOREM LossIsBounded == Safety => []BoundedLoss
BY IInvInvariant, PTL DEF IInv

\* No retry tears the manifest off a complete checkpoint (begin in
\* iteration_manifest.py against the uploader of the attempt before).
THEOREM CheckpointsHaveBatches == Safety => []DoneHasBatch
BY IInvInvariant, PTL DEF IInv

\* Under the outer launcher every iteration is trained on its own scenario batch,
\* however often the trainer went down (ManifestAppWorldScenarioSampler, resumed at
\* the iteration after the contiguous prefix of checkpoints the launcher found).
THEOREM BatchIsAligned ==
  ASSUME OuterLauncher
  PROVE  Safety => []ScenarioBatchAligned
<1>1. Init => IInv /\ Batches
  BY InitIInv, BatchesInit
<1>2. IInv /\ Batches /\ [Next]_vars => (IInv /\ Batches)'
  BY IInvInductive, BatchesInductive
<1>3. IInv /\ Batches => ScenarioBatchAligned
  BY ConfigAssumption DEF Batches, DrawPCs, ScenarioBatchAligned, All, Target
<1>4. QED
  BY <1>1, <1>2, <1>3, PTL DEF Safety

-----------------------------------------------------------------------------
(* What a step may never do.                                               *)

\* _archive_existing and _write never lose the record of an attempt, wherever a crash
\* falls between them.
THEOREM AttemptsAreArchived == Safety => HistoryIsLossless
<1>1. ASSUME IInv, [Next]_vars, NEW n \in Iterations,
             HasManifest(n), manifests'[n].attempt # manifests[n].attempt
      PROVE  ArchiveRecord(n) \in history'
  <2>1. ManifestGate /\ manifests \in [Iterations -> Manifest \cup {NoManifest}]
    BY <1>1 DEF IInv, TypeOK, ManifestTypeOK
  <2>2. CASE UNCHANGED manifestVars \/ ArchiveManifest
    BY <1>1, <2>2 DEF ArchiveManifest, ArchiveCopy, manifestVars
  <2>3. CASE DeleteArchived
    <3>1. ArchiveRecord(Target) \in history /\ UNCHANGED history
      BY <2>1, <2>3 DEF DeleteArchived, ArchiveDelete, ManifestGate
    <3>2. n = Target
      BY <1>1, <2>1, <2>3 DEF DeleteArchived, ArchiveDelete
    <3>3. QED
      BY <3>1, <3>2
  <2>4. CASE WriteManifest
    BY <1>1, <2>1, <2>4 DEF WriteManifest, WritePending, Write, ManifestGate
  <2>5. CASE CommitManifest \/ AbortManifest
    BY <1>1, <2>1, <2>5
       DEF CommitManifest, AbortManifest, WriteCommitted, WriteAborted, Write, CurrentAttempt,
           manifestVars
  <2>6. QED
    BY <1>1, <2>2, <2>3, <2>4, <2>5, ManifestSteps
<1>2. IInv /\ [Next]_vars => [ArchivedBeforeReplaced]_vars
  BY <1>1 DEF ArchivedBeforeReplaced
<1>3. QED
  BY <1>2, IInvInvariant, PTL DEF Safety, HistoryIsLossless

\* A completed report is never turned into a failed one
\* (_persist_failed_iteration_metrics, write_iteration_metric_report).
THEOREM CompletedReportsStay == Safety => CompletedStaysCompleted
<1>1. ASSUME TypeOK, [Next]_vars, NEW n \in Iterations, metrics[n] = "completed"
      PROVE  metrics'[n] # "failed"
  <2>1. CASE PersistFailedMetrics
    BY <1>1, <2>1 DEF PersistFailedMetrics, TypeOK
  <2>2. CASE PersistMetrics
    BY <1>1, <2>2 DEF PersistMetrics, TypeOK
  <2>3. CASE LaunchStep
    BY <1>1, <2>3 DEF LaunchStep, LaunchOuter, QuarantineArtifacts, LaunchComplete, LaunchGuarded,
                      TypeOK, reportVars
  <2>4. CASE UploaderRuns \/ Failure \/ UNCHANGED vars
    BY <1>1, <2>4 DEF UploaderRuns, Failure, Interrupt, Crash, vars, reportVars
  <2>5. CASE \E r \in Ranks : RankStep(r)
    BY <1>1, <2>5 DEF RankStep, EnterIteration, AssertCommitted, StepEnd, SaveRankState,
                      LeaveLoop, reportVars
  <2>6. CASE Resume \/ BeginIteration \/ ArchiveManifest \/ DeleteArchived \/ WriteManifest
             \/ CollectRollouts \/ CommitManifest \/ CommitBarrier \/ PersistDiagnostics
             \/ RefuseDiagnostics \/ Train \/ StepBarrier
    BY <1>1, <2>6 DEF Resume, BeginIteration, ArchiveManifest, DeleteArchived, WriteManifest,
                      CollectRollouts, CommitManifest, CommitBarrier, PersistDiagnostics,
                      RefuseDiagnostics, Train, StepBarrier, reportVars
  <2>7. CASE SaveLora \/ RankStatesSaved \/ SaveTrainerState \/ StateSaved \/ StartUpload
             \/ CloseManifest \/ EndIteration \/ Finish \/ AbortManifest \/ StopFailed
    BY <1>1, <2>7 DEF SaveLora, RankStatesSaved, SaveTrainerState, StateSaved, StartUpload,
                      CloseManifest, EndIteration, Finish, AbortManifest, StopFailed, reportVars
  <2>8. QED
    BY <1>1, <2>1, <2>2, <2>3, <2>4, <2>5, <2>6, <2>7 DEF Next, TrainerStep
<1>2. TypeOK /\ [Next]_vars => [CompletedNotDowngraded]_vars
  BY <1>1 DEF CompletedNotDowngraded
<1>3. QED
  BY <1>2, TypeCorrect, PTL DEF Safety, CompletedStaysCompleted

-----------------------------------------------------------------------------
(* The training run implements DurableTraining.                            *)

\* LastDone is what it says, in this state and in the next one.
LastDoneCorrect ==
  /\ DoneCheckpoints = {} => LastDone = 0
  /\ \A d \in DoneCheckpoints : (\A m \in DoneCheckpoints : m <= d) => LastDone = d

LEMMA LastDoneIsLast == LastDoneCorrect
<1>1. DoneCheckpoints \subseteq 0 .. TotalIterations
  BY ConfigAssumption DEF DoneCheckpoints, Iterations
<1>2. DoneCheckpoints = {} => LastDone = 0
  BY ConfigAssumption DEF LastDone
<1>3. ASSUME NEW d \in DoneCheckpoints, \A m \in DoneCheckpoints : m <= d
      PROVE  LastDone = d
  <2> DEFINE P(k) == IF DoneCheckpoints = {} THEN k = 0 ELSE IsLastDone(k)
  <2>1. d \in 0 .. TotalIterations /\ P(d)
    BY <1>1, <1>3 DEF IsLastDone
  <2>2. LastDone \in 0 .. TotalIterations /\ P(LastDone)
    BY <2>1 DEF LastDone
  <2>3. LastDone \in DoneCheckpoints /\ \A m \in DoneCheckpoints : m <= LastDone
    BY <1>3, <2>2 DEF IsLastDone
  <2>4. QED
    BY <1>1, <1>3, <2>3
<1>4. QED
  BY <1>2, <1>3 DEF LastDoneCorrect

LEMMA LastDoneIsLastNext == LastDoneCorrect'
BY LastDoneIsLast, PTL


\* What a restart would find is not beyond the running trainer, and it is where the
\* trainer is when no upload is under way.
LEMMA LastDoneBounds ==
  ASSUME IInv
  PROVE  /\ LastDone \in 0 .. TotalIterations
         /\ DoneCheckpoints = {} \/ (LastDone \in DoneCheckpoints
                                     /\ \A m \in DoneCheckpoints : m <= LastDone)
         /\ Resumed => LastDone <= completed
         /\ completed \in DoneCheckpoints /\ Resumed => LastDone = completed
         /\ pc[Lead] = "step_barrier" => LastDone = completed
<1>1. /\ Directory /\ DoneCheckpoints \subseteq Iterations /\ completed \in Nat
      /\ TotalIterations \in Nat
  BY ConfigAssumption DEF IInv, TypeOK, DoneCheckpoints
<1>2. DoneCheckpoints = {} \/ (LastDone \in DoneCheckpoints
                               /\ \A m \in DoneCheckpoints : m <= LastDone)
  BY <1>1, LastDoneIsLast DEF LastDoneCorrect, Directory, IsLastDone
<1>3. LastDone \in 0 .. TotalIterations
  <2>1. CASE DoneCheckpoints = {}
    BY <1>1, <2>1, LastDoneIsLast DEF LastDoneCorrect
  <2>2. CASE LastDone \in DoneCheckpoints
    BY <1>1, <2>2 DEF Iterations
  <2>3. QED
    BY <1>2, <2>1, <2>2
<1>4. Resumed => LastDone <= completed
  <2>1. CASE DoneCheckpoints = {}
    BY <1>1, <2>1, LastDoneIsLast DEF LastDoneCorrect
  <2>2. CASE LastDone \in DoneCheckpoints
    BY <1>1, <2>2 DEF Directory
  <2>3. QED
    BY <1>2, <2>1, <2>2
<1>5. completed \in DoneCheckpoints /\ Resumed => LastDone = completed
  BY <1>1, LastDoneIsLast DEF LastDoneCorrect, Directory
<1>6. ASSUME pc[Lead] = "step_barrier" PROVE LastDone = completed
  <2>1. Resumed /\ DurableAtLeast(completed)
    BY <1>6 DEF IInv, Lifecycle, Resumed, UploadProtocol, Durability, GatePCs
  <2>2. LastDone >= completed
    <3>1. CASE completed = 0
      BY <1>3, <3>1
    <3>2. ASSUME NEW d \in DoneCheckpoints, d >= completed PROVE LastDone >= completed
      BY <1>1, <1>2, <1>3, <3>2 DEF Iterations
    <3>3. QED
      BY <2>1, <3>1, <3>2 DEF DurableAtLeast
  <2>3. QED
    BY <1>1, <1>3, <1>4, <2>1, <2>2
<1>7. QED
  BY <1>2, <1>3, <1>4, <1>5, <1>6

LEMMA LastDoneKept ==
  ASSUME IInv, DoneCheckpoints' = DoneCheckpoints
  PROVE  LastDone' = LastDone
BY LastDoneBounds, LastDoneIsLast, LastDoneIsLastNext DEF LastDoneCorrect

\* How a step moves the trainer: only Resume and StepBarrier change the iteration a
\* running trainer is at, and only the uploader adds durable ones.
LEMMA ProgressSteps ==
  ASSUME IInv, [Next]_vars
  PROVE  \/ UNCHANGED <<completed, cloud>> /\ (Resumed' <=> Resumed)
         \/ DoneCheckpoints' = DoneCheckpoints /\ ~Resumed'
         \/ Resume
         \/ StepBarrier
         \/ UploaderRuns
<1>1. TypeOK /\ Lifecycle /\ Lead \in Ranks /\ pc \in [Ranks -> PCs]
  BY ConfigAssumption DEF IInv, TypeOK
<1> USE <1>1 DEF Resumed, Lifecycle, All, launchVars, rankVars
<1>2. CASE QuietStep
  <2>1. UNCHANGED <<completed, cloud, job>> /\ QuietMove(pc[Lead], pc'[Lead])
    BY <1>2, QuietSteps DEF checkpointVars
  <2>2. pc'[Lead] # "start" <=> pc[Lead] # "start"
    BY <2>1 DEF QuietMove, Interruptible, PCs
  <2>3. QED
    BY <2>1, <2>2
<1>3. CASE LaunchOuter
  BY <1>3, QuarantineKeepsDone DEF LaunchOuter
<1>4. CASE QuarantineArtifacts \/ LaunchComplete \/ LaunchGuarded
  <2>1. ~Resumed' /\ UNCHANGED cloud
    BY <1>4 DEF QuarantineArtifacts, LaunchComplete, LaunchGuarded, checkpointVars
  <2>2. QED
    BY <2>1, SameDirectory
<1>5. CASE SaveLora \/ SaveTrainerState \/ StartUpload
           \/ \E r \in Ranks : StepEnd(r) \/ SaveRankState(r)
  BY <1>5 DEF SaveLora, SaveTrainerState, StartUpload, StepEnd, SaveRankState, SaveLocal, OnSave,
              Sync, Goto, Collective, checkpointVars
<1>6. CASE Finish \/ StopFailed \/ Crash
  <2>1. ~Resumed' /\ UNCHANGED cloud
    BY <1>6 DEF Finish, StopFailed, Crash, Stop
  <2>2. QED
    BY <2>1, SameDirectory
<1>7. CASE UNCHANGED vars
  BY <1>7 DEF vars, checkpointVars
<1> QED
  BY <1>2, <1>3, <1>4, <1>5, <1>6, <1>7, Steps

\* However a run is interrupted, it makes progress as DurableTraining says: an upload
\* that is marked persists the iteration the trainer has completed, an iteration is
\* completed only on top of a durable one, and a crash falls back to what is durable.
THEOREM RunImplementsDurableTraining == Safety => ImplementsDurableTraining
<1>1. Init => Durable!Init
  <2> SUFFICES ASSUME Init PROVE LastDone = 0 /\ Trained = 0
    BY DEF Durable!Init
  <2>1. DoneCheckpoints = {} /\ job # "up"
    BY DEF Init, CheckpointInit, DoneCheckpoints, Absent
  <2>2. QED
    BY <2>1, LastDoneIsLast DEF LastDoneCorrect, Trained
<1>2. IInv /\ IInv' /\ [Next]_vars => [Durable!Next]_Durable!vars
  <2> SUFFICES ASSUME IInv, IInv', [Next]_vars
               PROVE  \/ Trained' = LastDone /\ LastDone' = LastDone
                      \/ Trained' = Trained /\ LastDone' = LastDone
                      \/ LastDone' = Trained /\ Trained' = Trained
                      \/ /\ Trained = LastDone /\ Trained < TotalIterations
                         /\ Trained' = Trained + 1 /\ LastDone' = LastDone
    BY DEF Durable!Next, Durable!vars, Durable!Train, Durable!Persist, Durable!Crash
  <2> USE DEF Trained
  <2>1. CASE UNCHANGED <<completed, cloud>> /\ (Resumed' <=> Resumed)
    BY <2>1, SameDirectory, LastDoneKept DEF Resumed
  <2>2. CASE DoneCheckpoints' = DoneCheckpoints /\ ~Resumed'
    BY <2>2, LastDoneKept DEF Resumed
  <2>3. CASE Resume
    <3>1. DoneCheckpoints' = DoneCheckpoints /\ ~Resumed
      BY <2>3, SameDirectory, ConfigAssumption DEF Resume, Collective, All, Resumed
    <3>2. completed' = LastDone
      BY <2>3, LastDoneIsLast DEF Resume, LastDoneCorrect, IsLastDone
    <3>3. Trained' \in {completed', LastDone'} /\ Trained = LastDone
      BY <3>1 DEF Resumed
    <3>4. QED
      BY <3>1, <3>2, <3>3, LastDoneKept
  <2>4. CASE StepBarrier
    <3>1. /\ pc[Lead] = "step_barrier" /\ completed' = completed + 1
          /\ pc'[Lead] = "save_lora" /\ UNCHANGED <<cloud, job>>
      BY <2>4, ConfigAssumption
         DEF StepBarrier, Collective, All, checkpointVars, launchVars
    <3>2. job = "up" /\ completed < TotalIterations
      BY <3>1 DEF IInv, Lifecycle, Counting, GatePCs
    <3>3. LastDone = completed /\ LastDone' = LastDone
      BY <3>1, LastDoneBounds, LastDoneKept, SameDirectory
    <3>4. QED
      BY <3>1, <3>2, <3>3
  <2>5. CASE UploaderRuns
    <3>1. UploaderStep /\ UNCHANGED <<completed, job, pc>>
      BY <2>5 DEF UploaderRuns, launchVars, rankVars
    <3>2. uploadRunning /\ UploaderChange /\ Resumed
      BY <3>1, UploaderWorks, UploaderChanges DEF IInv, Lifecycle, VolatileReset
    <3>3. Trained = completed /\ Trained' = completed
      BY <3>1, <3>2 DEF Resumed
    <3>4. CASE DoneCheckpoints' = DoneCheckpoints
      BY <3>3, <3>4, LastDoneKept
    <3>5. CASE completed \in DoneCheckpoints'
      <4>1. \A m \in DoneCheckpoints' : m <= completed
        BY <3>1, UploaderKeepsLast, UploaderChanges DEF UploaderChange, DoneCheckpoints
      <4>2. QED
        BY <3>3, <3>5, <4>1, LastDoneIsLastNext DEF LastDoneCorrect
    <3>6. QED
      BY <3>2, <3>4, <3>5 DEF UploaderChange
  <2>6. QED
    BY <2>1, <2>2, <2>3, <2>4, <2>5, ProgressSteps
<1>3. QED
  BY <1>1, <1>2, IInvInvariant, PTL DEF Safety, ImplementsDurableTraining, Durable!Spec

=============================================================================
