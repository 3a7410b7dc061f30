------------------------ MODULE TrainingRunInvariant ------------------------
(***************************************************************************)
(* The inductive invariant behind the safety properties of TrainingRun.    *)
(* Its parts speak of rank 0 (Lead), of the directories and of the two     *)
(* events; the other ranks matter only through the barriers they share     *)
(* with rank 0.                                                            *)
(***************************************************************************)
EXTENDS TrainingRun

\* Where rank 0 is in an iteration: up to the barrier that completes it, while
\* its checkpoint is saved, and after its upload was started.
GatePCs == {"archive", "archive_delete", "write", "rollouts", "commit",
            "commit_barrier", "assert", "diagnostics", "train", "step_end",
            "step_barrier"}
SavePCs == {"save_lora", "save_rank", "rank_saved", "save_state", "state_barrier",
            "on_save"}
SavedPCs == {"saved", "metrics", "tail"}

\* The trainer has loaded its checkpoint and is in its loop or on its way out.
Resumed == job = "up" /\ pc[Lead] # "start"

VolatileReset ==
  /\ local = NoLocal
  /\ uploader = NoUploader
  /\ ~uploadRunning
  /\ ~startEvent
  /\ ~doneEvent
  /\ completed = 0

Lifecycle ==
  /\ pc[Lead] = "off" <=> job # "up"
  /\ pc[Lead] \in {"off", "start"} => All(pc[Lead])
  /\ ~Resumed => VolatileReset

Counting ==
  /\ pc[Lead] \in GatePCs => completed < TotalIterations /\ reporting = completed + 1
  /\ pc[Lead] \in SavePCs \cup SavedPCs => completed > 0 /\ reporting = completed
  /\ \A r \in Ranks : pc[r] \in SavePCs => completed > 0

\* The steps of begin, and what the gate guarantees once it is passed.
ManifestGate ==
  /\ pc[Lead] \in {"archive", "archive_delete"} => HasManifest(Target)
  /\ pc[Lead] = "archive_delete" => ArchiveRecord(Target) \in history
  /\ pc[Lead] = "write" => ~HasManifest(Target)
  /\ pc[Lead] \in {"archive", "archive_delete", "write"} => attempt > 0
  /\ pc[Lead] \in {"diagnostics", "train", "step_end", "step_barrier"}
       => IsCommitted(Target)
  /\ pc[Lead] \in SavePCs => IsCommitted(completed)
  /\ uploadRunning => manifests[completed].status \in {"committed", "aborted"}

\* The local checkpoint of the iteration just completed fills up in the order of
\* the barriers; there is nothing beyond it.
LocalCheckpoint ==
  /\ \A n \in Iterations : n > completed => local[n] = {}
  /\ pc[Lead] \in SavePCs \ {"save_lora"} => "lora" \in local[completed]
  /\ \A r \in Ranks : pc[r] = "rank_saved" => r \in local[completed]
  /\ pc[Lead] \in {"save_state", "state_barrier", "on_save"}
       => Ranks \subseteq local[completed]
  /\ pc[Lead] \in {"state_barrier", "on_save"} => "trainer_state" \in local[completed]
  /\ uploadRunning => completed > 0 /\ local[completed] = Parts

\* Who may set which event.
UploadProtocol ==
  /\ pc[Lead] = "step_barrier" \/ pc[Lead] \in SavePCs => ~uploadRunning
  /\ startEvent => uploadRunning /\ ~doneEvent /\ uploader.state = "idle"
  /\ doneEvent => uploadRunning /\ uploader.state = "idle"
  /\ uploader.state \in {"copying", "marking", "pruning", "dead"}
       => uploadRunning /\ ~startEvent /\ ~doneEvent
  /\ uploader.state \in {"copying", "marking"}
       => uploader.target = completed /\ uploader.full

\* What lies in the durable directory, compared with the trainer's progress.
Directory ==
  /\ \A n \in DoneCheckpoints : Existing(n)
  /\ \A n \in Iterations : Existing(n) => DurableAtLeast(n - 1)
  /\ \A n \in Iterations : Existing(n) /\ Resumed => n <= completed + 1
  /\ \A n \in Iterations :
       Existing(n) /\ (uploadRunning \/ pc[Lead] \in SavePCs) => n <= completed
  /\ \A n \in DoneCheckpoints : Resumed => n <= completed
  /\ uploader.state = "copying" => cloud[completed].files = "torn"
  /\ uploader.state \in {"marking", "pruning"} => cloud[completed].files = "whole"
  /\ uploader.state = "pruning" \/ doneEvent
       => cloud[completed].done
  /\ DoneCheckpoints = {} \/ \E d \in DoneCheckpoints : IsLastDone(d)

\* How far what is durable may lag behind the trainer.
Durability ==
  /\ pc[Lead] \in {"top", "stop"} \cup GatePCs \cup SavedPCs /\ ~uploadRunning
       => DurableAtLeast(completed)
  /\ pc[Lead] \in SavePCs \/ uploadRunning => DurableAtLeast(completed - 1)
  /\ \A n \in Iterations : metrics[n] = "completed" /\ Resumed => n <= completed + 1

\* Up to the call that draws the scenarios of the iteration from the sampler.
DrawPCs == {"archive", "archive_delete", "write", "rollouts"}

\* Which scenario batch comes next: under the outer launcher the one after what is
\* durable, and then always that of the iteration the trainer is in.
Batches ==
  OuterLauncher =>
    /\ batch # 0
    /\ job = "artifacts" \/ pc[Lead] = "start" => DoneCheckpoints = 1 .. batch - 1
    /\ pc[Lead] \in {"top"} \cup DrawPCs \cup SavePCs \cup SavedPCs => batch = completed + 1
    /\ pc[Lead] \in GatePCs \ DrawPCs => batch = completed + 2

IInv ==
  /\ TypeOK
  /\ Lifecycle
  /\ Counting
  /\ ManifestGate
  /\ LocalCheckpoint
  /\ UploadProtocol
  /\ Directory
  /\ Durability
  /\ ResumeIntegrity
  /\ BoundedLoss
  /\ DoneHasBatch
=============================================================================
