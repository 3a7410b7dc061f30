-------------------------- MODULE CloudCheckpointer --------------------------
(***************************************************************************)
(* CloudCheckpointer (phi_agents/rl/cloud_checkpointer.py): the directory  *)
(* of checkpoints that survives a crash, the trainer's local checkpoints,  *)
(* and the uploader process that copies the newest local checkpoint to the *)
(* durable directory, marks it with done.txt and prunes old checkpoints.   *)
(* Trainer and uploader synchronise through two multiprocessing events and *)
(* rank 0's _upload_running flag.                                          *)
(***************************************************************************)
EXTENDS TrainingConfig

VARIABLES
  cloud,          \* iteration -> its checkpoint directory under cloud_path
  local,          \* iteration -> the files of its local checkpoint directory
  uploader,       \* the uploader process of the running trainer
  uploadRunning,  \* _upload_running of rank 0
  startEvent,     \* _start_event
  doneEvent       \* _done_event

checkpointVars == <<cloud, local, uploader, uploadRunning, startEvent, doneEvent>>

\* A directory is torn while a copy or a recursive delete is under way, and
\* stays torn when that is cut short.
Checkpoint == [files : {"none", "torn", "whole"}, done : BOOLEAN]
Absent == [files |-> "none", done |-> FALSE]

\* target: the checkpoint being copied; full: its local directory was complete
\* when the copy listed it.
Uploader == [state : {"none", "idle", "copying", "marking", "pruning", "dead"},
             target : 0 .. TotalIterations, full : BOOLEAN]
NoUploader == [state |-> "none", target |-> 0, full |-> FALSE]

CheckpointTypeOK ==
  /\ cloud \in [Iterations -> Checkpoint]
  /\ local \in [Iterations -> SUBSET Parts]
  /\ uploader \in Uploader
  /\ uploadRunning \in BOOLEAN
  /\ startEvent \in BOOLEAN
  /\ doneEvent \in BOOLEAN

NoLocal == [n \in Iterations |-> {}]

CheckpointInit ==
  /\ cloud = [n \in Iterations |-> Absent]
  /\ local = NoLocal
  /\ uploader = NoUploader
  /\ uploadRunning = FALSE
  /\ startEvent = FALSE
  /\ doneEvent = FALSE

\* Everything but the durable directory goes with the trainer's processes: the
\* next trainer creates a temporary local directory of its own.
LoseVolatile ==
  /\ local' = NoLocal
  /\ uploader' = NoUploader
  /\ uploadRunning' = FALSE
  /\ startEvent' = FALSE
  /\ doneEvent' = FALSE

-----------------------------------------------------------------------------
(* What listing cloud_path returns.                                        *)

Existing(n) == cloud[n].files # "none"
DoneCheckpoints == {n \in Iterations : cloud[n].done}

\* get_last_checkpoint(cloud_path): the highest-numbered one with done.txt.
IsLastDone(n) == n \in DoneCheckpoints /\ \A m \in DoneCheckpoints : m <= n

\* Mutant of Prunable: the slice keeps one checkpoint too few.
PrunableOneTooMany(n) ==
  /\ MaxCkpts > 0
  /\ Existing(n)
  /\ Cardinality({m \in Iterations : m > n /\ Existing(m)}) >= MaxCkpts - 1

\* get_all_checkpoints(cloud_path, _done_only=False)[:-max_ckpts]: all but the
\* max_ckpts highest-numbered directories, incomplete ones included.
Prunable(n) ==
  /\ MaxCkpts > 0
  /\ Existing(n)
  /\ Cardinality({m \in Iterations : m > n /\ Existing(m)}) >= MaxCkpts

-----------------------------------------------------------------------------
(* The uploader process, _uploader_thread.                                 *)

UploadStart ==
  /\ uploader.state = "idle"
  /\ startEvent
  /\ startEvent' = FALSE
  /\ \E n \in Iterations :
       /\ local[n] # {}
       /\ \A m \in Iterations : m > n => local[m] = {}
       /\ IF Existing(n)
            THEN \* shutil.copytree raises FileExistsError: the process ends
                 /\ uploader' = [uploader EXCEPT !.state = "dead"]
                 /\ UNCHANGED cloud
            ELSE /\ uploader' = [state |-> "copying", target |-> n,
                                 full |-> local[n] = Parts]
                 /\ cloud' = [cloud EXCEPT ![n] = [files |-> "torn", done |-> FALSE]]
  /\ UNCHANGED <<local, uploadRunning, doneEvent>>

UploadCopied ==
  /\ uploader.state = "copying"
  /\ cloud' = IF uploader.full THEN [cloud EXCEPT ![uploader.target].files = "whole"]
                               ELSE cloud
  /\ uploader' = [uploader EXCEPT !.state = "marking"]
  /\ UNCHANGED <<local, uploadRunning, startEvent, doneEvent>>

UploadMark ==
  /\ uploader.state = "marking"
  /\ cloud' = [cloud EXCEPT ![uploader.target].done = TRUE]
  /\ uploader' = [uploader EXCEPT !.state = "pruning"]
  /\ UNCHANGED <<local, uploadRunning, startEvent, doneEvent>>

\* The recursive delete of the oldest prunable checkpoint: some of its files,
\* done.txt perhaps among them, are gone before the directory is.
IsOldestPrunable(n) == Prunable(n) /\ \A m \in Iterations : m < n => ~Existing(m)

PruneTear(n) ==
  /\ uploader.state = "pruning"
  /\ IsOldestPrunable(n)
  /\ cloud[n].files = "whole"
  /\ \E kept \in {cloud[n].done, FALSE} :
       cloud' = [cloud EXCEPT ![n] = [files |-> "torn", done |-> kept]]
  /\ UNCHANGED <<local, uploader, uploadRunning, startEvent, doneEvent>>

PruneRemove(n) ==
  /\ uploader.state = "pruning"
  /\ IsOldestPrunable(n)
  /\ cloud[n].files = "torn"
  /\ cloud' = [cloud EXCEPT ![n] = Absent]
  /\ UNCHANGED <<local, uploader, uploadRunning, startEvent, doneEvent>>

\* Mutant of UploadDone: done_event is set only where something was pruned.
UploadDoneSilent ==
  /\ uploader.state = "pruning"
  /\ \A n \in Iterations : ~Prunable(n)
  /\ uploader' = [uploader EXCEPT !.state = "idle"]
  /\ UNCHANGED <<cloud, local, uploadRunning, startEvent, doneEvent>>

UploadDone ==
  /\ uploader.state = "pruning"
  /\ \A n \in Iterations : ~Prunable(n)
  /\ uploader' = [uploader EXCEPT !.state = "idle"]
  /\ doneEvent' = TRUE
  /\ UNCHANGED <<cloud, local, uploadRunning, startEvent>>

UploaderStep ==
  \/ UploadStart
  \/ UploadCopied
  \/ UploadMark
  \/ \E n \in Iterations : PruneTear(n)
  \/ \E n \in Iterations : PruneRemove(n)
  \/ UploadDone

-----------------------------------------------------------------------------
(* The trainer's side, called by rank 0.                                   *)

\* Mutant of SyncReady and Sync: sync() returns without waiting.
SyncReadyAlways == TRUE

\* sync() may return: no upload under way, or its done event is set.
SyncReady == uploadRunning => doneEvent

Sync ==
  /\ SyncReady
  /\ uploadRunning' = FALSE
  /\ doneEvent' = IF uploadRunning THEN FALSE ELSE doneEvent
  /\ UNCHANGED <<cloud, local, uploader, startEvent>>

\* Adding a file to the local checkpoint of iteration n.
SaveLocal(n, part) ==
  /\ local' = [local EXCEPT ![n] = @ \cup {part}]
  /\ UNCHANGED <<cloud, uploader, uploadRunning, startEvent, doneEvent>>

\* on_save: spawn the uploader at the first save (a process that has died is
\* not replaced: _proc is still set), wait for the previous upload, start this.
OnSave ==
  /\ SyncReady
  /\ uploader' = IF uploader.state = "none" THEN [NoUploader EXCEPT !.state = "idle"]
                                            ELSE uploader
  /\ doneEvent' = IF uploadRunning THEN FALSE ELSE doneEvent
  /\ uploadRunning' = TRUE
  /\ startEvent' = TRUE
  /\ UNCHANGED <<cloud, local>>

\* stop: wait for the running upload, let the uploader leave its loop, join it.
Stop ==
  /\ SyncReady
  /\ LoseVolatile
  /\ UNCHANGED cloud
=============================================================================
