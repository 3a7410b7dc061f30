-------------------------- MODULE IterationManifest --------------------------
(***************************************************************************)
(* IterationManifestStore (phi_agents/rl/iteration_manifest.py): one JSON  *)
(* manifest per iteration under cloud_path, the two-phase gate of an       *)
(* iteration's rollout batch, and the history directory that earlier       *)
(* attempts are moved to.  Every operator is one store access that the     *)
(* file system makes atomic (the temp-file-and-replace of _write, one copy *)
(* or one delete of _archive_existing), so that a crash can fall between   *)
(* any two of them.                                                        *)
(***************************************************************************)
EXTENDS TrainingConfig

VARIABLES
  manifests,  \* iteration -> its canonical manifest file, or NoManifest
  history     \* the archived manifests

manifestVars == <<manifests, history>>

Statuses == {"pending", "committed", "aborted"}
Manifest == [status : Statuses, attempt : Nat \ {0}]
NoManifest == [status |-> "absent", attempt |-> 0]
Archived == [iteration : Iterations, status : Statuses, attempt : Nat \ {0}]

ManifestTypeOK ==
  /\ manifests \in [Iterations -> Manifest \cup {NoManifest}]
  /\ history \in SUBSET Archived

ManifestInit ==
  /\ manifests = [n \in Iterations |-> NoManifest]
  /\ history = {}

HasManifest(n) == manifests[n] # NoManifest
IsCommitted(n) == manifests[n].status = "committed"

\* _next_attempt: 1 when no manifest exists, one more than the existing one's
\* otherwise (NoManifest carries attempt 0).
NextAttempt(n) == manifests[n].attempt + 1

\* begin: an existing manifest is archived unless it is committed and its
\* checkpoint carries done.txt.
MustArchive(n, checkpointDone) ==
  HasManifest(n) /\ ~(IsCommitted(n) /\ checkpointDone)

ArchiveRecord(n) ==
  [iteration |-> n, status |-> manifests[n].status, attempt |-> manifests[n].attempt]

\* Mutant of ArchiveCopy: the copy to the history directory is forgotten.
ArchiveCopyForgotten(n) == UNCHANGED <<manifests, history>>

\* _archive_existing, first access: the manifest is copied to the history.
ArchiveCopy(n) ==
  /\ history' = history \cup {ArchiveRecord(n)}
  /\ UNCHANGED manifests

\* _archive_existing, second access: the canonical file is deleted.
ArchiveDelete(n) ==
  /\ manifests' = [manifests EXCEPT ![n] = NoManifest]
  /\ UNCHANGED history

Write(n, status, attempt) ==
  /\ manifests' = [manifests EXCEPT ![n] = [status |-> status, attempt |-> attempt]]
  /\ UNCHANGED history

\* _with_current_attempt: keep the attempt of the manifest on disk, 1 if none.
CurrentAttempt(n) == IF HasManifest(n) THEN manifests[n].attempt ELSE 1

WritePending(n, attempt) == Write(n, "pending", attempt)
WriteCommitted(n) == Write(n, "committed", CurrentAttempt(n))
WriteAborted(n) == Write(n, "aborted", CurrentAttempt(n))
=============================================================================
