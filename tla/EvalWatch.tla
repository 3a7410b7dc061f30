------------------------------- MODULE EvalWatch -------------------------------
(***************************************************************************)
(* The evaluation watcher (scripts/loop7b/eval_watch.py, --mode watch): a  *)
(* loop that evaluates the base model and then every due checkpoint of a   *)
(* training run that goes on beside it, and keeps a summary directory.     *)
(* The watcher can be killed between any two steps and started again; what *)
(* survives is the summary directory and the episodes of AppWorld.         *)
(***************************************************************************)
EXTENDS Integers, FiniteSets

CONSTANTS
  Checkpoints,           \* iterations of the checkpoint-* directories
  EvalEvery,             \* --eval-every
  Repeats,               \* --repeat
  WatchFaults            \* bound: failed commands, kills and busy GPUs

ASSUME WatchAssumption ==
  /\ Checkpoints \in SUBSET (Nat \ {0})
  /\ EvalEvery \in Nat \ {0}
  /\ Repeats \in Nat \ {0}
  /\ WatchFaults \in Nat

Base == 0
Models == {Base} \cup Checkpoints
Due == {c \in Checkpoints : c % EvalEvery = 0}
RepeatIdx == 0 .. Repeats - 1
Jobs == [model : Models, repeat : RepeatIdx]

Row == [model : Models, repeat : RepeatIdx, compared : BOOLEAN]

WatchSites == {"poll", "base", "scan", "next", "infer", "parse", "summarize", "analyze", "load",
               "write", "sleep", "died", "down"}

VARIABLES
  watcher,       \* where the watcher is
  job,           \* the evaluation under way
  seen,          \* rows as loaded before the scan or after its last evaluation
  scanned,       \* checkpoint_paths: the complete due checkpoints of this scan
  complete,      \* checkpoints whose directory is complete
  episodes,      \* jobs whose inference output is complete
  rows,          \* summary.json
  torn,          \* summary.json is being written, or was when the watcher was killed
  watchFaults

watchVars == <<watcher, job, seen, scanned, complete, episodes, rows, torn,
               watchFaults>>

WatchTypeOK ==
  /\ watcher \in WatchSites
  /\ job \in Jobs
  /\ seen \in SUBSET Row
  /\ scanned \in SUBSET Due
  /\ complete \in SUBSET Checkpoints
  /\ episodes \in SUBSET Jobs
  /\ rows \in SUBSET Row
  /\ torn \in BOOLEAN
  /\ watchFaults \in 0 .. WatchFaults

WatchInit ==
  /\ watcher = "poll"
  /\ job = [model |-> Base, repeat |-> 0]
  /\ seen = {}
  /\ scanned = {}
  /\ complete = {}
  /\ episodes = {}
  /\ rows = {}
  /\ torn = FALSE
  /\ watchFaults = 0

At(from) == watcher = from
To(site) == watcher' = site
Fails == watchFaults < WatchFaults /\ watchFaults' = watchFaults + 1
NoFault == UNCHANGED watchFaults
Summary == <<rows, torn>>

\* _already_evaluated asks for the first repeat only.
Evaluated(known, model) == \E r \in known : r.model = model /\ r.repeat = 0

\* Mutant of Poll: scans at once, without asking for the base.
PollWithoutBase ==
  /\ At("poll")
  /\ \/ Fails /\ To("sleep")
     \/ NoFault /\ To(IF torn THEN "died" ELSE "scan")
  /\ UNCHANGED <<job, seen, scanned, episodes, Summary, complete>>

\* The top of the loop: without an idle GPU it sleeps; a missing base goes first.
\* A summary that cannot be parsed ends the watcher.
Poll ==
  /\ At("poll")
  /\ \/ Fails /\ To("sleep") /\ UNCHANGED job
     \/ /\ NoFault
        /\ CASE torn -> To("died") /\ UNCHANGED job
             [] ~torn /\ ~Evaluated(rows, Base) ->
                  To("infer") /\ job' = [model |-> Base, repeat |-> 0]
             [] ~torn /\ Evaluated(rows, Base) -> To("scan") /\ UNCHANGED job
  /\ UNCHANGED <<seen, scanned, episodes, Summary, complete>>

\* _checkpoint_paths: the candidates are listed once for the scan.
Scan ==
  /\ At("scan")
  /\ seen' = rows
  /\ scanned' = Due \cap complete
  /\ To("next")
  /\ NoFault
  /\ UNCHANGED <<job, episodes, Summary, complete>>

\* The lowest checkpoint of the scan that has no row; the GPUs are asked for
\* again before each.
Pending == {c \in scanned : ~Evaluated(seen, c)}

NextCheckpoint ==
  /\ At("next")
  /\ \/ Pending = {} /\ To("sleep") /\ NoFault /\ UNCHANGED job
     \/ Pending # {} /\ Fails /\ To("sleep") /\ UNCHANGED job
     \/ /\ NoFault
        /\ \E c \in Pending : /\ \A d \in Pending : c <= d
                            /\ job' = [model |-> c, repeat |-> 0]
        /\ To("infer")
  /\ UNCHANGED <<seen, scanned, episodes, Summary, complete>>

Sleep ==
  /\ At("sleep")
  /\ To("poll")
  /\ seen' = {}
  /\ scanned' = {}
  /\ NoFault
  /\ UNCHANGED <<job, episodes, Summary, complete>>

-----------------------------------------------------------------------------
\* A command of _run_eval_once fails.  The failure is classified by the log of
\* the first repeat, and the summarizer logs elsewhere: a failure that cannot be
\* found there ends the watcher, one that can is retried after a sleep.
CommandFails(visible) ==
  /\ Fails
  /\ \/ visible /\ job.repeat = 0 /\ To("sleep")
     \/ To("died")
  /\ UNCHANGED <<job, seen, scanned, episodes, Summary, complete>>

Command(from, site, visible) ==
  /\ At(from)
  /\ \/ CommandFails(visible)
     \/ To(site) /\ NoFault /\ UNCHANGED <<job, seen, scanned, episodes, Summary, complete>>

\* Mutant of Infer: refuses an output directory that is not empty.
InferRefusesOutput ==
  /\ At("infer")
  /\ To(IF job \in episodes THEN "sleep" ELSE "parse")
  /\ episodes' = episodes \cup {job}
  /\ NoFault
  /\ UNCHANGED <<job, seen, scanned, Summary, complete>>

\* Complete episodes of an earlier attempt are used again.
Infer ==
  /\ At("infer")
  /\ \/ job \notin episodes /\ CommandFails(TRUE)
     \/ /\ To("parse")
        /\ episodes' = episodes \cup {job}
        /\ NoFault
        /\ UNCHANGED <<job, seen, scanned, Summary, complete>>

Parse == Command("parse", "summarize", TRUE)
Summarize == Command("summarize", "analyze", FALSE)
Analyze == Command("analyze", "load", TRUE)

\* summary.json is written in place, not replaced: a watcher killed here
\* leaves a torn file.
WriteRows ==
  /\ At("load")
  /\ torn' = TRUE
  /\ To("write")
  /\ NoFault
  /\ UNCHANGED <<job, seen, scanned, episodes, rows, complete>>

\* The new row, compared with the base rows there are, takes the place of the
\* row of the same experiment and repeat; on to the next repeat, or to the next
\* checkpoint with the rows loaded anew.
NewRow ==
  [model |-> job.model, repeat |-> job.repeat,
   compared |-> job.model # Base /\ \E r \in rows : r.model = Base]

Upsert == {r \in rows : r.model # job.model \/ r.repeat # job.repeat} \cup {NewRow}

RowsWritten ==
  /\ At("write")
  /\ rows' = Upsert
  /\ torn' = FALSE
  /\ IF job.repeat < Repeats - 1
     THEN /\ job' = [job EXCEPT !.repeat = @ + 1]
          /\ To("infer")
          /\ UNCHANGED seen
     ELSE /\ seen' = rows'
          /\ To(IF job.model = Base THEN "scan" ELSE "next")
          /\ UNCHANGED job
  /\ NoFault
  /\ UNCHANGED <<scanned, episodes, complete>>

-----------------------------------------------------------------------------
\* Training completes a checkpoint beside the watcher.
CheckpointAppears ==
  /\ \E c \in Checkpoints \ complete :
       /\ \A d \in Checkpoints \ complete : c <= d
       /\ complete' = complete \cup {c}
  /\ UNCHANGED <<watcher, job, seen, scanned, episodes, Summary, watchFaults>>

Killed ==
  /\ watcher \notin {"died", "down"}
  /\ Fails
  /\ To("down")
  /\ seen' = {}
  /\ scanned' = {}
  /\ UNCHANGED <<job, episodes, Summary, complete>>

\* Whoever starts it again does so with the same arguments.
Restarted ==
  /\ At("down")
  /\ To("poll")
  /\ NoFault
  /\ UNCHANGED <<job, seen, scanned, episodes, Summary, complete>>

WatchStep ==
  \/ Poll \/ Scan \/ NextCheckpoint \/ Sleep \/ Restarted
  \/ Infer \/ Parse \/ Summarize \/ Analyze \/ WriteRows \/ RowsWritten

WatchNext == WatchStep \/ CheckpointAppears \/ Killed

\* Commands end; GPUs are busy, commands fail and watchers are killed finitely
\* often; training goes on.
WatchFairness == WF_watchVars(WatchStep) /\ WF_watchVars(CheckpointAppears)

WatchSpec == WatchInit /\ [][WatchNext]_watchVars /\ WatchFairness

-----------------------------------------------------------------------------
\* Every row of a checkpoint was compared with the base, although base and
\* checkpoint fail and are retried independently (eval_watch.py:739-776).
ComparedWithBase ==
  \A r \in rows : r.model # Base => r.compared

\* The watcher dies, or ends up with a row for the first repeat of every due
\* checkpoint, whatever fails, stays busy or is killed meanwhile.
DueIsEvaluated ==
  <>[](watcher = "died" \/ \A c \in Due : Evaluated(rows, c))
=============================================================================
