---------------------------- MODULE TeacherGeneration ----------------------------
(***************************************************************************)
(* The generation of teacher trajectories (phi_agents/sft/teacher.py): for *)
(* every task, attempts until enough of them succeed, recorded in a        *)
(* manifest that survives the process, with the money spent.  Each attempt *)
(* has a trajectory of its own, and one that follows a failure is repaired *)
(* from it.                                                                *)
(***************************************************************************)
EXTENDS ApiTask, FiniteSetsExt

CONSTANTS
  TeacherTasks,          \* tasks of the split: the first ones
  SuccessesPerTask       \* successes_per_task

ASSUME TeacherAssumption ==
  /\ TeacherTasks \in 1 .. ApiTasks
  /\ SuccessesPerTask \in 1 .. Attempts

TeacherIds == 1 .. TeacherTasks

Job == [path : Paths, success : BOOLEAN, accepted : BOOLEAN]
TeacherSites == {"down", "round", "attempt", "annotate", "record", "finished"}

VARIABLES
  teacher,       \* where the generation is
  worked,        \* tasks this round has been at
  progress,      \* made_progress
  retry,         \* retry_index
  jobs,          \* the jobs in memory, as sequence
  manifest,      \* generation_manifest.json: jobs and cumulative cost
  spent,         \* history: what all processes have paid
  kills          \* history: processes that were killed

teacherVars == <<teacher, worked, progress, retry, jobs, manifest, spent, kills>>

TeacherTypeOK ==
  /\ teacher \in TeacherSites
  /\ worked \in SUBSET TeacherIds
  /\ progress \in BOOLEAN
  /\ retry \in 0 .. TaskRetries
  /\ \A i \in DOMAIN jobs : jobs[i] \in Job
  /\ \A i \in DOMAIN manifest.jobs : manifest.jobs[i] \in Job
  /\ manifest.cost \in 0 .. CostLimit + Price
  /\ spent \in Nat
  /\ kills \in 0 .. ApiFaults

TeacherInit ==
  /\ teacher = "down"
  /\ worked = {}
  /\ progress = TRUE
  /\ retry = 0
  /\ jobs = <<>>
  /\ manifest = [jobs |-> <<>>, cost |-> 0]
  /\ spent = 0
  /\ kills = 0

TeacherGoes(from, to) == teacher = from /\ teacher' = to
JobsOf(task) == {i \in DOMAIN jobs : jobs[i].path[1] = task}
Accepted(task) == Cardinality({i \in JobsOf(task) : jobs[i].accepted})

\* _task_progress against the targets; every job was an attempt of its own.
Tried(task) == Cardinality(JobsOf(task))
Wanted(task) == Accepted(task) < SuccessesPerTask /\ Tried(task) < Attempts

\* _last_failed_path.
RepairSource(task) ==
  LET failed == {i \in JobsOf(task) : ~jobs[i].success}
  IN  IF failed = {} THEN NoPath ELSE jobs[Max(failed)].path

-----------------------------------------------------------------------------
\* Mutant of TeacherStarts: every process has the whole budget.
TeacherStartsFromZero ==
  /\ TeacherGoes("down", "round")
  /\ jobs' = manifest.jobs
  /\ total' = 0
  /\ worked' = {}
  /\ progress' = FALSE
  /\ retry' = 0
  /\ UNCHANGED <<manifest, spent, kills, api, path, source, AppWorld, Steps, Result, trajectories, apiFaults>>

\* A process reads the manifest and takes over the money spent.
TeacherStarts ==
  /\ TeacherGoes("down", "round")
  /\ jobs' = manifest.jobs
  /\ total' = manifest.cost
  /\ worked' = {}
  /\ progress' = FALSE
  /\ retry' = 0
  /\ UNCHANGED <<manifest, spent, kills, api, path, source, AppWorld, Steps, Result, trajectories, apiFaults>>

NextTask(task) == /\ task \notin worked
                  /\ \A other \in TeacherIds \ worked : task <= other

\* The next task of the round that wants an attempt.
BeginJob ==
  /\ teacher = "round" /\ ~cost_limit_reached
  /\ \E task \in TeacherIds :
       /\ NextTask(task)
       /\ worked' = worked \cup {task}
       /\ IF Wanted(task)
          THEN /\ teacher' = "attempt"
               /\ BeginAttempt(<<task, Tried(task)>>, RepairSource(task))
               /\ progress' = TRUE
          ELSE UNCHANGED <<teacher, progress, apiVars>>
  /\ retry' = 0
  /\ UNCHANGED <<jobs, manifest, spent, kills>>

NextRound ==
  /\ teacher = "round"
  /\ cost_limit_reached \/ worked = TeacherIds
  /\ IF progress /\ ~cost_limit_reached THEN UNCHANGED teacher ELSE teacher' = "finished"
  /\ worked' = {}
  /\ progress' = FALSE
  /\ UNCHANGED <<retry, jobs, manifest, spent, kills, apiVars>>

\* The attempt, whose payments are counted.
Attempt ==
  /\ teacher = "attempt"
  /\ AttemptStep \/ WorldDies
  /\ spent' = spent + (total' - total)
  /\ UNCHANGED <<teacher, worked, progress, retry, jobs, manifest, kills>>

\* A failed attempt is tried again under the same path, unless the model or the
\* budget was at fault.
AttemptEnds ==
  /\ teacher = "attempt" /\ api = "returned"
  /\ IF status = "completed" \/ error \in {"cost_limit_reached", "deepseek_request_error"}
          \/ retry = TaskRetries
     THEN /\ SaveEnds
          /\ teacher' = "annotate"
          /\ UNCHANGED <<retry, api, path, source, AppWorld, total, Steps, Result, apiFaults>>
     ELSE /\ retry' = retry + 1
          /\ api' = "initialize"
          /\ SaveEnds
          /\ Blank
          /\ UNCHANGED <<teacher, path, source, AppWorld, total, apiFaults>>
  /\ UNCHANGED <<worked, progress, jobs, manifest, spent, kills>>

\* The trajectory is read and written again, in place, with its provenance.
Annotate ==
  /\ TeacherGoes("annotate", "record")
  /\ trajectories' = [trajectories EXCEPT ![path].state = "torn"]
  /\ UNCHANGED <<worked, progress, retry, jobs, manifest, spent, kills,
                 api, path, source, AppWorld, total, Steps, Result, apiFaults>>

\* The job joins the manifest, which is replaced as a whole.  A success with
\* too many answers without code is not accepted.
RecordJob ==
  /\ TeacherGoes("record", "round")
  /\ SaveEnds
  /\ \E accepted \in {success, FALSE} :
       jobs' = Append(jobs, [path |-> path, success |-> success, accepted |-> accepted])
  /\ manifest' = [jobs |-> jobs', cost |-> total]
  /\ AttemptOver
  /\ retry' = 0
  /\ UNCHANGED <<worked, progress, spent, kills, path, AppWorld, total, apiFaults>>

Forgotten ==
  /\ worked' = {}
  /\ progress' = TRUE
  /\ retry' = 0
  /\ jobs' = <<>>

\* The plan is added to the manifest, and the process ends.
TeacherExits ==
  /\ TeacherGoes("finished", "down")
  /\ manifest' = [jobs |-> jobs, cost |-> total]
  /\ ProcessExits /\ Forgotten
  /\ UNCHANGED <<spent, kills>>

\* Killed, or ended by a restart of AppWorld that fails.
TeacherKilled ==
  /\ teacher \notin {"down", "finished"}
  /\ teacher' = "down"
  /\ kills' = kills + 1
  /\ ApiFault /\ ProcessGone /\ Forgotten
  /\ UNCHANGED <<manifest, spent>>

TeacherStep ==
  \/ TeacherStarts \/ BeginJob \/ NextRound \/ Attempt \/ AttemptEnds \/ Annotate \/ RecordJob
  \/ TeacherExits

TeacherNext == TeacherStep \/ TeacherKilled
TeacherSpec == ApiInit /\ TeacherInit /\ [][TeacherNext]_<<apiVars, teacherVars>>
               /\ WF_<<apiVars, teacherVars>>(TeacherStep)

-----------------------------------------------------------------------------
\* The budget over all processes: the limit is exceeded by less than one
\* response, and every kill hides at most one attempt from the manifest
\* (teacher.py:165-168 and 273-274, deepseek_appworld.py:617-697).
SpendIsBounded ==
  spent < CostLimit + Price + kills * MaxAttemptCost

\* A job that was recorded has its trajectory, whole and with the outcome of the
\* job, and a repair starts from such a one: attempts that were killed before
\* they were recorded use their path again, never that of another.
JobsHaveTrajectories ==
  \A i \in DOMAIN manifest.jobs :
    LET job == manifest.jobs[i]
    IN  trajectories[job.path] # Missing /\ trajectories[job.path].state = "whole"
        /\ trajectories[job.path].success = job.success

\* The manifest accounts for what was generated: its cost and its trajectories.
GenerationIsAccounted == SpendIsBounded /\ JobsHaveTrajectories
==================================================================================
