------------------------------ MODULE ApiEvaluation ------------------------------
(***************************************************************************)
(* The development evaluation of an API model                              *)
(* (run_deepseek_appworld_dev_eval of deepseek_appworld.py): the selected  *)
(* tasks one after the other, a trajectory for each and a row in           *)
(* summary.csv, in an output directory that a later process may resume.    *)
(* What was spent is not part of the directory: every process starts from  *)
(* zero.                                                                   *)
(***************************************************************************)
EXTENDS ApiTask

DriverSites == {"down", "task", "attempt", "upsert", "finished"}

\* A row of summary.csv: what it says of its task.
ApiRow == [status : {"completed", "failed"}, success : BOOLEAN]

VARIABLES
  driver,        \* where the process is
  resume,        \* settings.resume of this process
  task,          \* the task it is at
  tried,         \* attempts of this task so far
  row,           \* the result that is to be written, or the last one
  summary,       \* rows of summary.csv, by task
  through        \* history: the last process went through all its tasks

driverVars == <<driver, resume, task, tried, row, summary, through>>

NoRow == [status |-> "none"]

DriverTypeOK ==
  /\ driver \in DriverSites
  /\ resume \in BOOLEAN
  /\ task \in TaskIds
  /\ tried \in 0 .. TaskRetries
  /\ row \in ApiRow \cup {NoRow}
  /\ summary \in [TaskIds -> ApiRow \cup {NoRow}]
  /\ through \in BOOLEAN

DriverInit ==
  /\ driver = "down"
  /\ resume = FALSE
  /\ task = 1
  /\ tried = 0
  /\ row = NoRow
  /\ summary = [t \in TaskIds |-> NoRow]
  /\ through = FALSE

DriverGoes(from, to) == driver = from /\ driver' = to
File(t) == trajectories[<<t, 0>>]

\* is_completed_trajectory: a torn file is not a completed one.
is_completed_trajectory(t) ==
  File(t) # Missing /\ File(t).state = "whole" /\ File(t).status = "completed"

\* save_run_config, and the client starts with nothing spent.
DriverStarts ==
  /\ DriverGoes("down", "task")
  /\ resume' \in BOOLEAN
  /\ task' = 1
  /\ through' = FALSE
  /\ UNCHANGED <<tried, row, summary, apiVars>>

\* run_single_task: a completed trajectory stands, whatever its error type.
Resumed ==
  /\ DriverGoes("task", "upsert")
  /\ resume /\ is_completed_trajectory(task)
  /\ row' = [status |-> "completed", success |-> File(task).success]
  /\ error' = IF File(task).limited THEN "cost_limit_reached" ELSE "none"
  /\ UNCHANGED <<resume, task, tried, summary, through, api, path, source, AppWorld, total, Steps, status,
                 success, trajectories, apiFaults>>

TaskBegins ==
  /\ DriverGoes("task", "attempt")
  /\ ~(resume /\ is_completed_trajectory(task))
  /\ BeginAttempt(<<task, 0>>, NoPath)
  /\ tried' = 0
  /\ UNCHANGED <<resume, task, row, summary, through>>

DriverAttempt ==
  /\ driver = "attempt"
  /\ AttemptStep \/ WorldDies
  /\ UNCHANGED driverVars

TaskTried ==
  /\ driver = "attempt" /\ api = "returned"
  /\ SaveEnds
  /\ IF status = "completed" \/ error \in {"cost_limit_reached", "deepseek_request_error"}
          \/ tried = TaskRetries
     THEN /\ driver' = "upsert"
          /\ row' = [status |-> status, success |-> success]
          /\ api' = "idle"
          /\ UNCHANGED <<tried, path, source, AppWorld, total, Steps, Result, apiFaults>>
     ELSE /\ tried' = tried + 1
          /\ api' = "initialize"
          /\ Blank
          /\ UNCHANGED <<driver, row, path, source, AppWorld, total, apiFaults>>
  /\ UNCHANGED <<resume, task, summary, through>>

\* upsert_summary_row reads all rows and writes them anew, then the driver goes
\* on, or stops because the budget is used up or the result says that it was.
Upserted ==
  /\ driver = "upsert"
  /\ summary' = [summary EXCEPT ![task] = row]
  /\ IF cost_limit_reached \/ error = "cost_limit_reached" \/ task = ApiTasks
     THEN driver' = "finished" /\ through' = (task = ApiTasks) /\ UNCHANGED task
     ELSE driver' = "task" /\ task' = task + 1 /\ UNCHANGED through
  /\ row' = NoRow
  /\ Blank
  /\ UNCHANGED <<resume, tried, api, path, source, AppWorld, total, trajectories, apiFaults>>

DriverExits ==
  /\ DriverGoes("finished", "down")
  /\ ProcessExits
  /\ UNCHANGED <<resume, task, tried, row, summary, through>>

\* Killed; in the middle of an upsert, which truncates the file first, the rows
\* from some task on are lost.
DriverKilled ==
  /\ driver # "down"
  /\ driver' = "down"
  /\ \/ UNCHANGED summary
     \/ /\ driver = "upsert"
        /\ \E kept \in TaskIds :
             summary' = [t \in TaskIds |-> IF t < kept THEN summary[t] ELSE NoRow]
  /\ row' = NoRow
  /\ ApiFault /\ ProcessGone
  /\ UNCHANGED <<resume, task, tried, through>>

DriverNext ==
  \/ DriverStarts \/ Resumed \/ TaskBegins \/ DriverAttempt \/ TaskTried \/ Upserted
  \/ DriverExits \/ DriverKilled

DriverSpec == ApiInit /\ DriverInit /\ [][DriverNext]_<<apiVars, driverVars>>

-----------------------------------------------------------------------------
\* When a process has gone through its tasks, resumed or not, after any kills of
\* others, the summary has a row for every task and the row says what the
\* trajectory says (deepseek_appworld.py:829-866, 1142-1161, 1197-1223).
SummaryAgrees ==
  through /\ driver = "finished" =>
    \A t \in TaskIds :
      /\ summary[t] # NoRow /\ File(t).state = "whole"
      /\ summary[t] = [status |-> File(t).status, success |-> File(t).success]

\* A process stops before its last task only with a task whose trajectory says
\* that the budget was reached, in this process or in the one it resumes.
StopsAtLimit ==
  driver = "finished" /\ ~through =>
    cost_limit_reached \/ File(task).limited

\* The output directory tells how the last process ended: through all tasks
\* with a summary that agrees with them, or early and why.
EvaluationIsAccounted == SummaryAgrees /\ StopsAtLimit
==================================================================================
