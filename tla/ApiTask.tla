--------------------------------- MODULE ApiTask ---------------------------------
(***************************************************************************)
(* One attempt of one AppWorld task by an API model                        *)
(* (phi_agents/api_eval/deepseek_appworld.py, run_single_task_once), with  *)
(* the client whose spending is limited and the trajectory the attempt     *)
(* leaves on disk.  Its callers are the development evaluation             *)
(* (ApiEvaluation) and the generation of teacher data (TeacherGeneration). *)
(* The process is single threaded; it can be killed between any two steps. *)
(***************************************************************************)
EXTENDS Integers, FiniteSets, Sequences

CONSTANTS
  ApiTasks,              \* number of tasks
  Attempts,              \* attempts that have a trajectory of their own: max_attempts_per_task
  CostLimit,             \* cost_limit_cny
  Price,                 \* bound: the most one response costs
  TaskInteractions,      \* max_interactions
  Reasks,                \* invalid_response_retries
  TaskRetries,           \* task_retries
  ApiFaults              \* bound: refused requests, lost calls, kills

ASSUME ApiAssumption ==
  /\ ApiTasks \in Nat \ {0}
  /\ Attempts \in Nat \ {0}
  /\ CostLimit \in Nat \ {0}
  /\ Price \in Nat
  /\ TaskInteractions \in Nat \ {0}
  /\ Reasks \in Nat
  /\ TaskRetries \in Nat
  /\ ApiFaults \in Nat

TaskIds == 1 .. ApiTasks
Paths == TaskIds \X (0 .. Attempts - 1)
NoPath == <<0, 0>>

ApiErrors == {"none", "max_interactions", "cost_limit_reached", "deepseek_request_error", "appworld",
              "other"}
MaxAttemptCost == (TaskRetries + 1) * TaskInteractions * (Reasks + 1) * Price

\* A trajectory file; limited: its error type is cost_limit_reached; prefix is the number of its steps before the first that
\* failed, had no code or completed the task, the ones a repair replays.
Trajectory == [state : {"whole", "torn"}, status : {"completed", "failed"}, limited : BOOLEAN,
               success : BOOLEAN, prefix : 0 .. TaskInteractions]
Missing == [state |-> "missing"]

ApiSites == {"idle", "initialize", "replay", "ask", "act", "evaluate", "restart", "close", "save", "returned"}

VARIABLES
  api,           \* where the attempt is
  path,          \* its trajectory: task and attempt
  source,        \* repair_from_trajectory, or NoPath
  opened,        \* is the task id of the AppWorld handle set?
  serving,       \* does its server run?
  total,         \* total_cost_cny of the client
  steps, prefix, \* the number of steps so far, and prefix as in Trajectory
  reasked,       \* invalid responses before the action under way
  status, error, success,
  trajectories,  \* the files, by path
  apiFaults

apiVars == <<api, path, source, opened, serving, total, steps, prefix, reasked, status, error, success,
             trajectories, apiFaults>>

ApiTypeOK ==
  /\ api \in ApiSites
  /\ path \in Paths
  /\ source \in Paths \cup {NoPath}
  /\ opened \in BOOLEAN
  /\ serving \in BOOLEAN
  /\ total \in 0 .. CostLimit + Price
  /\ steps \in 0 .. TaskInteractions
  /\ prefix \in 0 .. steps
  /\ reasked \in 0 .. Reasks
  /\ status \in {"completed", "failed"}
  /\ error \in ApiErrors
  /\ success \in BOOLEAN
  /\ trajectories \in [Paths -> Trajectory \cup {Missing}]
  /\ apiFaults \in 0 .. ApiFaults

ApiInit ==
  /\ api = "idle"
  /\ path = <<1, 0>>
  /\ source = NoPath
  /\ opened = FALSE
  /\ serving = TRUE
  /\ total = 0
  /\ steps = 0
  /\ prefix = 0
  /\ reasked = 0
  /\ status = "failed"
  /\ error = "none"
  /\ success = FALSE
  /\ trajectories = [p \in Paths |-> Missing]
  /\ apiFaults = 0

cost_limit_reached == total >= CostLimit
ApiFault == apiFaults < ApiFaults /\ apiFaults' = apiFaults + 1
NoApiFault == UNCHANGED apiFaults
AttemptGoes(from, to) == api = from /\ api' = to
AppWorld == <<opened, serving>>
Steps == <<steps, prefix, reasked>>
Result == <<status, error, success>>
Fixed == UNCHANGED <<path, source, trajectories>>

\* run_single_task_once starts with nothing.
Blank ==
  /\ steps' = 0 /\ prefix' = 0 /\ reasked' = 0
  /\ status' = "failed" /\ error' = "none" /\ success' = FALSE

\* An attempt begins: the caller says at which path, repaired from which other.
BeginAttempt(at, from) ==
  /\ api' = "initialize"
  /\ path' = at
  /\ source' = from
  /\ Blank
  /\ UNCHANGED <<AppWorld, total, trajectories, apiFaults>>

\* The except clauses: an AppWorld error restarts the server, any other error
\* tries to close the task.
Raise(what) ==
  /\ error' = what
  /\ api' = IF what = "appworld" THEN "restart" ELSE "close"
  /\ UNCHANGED <<status, success>>

-----------------------------------------------------------------------------
\* initialize: a task id that an earlier attempt could not close is refused.
ApiInitialize ==
  /\ api = "initialize"
  /\ \/ opened /\ Raise("other") /\ NoApiFault /\ UNCHANGED opened
     \/ /\ ~opened
        /\ IF serving THEN ApiFault ELSE NoApiFault
        /\ Raise("appworld") /\ UNCHANGED opened
     \/ /\ ~opened /\ serving
        /\ opened' = TRUE
        /\ api' = IF source = NoPath THEN "ask" ELSE "replay"
        /\ NoApiFault /\ UNCHANGED Result
  /\ UNCHANGED <<serving, total, Steps>>
  /\ Fixed

\* execute and task_completed, at step steps + 1: a step is clean when it has
\* code and neither fails nor completes the task.
RecordStep(clean) ==
  /\ steps' = steps + 1
  /\ prefix' = IF clean /\ prefix = steps THEN prefix + 1 ELSE prefix
  /\ reasked' = 0

LostCall ==
  /\ IF serving THEN ApiFault ELSE NoApiFault
  /\ Raise("appworld")
  /\ UNCHANGED Steps

\* The clean steps of the source are executed again, without asking the model;
\* a replayed action may fail this time.
Replay ==
  /\ api = "replay"
  /\ \/ /\ steps = trajectories[source].prefix
        /\ api' = "ask" /\ UNCHANGED <<Steps, Result>> /\ NoApiFault
     \/ /\ steps < trajectories[source].prefix
        /\ \/ /\ serving
              /\ \E clean \in BOOLEAN : RecordStep(clean)
              /\ UNCHANGED <<api, Result>> /\ NoApiFault
           \/ LostCall
  /\ UNCHANGED <<AppWorld, total>>
  /\ Fixed

\* next_code_block over chat: a reached limit refuses, a request that fails in
\* all its tries or exceeds its deadline ends the attempt, an answer is paid
\* for (an answer without usage costs nothing); an answer without code is asked
\* for again, in vain at last.
Ask ==
  /\ api = "ask"
  /\ steps < TaskInteractions
  /\ \/ cost_limit_reached /\ Raise("cost_limit_reached") /\ NoApiFault /\ UNCHANGED <<total, reasked>>
     \/ /\ ~cost_limit_reached
        /\ ApiFault /\ Raise("deepseek_request_error") /\ UNCHANGED <<total, reasked>>
     \/ /\ ~cost_limit_reached
        /\ \E price \in 0 .. Price : total' = total + price
        /\ \/ api' = "act" /\ UNCHANGED reasked
           \/ reasked < Reasks /\ reasked' = reasked + 1 /\ UNCHANGED api
        /\ NoApiFault /\ UNCHANGED Result
  /\ UNCHANGED <<AppWorld, steps, prefix>>
  /\ Fixed

AskNoMore ==
  /\ AttemptGoes("ask", "evaluate")
  /\ steps = TaskInteractions
  /\ error' = "max_interactions"
  /\ UNCHANGED <<AppWorld, total, Steps, status, success, apiFaults>>
  /\ Fixed

\* The reached limit is seen before the completion of the task.
Act ==
  /\ api = "act"
  /\ \/ /\ serving
        /\ \E clean, completed \in BOOLEAN :
             /\ RecordStep(clean /\ ~completed)
             /\ CASE cost_limit_reached -> api' = "evaluate" /\ error' = "cost_limit_reached"
                  [] ~cost_limit_reached /\ completed -> api' = "evaluate" /\ UNCHANGED error
                  [] OTHER -> api' = "ask" /\ UNCHANGED error
        /\ NoApiFault /\ UNCHANGED <<status, success>>
     \/ LostCall
  /\ UNCHANGED <<AppWorld, total>>
  /\ Fixed

ApiEvaluate ==
  /\ api = "evaluate"
  /\ \/ /\ serving
        /\ success' \in BOOLEAN
        /\ status' = "completed"
        /\ api' = "close"
        /\ NoApiFault /\ UNCHANGED error
     \/ /\ IF serving THEN ApiFault ELSE NoApiFault
        /\ Raise("appworld")
  /\ UNCHANGED <<AppWorld, total, Steps>>
  /\ Fixed

\* safe_close_world: a failure is logged, and leaves the task id set.
SafeCloseWorld ==
  /\ AttemptGoes("close", "save")
  /\ \/ ~opened /\ UNCHANGED opened /\ NoApiFault
     \/ opened /\ serving /\ opened' = FALSE /\ NoApiFault
     \/ opened /\ UNCHANGED opened /\ (IF serving THEN ApiFault ELSE NoApiFault)
  /\ UNCHANGED <<serving, total, Steps, Result>>
  /\ Fixed

RestartWorld ==
  /\ AttemptGoes("restart", "save")
  /\ serving' = TRUE
  /\ opened' = FALSE
  /\ UNCHANGED <<total, Steps, Result, apiFaults>>
  /\ Fixed

\* save_json writes in place: the file of an earlier attempt is gone as soon as
\* it begins.
SaveBegins ==
  /\ AttemptGoes("save", "returned")
  /\ trajectories' = [trajectories EXCEPT ![path] =
       [state |-> "torn", status |-> status, limited |-> error = "cost_limit_reached",
        success |-> success, prefix |-> prefix]]
  /\ UNCHANGED <<path, source, AppWorld, total, Steps, Result, apiFaults>>

\* run_single_task_once returns; its caller goes on.
SaveEnds == trajectories' = [trajectories EXCEPT ![path].state = "whole"]

AttemptStep ==
  \/ ApiInitialize \/ Replay \/ Ask \/ AskNoMore \/ Act \/ ApiEvaluate
  \/ SafeCloseWorld \/ RestartWorld \/ SaveBegins

\* The AppWorld server dies under the attempt.
WorldDies ==
  /\ serving
  /\ api \notin {"idle", "returned"}
  /\ serving' = FALSE
  /\ ApiFault
  /\ UNCHANGED <<api, path, source, opened, total, Steps, Result, trajectories>>

\* The variables of the attempt go out of scope.
AttemptOver ==
  /\ api' = "idle"
  /\ source' = NoPath
  /\ Blank

\* The process ends, killed or by an error of a restart; a new one has a new
\* AppWorld server.
ProcessGone ==
  /\ AttemptOver
  /\ opened' = FALSE
  /\ serving' = TRUE
  /\ total' = 0
  /\ UNCHANGED <<path, trajectories>>

\* The same when the process ends of itself.
ProcessExits == ProcessGone /\ NoApiFault
==================================================================================
