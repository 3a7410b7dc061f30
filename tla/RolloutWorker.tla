----------------------------- MODULE RolloutWorker -----------------------------
(***************************************************************************)
(* The generation thread of VLLMRolloutWorker on each rank                 *)
(* (phi_agents/rl/vllm_rollout_worker.py, _worker and                      *)
(* _submit_scenarios_and_get_rollouts): it waits for a request, fetches    *)
(* the scenarios, hands one rollout at a time to each scenario runner,     *)
(* retries rollouts whose AppWorld server went soft-dead, and puts results *)
(* or its own exception into the queue that get_rollouts reads.            *)
(***************************************************************************)
EXTENDS ScenarioSampler, Sequences

CONSTANTS
  ScenariosPerRank,      \* n_scenarios of a request
  RolloutsPerScenario,
  Runners,               \* number of scenario runners of one rank
  MaxRolloutRetries,     \* max_rollout_retries
  MaxSoftDead,           \* max_soft_dead_per_iteration
  RunnersFail            \* may a rollout raise anything but soft-dead?

ASSUME WorkerAssumption ==
  /\ ScenariosPerRank \in Nat \ {0}
  /\ RolloutsPerScenario \in Nat \ {0}
  /\ Runners \in Nat \ {0}
  /\ MaxRolloutRetries \in Nat
  /\ MaxSoftDead \in Nat
  /\ RunnersFail \in BOOLEAN

\* The rollouts of one request, in the order they enter task_queue.
Total == ScenariosPerRank * RolloutsPerScenario
Tasks == 1 .. Total
ScenarioIdx == 1 .. ScenariosPerRank
ScenarioOf(task) == ((task - 1) % ScenariosPerRank) + 1

VARIABLES
  wanted,        \* _n_scenarios_requested > 0
  cancel,        \* _cancellation_event
  stopEvent,     \* _stop_event
  worker,        \* where the generation thread is
  fetched,       \* scenarios it has for this request
  llm,           \* adapter its LLM objects name
  task,          \* the state of each rollout of the request
  retries,       \* retry_count of each rollout
  softDead,      \* soft_dead_count
  queue          \* _queue

workerVars == <<wanted, cancel, stopEvent, worker, fetched, llm, task, retries, softDead, queue>>

Workers == {"head", "waiting", "clear", "next", "get", "generating", "exited"}

\* A rollout that was submitted while the cancellation event is set is doomed:
\* its first completion comes back cancelled.
TaskStates == {"none", "queued", "running", "doomed", "done"}

Result(k, cancelled) == [task |-> k, cancelled |-> cancelled]
Failure == [task |-> 0, cancelled |-> FALSE]
Message == [task : Tasks \cup {0}, cancelled : BOOLEAN]

WorkerTypeOK ==
  /\ wanted \in [Ranks -> BOOLEAN]
  /\ cancel \in [Ranks -> BOOLEAN]
  /\ stopEvent \in [Ranks -> BOOLEAN]
  /\ worker \in [Ranks -> Workers]
  /\ fetched \in [Ranks -> 0 .. ScenariosPerRank]
  /\ llm \in [Ranks -> Nat]
  /\ task \in [Ranks -> [Tasks -> TaskStates]]
  /\ retries \in [Ranks -> [Tasks -> 0 .. MaxRolloutRetries]]
  /\ softDead \in [Ranks -> 0 .. MaxSoftDead + 1]
  /\ queue \in [Ranks -> Seq(Message)]

WorkerInit ==
  /\ wanted = [r \in Ranks |-> FALSE]
  /\ cancel = [r \in Ranks |-> FALSE]
  /\ stopEvent = [r \in Ranks |-> FALSE]
  /\ worker = [r \in Ranks |-> "head"]
  /\ fetched = [r \in Ranks |-> 0]
  /\ llm = [r \in Ranks |-> 0]
  /\ task = [r \in Ranks |-> [k \in Tasks |-> "none"]]
  /\ retries = [r \in Ranks |-> [k \in Tasks |-> 0]]
  /\ softDead = [r \in Ranks |-> 0]
  /\ queue = [r \in Ranks |-> <<>>]

InFlight(r) == {k \in Tasks : task[r][k] \in {"running", "doomed"}}
Queued(r) == {k \in Tasks : task[r][k] = "queued"}
Submitted(r) == IF cancel[r] THEN "doomed" ELSE "running"

-----------------------------------------------------------------------------
(* _worker: the request.                                                   *)

WorkerHead(r) ==
  /\ worker[r] = "head"
  /\ worker' = [worker EXCEPT ![r] = IF stopEvent[r] THEN "exited" ELSE "waiting"]
  /\ UNCHANGED <<samplerVars, wanted, cancel, stopEvent, fetched, llm, task, retries,
                 softDead, queue>>

\* The wait for a request returns, notified or after a second.
WorkerWakes(r) ==
  /\ worker[r] = "waiting"
  /\ stopEvent[r]
  /\ worker' = [worker EXCEPT ![r] = "head"]
  /\ UNCHANGED <<samplerVars, wanted, cancel, stopEvent, fetched, llm, task, retries,
                 softDead, queue>>

TakeRequest(r) ==
  /\ worker[r] = "waiting"
  /\ wanted[r]
  /\ wanted' = [wanted EXCEPT ![r] = FALSE]
  /\ worker' = [worker EXCEPT ![r] = "clear"]
  /\ UNCHANGED <<samplerVars, cancel, stopEvent, fetched, llm, task, retries, softDead, queue>>

\* Mutants of ClearCancellation: the event of the last batch stays set; the LLM
\* objects of the last batch are used again.
KeepCancellation(r, model) ==
  /\ worker[r] = "clear"
  /\ llm' = [llm EXCEPT ![r] = model]
  /\ worker' = [worker EXCEPT ![r] = "next"]
  /\ fetched' = [fetched EXCEPT ![r] = 0]
  /\ UNCHANGED <<samplerVars, wanted, cancel, stopEvent, task, retries, softDead, queue>>

KeepLLMs(r, model) ==
  /\ worker[r] = "clear"
  /\ cancel' = [cancel EXCEPT ![r] = FALSE]
  /\ worker' = [worker EXCEPT ![r] = "next"]
  /\ fetched' = [fetched EXCEPT ![r] = 0]
  /\ UNCHANGED <<samplerVars, wanted, stopEvent, llm, task, retries, softDead, queue>>

\* Outside the mutex: clears the cancellation event, whoever set it, then
\* builds the LLM objects for the adapter this rank was told of last.
ClearCancellation(r, model) ==
  /\ worker[r] = "clear"
  /\ cancel' = [cancel EXCEPT ![r] = FALSE]
  /\ llm' = [llm EXCEPT ![r] = model]
  /\ worker' = [worker EXCEPT ![r] = "next"]
  /\ fetched' = [fetched EXCEPT ![r] = 0]
  /\ UNCHANGED <<samplerVars, wanted, stopEvent, task, retries, softDead, queue>>

-----------------------------------------------------------------------------
(* _submit_scenarios_and_get_rollouts.                                     *)

\* next(self._scenario_sampler): asks for one scenario ...
AskForScenario(r) ==
  /\ worker[r] = "next"
  /\ fetched[r] < ScenariosPerRank
  /\ EnsureRequested(r, 1)
  /\ worker' = [worker EXCEPT ![r] = "get"]
  /\ UNCHANGED <<wanted, cancel, stopEvent, fetched, llm, task, retries, softDead, queue>>

\* ... and waits for it without a timeout.
FetchScenario(r) ==
  /\ worker[r] = "get"
  /\ GetScenario(r)
  /\ fetched' = [fetched EXCEPT ![r] = @ + 1]
  /\ worker' = [worker EXCEPT ![r] = "next"]
  /\ UNCHANGED <<wanted, cancel, stopEvent, llm, task, retries, softDead, queue>>

\* All rollouts enter task_queue and every runner gets one of them.
SubmitFirst(r) ==
  /\ worker[r] = "next"
  /\ fetched[r] = ScenariosPerRank
  /\ task' = [task EXCEPT ![r] = [k \in Tasks |-> IF k <= Runners THEN Submitted(r) ELSE "queued"]]
  /\ retries' = [retries EXCEPT ![r] = [k \in Tasks |-> 0]]
  /\ softDead' = [softDead EXCEPT ![r] = 0]
  /\ worker' = [worker EXCEPT ![r] = "generating"]
  /\ UNCHANGED <<samplerVars, wanted, cancel, stopEvent, fetched, llm, queue>>

\* The runner of a finished rollout takes the oldest one of task_queue.
Advance(r, k) ==
  task' = [task EXCEPT ![r] =
             [j \in Tasks |-> IF j = k THEN "done"
                              ELSE IF j \in Queued(r) /\ \A i \in Queued(r) : j <= i
                                   THEN Submitted(r) ELSE task[r][j]]]

\* A rollout ends; one that a cancellation caught comes back marked.
RolloutEnds(r, k, cancelled) ==
  /\ worker[r] = "generating"
  /\ task[r][k] \in {"running", "doomed"}
  /\ cancelled => cancel[r]
  /\ task[r][k] = "doomed" => cancelled
  /\ queue' = [queue EXCEPT ![r] = Append(@, Result(k, cancelled))]
  /\ Advance(r, k)
  /\ UNCHANGED <<samplerVars, wanted, cancel, stopEvent, worker, fetched, llm, retries, softDead>>

\* Mutants of RolloutRetried: the result of the dead server is delivered as well;
\* only the budget of the rollout is looked at.
RolloutRetriedAndKept(r, k) ==
  /\ worker[r] = "generating"
  /\ k \in InFlight(r)
  /\ retries[r][k] < MaxRolloutRetries
  /\ softDead[r] + 1 <= MaxSoftDead
  /\ softDead' = [softDead EXCEPT ![r] = @ + 1]
  /\ retries' = [retries EXCEPT ![r][k] = @ + 1]
  /\ task' = [task EXCEPT ![r][k] = Submitted(r)]
  /\ queue' = [queue EXCEPT ![r] = Append(@, Result(k, FALSE))]
  /\ UNCHANGED <<samplerVars, wanted, cancel, stopEvent, worker, fetched, llm>>

RolloutRetriedAgain(r, k) ==
  /\ worker[r] = "generating"
  /\ k \in InFlight(r)
  /\ retries[r][k] < MaxRolloutRetries
  /\ softDead' = [softDead EXCEPT ![r] = @ + 1]
  /\ retries' = [retries EXCEPT ![r][k] = @ + 1]
  /\ task' = [task EXCEPT ![r][k] = Submitted(r)]
  /\ UNCHANGED <<samplerVars, wanted, cancel, stopEvent, worker, fetched, llm, queue>>

\* A soft-dead server: the rollout is run again on the same runner while both
\* budgets allow it.
RolloutRetried(r, k) ==
  /\ worker[r] = "generating"
  /\ k \in InFlight(r)
  /\ retries[r][k] < MaxRolloutRetries
  /\ softDead[r] + 1 <= MaxSoftDead
  /\ softDead' = [softDead EXCEPT ![r] = @ + 1]
  /\ retries' = [retries EXCEPT ![r][k] = @ + 1]
  /\ task' = [task EXCEPT ![r][k] = Submitted(r)]
  /\ UNCHANGED <<samplerVars, wanted, cancel, stopEvent, worker, fetched, llm, queue>>

\* Mutant of WorkerDies: the exception stays in the thread.
WorkerDiesSilently(r) ==
  /\ task' = [task EXCEPT ![r] = [k \in Tasks |-> "none"]]
  /\ worker' = [worker EXCEPT ![r] = "exited"]
  /\ UNCHANGED <<samplerVars, wanted, cancel, stopEvent, fetched, llm, retries, queue>>

\* The generation thread dies of the exception of a rollout and hands it over.
\* The executor has waited for the other runners; their results are dropped.
WorkerDies(r) ==
  /\ queue' = [queue EXCEPT ![r] = Append(@, Failure)]
  /\ task' = [task EXCEPT ![r] = [k \in Tasks |-> "none"]]
  /\ worker' = [worker EXCEPT ![r] = "exited"]
  /\ UNCHANGED <<samplerVars, wanted, cancel, stopEvent, fetched, llm, retries>>

RetryLimitExceeded(r, k) ==
  /\ worker[r] = "generating"
  /\ k \in InFlight(r)
  /\ ~(retries[r][k] < MaxRolloutRetries /\ softDead[r] + 1 <= MaxSoftDead)
  /\ softDead' = [softDead EXCEPT ![r] = @ + 1]
  /\ WorkerDies(r)

RolloutFails(r, k) ==
  /\ RunnersFail
  /\ worker[r] = "generating"
  /\ k \in InFlight(r)
  /\ UNCHANGED softDead
  /\ WorkerDies(r)

\* Every rollout is delivered: scenarios for the next request are asked for.
BatchEnds(r) ==
  /\ worker[r] = "generating"
  /\ InFlight(r) = {}
  /\ EnsureRequested(r, ScenariosPerRank)
  /\ worker' = [worker EXCEPT ![r] = "head"]
  /\ UNCHANGED <<wanted, cancel, stopEvent, fetched, llm, task, retries, softDead, queue>>

WorkerStep(r, model) ==
  \/ WorkerHead(r) \/ WorkerWakes(r) \/ TakeRequest(r) \/ ClearCancellation(r, model)
  \/ AskForScenario(r) \/ FetchScenario(r) \/ SubmitFirst(r) \/ BatchEnds(r)
  \/ \E k \in Tasks :
       \/ \E cancelled \in BOOLEAN : RolloutEnds(r, k, cancelled)
       \/ RolloutRetried(r, k) \/ RetryLimitExceeded(r, k) \/ RolloutFails(r, k)
==============================================================================
