--------------------------- MODULE RolloutCollection ---------------------------
(***************************************************************************)
(* How the trainer's ranks request, collect, accept and learn from a batch *)
(* of rollouts: request_rollout_generation, get_rollouts and stop of       *)
(* VLLMRolloutWorker, called from the loop of _run and the finally of run  *)
(* in train.py.  Each rank's trainer thread runs beside its generation     *)
(* thread (RolloutWorker) and its sampler threads (ScenarioSampler); ranks *)
(* meet in barriers and all-reduces, and share the inference servers and   *)
(* the adapter loaded there.                                               *)
(*                                                                         *)
(* An adapter is named by the number of the checkpoint it comes from, 0 is *)
(* the base model.  The servers stay up; they are not restarted between    *)
(* iterations (inference and learning share the memory).                   *)
(***************************************************************************)
EXTENDS RolloutWorker

CONSTANTS
  Lead,                  \* local rank 0: talks to the inference servers
  TotalIterations,
  Async,                 \* rl.async_rollouts
  RequiredPerRank,       \* ceil(n_rollouts_total * rollouts_fraction)
  RequiredPerScenario,   \* max(1, round(rollouts_per_scenario * fraction))
  Interrupts             \* bound: ranks that may raise outside get_rollouts

ASSUME CollectionAssumption ==
  /\ Lead \in Ranks
  /\ TotalIterations \in Nat \ {0}
  /\ Async \in BOOLEAN
  /\ RequiredPerRank \in 1 .. Total
  /\ RequiredPerScenario \in 1 .. RolloutsPerScenario
  /\ Interrupts \in Nat

VARIABLES
  trainer,       \* where each rank's trainer thread is
  completed,     \* _iterations_completed
  accepted,      \* iterations whose manifest is committed
  adapter,       \* _loaded_adapter_model_id of each rank
  loaded,        \* the adapter on the servers
  rollouts,      \* rollouts of get_rollouts, as the set of their tasks
  collected,     \* n_rollouts_collected
  cancelled,     \* n_rollouts_cancelled
  sufficient,    \* sufficient_rollouts_collected
  interrupts     \* how many ranks raised

callVars == <<rollouts, collected, cancelled, sufficient>>
progressVars == <<completed, accepted>>
adapterVars == <<adapter, loaded>>
vars == <<samplerVars, workerVars, trainer, progressVars, adapterVars, callVars, interrupts>>

Trainers == {"start", "request", "swap", "swapped", "ask", "poll", "reduce", "collected", "learn",
             "stop", "join_sampler", "cancel", "stop_worker", "join_worker", "stopped"}
Stopping == {"stop", "join_sampler", "cancel", "stop_worker", "join_worker", "stopped"}

TypeOK ==
  /\ SamplerTypeOK
  /\ WorkerTypeOK
  /\ trainer \in [Ranks -> Trainers]
  /\ completed \in 0 .. TotalIterations
  /\ accepted \in 0 .. TotalIterations
  /\ adapter \in [Ranks -> 0 .. TotalIterations]
  /\ loaded \in 0 .. TotalIterations
  /\ rollouts \in [Ranks -> SUBSET Tasks]
  /\ collected \in [Ranks -> Nat]
  /\ cancelled \in [Ranks -> Nat]
  /\ sufficient \in [Ranks -> BOOLEAN]
  /\ interrupts \in 0 .. Interrupts

Init ==
  /\ SamplerInit
  /\ WorkerInit
  /\ trainer = [r \in Ranks |-> "start"]
  /\ completed = 0
  /\ accepted = 0
  /\ adapter = [r \in Ranks |-> 0]
  /\ loaded = 0
  /\ rollouts = [r \in Ranks |-> {}]
  /\ collected = [r \in Ranks |-> 0]
  /\ cancelled = [r \in Ranks |-> 0]
  /\ sufficient = [r \in Ranks |-> FALSE]
  /\ interrupts = 0

At(r, place) == trainer[r] = place
Goto(r, place) == trainer' = [trainer EXCEPT ![r] = place]
All(place) == \A r \in Ranks : At(r, place)
AllGoto(place) == trainer' = [r \in Ranks |-> place]

-----------------------------------------------------------------------------
(* request_rollout_generation.                                             *)

\* _run asks the sampler for the first scenarios, then requests rollouts.
StartRun(r) ==
  /\ At(r, "start")
  /\ EnsureRequested(r, ScenariosPerRank)
  /\ Goto(r, "request")
  /\ UNCHANGED <<workerVars, progressVars, adapterVars, callVars, interrupts>>

EnterSwap ==
  /\ All("request")
  /\ AllGoto("swap")
  /\ UNCHANGED <<samplerVars, workerVars, progressVars, adapterVars, callVars, interrupts>>

\* Every rank takes the last checkpoint's name; local rank 0 loads it.
ReloadAdapter(r) ==
  /\ At(r, "swap")
  /\ Goto(r, "swapped")
  /\ adapter' = [adapter EXCEPT ![r] = completed]
  /\ loaded' = IF r = Lead THEN completed ELSE loaded
  /\ UNCHANGED <<samplerVars, workerVars, progressVars, callVars, interrupts>>

\* Mutant of LeaveSwap: no barrier after the exchange.
LeaveSwapAlone ==
  /\ \E r \in Ranks : At(r, "swapped") /\ Goto(r, "ask")
  /\ UNCHANGED <<samplerVars, workerVars, progressVars, adapterVars, callVars, interrupts>>

LeaveSwap ==
  /\ All("swapped")
  /\ AllGoto("ask")
  /\ UNCHANGED <<samplerVars, workerVars, progressVars, adapterVars, callVars, interrupts>>

\* Wakes the generation thread, after which the caller goes on: an ahead
\* request comes before the gradient steps, the others before get_rollouts,
\* and after the last iteration nobody collects any more.
AskForRollouts(r) ==
  /\ At(r, "ask")
  /\ wanted' = [wanted EXCEPT ![r] = TRUE]
  /\ Goto(r, IF accepted > completed THEN "learn"
             ELSE IF completed < TotalIterations THEN "poll" ELSE "stop")
  /\ UNCHANGED <<samplerVars, cancel, stopEvent, worker, fetched, llm, task, retries, softDead,
                 queue, progressVars, adapterVars, callVars, interrupts>>

-----------------------------------------------------------------------------
(* get_rollouts.                                                           *)

Receive(r) ==
  /\ At(r, "poll")
  /\ queue[r] # <<>>
  /\ Head(queue[r]) # Failure
  /\ queue' = [queue EXCEPT ![r] = Tail(@)]
  /\ IF Head(queue[r]).cancelled
       THEN /\ cancelled' = [cancelled EXCEPT ![r] = @ + 1]
            /\ UNCHANGED <<rollouts, collected>>
       ELSE /\ rollouts' = [rollouts EXCEPT ![r] = @ \cup {Head(queue[r]).task}]
            /\ collected' = [collected EXCEPT ![r] = @ + 1]
            /\ UNCHANGED cancelled
  /\ UNCHANGED <<samplerVars, wanted, cancel, stopEvent, worker, fetched, llm, task, retries,
                 softDead, trainer, progressVars, adapterVars, sufficient, interrupts>>

\* The exception of the generation thread is raised again: the run stops here.
ReceiveFailure(r) ==
  /\ At(r, "poll")
  /\ queue[r] # <<>>
  /\ Head(queue[r]) = Failure
  /\ queue' = [queue EXCEPT ![r] = Tail(@)]
  /\ Goto(r, "stop")
  /\ UNCHANGED <<samplerVars, wanted, cancel, stopEvent, worker, fetched, llm, task, retries,
                 softDead, progressVars, adapterVars, callVars, interrupts>>

QueueEmpty(r) == At(r, "poll") /\ queue[r] = <<>>

\* Mutant of CheckSufficient: a rank that has all of its own rollouts leaves
\* without waiting for the others.
LeaveWhenDone(r) ==
  /\ QueueEmpty(r)
  /\ ~sufficient[r]
  /\ Goto(r, IF collected[r] + cancelled[r] >= Total THEN "collected" ELSE "reduce")
  /\ UNCHANGED <<samplerVars, workerVars, progressVars, adapterVars, callVars, interrupts>>

\* Nothing came for a second: the ranks add up what they have.
CheckSufficient(r) ==
  /\ QueueEmpty(r)
  /\ ~sufficient[r]
  /\ Goto(r, "reduce")
  /\ UNCHANGED <<samplerVars, workerVars, progressVars, adapterVars, callVars, interrupts>>

RolloutsOf(r, s) == {k \in rollouts[r] : ScenarioOf(k) = s}

\* n_rollouts_collected summed over the ranks: a pair of a rank and a number for
\* every rollout that was counted.
Counted == UNION {{r} \X (1 .. collected[r]) : r \in Ranks}
Finished == Cardinality(Counted)

\* Mutant of EnoughCollected: the minimum per scenario is not asked for.
EnoughInAll == Finished >= RequiredPerRank * Cardinality(Ranks)

EnoughCollected ==
  /\ Finished >= RequiredPerRank * Cardinality(Ranks)
  /\ \A r \in Ranks, s \in ScenarioIdx : Cardinality(RolloutsOf(r, s)) >= RequiredPerScenario

\* The two all-reduces, and the decision every rank takes on their results.
Reduce ==
  /\ All("reduce")
  /\ AllGoto("poll")
  /\ sufficient' = [r \in Ranks |-> EnoughCollected]
  /\ UNCHANGED <<samplerVars, workerVars, progressVars, adapterVars, rollouts, collected,
                 cancelled, interrupts>>

\* Mutant of CancelRest: leaves as soon as the batch is sufficient.
LeaveAtOnce(r) ==
  /\ QueueEmpty(r)
  /\ sufficient[r]
  /\ cancel' = [cancel EXCEPT ![r] = TRUE]
  /\ Goto(r, "collected")
  /\ UNCHANGED <<samplerVars, wanted, stopEvent, worker, fetched, llm, task, retries, softDead,
                 queue, progressVars, adapterVars, callVars, interrupts>>

\* Enough in all ranks: the rest is cancelled and waited for.
CancelRest(r) ==
  /\ QueueEmpty(r)
  /\ sufficient[r]
  /\ cancel' = [cancel EXCEPT ![r] = TRUE]
  /\ Goto(r, IF collected[r] + cancelled[r] >= Total THEN "collected" ELSE "poll")
  /\ UNCHANGED <<samplerVars, wanted, stopEvent, worker, fetched, llm, task, retries, softDead,
                 queue, progressVars, adapterVars, callVars, interrupts>>

-----------------------------------------------------------------------------
(* The loop of _run around it.                                             *)

Expected == Total * Cardinality(Ranks)

ResetCall ==
  /\ rollouts' = [r \in Ranks |-> {}]
  /\ collected' = [r \in Ranks |-> 0]
  /\ cancelled' = [r \in Ranks |-> 0]
  /\ sufficient' = [r \in Ranks |-> FALSE]

\* After the barrier behind get_rollouts: a batch with every rollout passes the
\* manifest gate.  The counters are locals of get_rollouts; they are reset here.
Accept ==
  /\ All("collected")
  /\ Finished = Expected
  /\ accepted' = accepted + 1
  /\ AllGoto(IF Async /\ completed + 1 < TotalIterations THEN "request" ELSE "learn")
  /\ ResetCall
  /\ UNCHANGED <<samplerVars, workerVars, completed, adapterVars, interrupts>>

\* "Incomplete rollout batch": every rank raises.
Refuse ==
  /\ All("collected")
  /\ Finished # Expected
  /\ AllGoto("stop")
  /\ UNCHANGED <<samplerVars, workerVars, progressVars, adapterVars, callVars, interrupts>>

\* The gradient steps and the checkpoint, collective; with async rollouts the
\* next batch was requested before them, otherwise it is requested now.
Learn ==
  /\ All("learn")
  /\ completed' = completed + 1
  /\ AllGoto(IF ~Async THEN "request" ELSE IF completed' < TotalIterations THEN "poll" ELSE "stop")
  /\ UNCHANGED <<samplerVars, workerVars, accepted, adapterVars, callVars, interrupts>>

\* Ctrl-C, a full disk, out of memory: a rank raises while it waits for rollouts
\* or learns, and runs the finally of run.
Interrupt(r) ==
  /\ trainer[r] \in {"poll", "learn"}
  /\ interrupts < Interrupts
  /\ interrupts' = interrupts + 1
  /\ Goto(r, "stop")
  /\ UNCHANGED <<samplerVars, workerVars, progressVars, adapterVars, callVars>>

-----------------------------------------------------------------------------
(* The finally of run: _scenario_sampler.stop(), _rollout_worker.stop().   *)

RunStops(r) ==
  /\ At(r, "stop")
  /\ StopSampler(r)
  /\ Goto(r, "join_sampler")
  /\ UNCHANGED <<workerVars, progressVars, adapterVars, callVars, interrupts>>

JoinSampler(r) ==
  /\ At(r, "join_sampler")
  /\ SamplerJoined(r)
  /\ Goto(r, "cancel")
  /\ UNCHANGED <<samplerVars, workerVars, progressVars, adapterVars, callVars, interrupts>>

CancelGeneration(r) ==
  /\ At(r, "cancel")
  /\ cancel' = [cancel EXCEPT ![r] = TRUE]
  /\ Goto(r, "stop_worker")
  /\ UNCHANGED <<samplerVars, wanted, stopEvent, worker, fetched, llm, task, retries, softDead,
                 queue, progressVars, adapterVars, callVars, interrupts>>

StopWorker(r) ==
  /\ At(r, "stop_worker")
  /\ stopEvent' = [stopEvent EXCEPT ![r] = TRUE]
  /\ Goto(r, "join_worker")
  /\ UNCHANGED <<samplerVars, wanted, cancel, worker, fetched, llm, task, retries, softDead,
                 queue, progressVars, adapterVars, callVars, interrupts>>

JoinWorker(r) ==
  /\ At(r, "join_worker")
  /\ worker[r] = "exited"
  /\ Goto(r, "stopped")
  /\ UNCHANGED <<samplerVars, workerVars, progressVars, adapterVars, callVars, interrupts>>

-----------------------------------------------------------------------------
Samplers(r) ==
  /\ SamplerStep(r)
  /\ UNCHANGED <<workerVars, trainer, progressVars, adapterVars, callVars, interrupts>>

Generation(r) ==
  /\ WorkerStep(r, adapter[r])
  /\ UNCHANGED <<trainer, progressVars, adapterVars, callVars, interrupts>>

Trainer(r) ==
  \/ StartRun(r) \/ ReloadAdapter(r) \/ AskForRollouts(r)
  \/ Receive(r) \/ ReceiveFailure(r) \/ CheckSufficient(r) \/ CancelRest(r)
  \/ RunStops(r) \/ JoinSampler(r) \/ CancelGeneration(r) \/ StopWorker(r) \/ JoinWorker(r)

Together == EnterSwap \/ LeaveSwap \/ Reduce \/ Accept \/ Refuse \/ Learn

Next ==
  \/ Together
  \/ \E r \in Ranks : Samplers(r) \/ Generation(r) \/ Trainer(r) \/ Interrupt(r)

\* Every thread goes on while it can; nothing makes a rank raise.
Fairness ==
  /\ WF_vars(Together)
  /\ \A r \in Ranks : WF_vars(Generation(r)) /\ WF_vars(Trainer(r))
  /\ \A r \in Ranks, t \in SamplerThreads :
       WF_vars(/\ ThreadHead(r, t) \/ ThreadTake(r, t) \/ ThreadWakes(r, t) \/ ThreadPut(r, t)
               /\ UNCHANGED <<workerVars, trainer, progressVars, adapterVars, callVars, interrupts>>)

Safety == Init /\ [][Next]_vars
Spec == Safety /\ Fairness
-----------------------------------------------------------------------------
(* Properties.                                                             *)

\* get_rollouts asserts n_rollouts_cancelled == 0 as long as the batch is not
\* sufficient: a cancellation of the last batch never reaches into this one,
\* although the event is shared by the trainer and the generation thread, is
\* set by one and cleared by the other, and is not protected by the mutex.
NoEarlyCancellation ==
  \A r \in Ranks : trainer[r] \in {"poll", "reduce"} /\ ~sufficient[r] =>
    /\ cancelled[r] = 0
    /\ \A i \in 1 .. Len(queue[r]) : ~queue[r][i].cancelled

\* When get_rollouts returns, every rollout of the request was delivered once,
\* collected or cancelled, across retries of soft-dead servers; none is still
\* running or queued that the next call would take for one of its own.
NothingLeftBehind ==
  \A r \in Ranks : At(r, "collected") =>
    /\ collected[r] + cancelled[r] = Total
    /\ collected[r] = Cardinality(rollouts[r])
    /\ queue[r] = <<>>
    /\ InFlight(r) = {}

\* request_rollout_generation "prevents potential issue where a straggler VLLM
\* process still processes requests with the previous version of the weights":
\* whatever a rank is generating, the adapter its requests name is the one
\* that local rank 0 has on the servers.
NoStraggler ==
  \A r \in Ranks : InFlight(r) # {} => llm[r] = loaded

\* The batch an iteration learns from was sampled by the policy it updates, or
\* with async rollouts by the policy of one iteration before.
BoundedStaleness ==
  \A r \in Ranks : At(r, "collected") =>
    llm[r] = completed \/ (Async /\ llm[r] = completed - 1)

\* "it is important that all workers enter this section the same number of
\* times": no rank is past the collection while another waits in an all-reduce.
LockstepReductions ==
  \A r, s \in Ranks :
    At(s, "reduce") => trainer[r] \in {"ask", "poll", "reduce"} \cup Stopping

\* However the rest was cancelled, the batch that leaves get_rollouts has the
\* required number of rollouts in all ranks and of every scenario.
BatchIsSufficient ==
  All("collected") =>
    /\ Finished >= RequiredPerRank * Cardinality(Ranks)
    /\ \A r \in Ranks, s \in ScenarioIdx : Cardinality(RolloutsOf(r, s)) >= RequiredPerScenario

\* A generation thread that waits in __next__ has a scenario coming: the three
\* counters the sampler spreads its scenarios over never hide a missing one.
WaitingIsSupplied ==
  \A r \in Ranks : worker[r] = "get" => Outstanding(r) > 0

\* README.md recommends rollouts_fraction=0.9, and config.yaml says that a
\* fraction below 1 only requires that share of the rollouts to finish: a
\* sufficient batch is then a batch to learn from.
SufficientIsAccepted == All("collected") => Finished = Expected

\* However slow the rollouts and often the retries, the ranks do not wait for
\* each other for ever: the run comes to its last iteration or to an error.
RunReachesItsEnd == <>(\E r \in Ranks : trainer[r] \in Stopping)

\* "Stopped all components!": the finally of run comes to its end.
ShutdownEnds == \A r \in Ranks : At(r, "stop") ~> At(r, "stopped")
==============================================================================
