------------------------------- MODULE EvalLoop -------------------------------
(***************************************************************************)
(* Evaluation beside training: EvalCallback (phi_agents/rl/callbacks.py)   *)
(* in rank 0's loop of _run, and the EvalWorker actor it starts            *)
(* (phi_agents/rl/eval.py), which generates on the inference servers the   *)
(* trainer uses, with the adapter it expects to find there.                *)
(*                                                                         *)
(* The EvalWorker has a VLLMRolloutWorker of its own; of it only the life  *)
(* of the generation thread is kept.  Checkpoints and adapters are the     *)
(* numbers of completed iterations, 0 is the base model.                   *)
(***************************************************************************)
EXTENDS Integers, FiniteSets

CONSTANTS
  TotalIterations,
  EvalEveryNIterations,      \* rl.eval.eval_every_n_iterations
  Modes,          \* the configurations a run may have, out of AllModes
  MaxFaults       \* bound: crashes of the actor, exceptions of the trainer and of rollouts

\* "async": rl.async_rollouts; "exclusive": inference and learning do not fit into
\* memory together, which excludes async rollouts; "sync": neither.
AllModes == {"sync", "async", "exclusive"}

ASSUME EvalAssumption ==
  /\ TotalIterations \in Nat \ {0}
  /\ EvalEveryNIterations \in Nat \ {0}
  /\ Modes \subseteq AllModes
  /\ MaxFaults \in Nat

VARIABLES
  mode,        \* the configuration of this run
  trainer,     \* where rank 0 is in _run
  completed,   \* _iterations_completed
  servers,     \* are the inference servers up?
  loaded,      \* the adapter on them
  future,      \* _eval_future: none, or the task of an EvalWorker
  actor,       \* the EvalWorker: none, dead, idle, or what its eval task does
  attached,    \* its _servers: none, existing ones it found, or its own
  asked,       \* the adapter that task was started with
  thread,      \* is the actor's generation thread alive?
  evaluated,   \* the checkpoints that were evaluated
  faults       \* how many faults there were

trainerVars == <<trainer, completed>>
serverVars == <<servers, loaded>>
actorVars == <<actor, attached, asked, thread, evaluated>>
vars == <<mode, trainerVars, serverVars, future, actorVars, faults>>

Trainers == {"before", "collect", "stop_servers", "await", "swap", "learn", "stop", "shutdown",
             "ended"}
Busy == {"requesting", "generating", "polling"}

TypeOK ==
  /\ mode \in Modes
  /\ trainer \in Trainers
  /\ completed \in 0 .. TotalIterations
  /\ servers \in BOOLEAN
  /\ loaded \in 0 .. TotalIterations
  /\ future \in BOOLEAN
  /\ actor \in {"none", "idle", "dead"} \cup Busy
  /\ attached \in {"none", "existing", "own"}
  /\ asked \in 0 .. TotalIterations
  /\ thread \in BOOLEAN
  /\ evaluated \in SUBSET (0 .. TotalIterations)
  /\ faults \in 0 .. MaxFaults

\* The servers are up, a checkpoint may have been resumed, and the first rollouts
\* are requested.
Init ==
  /\ mode \in Modes
  /\ trainer = "before"
  /\ completed \in 0 .. TotalIterations - 1
  /\ servers = TRUE
  /\ loaded = completed
  /\ future = FALSE
  /\ actor = "none"
  /\ attached = "none"
  /\ asked = 0
  /\ thread = FALSE
  /\ evaluated = {}
  /\ faults = 0

Goto(place) == trainer' = place

Faulty == faults < MaxFaults /\ faults' = faults + 1 /\ UNCHANGED mode

-----------------------------------------------------------------------------
(* The callback and the loop around it.                                    *)

EvalIsDue == completed % EvalEveryNIterations = 0

\* _ensure_actor and eval.remote: an actor that is absent or does not answer
\* the ping is replaced by a new one; the task starts at once.
StartEval(checkpoint) ==
  LET replaced == actor \in {"none", "dead"} IN
  /\ future' = TRUE
  /\ actor' = "requesting"
  /\ asked' = checkpoint
  /\ attached' = IF replaced THEN "none" ELSE attached
  /\ thread' = (thread \/ replaced)

\* Mutant of BeforeIteration: evaluates the checkpoint that is to come.
EvaluateNext ==
  /\ trainer = "before"
  /\ EvalIsDue
  /\ StartEval(completed + 1)
  /\ Goto("collect")
  /\ UNCHANGED <<completed, serverVars, evaluated, faults, mode>>

\* before_iteration with an evaluation that is due.  It asserts that there is no
\* future left over: the exception ends the run.
BeforeIteration ==
  /\ trainer = "before"
  /\ EvalIsDue
  /\ IF future THEN Goto("stop") /\ UNCHANGED <<future, actor, attached, asked, thread>>
               ELSE Goto("collect") /\ StartEval(completed)
  /\ UNCHANGED <<completed, serverVars, evaluated, faults, mode>>

SkipEval ==
  /\ trainer = "before"
  /\ ~EvalIsDue
  /\ Goto("collect")
  /\ UNCHANGED <<completed, serverVars, future, actorVars, faults, mode>>

\* get_rollouts returns; with async rollouts the next batch is requested first.
Collect ==
  /\ trainer = "collect"
  /\ Goto(CASE mode = "exclusive" -> "stop_servers"
            [] mode = "async" /\ completed + 1 < TotalIterations -> "await"
            [] OTHER -> "learn")
  /\ UNCHANGED <<completed, serverVars, future, actorVars, faults, mode>>

\* The end of get_rollouts when inference and learning exclude each other.
StopServers ==
  /\ trainer = "stop_servers"
  /\ servers' = FALSE
  /\ Goto("learn")
  /\ UNCHANGED <<completed, loaded, future, actorVars, faults, mode>>

\* The gradient steps and the checkpoint.
Learn ==
  /\ trainer = "learn"
  /\ completed' = completed + 1
  /\ Goto(IF mode # "async" THEN "await"
          ELSE IF completed' < TotalIterations THEN "before" ELSE "stop")
  /\ UNCHANGED <<serverVars, future, actorVars, faults, mode>>

\* Mutant of AwaitEval: does not wait.
AwaitNothing ==
  /\ trainer = "await"
  /\ future' = FALSE
  /\ Goto("swap")
  /\ UNCHANGED <<completed, serverVars, actorVars, faults, mode>>

\* Mutant of AwaitEval: the loss of the actor does not end the wait.
AwaitEvalOfCrashed ==
  /\ trainer = "await"
  /\ future => actor \notin Busy \cup {"dead"}
  /\ future' = FALSE
  /\ Goto("swap")
  /\ UNCHANGED <<completed, serverVars, actorVars, faults, mode>>

\* before_new_rollouts: an evaluation is waited for without a timeout; for one
\* whose actor crashed a new actor is started.
AwaitEval ==
  /\ trainer = "await"
  /\ future => actor \notin Busy
  /\ future' = FALSE
  /\ IF future /\ actor = "dead"
       THEN actor' = "idle" /\ thread' = TRUE /\ attached' = "none"
       ELSE UNCHANGED <<actor, thread, attached>>
  /\ Goto("swap")
  /\ UNCHANGED <<completed, serverVars, asked, evaluated, faults, mode>>

\* Mutant of Swap: one iteration too many.
SwapAndGoOn ==
  /\ trainer = "swap"
  /\ servers' = TRUE
  /\ loaded' = completed
  /\ Goto(IF completed <= TotalIterations THEN "before" ELSE "stop")
  /\ UNCHANGED <<completed, future, actorVars, faults, mode>>

\* request_rollout_generation: servers that are gone are started, unless there are
\* some on their port, and the last checkpoint's adapter is loaded.  It comes after
\* the iteration or, with async rollouts, before the gradient steps of one.
Swap ==
  /\ trainer = "swap"
  /\ servers' = TRUE
  /\ loaded' = completed
  /\ Goto(IF mode = "async" THEN "learn"
          ELSE IF completed < TotalIterations THEN "before" ELSE "stop")
  /\ UNCHANGED <<completed, future, actorVars, faults, mode>>

-----------------------------------------------------------------------------
(* The EvalWorker.                                                         *)

\* request_rollout_generation with reload_lora=False.  The first call of an actor
\* attaches to the servers it finds and starts them where it finds none.  Then the
\* generation thread is asked; if it is gone nobody answers, and get_rollouts
\* polls its queue.
EvalRequests ==
  /\ actor = "requesting"
  /\ actor' = IF thread THEN "generating" ELSE "polling"
  /\ IF attached = "none"
       THEN /\ attached' = IF servers THEN "existing" ELSE "own"
            /\ servers' = TRUE
            /\ loaded' = IF servers THEN loaded ELSE 0
       ELSE UNCHANGED <<attached, serverVars>>
  /\ UNCHANGED <<trainerVars, future, asked, thread, evaluated, faults, mode>>

\* The completions are served: the base model has a name of its own, an adapter
\* must be the one that is loaded.
Served == servers /\ (asked = 0 \/ loaded = asked)

EvalFinishes ==
  /\ actor = "generating"
  /\ Served
  /\ actor' = "idle"
  /\ evaluated' = evaluated \cup {asked}
  /\ UNCHANGED <<trainerVars, serverVars, future, attached, asked, thread, faults, mode>>

\* A rollout raises: it must when its completions are not served, and it may at any
\* time (a server that hangs or dies, a task that cannot be initialized, too many
\* retries).  The generation thread hands the exception over and ends, eval logs it
\* and returns, and the actor lives on without the thread.
EvalFails ==
  /\ actor = "generating"
  /\ \/ ~Served /\ UNCHANGED <<faults, mode>>
     \/ Faulty
  /\ actor' = "idle"
  /\ thread' = FALSE
  /\ UNCHANGED <<trainerVars, serverVars, future, attached, asked, evaluated>>

-----------------------------------------------------------------------------
(* Faults and the end.                                                     *)

\* Ray loses the actor.
ActorCrashes ==
  /\ Faulty
  /\ actor \in {"idle"} \cup Busy
  /\ actor' = "dead"
  /\ thread' = FALSE
  /\ UNCHANGED <<trainerVars, serverVars, future, attached, asked, evaluated>>

\* Anything in the loop raises; a wait that is interrupted forgets its task.
TrainerRaises ==
  /\ Faulty
  /\ trainer \in {"before", "collect", "stop_servers", "learn", "await", "swap"}
  /\ Goto("stop")
  /\ future' = (future /\ trainer # "await")
  /\ UNCHANGED <<completed, serverVars, actorVars>>

\* The finally clause of run: the servers first, which are kept when the trainer
\* found them running, ...
StopTraining ==
  /\ trainer = "stop"
  /\ servers' \in {FALSE, servers}
  /\ Goto("shutdown")
  /\ UNCHANGED <<completed, loaded, future, actorVars, faults, mode>>

\* ... the callback last, whose call queues up behind an evaluation.  An EvalWorker
\* takes the servers down that it started.
ShutdownCallback ==
  /\ trainer = "shutdown"
  /\ actor \notin Busy
  /\ servers' = (servers /\ ~(actor = "idle" /\ attached = "own"))
  /\ Goto("ended")
  /\ UNCHANGED <<completed, loaded, future, actorVars, faults, mode>>

-----------------------------------------------------------------------------
Trainer ==
  \/ BeforeIteration \/ SkipEval \/ Collect \/ StopServers \/ Learn \/ AwaitEval \/ Swap
  \/ StopTraining \/ ShutdownCallback

Actor == EvalRequests \/ EvalFinishes \/ EvalFails

Next == Trainer \/ Actor \/ ActorCrashes \/ TrainerRaises


Safety == Init /\ [][Next]_vars
\* The trainer and the actor go on while they can; faults just happen.
Spec == Safety /\ WF_vars(Trainer) /\ WF_vars(Actor)

-----------------------------------------------------------------------------
(* Properties.                                                             *)

\* eval.py: "local eval loop relies on the right adapter already being loaded,
\* we will fail if a different adapter is loaded".  With synchronous training,
\* and while the trainer is in its loop, the servers an evaluation generates on
\* are up and have its adapter: nobody stops or reloads them under it.
RightAdapterLoaded ==
  mode = "sync" /\ actor = "generating" /\ trainer \notin {"stop", "shutdown", "ended"}
    => Served

\* callbacks.py: "Make sure eval doesn't overlap LoRA swapping", also when the
\* evaluation failed, its actor was replaced, or the wait was for another one.
SwapsAreQuiet == trainer = "swap" => actor \notin Busy

\* Without faults every checkpoint that is due has been evaluated, with its own
\* adapter, when the next one takes its place on the servers.
EveryDueEvalIsDone ==
  mode = "sync" /\ faults = 0 /\ trainer = "swap" /\ (completed - 1) % EvalEveryNIterations = 0
    => completed - 1 \in evaluated

\* callbacks.py: "EvalWorker crashed during eval. Restarting actor..."  Evaluation
\* may fail and its actor may crash, training and its shutdown go on.
TrainingEnds == <>(trainer = "ended")

\* ... which is so except in one way: the run ends, or waits for ever for an
\* evaluation that polls for a generation thread which is gone.  Beside synchronous
\* training that thread is gone only after an evaluation in which a rollout failed
\* of itself: neither a crash of the actor nor anything the trainer does to the
\* servers blocks the run.
EvalFailed == actor = "idle" /\ ~thread
OnlyFailedEvalsBlock ==
  /\ TrainingEnds \/ <>[](actor = "polling")
  /\ mode = "sync" /\ []~EvalFailed => TrainingEnds
==============================================================================
