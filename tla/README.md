# TLA+ models of ml-loop

ml-loop trains an LLM agent with reinforcement learning on AppWorld tasks.
A trainer process per GPU (a *rank*) runs `RLTrainer` of
`phi_agents/rl/train.py`. Each iteration collects rollouts from vLLM inference
servers, takes gradient steps on a LoRA adapter, writes a checkpoint, and loads
the new adapter on the servers. Around the trainers there are an uploader
process, generation and sampler threads, a Ray actor for evaluation, and shell
scripts that start the trainer again after it went down.

Before that run stand programs that prepare its base model (teacher data,
supervised fine-tuning, a merge) and its scenario batches; beside and after it
stand programs that evaluate checkpoints and report on them.

This directory holds a model of the parts of that system where steps of several
actors meet, or where a process can be killed between two of its steps, with the
configurations that check the model on small instances with TLC, and proofs,
checked by TLAPS, of what holds for every value of the constants.

    tlc -workers 2 -config outer.cfg MCTrainingRun.tla      # a run
    for m in *Proofs.tla; do tlapm $m; done                 # the proofs

`PROJECT.json` lists the components, the runs with their properties, the source
lines behind every definition, mutations that break each property, the hazards
of the code, the findings and the theorems.

Contents: 1 the system, 2 the modules, 3 what the runs check, 4 fairness and
deadlock, 5 what is proved, 6 disagreements found, 7 what is left out, 8 plan.

## 1. The system

Paths are relative to `src/`. "Hard" names what makes the part difficult to
test, "correct" what it has to guarantee.

### 1.1 Iteration manifest store (`phi_agents/rl/iteration_manifest.py`)

*State*: `iteration_manifests/iteration-N.json` (status `pending`, `committed`
or `aborted`, and an attempt number), and `history/` with the records of earlier
attempts. *Operations*: `begin`, `commit`, `abort`, `assert_committed`. `begin`
archives what an earlier attempt left, deletes it and writes a pending manifest:
three accesses to the store. *Used by* rank 0 of the training loop: the *manifest
gate* lets no rank take a gradient step before the batch is recorded as complete.
*Hard*: a crash between any two accesses; a retry of an iteration whose manifest
is committed but whose checkpoint never became durable. *Correct*: a complete
checkpoint has the manifest of its batch; no record of an attempt is lost.

### 1.2 Cloud checkpointer (`phi_agents/rl/cloud_checkpointer.py`)

*State*: the durable directory `cloud_path` with `checkpoint-N/` and its
`done.txt`; the local checkpoints; an uploader process; two multiprocessing
events and rank 0's `_upload_running`. *Operations*: `on_save` (spawn once, wait
for the upload before, start this one), `sync`, `on_step_end`, `stop`,
`get_last_checkpoint`; in the uploader: copy the newest local checkpoint, write
`done.txt`, delete the oldest checkpoints beyond `max_ckpts`. *Hard*: the upload
overlaps the next iteration; the uploader chooses what to copy when it wakes up;
copies and recursive deletes can be cut short; the process can die. *Correct*:
what a restart finds is a complete checkpoint, at most one iteration behind.

### 1.3 RL training loop (`phi_agents/rl/train.py`)

*State*: `_iterations_completed` on every rank; on rank 0 the active manifest and
the metrics of the iteration; on disk `training_metrics/iteration-N.json` and
`rollout_diagnostics/`. *Operations*: resume; then per iteration the manifest
gate, diagnostics, gradient steps, `on_step_end`, saving of adapter, rank state
and trainer state, `on_save`, metrics; the exception path (abort the manifest,
write failed metrics) and the `finally` clause. *Interacts* with every other
part; ranks meet in barriers and all-reduces. *Hard*: the durable writes of an
iteration are a sequence that a crash can cut anywhere, and the upload of one
iteration overlaps the writes of the next. *Correct*: a restart continues as if
nothing happened, losing at most one completed iteration; a report of a
completed iteration stays one.

### 1.4 Launch and recovery scripts (`scripts/loop7b/*.sh`)

`train_sft_loop15_rtxpro6000.sh` (the *outer launcher*) moves away what an
unfinished iteration left and starts the trainer with the scenario manifest's
start iteration; `train_stage2_guarded_rtxpro6000.sh` (the *guard*) starts the
trainer again as it is. *Hard*: what has to be moved away depends on where the
attempt before was interrupted. *Correct*: a retry is neither refused nor stuck,
and trains on the scenario batch of its iteration.

### 1.5 Rollout worker (`phi_agents/rl/vllm_rollout_worker.py`)

*State*, on each rank: a request counter, a cancellation and a stop event, a
result queue, the counters of `get_rollouts`, the adapter id; shared: the servers
and the adapter loaded there. *Operations*: `request_rollout_generation` (with
the exchange of the adapter between two barriers), the generation thread
`_worker`, `get_rollouts`, `stop`. *Hard*: the event is set and cleared by two
threads, outside the mutex; ranks poll their own queues and must meet in
all-reduces; retries share a budget; exceptions reach the trainer only through
the queue. *Correct*: every rollout of a request is delivered once, cancellation
stays in its batch, ranks stay in lockstep, no request of the old policy meets
the new adapter.

### 1.6 Evaluation callback and worker (`phi_agents/rl/callbacks.py`, `eval.py`)

*State*: the future of the running evaluation; a Ray actor with a rollout worker
of its own. *Operations*: `before_iteration` (start an evaluation that is due),
`before_new_rollouts` (wait for it), `shutdown`. *Interacts*: it generates on the
trainer's servers with the adapter it finds there. *Hard*: three configurations
order evaluation, adapter exchange and learning differently; the actor may crash
or lose its generation thread. *Correct*: an evaluation uses its own checkpoint's
adapter and is over before the adapter goes; its failure does not stop training.

### 1.7 Scenario samplers (`phi_agents/rl/parallel_scenario_sampler.py`, samplers in `appworld_scenario_runner.py`)

*State*: a request counter, a counter of scenarios being made, a bounded queue,
a mutex. *Operations*: `ensure_scenarios_requested`, `__next__`, the sampler
threads, `stop`. *Hard*: the number of scenarios on their way is spread over the
three, and `get` happens outside the mutex. *Correct*: a consumer that waits has a
scenario coming; a resumed run samples the batch of its iteration.

### 1.8 AppWorld scenario runner and interface (`phi_agents/rl/appworld_scenario_runner.py`, `phi_agents/appworld/interface.py`, `phi_agents/evals/appworld_evals.py`)

*State*: the handle on a server process and its port, `_task_id`, the memory level
of the process, per run a monitor thread and its verdict. *Operations*: launch,
wait until ready, relaunch, restart, close, forced close; `run` with its checks
before and after, the attempts of an episode, the monitor. *Hard*: the monitor is
joined for one second and its forced close may take ten, so it can empty the handle
of a later run; every request can fail. *Correct*: an attempt sees one server;
nothing is left over without a cause; every run ends.

### 1.9 vLLM server actor and client (`phi_agents/vllm/vllm_server.py`)

*State*: the process at a port, its adapters, whether the owner connected to a
process it found. *Operations*: start or connect, health polling, load and unload,
terminate and wait, kill. *Hard*: processes survive their owner; a dying one still
answers. *Correct*: generation asks one server, with the adapter of the iteration.

### 1.10 Gradient computation (`phi_agents/rl/train.py`, `rl_utils.py`)

*State*: the rollouts that passed the filter, each rank's place in its epochs.
*Operations*: advantages, filter and scatter, loss, reduction, KL gather, optimizer
step. *Hard*: each rank decides whether to go on, from values that are not all
reduced to all. *Correct*: ranks take the same steps on equal shares of the
strongest rollouts.

### 1.11 Agents and templates (`phi_agents/agent/`, `phi_agents/rl/llm/`)

*State*: the messages of a rollout, the view the model is shown, the tokens of a
request. *Operations*: a turn, truncation of context and of output, the search for
a number of new tokens, tokenization for learning. *Hard*: four limits interact.
*Correct*: the learner trains on the tokens that were generated, in their context.

### 1.12 Evaluation watcher and orchestrator (`scripts/loop7b/eval_watch.py`, `run_sft_loop15_evaluations.py`)

*State*: a summary directory; the outputs of commands with a launch and a completion
record. *Operations*: poll, evaluate a repeat, upsert rows; plan, adopt, quarantine,
launch, validate, complete. *Hard*: kills between records, commands that outlive the
process that started them, other settings on the next call. *Correct*: every due
checkpoint is compared with the base; a completion record vouches for its output.

### 1.13 API evaluation and teacher data (`phi_agents/api_eval/deepseek_appworld.py`, `phi_agents/sft/teacher.py`)

*State*: trajectory files, `summary.csv` or the generation manifest, money spent.
*Operations*: a task's attempt (initialize, replay, ask, execute, evaluate, close),
resumption over the files of a killed process. *Hard*: spend, trajectory and record
are written one after the other. *Correct*: what is on disk accounts for what was
done, and the limit on spending holds.

### 1.14 Supervised fine-tuning (`phi_agents/sft/dataset.py`, `subsets.py`, `trainer.py`, `scripts/sft/`)

*State*: data files with a manifest; windows of a sample; checkpoints with a
`.complete` mark and epoch pointers. *Operations*: build, scale, window and audit;
start, resume or skip a stage; save, rotate, mark. *Hard*: files are overwritten in
place; the mark is written in a callback after a library has saved and rotated.
*Correct*: training and validation share no scenario; windows lose and repeat
nothing; finished work stays.

### 1.15 Preparation and analysis scripts (`scripts/loop7b/`)

`prepare_sft_loop_base.py` merges the SFT adapter and verifies the result;
`extract_r2_first15_manifest.py` recovers scenario batches from a log that several
threads wrote; `recompute_offline_process_advantage.py` gives the turns of saved
rollouts their credit; `build_sft_loop15_report.py` compares runs while the
orchestrator may be going on. *Hard*: kills, interleaved lines, precedence of
rules, files read one by one. *Correct*: a run starts only from a verified model; a
replay has the tasks of the run before; credit is local; a report that is not a
failure vouches for its rows.

### 1.16 Parts without a module

Rollout diagnostics (statistics and layout of a report; that it refuses to overwrite
one is part of `TrainingRun`), `launch.py` (it composes command lines), the two
trajectory analyses (sequential readers that classify text), profiling and logging.

## 2. The modules

    TrainingConfig
      IterationManifest   CloudCheckpointer
            \               /
             TrainingRun  ---- refines ---->  DurableTraining
                  |
        TrainingRunInvariant --- TrainingRunProofs
                  |
             MCTrainingRun (TLC)

    ScenarioSampler --- RolloutWorker --- RolloutCollection --- MCRolloutCollection (TLC)

    EvalLoop --- MCEvalLoop (TLC)

    AppWorldServer --- ScenarioRunner (TLC) --- ScenarioRunnerProofs

    EvaluationJobs --- LoopReport ------\
    ApiTask --- TeacherGeneration -------\
           \--- ApiEvaluation ------------- Programs --- MCPrograms (TLC)
    EvalWatch, VllmServer,              /
    SftData, SftWindows, SftTraining,  /
    GradientSteps, AgentContext,      /
    ProcessAdvantage, MergedBase,    /
    ScenarioManifest ---------------/

The proofs are in modules of their own, which extend what they are about:

| Proofs | About |
|---|---|
| `TrainingRunProofs` | `TrainingRun`, its parts and its refinement |
| `RolloutCollectionProofs` | `RolloutCollection` with worker and sampler |
| `ScenarioRunnerProofs` | `ScenarioRunner` with `AppWorldServer` |
| `EvaluationProofs` | `EvalLoop`, `EvalWatch`, `EvaluationJobs`, `LoopReport` |
| `LearningProofs` | `GradientSteps`, `ProcessAdvantage`, `AgentContext` |
| `SftProofs` | `SftData`, `SftWindows`, `SftTraining`, `MergedBase` |
| `ProgramsProofs` | `VllmServer`, `ApiTask` with its two drivers, `ScenarioManifest`, `Programs` |
| `NumberLemmas` | lemmas that several of them need: induction, least and greatest members, finite sums, division |

**`TrainingConfig`** has the constants of the durable part and what the code
requires of them.

**`IterationManifest`**: `manifests[n]` is the canonical file of iteration `n`
(`NoManifest` if there is none), `history` the set of archived records.
`MustArchive`, `NextAttempt`, `ArchiveCopy`, `ArchiveDelete` and `Write*` are the
store accesses; `TrainingRun` takes them one step at a time.

**`CloudCheckpointer`**: `cloud[n]` is the durable directory of checkpoint `n`: its
files are missing, `torn` (a copy or delete was begun) or `whole`, and `done` is
`done.txt`. `local[n]` is the set of files of the local checkpoint.
`uploadRunning`, `startEvent`, `doneEvent` are the flag and the events of the same
names. The uploader's `_uploader_thread` is `UploadStart` (with its death on
`FileExistsError`), `UploadCopied`, `UploadMark`, `PruneTear`, `PruneRemove` and
`UploadDone`; `Sync`, `OnSave` and `Stop` are the trainer's methods.

**`TrainingRun`** composes the two with the loop of `_run`, the exception path of
`run`, the launcher and crashes. `pc[r]` is the place of rank `r` between two
durable writes or barriers; `job` is the trainer as its launcher sees it;
`metrics` and `diagnostics` are the reports on disk. A collective or barrier is a
step that needs all ranks at the same place. `Crash` ends every process at any
point; `Interrupt` is an exception or Ctrl-C on rank 0, after which the abort
path runs step by step.

**`DurableTraining`** is the abstract promise: training is at most one iteration
ahead of what is durable, iterations become durable in order, none is lost.

**`ScenarioSampler`** is `ParallelScenarioSampler`: the two counters and the queue's
length, the threads' loop, `stop`. Scenarios are anonymous.

**`RolloutWorker`** is the generation thread: waiting for a request, clearing the
cancellation event, fetching scenarios, `task[r][k]` for each rollout of the
request (`queued`, on a runner, on a runner but submitted after the cancellation
(`doomed`), `done`), retries with their two budgets, results and exceptions put
into `queue`.

**`RolloutCollection`** composes both with the trainer threads of all ranks: the
exchange of the adapter between its barriers, `get_rollouts` with its all-reduces
and its cancellation, the manifest gate's comparison of finished with expected
rollouts, `Learn` (gradient steps and checkpoint in one collective step), and the
`finally` clause up to the join of the generation thread. An adapter is the number
of its checkpoint.

**`EvalLoop`** is `EvalCallback` in rank 0's loop and the tasks of the `EvalWorker`,
beside the servers (`servers`, `loaded`) that both use. `mode` is the
configuration: `sync`, `async` (`rl.async_rollouts`) or `exclusive` (inference
stops while the trainer learns). Of the worker's own `VLLMRolloutWorker` only the
life of its generation thread (`thread`) and where its servers come from
(`attached`) are kept.

**`AppWorldServer`** is the handle of `AppWorldInterface`: `server` is the process it
holds, `opened` whether `_task_id` is set, `alive` the processes that run. Processes
are numbered by launch. An operation that blocks is split where it blocks, because
the monitor may act there.

**`ScenarioRunner`** is the thread that calls `run` (`pc`: between two requests to the
server or two blocking calls) and one monitor per run (`monitor`, with the `verdict`
that the thread reads). `Check*` are the memory checks before and after a rollout,
`Judge` and `CloseHandle` the monitor.

**`EvalWatch`**: `job` is the model and repeat under evaluation, `rows` the summary,
which is all that survives a kill besides finished inference.

**`EvaluationJobs`**: `directory[j]` is the output of job `j` with its two records;
`writers` remembers which commands wrote it, `strays` which commands outlived their
orchestrator. A setting stands for the command and its hash. `Twins` are commands that
the validation of a diagnostic job cannot tell apart: it compares the resolved
configuration, not `--seed`, the start port or the Python binary.

**`ApiTask`** is `run_single_task_once` with the client whose spending is limited.
**`TeacherGeneration`** adds the rounds, repairs and manifest of `teacher.py`,
**`ApiEvaluation`** the driver with `summary.csv`.

**`VllmServer`**: `state[p]` of each process at the port, `adapters[p]` loaded there,
and the owner's calls; `connects` says whether this run may adopt what it finds.

**`SftWindows`** has both bisections of `window_sample` as functions, and beside them
`SoundWindow`, which states without a search what they have to find. **`SftData`** is
`build_dataset` and `build_subsets`, file by file: the training and the validation rows
are two writes each, of a build and of every subset. **`SftTraining`** is the stage script,
the training loop with the library's order of save, rotation and callback, and the
choice between epochs.

**`GradientSteps`**: `site[r]` is the collective operation rank `r` waits in, or what it
does alone. A rollout is its return, a loss is whether it is NaN.

**`AgentContext`**: messages are sequences of texts told apart by their turn; `asked` are
the tokens of each request, `learned` those the learner gets. An answer stops with
`<|im_end|>` (`Eom`), with which the template ends a message, or with another stop token
(`Eot`); the generation prompt of Qwen 3 has an empty block of thoughts.

**`ProcessAdvantage`** is the scoring of a group of `GroupSize` rollouts (six in the code)
as operators, with the checks of the audit. Scores are in units of 1/480, in which half
differences of returns and their means over up to five rollouts are whole; a turn is the
set of endpoints it calls, out of `TurnCalls`, and whether it failed.
**`ScenarioManifest`** has the threads that write the log, the extractor that
reads it line by line, and the sampler that splits a batch over ranks: `shards` is its
`distributed_world_size`, which is 1 without `distributed_shard`.
**`MergedBase`** is the merge with its checks and the test of the script that starts on
it. **`LoopReport`** reads the directories of `EvaluationJobs` one step at a time while
that goes on.

**`Programs`** composes what shares no state: a behaviour chooses a `program` and only
that one moves. Its states are the sum, not the product, of theirs. `LoopReport` runs
with the orchestrator, teacher generation and API evaluation with `ApiTask`. Each can be
checked alone by its own specification.

Abstractions that are shared by the modules:

- The processes run on one node, and a crash ends all of them, the uploader
  included (section 7 on one that survives). An exception on a rank other than 0 is
  a crash in `TrainingRun` (`torchrun` ends the group); in `RolloutCollection` the
  other ranks are left waiting.
- A failure during start-up, before the first iteration, leaves nothing to record
  and is a `Crash`.
- `on_save` is one step: the uploader it wakes can do nothing before its event.
- The uploader's list of checkpoints to prune is evaluated as it goes. Nothing else
  creates directories meanwhile.
- The outer launcher also looks into the checkpoints for their files. On what it is
  started on here these tests pass; it never prunes (`ConfigAssumption`).
- The iterators behind the samplers are endless in training (`cycle=true`).
- In `RolloutCollection` the servers stay up; stopping and starting them is in
  `EvalLoop` and `VllmServer`. Putting a result and submitting the next rollout is one
  step: both happen in the generation thread and nobody sees the state between them.
- In the killable programs a file that is written in place has a torn state, one that
  is renamed into place has none.

## 3. What the runs check

Each run's `.cfg` names the configuration; two ranks are enough for every
barrier to be able to fail, since all ranks but 0 take the same steps.

### 3.1 Durability and recovery (`TrainingRun`)

| Run | Instance | States |
|---|---|---|
| `outer` | 3 iterations, 2 ranks, every checkpoint kept, 4 launches of which the first 2 may fail, diagnostics on, outer launcher | 128,362 |
| `guarded` | 3 iterations, 2 ranks, one checkpoint kept, 3 launches of which 2 may fail, guard | 270,039 |

Three iterations are needed for an upload that overlaps an iteration whose
checkpoint is then pruned or lost: iteration 1 durable, 2 on its way, 3 begun. Two
faulty launches give a failure of the recovery from a failure; the last launches
are free of faults so that liveness can be asked. `MaxLaunches` and
`FaultyLaunches` are bounds of the model, the others configuration.

- `ResumeIntegrity`: the checkpoint a restart would load is whole, at any moment.
  It relates the uploader's copy, the barriers of saving, and pruning.
- `BoundedLoss`: where metrics say that iteration `n` is completed, `n - 1` is
  durable. The report is written while the upload of `n` is under way.
- `DoneHasBatch`: a complete checkpoint has a manifest that is not pending or
  missing: no later attempt touched it.
- `ScenarioBatchAligned` (outer launcher): ranks that collect the rollouts of
  iteration `n` get the scenarios of batch `n`, after any sequence of launches. The
  guard passes the first launch's start iteration again; there it does not hold,
  which the repository does not promise either.
- `HistoryIsLossless`, `CompletedStaysCompleted`: no step replaces a manifest of
  another attempt that is not archived; no completed report turns into a failed one.
- `ImplementsDurableTraining`: the refinement, with `durable` the last complete
  checkpoint and `trained` the trainer's count.
- `RunEnds`, `TrainingCompletes` (outer launcher): a started trainer finishes or goes
  down, never waits for ever; with somebody who launches it again training ends.

### 3.2 Rollouts (`RolloutCollection`)

| Run | Instance | States |
|---|---|---|
| `rollouts` | 2 ranks, 2 iterations, 2 rollouts of 1 scenario on 1 runner, 1 required, 1 retry of each within 1 of the iteration, synchronous | 1,274,070 |
| `rollouts_async` | 2 ranks, 3 iterations, async, 1 rollout per rank, runners may raise, 1 rank may be interrupted | 349,946 |

Two rollouts on one runner leave one running and one queued when the batch becomes
sufficient, so that cancellation meets both; the second iteration is where a late
cancellation or a rollout left behind would show. Async rollouts need three
iterations: the first batch, one requested ahead, and one after it.

- `NoEarlyCancellation`: the assertion of `get_rollouts`: a cancellation stays in
  its batch although two threads set and clear the event.
- `NothingLeftBehind`: at the end of `get_rollouts` every rollout was delivered once.
- `LockstepReductions`: no rank is past the collection while another waits in an
  all-reduce.
- `BatchIsSufficient`: both required numbers hold for the batch that is used.
- `WaitingIsSupplied`: a generation thread that waits in `__next__` has a scenario
  coming, in training and during `stop` of an interrupted run (`samplerStopped`
  does not remove scenarios; that the threads may be gone is finding 4).
- `NoStraggler`, `BoundedStaleness`: the requests of a rank name the adapter that is
  loaded; a batch is at most one policy old, and not at all when synchronous.
- `RunReachesItsEnd`: no mutual waiting: the last iteration or the `finally` is reached.

### 3.3 Evaluation (`EvalLoop`)

`eval`: all three modes, 5 iterations resumed at any of them, an evaluation every
second iteration, up to 2 faults (crash of the actor, exception of the trainer, a
rollout that raises); 6,509 states. Five iterations contain three evaluations, so that a failure in one
meets the next; every second, so that an iteration without one lies between.

- `RightAdapterLoaded` (synchronous): an evaluation that generates finds the servers
  up and its adapter on them.
- `SwapsAreQuiet` (all modes): no evaluation is under way while adapters are
  exchanged, also after a crash or a replaced actor.
- `EveryDueEvalIsDone` (synchronous, no faults): no checkpoint that is due is skipped.
- `OnlyFailedEvalsBlock`: a run ends or waits for ever for an evaluation that polls
  for a lost generation thread. Beside synchronous training this takes an evaluation in
  which a rollout raised: crashes of the actor and what the trainer does to the servers
  never block it.

### 3.4 Environment (`ScenarioRunner`)

`environment` (431,008 states): 2 calls of `run` with 2 attempts each and 2 interactions, 1 relaunch
while waiting, 1 process that dies, 2 changes of the memory level, 1 refused call; 9
launches, which is never the limit. Two runs are needed for a monitor of the first to
act in the second; two growths for a soft-dead discard whose relaunched server grows
again.

- `OneServerPerEpisode`: from its first call to its last an attempt is on the process
  on which it initialized its task.
- `LeftoversHaveCauses`: a task id that makes `initialize` refuse the next one comes from
  a `close_world` that was lost on that very process, dead or alive (`closeLostOn`), or
  from a discarded run; a process nobody can stop comes from a late
  monitor, one at most for each.
- `RunnerEnds`: all runs end and the runner is cleaned up.

### 3.5 Programs around and inside the training run (`Programs`)

`programs`: 14 programs, about 1.58 million states in all.

| Program | Instance | Why |
|---|---|---|
| `watch` | checkpoints 1, 2, 4, every 2nd is due, 2 repeats, 2 faults | one checkpoint that is not due; a failure meets a retry |
| `jobs`, `report` | 2 jobs (1 dev), 3 settings of which 2 are twins, 4 invocations (2 for the report), 1 command that outlives its orchestrator; points 0, 1, 3 | adoption, of a twin's output too, quarantine and a stray between two kills; intervals of different length |
| `teacher`, `api` | 2 tasks, 2 attempts, limit 2, price at most 1, 1 fault | the limit falls inside an attempt; a repair follows a failure |
| `vllm` | 3 iterations, 2 boots, connecting or not, exclusive or not, 2 faults | the second boot finds what the first left |
| `windows` | up to 4 turns, actions up to 2 tokens, length 4, overlap 0 or 2 | every split and overlap of them |
| `data` | 3 trajectories, 2 builds, subsets of 1 and 2, each in two writes | builds and subsets over the files of killed ones |
| `sft` | 5 windows on 2 processes: 3 steps an epoch, saved every 2, 3 kept, 2 kills | epoch ends on and off a save |
| `gradient` | 2 ranks, groups of 3, minibatches of 4, 2 epochs, thresholds 0 and 2, 2 faults | shares that the minibatch does not divide |
| `agent` | 3 interactions, model length 30, learner's limit 12 or 30, outputs up to 3 | each limit bites in some behaviour |
| `audit` | a group of three with 3 turns in all, or 4 of one rollout; turns read, read and write, or call nothing; returns 0, 3/4, 1 | a third rollout shares or leaves a fork, with a return between, above or below; a cycle of two turns; a failed turn without a call |
| `manifest` | 2 iterations of 2 scenarios with 2 rollouts, 1 fault, 1 to 3 ranks, 3 replays | overtaking, wrapping around, idle ranks |
| `merge` | 2 probes, 2 merges, 1 fault | a merge over a killed one |

- `WatcherEvaluates`: the watcher dies, or every due checkpoint gets a row.
  `ComparedWithBase`: each such row was compared with a base row.
- `CompletionVouches`: a completion record stands beside output of its own command or a
  twin of it, and of commands that outlived an orchestrator at most. `CompletedIsKept`: no later
  invocation moves it aside or runs it again.
- `ApiRunsAreAccounted`: spending exceeds the limit by less than one answer plus what
  kills hide; jobs and rows say what the trajectories say; a process stops early only
  at the limit.
- `RightServerAnswers`: a run that connects to existing servers has one at its port,
  which has the adapter of the iteration.
- `SftInputIsSound`: training and validation data share no scenario in what a manifest
  vouches for, of a build or of its subsets, although both overwrite two files one after
  the other (what a kill leaves there, section 6); after a finished invocation the subsets
  are what their manifest says; no near duplicates of a task; windows partition a sample
  and each is the longest there is.
- `StageIsKept`: the checkpoint a stage resumes is the furthest that was finished, and
  whole, except for a step saved twice (section 6).
- `LearningIsFair`: ranks learn in lockstep, except for a NaN loss (section 6); they get
  equal shares of the strongest rollouts.
- `CreditIsLocal`: a failed turn costs and its correction pays whatever else applies;
  repetition costs; a turn about which nothing else is said gets nothing unless it is
  where its rollout leaves one of another return, and then the sign of those it leaves. So
  an eligible fork is in the wrong order only if one of its turns also leaves a rollout
  that did better than the better one or worse than the worse one. The audit asks this of
  forks with a full return, and can then fail only by the lower turn: of six rollouts that
  return 1, four times 0.9 and 0, each with another first call, the fork of the first with
  a 0.9 is in the wrong order, since that turn leaves the 0 as well. Three rollouts are
  enough for TLC to have both sides of a fork shared or not; the proof is for up to six.
- `ContextIsKept`: the learner's tokens are those of the requests with the generated
  ones behind them; for Qwen 2.5 they read as the chat template renders the history if
  each answer ended with the template's stop token or was cut at the limit (section 6 on
  the others); a truncated view keeps the prompt and the latest blocks.
- `ReplayIsFaithful`: a recovered manifest has the tasks of each iteration, and the ranks
  of a replay have each of them once (a rank without `distributed_shard` is a replay of
  its own and has the whole batch).
- `InitializationIsVerified`: the model a run starts from is the one its manifest
  vouches for, and answers as it was verified to.
- `ReportVouches`: a report that is not a failure has rows under its contract only, and
  areas where all points are there; the completion of a dev row is on record, and what a
  row was read from was written by one command, or one that validation cannot tell from
  it, unless one outlived its orchestrator.
  (With more than two invocations such a command can complete a quarantined directory
  between the reading of its summary and of its provenance. The attempt to prove a
  stronger claim, which holds within the bound of the run, showed it.)

Several of these are conjunctions of parts that are defined and commented one by one in
the modules.

### 3.6 Runs that find a disagreement

`upload_wedge`, `stale_diagnostics`, `partial_refused`, `shutdown_hang` and
`eval_hang` check one property each, which the code violates: section 6.

Every property of a passing run is broken by at least one plausible mutation of
the code (operators commented "Mutant of ..." in the modules), which shows that
the instance is large enough for it.

## 4. Fairness and deadlock

- `TrainingRun`: weak fairness of the trainer's steps and of the uploader. They are
  operating-system processes which go on when they can. There is none for `Interrupt`
  and `Crash`: failures happen or not. That the launcher acts (`LaunchFairness`) is
  assumed in `OperatedSpec` only: the launchers start the trainer once or in a loop,
  and behind the loop there is an operator.
- `RolloutCollection`: weak fairness of each rank's trainer thread, generation thread
  and of each sampler thread, and of the collectives. A rollout ends, one way or
  another: the environment's calls have timeouts. There is none for `Interrupt`.
- `EvalLoop`: weak fairness of the trainer and the actor, none for their faults.
- `ScenarioRunner`: weak fairness of the runner's thread, whose requests all have
  timeouts, and of each monitor, a thread of the same process. None for crashes,
  growth and refusals.
- `Programs`: weak fairness of the watcher's steps, and of the appearance of
  checkpoints, for `WatcherEvaluates`: a claim about what a watcher does with
  checkpoints that come. None for kills, and none for the other programs, about which
  nothing is claimed but safety.

Weak fairness is enough everywhere: a step that a process waits for stays enabled
until it is taken.

Deadlock is not checked. The system does stop: when training is finished, when it
is down and the launches are used up, when an actor waits for another that is gone.
The last of these is what the liveness properties exclude where it must not happen.

## 5. What is proved

All theorems hold for every value of the constants that satisfies the modules'
`ASSUME`s; two have a hypothesis more, which 5.1 and 5.5 explain. Those about
`TrainingRun`, `EvalLoop` and `RolloutCollection` are about `Safety` (initial condition
and steps, no fairness), the others about the module's specification, fairness included.
Every safety property that a passing run checks is stated by a theorem.

### 5.1 TrainingRun (`TrainingRunProofs`)

| Theorem | Statement |
|---|---|
| `TypeCorrect` | `[]TypeOK` |
| `ResumeIsSound` | `[]ResumeIntegrity` |
| `LossIsBounded` | `[]BoundedLoss` |
| `CheckpointsHaveBatches` | `[]DoneHasBatch` |
| `AttemptsAreArchived` | `HistoryIsLossless` |
| `CompletedReportsStay` | `CompletedStaysCompleted` |
| `BatchIsAligned` | `[]ScenarioBatchAligned`, under the outer launcher |
| `RunImplementsDurableTraining` | the refinement of `DurableTraining` |

They hold for any number of iterations, ranks and launches, any `max_ckpts`, both
launchers, any number of failures. Assumed: `ConfigAssumption` (there is a rank 0,
`max_ckpts` is null or positive, the outer launcher does not prune).

*The invariant.* None of the properties is inductive: that a checkpoint marked done
is whole depends on what was copied, and that on where the ranks were when the
uploader woke up. `IInv` (`TrainingRunInvariant`) adds, in the order in which they
depend on each other:

1. `Lifecycle`: all ranks are off or starting together, and nothing volatile survives.
2. `Counting`: where an iteration is under way there is one left, and the metrics
   are its own.
3. `ManifestGate`: past the gate the manifest is committed, and stays so until its
   checkpoint is being uploaded.
4. `LocalCheckpoint`: saving fills the local directory in the order of the barriers.
5. `UploadProtocol`: from `step_barrier` to `on_save` no upload is running; a copy
   under way is of checkpoint `completed`, which was complete when it was listed.
   This is the point of the waits in `on_step_end` and `on_save`: `_uploader_thread`
   chooses the *newest* local checkpoint, and is right because there is no newer one.
6. `Directory`: what exists in the durable directory is at most one ahead of what is
   complete, and a directory that is being copied is not one that counts.
7. `Durability`: how far what is durable lags behind the trainer at each place.

`QuietSteps`, `ManifestSteps`, `CloudSteps` and `MetricsSteps` sort the actions by
the state they touch, so that each part is proved for the few actions that can
disturb it. Pruning never hurts because it deletes only below `completed`, which
is complete by then (`PrunableBelow`). The refinement maps `UploadMark` to
`Persist`, `StepBarrier` to `Train`, every way of going down to `Crash`, and every
other step to a stutter (`ProgressSteps`, `LastDoneKept`).

`BatchIsAligned` has the outer launcher as its hypothesis: only that one aligns the
scenario offset with the durable checkpoints. Its part of the invariant, `Batches`,
follows the batch from the launch, where all below it are done, past the draw, after
which it is one ahead of the iteration.

`TLC` checked `IInv` and `Batches` on the instances before they were proved.

### 5.2 EvalLoop (`EvaluationProofs`)

| Theorem | Statement |
|---|---|
| `SwapsStayQuiet` | `[]SwapsAreQuiet` |
| `AdapterStays` | `[]RightAdapterLoaded` |
| `DueEvalsAreDone` | `[]EveryDueEvalIsDone` |
| `EvalTypeCorrect` | `[]TypeOK` |

They hold for any number of iterations, evaluation frequency, resumed iteration and
number of faults. The invariant: a task that is under way is the one the callback
remembers, and it remembers none while the adapter is exchanged (`TaskIsKnown`);
synchronous training has the adapter of its completed iterations on the servers from
the start of an iteration to the next exchange, and a task asks for just that
(`AdapterIsKept`); without faults the generation thread lives and a due checkpoint
is being evaluated or has been (`DueIsServed`); `Counting` gives the types.

### 5.3 RolloutCollection (`RolloutCollectionProofs`)

| Theorem | Statement |
|---|---|
| `CollectionInvariant`, `CollectionTypes` | `[]IInv`, `[]TypeOK` |
| `CancellationStaysInItsBatch` | `[]NoEarlyCancellation` |
| `CallsAreComplete` | `[]NothingLeftBehind` |
| `NoStragglers`, `StalenessIsBounded` | `[]NoStraggler`, `[]BoundedStaleness` |
| `ReductionsInLockstep` | `[]LockstepReductions` |
| `WaitersAreSupplied` | `[]WaitingIsSupplied` |
| `BatchesAreSufficient` | `[]BatchIsSufficient` |

They hold for any number of ranks, scenarios, rollouts, iterations, runners and retries,
synchronous or not. `IInv` has global parts and one part per rank:

1. `LockStep` and `Adapters` (global): where one rank is in a collective, where the
   others can be; and that the adapter of a rank's requests is the one loaded while a
   request is open (`Open(r)`) or its results are used.
2. `Requests(r)`: a request is not taken (`Untouched`), served (`Served`) or failed
   (`Failed`). `Conserved` is the heart: results in the queue, collected and cancelled
   are together the tasks that are done, so that a closed request has left nothing.
3. `Cancellations(r)`: the event is set only between the decision about a batch and the
   clearing by the generation thread that takes the next request.
4. `Decisions`: the ranks that decided on a batch decided alike.
5. `Generating(r)`, `Counters(r)`: a waiting generation thread has a scenario requested,
   under way or queued, counted over two counters, threads and queue.

`Frame` says that a step of one rank keeps the part of every other. For
`BatchesAreSufficient` the finished rollouts of all ranks are counted as the pairs of a
rank and a number (`Counted`), so that one more adds one pair; a rank that decided the
batch was sufficient did so on a count that has not shrunk since (`Sufficiency`).

### 5.4 ScenarioRunner (`ScenarioRunnerProofs`)

`RunnerInvariant`, `RunnerTypes`, `EpisodesKeepTheirServer` (`[]OneServerPerEpisode`),
`LeftoversExplained` (`[]LeftoversHaveCauses`), for any number of runs, attempts,
interactions, crashes and launches. The invariant: attempts and relaunches are within
their budgets at each place (`Budgets`); a launch finds the handle empty
or its process gone (`LaunchIsClean`); monitors belong to runs that began
(`MonitorsKnown`); a set task id is of this episode, or of a discarded run, or of an
episode whose close was lost on the same process (`TaskIdExplained`). Orphans are counted with `HandleStep`: every step on
the handle but a late `Forget` loses no process, and a monitor takes that step once.

### 5.5 The programs

| Theorem | Statement | Invariant |
|---|---|---|
| `CompletionIsVouched`, `CompletedStays` | `[]CompletionVouches`, `CompletedIsKept` | `JobsInv`: records agree with the output, a launch finds a directory without records in which only strays have written, and only a command of this invocation or a stray writes |
| `ReportsVouch` | `[]ReportVouches` | `RInv`: `JobsInv`; what is about to be quarantined is incomplete (`QuarantinedIsIncomplete`: a development job has no completion record and, without strays, no output is whole); and per step of the report what it has read so far and still holds of the directories (`DevRow`, `DiagnosticRow`, `Compared`) |
| `ChecksHaveAReference` | `[]ComparedWithBase` | `BaseFirst`: past the base evaluation there is a base row, and no step removes it |
| `AcceptedModelIsVerified` | `[]InitializationIsVerified` | `Owned`: a merge that writes owns the directory; `Vouched`: a verified manifest stands beside whole weights of its own merge whose checks passed (`ChecksChain` turns the pairwise checks into the claim) |
| `RanksLearnFairly` | `[]LearningIsFair` | `Lockstep`, and why a verdict or a stop differs between ranks (`VerdictsExplained`, `StopsExplained`); `PerRankFits` and `FilterChoosesFairly` are the arithmetic and the cardinalities of the filter |
| `AuditedCreditIsLocal` | `[]CreditIsLocal` | `AdvantageInv`: the scores are those of the traces; for any group of up to six the mean over the rollouts a turn divides has the sign of its summands (`SumIsSigned`, `QuotientIsSigned`), and the rest is the precedence of the vetoes |
| `ContextKept` | `[]ContextIsKept` | `ContextInv`, below |
| `TheRightServerAnswers`, `ServerTypes` | `[]RightServerAnswers`, `[]VllmTypeOK` | `VllmInv`: a run that connects has one server at its port (`AtMostOne`), which has the adapter while rollouts are generated (`LoadedEverywhere`) |
| `TeacherIsAccounted`, `DriverIsAccounted`, `ApiRunsAccount` | `[]GenerationIsAccounted`, `[]EvaluationIsAccounted`, `[]ApiRunsAreAccounted` | `TeacherInv`: the manifest's jobs and cost are those in memory between two attempts (`Books`), paths are numbered past every job (`Numbered`), what is spent beyond the manifest fits the calls of this attempt, and each kill hides one attempt at most (`Spending`). `DriverInv`: below the current task every row agrees with its file |
| `StagesAreKept` | `[]StageIsKept` | `SftInv`: what the output directory holds at each place of the loop, and which checkpoints are complete (`OutputDirectory`, `EpochLoss`) |
| `DataIsSound` | `[]TrainingDataIsSound` | `DataInv`: the accepted trajectories are deduplicated and each one left out has a near one that was accepted (`ReadingInv`), the files under way are the two sides of one split (`WritingInv`), the subsets written so far, the training rows of one first, are prefixes of one order without repetition that was checked against the rows held out (`SubsetsInv`) |
| `WindowsAreSound` | `[]WindowsAreExact` | `WindowsInv`: windows chain (`Chained`) and each satisfies `SoundWindow` (`EachSound`) |
| `SftInputSound` | `[]SftInputIsSound` | both, in `Programs` |
| `ManifestIsFaithful` | `[]ReplayIsFaithful` | `LogInv`: what the extractor has counted tells the batch that was run (`Tells`), and a manifest that was written has each batch, up to order where rollouts overtook each other (`Extracted`) |

They hold for any number of jobs, settings, twins, invocations and strays; checkpoints and
repeats; probes and merges; ranks, rollouts and minibatch sizes; tasks, attempts, prices
and faults; boots; windows, savings and kills; turns and tokens; iterations, scenarios and
replays. The proof for any number of ranks was worth its effort: the exception of
`LearnTogether` as first written (the two ranks' losses differ) was one that only two
ranks make true. With three, two ranks with valid losses part when the third has a NaN.

`StagesAreKept` assumes `SaveTotalLimit > 1`. With 1 the property is false: the library
rotates before the callback marks the new checkpoint, so that the last finished one is
removed first and a kill between the two leaves none. The stage script passes 10
(`run_qwen35_two_stage_train.sh:103`); the trainer's default is 3 (`trainer.py:93`, `1336`).

*Windows.* `window_sample` searches by bisection for the earliest start of the history and
the latest end. Both searches are recursive functions on ranges. That each finds what a
linear search would is proved by induction over the length of the range, from the
monotonicity of the length of a rendered range.

*Replay.* A manifest is trusted only if each index has one task. That the extractor's
counts then determine the batch is a pigeonhole argument (`PlacesFillTasks`): as many
places as tasks, each task in one. In a replay, the places that the ranks take come round
after a whole number of batches (`PlacesComeRound`), so each task is taken once.

*Context.* `get_tokens` treats what precedes the first answer at once and the rest message
by message. `GetTokensGrow` shows that appending a message appends its tokens; `Agrees`
relates a history to the requests it was made with: the tokens read, for Qwen 2.5 and
answers that end as the template ends a message, as the rendering of
the history, each request with its answer is a prefix of them, and only generated tokens
are marked. `ObservationAgrees` and `AnswerAgrees` keep it as the history grows, the
latter because an answer that is not cancelled is whole (`CompletionSound`);
`ContextInv` adds that every candidate of a turn was asked with the tokens of the view, and
fits the model. `HideKeeps`, `CutKeeps` and `RemoveKeeps` follow the blocks of a view
through the three stages of `truncate_messages`.

### 5.6 Model-checked only

The liveness properties (`RunEnds`, `TrainingCompletes`, `RunReachesItsEnd`,
`OnlyFailedEvalsBlock`, `RunnerEnds`, `WatcherEvaluates`): fairness and `ENABLED` are beyond the
prover.

No module that is proved about reaches a `RECURSIVE` operator. What a fold over a finite
set or a recursive function computes is proved where it is needed from `NumberLemmas`:
`Induction` is stated for a set of numbers, and sums unfold by one member (`SumWithout`).

## 6. Disagreements found

Each is shown by a run that TLC refutes, and quoted in `PROJECT.json`.

1. `upload_wedge` (`RunEnds`). A crash during an upload leaves `checkpoint-N` without
   `done.txt`. A launcher that does not move it away retries iteration `N`, the copy
   raises `FileExistsError`, the uploader ends without setting `done_event`, and
   rank 0 waits in `sync` for ever. Only the outer launcher moves it away.
2. `stale_diagnostics` (`RetryIsNotRefused`). The outer launcher clears the reports of
   iteration `N + 1` before a retry. A crash before the upload of `N + 1` is complete
   can leave those of `N + 2` as well; the retry trains `N + 1` again and is refused at
   `N + 2`. It takes a second launch to get past it, as `TrainingCompletes` shows.
3. `partial_refused` (`SufficientIsAccepted`). With `rollouts_fraction` below 1
   `get_rollouts` cancels what a sufficient batch does not need, and the manifest
   gate then refuses the batch as incomplete. `README.md` trains with 0.9.
4. `shutdown_hang` (`ShutdownEnds`). The `finally` clause stops the sampler before the
   worker that consumes from it. If a request is open, as without async rollouts after
   the last iteration, the generation thread may wait for a scenario that nobody
   makes, and `stop` joins it without a timeout.
5. `eval_hang` (`TrainingEnds`). When a rollout of an evaluation raises, the actor logs
   that and lives on, its generation thread does not; the next evaluation polls for
   ever, and training waits for it, synchronous or not. With async rollouts no fault is
   needed, as the run shows: an evaluation starts before its adapter is loaded and fails.

Other observations, without a run of their own. Where a property had to make an
exception for one, it says so.

- A crash between the deletion of the canonical manifest and the write of the new one
  makes attempt numbers start at 1 again; no record is lost.
- In exclusive mode a new `EvalWorker` that finds no servers starts its own on the
  learner's GPUs (the model reaches `attached = "own"`).
- When one rank's loss is NaN the average is NaN on rank 0 only (`train.py:1948`): a
  rank with a valid loss enters the optimizer step, in whose collective it waits for
  ranks that have left the iteration (exception of `LearnTogether`).
- A late dead-server monitor can empty the handle after the thread has launched again: the
  new process runs on and nobody stops it. A `close_world` that cannot connect, also
  to a process that runs, is only logged and leaves `_task_id` set, and `initialize` then
  refuses the next task, which ends the use of the runner.
- `vllm_server.py`: `psutil.wait_procs` (445) never raises the `TimeoutExpired` that is
  caught, so termination does not escalate, and a next start may connect to the
  dying server; `kill_process_by_port(str(port))` (371) compares a string with a number
  and kills nothing.
- SFT training: a step that ends an epoch and is also saved for `save_steps` is saved
  twice, the second time into a directory that is marked `.complete`; a kill there
  leaves a torn checkpoint that every start resumes in vain (exception of
  `ProgressIsKept`).
- `window_sample` tries ends that are too long; with no observation before such an end
  it raises for a sample that a shorter end would have windowed.
- Teacher generation: a kill between an attempt and the manifest hides the attempt's
  spend. API evaluation: every process counts its cost from zero, and a resumed one stops
  at a task that an earlier one left at the limit.
- `eval_watch.py`: failures of later repeats are classified from the log of the first
  (803-809); a checkpoint with a row of the first repeat counts as evaluated.
- A killed merge leaves a non-empty output that every later call refuses.
- The audit's check of first forks can fail for a group in which the lower turn also
  leaves a rollout that did worse: its credit is a mean over all it leaves (exception of
  `CreditIsLocal`).
- `build_subsets` killed between its two writes leaves new training rows beside the
  validation rows of an earlier invocation, which may share scenarios. Only the hashes in
  `subset_manifest.json` tell, and the trainer does not compare them.
- An answer that ended with another stop token than `<|im_end|>` is learned with that
  token (the check of `qwen_25.py:269` leaves it out); a learner of Qwen 3 sees the empty
  block of thoughts in every answer, as the model did when it gave it, whereas the
  tokenizer's template would leave it out of earlier turns.
- The validation of a diagnostic job adopts output of a command with another `--seed`,
  start port or Python binary (`CompletionVouches`, `ReportVouches` claim no more).
- With `distributed_shard=false`, the default, several ranks
  would each run the whole scenario batch; both scripts with several ranks set it.
- Extraction pairs log lines first in, first out: rollouts that overtake each other swap
  their tasks between two indices (`ReplayIsFaithful` claims the set only).
- `Agent` stores `max_seq_len_tokens` and never uses it; a learner's limit below the
  model's cuts generated tokens (`train.py:1556`).

## 7. What is left out

- Data: rollouts, losses, tokens, metrics and reports are what the properties tell
  apart (present, complete, of which iteration), never their contents. Floating-point
  values are members of small sets.
- `TrainingRun` takes the gradient steps as one collective step; `GradientSteps` has them
  one by one, over the rollouts of one iteration.
- Several nodes, several inference servers, the s3 variant of `file_utils.copy`.
- An uploader that survives a killed rank 0 (`cloud_checkpointer.py:116`): it is a spawned
  process, whose command line the guard's cleanup need not match. It is the one hazard of
  the list that no module reaches, and the first extension of `TrainingRun` (section 8).
- The guard's decision whether an abort is worth a restart: the model allows it always.
- An exhausted scenario iterator (`parallel_scenario_sampler.py:85`): training cycles.
- In `RolloutCollection`: runners' recycling, seeds, server restarts; the part of `stop`
  behind the join of the generation thread. In `ScenarioRunner`: several runners (they
  share nothing) and ports.
- The required numbers of `get_rollouts` are constants: their rounding
  (`vllm_rollout_worker.py:530-541`) is not part of `BatchIsSufficient`. The scenario offset
  under the guard is not claimed to be right (3.1).
- In `ProcessAdvantage`: `complete_task`, and what the steps of a turn call one by one.
- In `EvalLoop`: the ranks without a callback, summaries, the worker's sampler.
- In `VllmServer`: sampling, streaming, the client's HTTP retries. In the API programs:
  model profiles, prompts, parsing of answers.
- Two concurrent merges into one output, two orchestrators at once: the programs are
  started by hand, one at a time.
- The parts of 1.16.

## 8. Plan

Done, in this order: durability and recovery; rollouts, evaluation, the environment; the
phases inside an iteration and the programs around the run; and the proofs of every safety
property of them.

Left, most important first:

1. A batch queue that delivers every rollout of a request once, as an abstract
   specification for `RolloutCollection` to implement (`Conserved` is most of its
   refinement), and an exclusive lock on the servers between adapter exchange and
   evaluation for `EvalLoop`.
2. Orphaned uploaders and the guard's decision, as an extension of `TrainingRun`.
3. Composition of `RolloutCollection` with `ScenarioRunner`: a rollout that ends is an
   assumption there and `RunnerEnds` here; and with `VllmServer` for exclusive mode.
