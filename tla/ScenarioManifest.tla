---------------------------- MODULE ScenarioManifest ----------------------------
(***************************************************************************)
(* The scenario batches of an earlier training run, recovered from its     *)
(* console log, and their replay by the ranks of a later run               *)
(* (scripts/loop7b/extract_r2_first15_manifest.py and the manifest sampler *)
(* of phi_agents/rl/appworld_scenario_runner.py).  The log is read while   *)
(* it is written: the extractor takes each line once, in order.  The       *)
(* threads of the rollouts and the thread that collects them write it.     *)
(***************************************************************************)
EXTENDS Integers, FiniteSets, Sequences, SequencesExt, FiniteSetsExt

CONSTANTS
  LogIterations,   \* num_iterations
  LogScenarios,    \* scenarios_per_iteration
  LogRollouts,     \* rollouts_per_scenario
  ExpectedTasks,   \* bound: 1 .. ExpectedTasks is the list of tasks the run may draw from
  WorldSizes,      \* values of distributed_world_size of the later run
  LogFaults,       \* bound: crashes of the earlier run, cancelled and discarded rollouts
  Replays          \* bound: iterations of the later run

ASSUME ManifestAssumption ==
  /\ {LogIterations, LogScenarios, LogRollouts, ExpectedTasks} \subseteq Nat \ {0}
  /\ WorldSizes \subseteq Nat \ {0}
  /\ {LogFaults, Replays} \subseteq Nat

LogTasks == 1 .. ExpectedTasks
Indices == 1 .. LogScenarios
LogRuns == Indices \X (1 .. LogRollouts)
AllRuns == LogScenarios * LogRollouts

VARIABLES
  extractor,     \* "idle", "reading", "finalize", "written" or "refused"
  checkpoint,    \* the adapter that the earlier run generates with
  batch,         \* by scenario_idx: the task it runs
  rollout,       \* by rollout: "running", "returned", "collected" or "cancelled"
  overtaken,     \* was a rollout collected before one of another task that had returned earlier?
  state,         \* _IterationLogState
  completed_states,
  history,       \* of completed_states: the batch, as it was run, its iteration, and `overtaken`
  scenario_manifest,      \* by iteration and scenario_idx: the task
  log_faults,
  shards,        \* distributed_world_size of the later run, 0 before it starts
  cycle,
  iteration_index, scenario_index,  \* by rank of the later run: the place in the manifest
  replaying,     \* its iteration
  replayed       \* by rank: the tasks of this iteration

logVars == <<checkpoint, batch, rollout, overtaken, state, completed_states, history, log_faults>>
replayVars == <<shards, cycle, iteration_index, scenario_index, replaying, replayed>>
manifestVars == <<extractor, scenario_manifest, logVars, replayVars>>

NoState == [adapter |-> 0, started |-> [t \in LogTasks |-> 0], pending |-> <<>>,
            counts |-> [i \in Indices |-> [t \in LogTasks |-> 0]], cancelled |-> 0]

ManifestInit ==
  /\ extractor = "idle"
  /\ checkpoint = 0 /\ batch = [i \in Indices |-> 1]
  /\ rollout = [k \in LogRuns |-> "running"] /\ overtaken = FALSE
  /\ state = NoState /\ completed_states = <<>> /\ history = <<>>
  /\ scenario_manifest = <<>> /\ log_faults = 0
  /\ shards = 0 /\ cycle = FALSE
  /\ iteration_index = <<>> /\ scenario_index = <<>> /\ replaying = 0 /\ replayed = <<>>

-----------------------------------------------------------------------------
\* The earlier run, line by line, and the state that the extractor makes of it.
\* (Tasks are numbered in the order in which the run draws them first.)
Times(n, task) == Cardinality({k \in LogRuns : n[k[1]] = task})
RolloutsRequested ==
  /\ extractor = "idle"
  /\ batch' \in {b \in [Indices -> LogTasks] :
       \A i \in Indices : b[i] <= 1 + Max({0} \cup {b[j] : j \in 1 .. i - 1}
                                         \cup UNION {Range(past.batch) : past \in Range(history)})}
  /\ rollout' = [k \in LogRuns |-> "running"] /\ overtaken' = FALSE
  /\ state' = [NoState EXCEPT !.adapter = checkpoint, !.started = [t \in LogTasks |-> Times(batch', t)]]
  /\ extractor' = "reading"
  /\ UNCHANGED <<checkpoint, completed_states, history, scenario_manifest, log_faults, replayVars>>

\* "Returning episode from" is logged by the thread of the rollout.  A rollout that
\* is cancelled returns as well; one whose server died softly is run again.
EpisodeReturned ==
  /\ extractor = "reading"
  /\ \E k \in LogRuns :
       /\ rollout[k] = "running"
       /\ \/ rollout' = [rollout EXCEPT ![k] = "returned"]
             /\ state' = [state EXCEPT !.pending = Append(@, batch[k[1]])]
             /\ UNCHANGED log_faults
          \/ /\ log_faults < LogFaults /\ log_faults' = log_faults + 1
             /\ rollout' = [rollout EXCEPT ![k] = "cancelled"]
             /\ state' = [state EXCEPT !.pending = Append(@, batch[k[1]]), !.cancelled = @ + 1]
          \/ /\ log_faults < LogFaults /\ log_faults' = log_faults + 1
             /\ UNCHANGED rollout
             /\ state' = [state EXCEPT !.pending = Append(@, batch[k[1]]), !.started[batch[k[1]]] = @ + 1]
  /\ UNCHANGED <<extractor, checkpoint, batch, overtaken, completed_states, history, scenario_manifest,
                 replayVars>>

\* scenario_idx is logged by the thread that collects; rollouts reach it in any
\* order.  The extractor gives it to the task that returned first.
RolloutCollected ==
  /\ extractor = "reading"
  /\ \E k \in LogRuns :
       /\ rollout[k] = "returned"
       /\ rollout' = [rollout EXCEPT ![k] = "collected"]
       /\ state' = [state EXCEPT !.counts[k[1]][Head(state.pending)] = @ + 1, !.pending = Tail(@)]
       /\ overtaken' = (overtaken \/ Head(state.pending) # batch[k[1]])
  /\ UNCHANGED <<extractor, checkpoint, batch, completed_states, history, scenario_manifest, log_faults,
                 replayVars>>

\* The summary ends an iteration.  The run goes on with the next checkpoint, or
\* crashes before it has one.
SummaryLogged ==
  /\ extractor = "reading"
  /\ \A k \in LogRuns : rollout[k] \in {"collected", "cancelled"}
  /\ completed_states' = Append(completed_states, state)
  /\ history' = Append(history, [batch |-> batch, overtaken |-> overtaken,
                                   iteration |-> checkpoint + 1])
  /\ extractor' = IF Len(completed_states') = LogIterations THEN "finalize" ELSE "idle"
  /\ \/ checkpoint' = checkpoint + 1 /\ UNCHANGED log_faults
     \/ /\ log_faults < LogFaults /\ log_faults' = log_faults + 1
        /\ UNCHANGED checkpoint
  /\ UNCHANGED <<batch, rollout, overtaken, state, scenario_manifest, replayVars>>

\* The run crashes while it collects, or the log ends: the next request finds an
\* iteration that is not complete, or there are too few.
LogBreaks ==
  /\ extractor \in {"idle", "reading"}
  /\ extractor' = "refused"
  /\ UNCHANGED <<scenario_manifest, logVars, replayVars>>

-----------------------------------------------------------------------------
\* _finalize_iteration: the numbers that an iteration in which nothing was left out
\* or repeated would have.
Collected(s) == MapThenSumSet(LAMBDA i : MapThenSumSet(LAMBDA t : s.counts[i][t], LogTasks), Indices)
Started(s) == {t \in LogTasks : s.started[t] # 0}
Mapped(s, i) == {t \in LogTasks : s.counts[i][t] # 0}

Complete(s) ==
  /\ s.pending = <<>>
  /\ Collected(s) = AllRuns /\ s.cancelled = 0
  /\ Cardinality(Started(s)) = LogScenarios
  /\ \A t \in Started(s) : s.started[t] = LogRollouts
  /\ \A i \in Indices : \E t \in Started(s) : s.counts[i][t] = LogRollouts /\ Mapped(s, i) = {t}
  /\ \A i, j \in Indices : Mapped(s, i) = Mapped(s, j) => i = j

\* Mutant of Provable: the adapter of the request is not looked at.
Provable_any_adapter(s, iteration) == Complete(s)
Provable(s, iteration) == s.adapter = iteration - 1 /\ Complete(s)

\* _validate_expected_task_cycles: as many iterations as the list lasts for use each
\* of its tasks once.
PerCycle == ExpectedTasks \div LogScenarios
CyclesComplete(batches) ==
  /\ ExpectedTasks % LogScenarios = 0
  /\ PerCycle > 1 =>
       \A first \in {n \in DOMAIN batches : n % PerCycle = 1 /\ n + PerCycle - 1 <= Len(batches)} :
         /\ UNION {Range(batches[n]) : n \in first .. first + PerCycle - 1} = LogTasks
         /\ \A n, m \in first .. first + PerCycle - 1 : n # m => Range(batches[n]) \cap Range(batches[m]) = {}

ExtractManifest ==
  /\ extractor = "finalize"
  /\ LET mapped == [n \in DOMAIN completed_states |->
                      [i \in Indices |-> CHOOSE t \in Mapped(completed_states[n], i) : TRUE]]
     IN \E expected \in BOOLEAN :
          IF /\ \A n \in DOMAIN completed_states : Provable(completed_states[n], n)
             /\ expected => CyclesComplete(mapped)
          THEN extractor' = "written" /\ scenario_manifest' = mapped
          ELSE extractor' = "refused" /\ UNCHANGED scenario_manifest
  /\ UNCHANGED <<logVars, replayVars>>

-----------------------------------------------------------------------------
\* ManifestAppWorldScenarioSampler: every rank takes its part of each batch.  (Without
\* distributed_shard it is 1 whatever WORLD_SIZE is: each rank is then the one rank of a
\* replay of its own, and has the whole batch.)
ReplayRanks == 1 .. shards
ShardSize == LogScenarios \div shards
ShardBatch(rank, n) == SubSeq(scenario_manifest[n], (rank - 1) * ShardSize + 1, rank * ShardSize)
Over == LogIterations + 1   \* iteration_index of a sampler that is exhausted

\* The later run starts, or starts again from its latest checkpoint.
SamplerStarts ==
  /\ extractor = "written"
  /\ \/ shards = 0 /\ shards' \in WorldSizes /\ cycle' \in BOOLEAN /\ replaying' = 1
     \/ shards # 0 /\ UNCHANGED <<shards, cycle, replaying>>
  /\ IF LogScenarios % shards' # 0 \/ replaying' > LogIterations
     THEN extractor' = "refused" /\ UNCHANGED <<iteration_index, scenario_index, replayed>>
     ELSE /\ iteration_index' = [r \in 1 .. shards' |-> replaying']
          /\ scenario_index' = [r \in 1 .. shards' |-> 1]
          /\ replayed' = [r \in 1 .. shards' |-> <<>>]
          /\ UNCHANGED extractor
  /\ UNCHANGED <<scenario_manifest, logVars>>

\* __next__
NextScenario ==
  /\ extractor = "written" /\ shards # 0
  /\ \E r \in ReplayRanks :
       /\ iteration_index[r] # Over /\ Len(replayed[r]) < ShardSize
       /\ replayed' = [replayed EXCEPT ![r] = Append(@, ShardBatch(r, iteration_index[r])[scenario_index[r]])]
       /\ IF scenario_index[r] < ShardSize
          THEN scenario_index' = [scenario_index EXCEPT ![r] = @ + 1] /\ UNCHANGED iteration_index
          ELSE /\ scenario_index' = [scenario_index EXCEPT ![r] = 1]
               /\ iteration_index' = [iteration_index EXCEPT ![r] =
                                        IF @ = LogIterations /\ cycle THEN 1 ELSE @ + 1]
  /\ UNCHANGED <<extractor, scenario_manifest, logVars, shards, cycle, replaying>>

ReplayComplete == shards # 0 /\ \A r \in DOMAIN replayed : Len(replayed[r]) = ShardSize
IterationReplayed ==
  /\ extractor = "written" /\ ReplayComplete /\ replaying < Replays
  /\ replaying' = replaying + 1
  /\ replayed' = [r \in ReplayRanks |-> <<>>]
  /\ UNCHANGED <<extractor, scenario_manifest, logVars, shards, cycle, iteration_index, scenario_index>>

ManifestNext ==
  \/ RolloutsRequested \/ EpisodeReturned \/ RolloutCollected \/ SummaryLogged \/ LogBreaks
  \/ ExtractManifest \/ SamplerStarts \/ NextScenario \/ IterationReplayed
ManifestSpec == ManifestInit /\ [][ManifestNext]_manifestVars

-----------------------------------------------------------------------------
(***************************************************************************)
(* What is replayed is what was run: a manifest has the tasks of every     *)
(* iteration of the earlier run, however its rollouts overtake each other, *)
(* are cancelled or run again, and each at its own scenario_idx if they    *)
(* never overtake; and the ranks of the later run, from the iteration      *)
(* after their checkpoint on, have between them each of these tasks once   *)
(* (those that share batches: without distributed_shard each rank alone).  *)
(***************************************************************************)
ReplayIsFaithful ==
  /\ scenario_manifest # <<>> =>
       \A n \in 1 .. LogIterations : LET past == history[n]
                                     IN /\ past.iteration = n
                                        /\ Range(scenario_manifest[n]) = Range(past.batch)
                                        /\ ~past.overtaken => scenario_manifest[n] = past.batch
  /\ extractor = "written" /\ ReplayComplete =>
       LET tasks == FlattenSeq(replayed)
       IN /\ Len(tasks) = LogScenarios
          /\ Range(tasks) = Range(history[1 + ((replaying - 1) % LogIterations)].batch)
=================================================================================
