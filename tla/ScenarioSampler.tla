--------------------------- MODULE ScenarioSampler ---------------------------
(***************************************************************************)
(* ParallelScenarioSampler (phi_agents/rl/parallel_scenario_sampler.py):   *)
(* each rank has one, whose threads prepare scenarios ahead of the rollout *)
(* worker.  Scenarios are anonymous here: the queue is its length.  The    *)
(* iterators the trainer is configured with are endless, so the branch for *)
(* StopIteration is left out.                                              *)
(***************************************************************************)
EXTENDS Integers, FiniteSets

CONSTANTS
  Ranks,           \* the processes of the trainer
  SamplerThreads   \* the sampler threads of one rank (num_threads)

ASSUME SamplerAssumption ==
  /\ IsFiniteSet(Ranks) /\ Ranks # {}
  /\ IsFiniteSet(SamplerThreads) /\ SamplerThreads # {}

VARIABLES
  requested,       \* _n_scenarios_requested
  inProgress,      \* _n_scenarios_in_progress
  available,       \* _queue.qsize()
  thread,          \* where each sampler thread is in _worker
  samplerStopped   \* _stop_event

samplerVars == <<requested, inProgress, available, thread, samplerStopped>>

SamplerTypeOK ==
  /\ requested \in [Ranks -> Nat]
  /\ inProgress \in [Ranks -> Nat]
  /\ available \in [Ranks -> Nat]
  /\ thread \in [Ranks -> [SamplerThreads -> {"head", "waiting", "sampling", "exited"}]]
  /\ samplerStopped \in [Ranks -> BOOLEAN]

SamplerInit ==
  /\ requested = [r \in Ranks |-> 0]
  /\ inProgress = [r \in Ranks |-> 0]
  /\ available = [r \in Ranks |-> 0]
  /\ thread = [r \in Ranks |-> [t \in SamplerThreads |-> "head"]]
  /\ samplerStopped = [r \in Ranks |-> FALSE]

Outstanding(r) == requested[r] + inProgress[r] + available[r]

\* Mutant of EnsureRequested: asks for one scenario too few.
EnsureAlmost(r, n) ==
  /\ requested' = [requested EXCEPT ![r] = IF Outstanding(r) < n
                                           THEN @ + (n - Outstanding(r) - 1) ELSE @]
  /\ UNCHANGED <<inProgress, available, thread, samplerStopped>>

\* ensure_scenarios_requested, under the mutex: tops up to n.
EnsureRequested(r, n) ==
  /\ requested' = [requested EXCEPT ![r] = IF Outstanding(r) < n
                                           THEN @ + (n - Outstanding(r)) ELSE @]
  /\ UNCHANGED <<inProgress, available, thread, samplerStopped>>

\* The blocking get of __next__, outside the mutex.
GetScenario(r) ==
  /\ available[r] > 0
  /\ available' = [available EXCEPT ![r] = @ - 1]
  /\ UNCHANGED <<requested, inProgress, thread, samplerStopped>>

ThreadAt(r, t, from, to) ==
  /\ thread[r][t] = from
  /\ thread' = [thread EXCEPT ![r][t] = to]

\* The test of the loop; a thread that is past it does not see a later stop
\* before it has come round again.
ThreadHead(r, t) ==
  /\ ThreadAt(r, t, "head", IF samplerStopped[r] THEN "exited" ELSE "waiting")
  /\ UNCHANGED <<requested, inProgress, available, samplerStopped>>

ThreadTake(r, t) ==
  /\ requested[r] > 0
  /\ ThreadAt(r, t, "waiting", "sampling")
  /\ requested' = [requested EXCEPT ![r] = @ - 1]
  /\ inProgress' = [inProgress EXCEPT ![r] = @ + 1]
  /\ UNCHANGED <<available, samplerStopped>>

\* A wait that began when nothing was requested returns, notified or after a
\* second, and the loop is tested again; this matters once it is stopped.
ThreadWakes(r, t) ==
  /\ samplerStopped[r]
  /\ ThreadAt(r, t, "waiting", "head")
  /\ UNCHANGED <<requested, inProgress, available, samplerStopped>>

ThreadPut(r, t) ==
  /\ ThreadAt(r, t, "sampling", "head")
  /\ inProgress' = [inProgress EXCEPT ![r] = @ - 1]
  /\ available' = [available EXCEPT ![r] = @ + 1]
  /\ UNCHANGED <<requested, samplerStopped>>

SamplerStep(r) ==
  \E t \in SamplerThreads :
    ThreadHead(r, t) \/ ThreadTake(r, t) \/ ThreadWakes(r, t) \/ ThreadPut(r, t)

\* stop, up to its joins.
StopSampler(r) ==
  /\ samplerStopped' = [samplerStopped EXCEPT ![r] = TRUE]
  /\ UNCHANGED <<requested, inProgress, available, thread>>

SamplerJoined(r) == \A t \in SamplerThreads : thread[r][t] = "exited"
==============================================================================
