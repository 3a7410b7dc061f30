----------------------------- MODULE ScenarioRunner -----------------------------
(***************************************************************************)
(* One AppWorldScenarioRunner (phi_agents/rl/appworld_scenario_runner.py)  *)
(* that plays rollouts one after the other: the thread that calls run,     *)
(* with the episode of phi_agents/evals/appworld_evals.py inside it, and   *)
(* one dead-server monitor per run.  A monitor is waited for during one    *)
(* second only, so a slow one lives on beside the following runs.          *)
(*                                                                         *)
(* The caller is the rollout worker: a run that raises the soft-dead error *)
(* is tried again, any other error ends the use of the runner.             *)
(***************************************************************************)
EXTENDS AppWorldServer

CONSTANTS
  MaxRuns,               \* bound: calls of run
  MaxRetries,            \* max_retries of the episode
  MaxInteractions,       \* env.max_interactions
  MaxCrashes,            \* bound: AppWorld processes that die or do not start in time
  MaxGrowth,             \* bound: changes of the memory level
  MaxFaults              \* bound: failed completions, refused calls

ASSUME RunnerAssumption ==
  /\ MaxRuns \in Nat \ {0}
  /\ MaxRetries \in Nat \ {0}
  /\ MaxInteractions \in Nat \ {0}
  /\ MaxCrashes \in Nat
  /\ MaxGrowth \in Nat
  /\ MaxFaults \in Nat

Runs == 1 .. MaxRuns
Verdicts == {"none", "soft_dead", "hard_dead"}
Outcomes == {"none", "returned", "soft_dead", "hard_dead", "failed"}

\* Where the thread is; the waits for readiness carry what they return to.
Waiting == {"assert", "before", "locked", "initialize", "idle"}
Sites == {"idle", "ensure", "assert", "before", "locked", "initialize", "agent", "execute",
          "completed", "evaluate", "close", "restart", "stopping", "relaunch", "wait",
          "join", "verdict", "after", "cleanup", "end"}

VARIABLES
  pc,            \* where the thread that uses the runner is
  resume,        \* where it goes once a server it launched is ready
  relaunches,    \* launches of the current wait for readiness
  tries,         \* attempts of the episode
  turn,          \* interactions of the attempt
  run,           \* number of the current or last call of run
  outcome,       \* how that call ended, none until it is known
  marked,        \* _restart_after_current_task
  monitor,       \* the monitor thread of each run
  judged,        \* the status it found and is about to act on
  verdict,       \* soft_dead_snapshots and hard_dead_snapshots of each run
  hostFull,      \* host memory above its limit
  crashes, growth, faults,
  episodeOn,     \* history: the process on which the attempt initialized
  closeLostOn    \* history: the process on which the last close_world was lost

threadVars == <<pc, resume, relaunches, tries, turn, run, outcome, marked, episodeOn,
                closeLostOn>>
monitorVars == <<monitor, judged, verdict>>
budgetVars == <<hostFull, crashes, growth, faults>>
runnerVars == <<serverVars, threadVars, monitorVars, budgetVars>>

RunnerTypeOK ==
  /\ ServerTypeOK
  /\ pc \in Sites
  /\ resume \in Waiting
  /\ relaunches \in 0 .. MaxRelaunches
  /\ tries \in 0 .. MaxRetries
  /\ turn \in 0 .. MaxInteractions
  /\ run \in 0 .. MaxRuns
  /\ outcome \in Outcomes
  /\ marked \in BOOLEAN
  /\ monitor \in [Runs -> {"none", "watching", "judged", "closing", "done"}]
  /\ judged \in [Runs -> Verdicts]
  /\ verdict \in [Runs -> Verdicts]
  /\ hostFull \in BOOLEAN
  /\ crashes \in 0 .. MaxCrashes
  /\ growth \in 0 .. MaxGrowth
  /\ faults \in 0 .. MaxFaults
  /\ episodeOn \in 0 .. MaxLaunches
  /\ closeLostOn \in 0 .. MaxLaunches

RunnerInit ==
  /\ ServerInit
  /\ pc = "idle"
  /\ resume = "idle"
  /\ relaunches = 0
  /\ tries = 0
  /\ turn = 0
  /\ run = 0
  /\ outcome = "returned"
  /\ marked = FALSE
  /\ monitor = [k \in Runs |-> "none"]
  /\ judged = [k \in Runs |-> "none"]
  /\ verdict = [k \in Runs |-> "none"]
  /\ hostFull = FALSE
  /\ crashes = 0
  /\ growth = 0
  /\ faults = 0
  /\ episodeOn = None
  /\ closeLostOn = None

-----------------------------------------------------------------------------
(***************************************************************************)
(* Steps of the calling thread.                                            *)
(***************************************************************************)
Goto(site) == pc' = site
StayInRun == UNCHANGED <<run, marked, closeLostOn>>
KeepEpisode == UNCHANGED <<tries, turn, episodeOn>>
EpisodeOver == tries' = 0 /\ turn' = 0 /\ episodeOn' = None
KeepOutcome == UNCHANGED outcome
KeepWait == UNCHANGED <<resume, relaunches>>
Quiet == UNCHANGED <<monitorVars, budgetVars>>

\* _health_snapshot: a handle that holds nothing has no resident memory.
Status == IF hostFull THEN "hard_dead" ELSE IF clean THEN "healthy" ELSE level

\* An exception leaves run as it is outside the try block; inside it becomes
\* the error of a verdict that the monitor has left by then.
RaiseOutside ==
  /\ outcome' = "failed"
  /\ Goto("idle")

RaiseInside ==
  /\ outcome' = IF verdict[run] # "none" THEN verdict[run] ELSE "failed"
  /\ Goto("join")

RaiseFrom(inside) == IF inside THEN RaiseInside ELSE RaiseOutside

\* The runner is used as long as its runs return or are soft-dead.
Usable == outcome \in {"returned", "soft_dead"}

\* run begins with ensure_server.
Begin ==
  /\ pc = "idle"
  /\ Usable
  /\ run < MaxRuns
  /\ run' = run + 1
  /\ outcome' = "none"
  /\ resume' = "assert"
  /\ Goto(IF clean THEN "ensure" ELSE "assert")
  /\ UNCHANGED <<serverVars, marked, relaunches, closeLostOn>>
  /\ KeepEpisode
  /\ Quiet

\* recycle_server, at the end of an iteration: a rollout was committed.
Recycle ==
  /\ pc = "idle"
  /\ outcome = "returned"
  /\ run \in 1 .. MaxRuns - 1
  /\ resume # "idle"          \* once after a run
  /\ resume' = "idle"
  /\ Goto(IF clean THEN "ensure" ELSE "restart")
  /\ UNCHANGED <<serverVars, relaunches>>
  /\ StayInRun
  /\ KeepEpisode
  /\ KeepOutcome
  /\ Quiet

\* cleanup when the worker stops.
Cleanup ==
  /\ pc = "idle"
  /\ Goto(IF clean THEN "end" ELSE "cleanup")
  /\ UNCHANGED serverVars
  /\ KeepWait
  /\ StayInRun
  /\ KeepEpisode
  /\ KeepOutcome
  /\ Quiet

CleanupStops ==
  /\ pc = "cleanup"
  /\ IF clean THEN UNCHANGED serverVars
     ELSE /\ Stop(server)
          /\ server' = None
          /\ opened' = FALSE
          /\ UNCHANGED launched
  /\ Goto("end")
  /\ KeepWait
  /\ StayInRun
  /\ KeepEpisode
  /\ KeepOutcome
  /\ Quiet

-----------------------------------------------------------------------------
\* ensure_server with an empty handle.
EnsureLaunch ==
  /\ pc = "ensure"
  /\ InitServer({})
  /\ UNCHANGED opened
  /\ relaunches' = 0
  /\ Goto("wait")
  /\ UNCHANGED resume
  /\ StayInRun
  /\ KeepEpisode
  /\ KeepOutcome
  /\ Quiet

\* restart refuses an empty handle; otherwise it stops the process.
Restart ==
  /\ pc = "restart"
  /\ IF clean THEN RaiseFrom(resume = "initialize") ELSE Goto("stopping") /\ KeepOutcome
  /\ UNCHANGED serverVars
  /\ KeepWait
  /\ StayInRun
  /\ KeepEpisode
  /\ Quiet

\* close_all may take its time: the handle is read again to stop the process,
\* and reading an emptied one raises.
Stopping ==
  /\ pc = "stopping"
  /\ IF clean THEN RaiseFrom(resume = "initialize") /\ UNCHANGED serverVars
     ELSE StopServer /\ Goto("relaunch") /\ KeepOutcome
  /\ KeepWait
  /\ StayInRun
  /\ KeepEpisode
  /\ Quiet

RelaunchStopped ==
  /\ pc = "relaunch"
  /\ RestartLaunch
  /\ relaunches' = 0
  /\ Goto("wait")
  /\ UNCHANGED resume
  /\ StayInRun
  /\ KeepEpisode
  /\ KeepOutcome
  /\ Quiet

\* Mutant of WaitReady: a retry goes on with the episode instead of starting it
\* over.
WaitReadyGoesOn ==
  /\ pc = "wait"
  /\ Ready
  /\ marked' = (marked /\ resume \notin {"before", "locked", "idle"})
  /\ IF resume = "initialize" /\ tries = MaxRetries
     THEN RaiseInside
     ELSE Goto(IF resume = "initialize" THEN "agent" ELSE resume) /\ KeepOutcome
  /\ UNCHANGED <<run, resume, relaunches, closeLostOn>>
  /\ KeepEpisode
  /\ Quiet

\* The wait for readiness ends well: _restart_server also clears its mark,
\* and the episode starts over if it was not its last attempt.
WaitReady ==
  /\ pc = "wait"
  /\ Ready
  /\ marked' = (marked /\ resume \notin {"before", "locked", "idle"})
  /\ IF resume = "initialize" /\ tries = MaxRetries
     THEN RaiseInside
     ELSE Goto(resume) /\ KeepOutcome
  /\ UNCHANGED <<run, resume, relaunches, closeLostOn>>
  /\ KeepEpisode
  /\ Quiet

\* It ends badly when the process died or does not start in time.
WaitFails ==
  /\ pc = "wait"
  /\ \/ ~Reachable /\ UNCHANGED crashes
     \/ Reachable /\ crashes < MaxCrashes /\ crashes' = crashes + 1
  /\ IF ~clean /\ relaunches < MaxRelaunches
     THEN /\ Relaunch
          /\ relaunches' = relaunches + 1
          /\ UNCHANGED <<pc, outcome>>
     ELSE /\ GiveUp
          /\ RaiseFrom(resume = "initialize")
          /\ UNCHANGED relaunches
  /\ UNCHANGED <<resume, hostFull, growth, faults, monitorVars>>
  /\ StayInRun
  /\ KeepEpisode

\* run asserts that the handle is filled, then honours an earlier mark.
AssertServer ==
  /\ pc = "assert"
  /\ IF clean THEN RaiseOutside /\ UNCHANGED resume
     ELSE /\ resume' = "before"
          /\ Goto(IF marked THEN "restart" ELSE "before")
          /\ KeepOutcome
  /\ UNCHANGED <<serverVars, relaunches>>
  /\ StayInRun
  /\ KeepEpisode
  /\ Quiet

\* The rest of _check_health_before_task.
CheckBefore ==
  /\ pc = "before"
  /\ resume' = "locked"
  /\ CASE Status = "hard_dead" -> /\ outcome' = "hard_dead"
                                  /\ Goto("idle")
                                  /\ UNCHANGED serverVars
       [] Status = "soft_dead" -> Goto("ensure") /\ ForceClose /\ KeepOutcome
       [] Status = "recycle" -> Goto("restart") /\ KeepOutcome /\ UNCHANGED serverVars
       [] Status = "healthy" -> Goto("locked") /\ KeepOutcome /\ UNCHANGED serverVars
  /\ UNCHANGED relaunches
  /\ StayInRun
  /\ KeepEpisode
  /\ Quiet

\* With the lock: start the monitor, then the first attempt.
StartMonitor ==
  /\ pc = "locked"
  /\ monitor' = [monitor EXCEPT ![run] = "watching"]
  /\ tries' = 0
  /\ Goto("initialize")
  /\ UNCHANGED <<serverVars, turn, episodeOn, judged, verdict, budgetVars>>
  /\ KeepWait
  /\ StayInRun
  /\ KeepOutcome

-----------------------------------------------------------------------------
(***************************************************************************)
(* The episode, as retried by run_vllm_inference_single_server_single_task.*)
(* A failed execution, an HTTP error (of any server) and a lost connection *)
(* restart the AppWorld server and the episode; other errors leave it.     *)
(***************************************************************************)
Retry == Goto("restart") /\ resume' = "initialize" /\ KeepOutcome
Leave == RaiseInside /\ UNCHANGED resume
Continue(site) == Goto(site) /\ KeepOutcome /\ UNCHANGED resume

\* A call that is refused or times out although the process runs.
Fault == faults < MaxFaults /\ faults' = faults + 1

\* initialize refuses a handle whose task was never closed, and turns any
\* failure of the call into an error that is not retried.
Initialize ==
  /\ pc = "initialize"
  /\ tries' = tries + 1
  /\ turn' = 0
  /\ \/ opened /\ Leave /\ UNCHANGED <<serverVars, episodeOn, faults>>
     \/ /\ ~opened /\ Reachable
        /\ OpenWorld
        /\ episodeOn' = launched
        /\ Continue("agent")
        /\ UNCHANGED faults
     \/ /\ ~opened
        /\ IF Reachable THEN Fault ELSE UNCHANGED faults
        /\ Leave
        /\ UNCHANGED <<serverVars, episodeOn>>
  /\ UNCHANGED <<relaunches, hostFull, crashes, growth, monitorVars>>
  /\ StayInRun

\* next_code_block: code, or the end of the episode because the sequence is
\* too long or the rollout was cancelled; an HTTP error of the inference
\* server is caught like one of AppWorld.
NextCodeBlock ==
  /\ pc = "agent"
  /\ \/ \E site \in {"execute", "evaluate"} : Continue(site) /\ UNCHANGED faults
     \/ Fault /\ (Retry \/ Leave)
  /\ turn' = turn + 1
  /\ UNCHANGED <<serverVars, tries, episodeOn, relaunches, hostFull, crashes, growth, monitorVars>>
  /\ StayInRun

\* The outcomes of a call on the open world: an emptied handle is a
\* ValueError, and so is a task id that was forgotten, except under execute,
\* which wraps whatever fails after its first check.  A timeout is retried
\* under execute only.
Call(wraps, answered) ==
  /\ \/ clean /\ Leave /\ UNCHANGED faults
     \/ ~clean /\ ~opened /\ (IF wraps THEN Retry ELSE Leave) /\ UNCHANGED faults
     \/ ~clean /\ opened /\ ~Reachable /\ Retry /\ UNCHANGED faults
     \/ ~clean /\ Answers /\ Fault /\ (Retry \/ (~wraps /\ Leave))
     \/ ~clean /\ Answers /\ answered /\ UNCHANGED faults
  /\ UNCHANGED <<serverVars, tries, turn, episodeOn, relaunches, hostFull, crashes, growth,
                 monitorVars>>
  /\ StayInRun

Execute == pc = "execute" /\ Call(TRUE, Continue("completed"))

TaskCompleted ==
  /\ pc = "completed"
  /\ Call(FALSE, \/ Continue("evaluate")
                 \/ turn < MaxInteractions /\ Continue("agent"))

Evaluate == pc = "evaluate" /\ Call(FALSE, Continue("close"))

\* close_world: a connection that is lost, because the process died or although it
\* runs, is logged and the episode returned, with the task id still set.
CloseIsLost == Continue("join") /\ closeLostOn' = launched /\ UNCHANGED serverVars

CloseEpisode ==
  /\ pc = "close"
  /\ \/ /\ clean \/ ~opened
        /\ Leave
        /\ UNCHANGED <<serverVars, faults, closeLostOn>>
     \/ ~clean /\ opened /\ ~Reachable /\ CloseIsLost /\ UNCHANGED faults
     \/ ~clean /\ Answers /\ Fault /\ CloseIsLost
     \/ /\ ~clean /\ Answers /\ Fault
        /\ Retry \/ Leave
        /\ UNCHANGED <<serverVars, closeLostOn>>
     \/ /\ ~clean /\ Answers
        /\ CloseWorld
        /\ Continue("join")
        /\ UNCHANGED <<faults, closeLostOn>>
  /\ UNCHANGED <<tries, turn, episodeOn, relaunches, hostFull, crashes, growth, monitorVars,
                 run, marked>>

\* Mutant of Join: waits for the monitor without telling it to stop.
JoinWithoutStop ==
  /\ pc = "join"
  /\ monitor[run] \notin {"watching", "judged", "closing"}
  /\ Goto(IF outcome = "none" THEN "verdict" ELSE "idle")
  /\ UNCHANGED <<serverVars, monitorVars, budgetVars>>
  /\ KeepWait
  /\ StayInRun
  /\ EpisodeOver
  /\ KeepOutcome

\* The finally clause: the stop event is set; a monitor between two looks
\* sees it and ends, a slower one is left behind after a second.
Join ==
  /\ pc = "join"
  /\ IF monitor[run] = "watching"
     THEN monitor' = [monitor EXCEPT ![run] = "done"]
     ELSE UNCHANGED monitor
  /\ Goto(IF outcome = "none" THEN "verdict" ELSE "idle")
  /\ UNCHANGED <<serverVars, judged, verdict, budgetVars>>
  /\ KeepWait
  /\ StayInRun
  /\ EpisodeOver
  /\ KeepOutcome

\* A verdict discards the rollout even when its episode went well.
HonourVerdict ==
  /\ pc = "verdict"
  /\ IF verdict[run] # "none" THEN outcome' = verdict[run] /\ Goto("idle")
                              ELSE Goto("after") /\ KeepOutcome
  /\ UNCHANGED serverVars
  /\ KeepWait
  /\ StayInRun
  /\ KeepEpisode
  /\ Quiet

\* _check_health_after_task, and the return of run.
CheckAfter ==
  /\ pc = "after"
  /\ IF Status = "soft_dead" THEN ForceClose ELSE UNCHANGED serverVars
  /\ outcome' = IF Status \in {"soft_dead", "hard_dead"} THEN Status ELSE "returned"
  /\ marked' = (marked \/ Status = "recycle")
  /\ Goto("idle")
  /\ UNCHANGED <<run, closeLostOn>>
  /\ KeepWait
  /\ KeepEpisode
  /\ Quiet

-----------------------------------------------------------------------------
(***************************************************************************)
(* Steps of the monitor of run k.                                          *)
(***************************************************************************)
Stopped(k) == k < run \/ pc \in {"verdict", "after", "idle", "cleanup", "end"}

Look(k) ==
  /\ monitor[k] = "watching"
  /\ ~Stopped(k)
  /\ Status \in {"soft_dead", "hard_dead"}
  /\ monitor' = [monitor EXCEPT ![k] = "judged"]
  /\ judged' = [judged EXCEPT ![k] = Status]
  /\ UNCHANGED <<serverVars, threadVars, verdict, budgetVars>>

\* It records what it saw and kills what the handle holds now.
Judge(k) ==
  /\ monitor[k] = "judged"
  /\ verdict' = [verdict EXCEPT ![k] = judged[k]]
  /\ judged' = [judged EXCEPT ![k] = "none"]
  /\ IF clean
     THEN monitor' = [monitor EXCEPT ![k] = "done"] /\ UNCHANGED serverVars
     ELSE monitor' = [monitor EXCEPT ![k] = "closing"] /\ Kill
  /\ UNCHANGED <<threadVars, budgetVars>>

\* When the killed process is gone, the handle is emptied.
CloseHandle(k) ==
  /\ monitor[k] = "closing"
  /\ monitor' = [monitor EXCEPT ![k] = "done"]
  /\ Forget
  /\ UNCHANGED <<threadVars, judged, verdict, budgetVars>>

MonitorStep(k) == Look(k) \/ Judge(k) \/ CloseHandle(k)

-----------------------------------------------------------------------------
(***************************************************************************)
(* The environment.                                                        *)
(***************************************************************************)
ServerDies ==
  /\ crashes < MaxCrashes
  /\ crashes' = crashes + 1
  /\ Crash
  /\ UNCHANGED <<threadVars, monitorVars, hostFull, growth, faults>>

MemoryGrows ==
  /\ growth < MaxGrowth
  /\ growth' = growth + 1
  /\ \/ (\E higher \in Levels : Grow(higher)) /\ UNCHANGED hostFull
     \/ hostFull' = ~hostFull /\ UNCHANGED serverVars
  /\ UNCHANGED <<threadVars, monitorVars, crashes, faults>>

ThreadStep ==
  \/ Begin \/ Recycle \/ Cleanup \/ CleanupStops
  \/ EnsureLaunch \/ Restart \/ Stopping \/ RelaunchStopped \/ WaitReady \/ WaitFails
  \/ AssertServer \/ CheckBefore \/ StartMonitor
  \/ Initialize \/ NextCodeBlock \/ Execute \/ TaskCompleted \/ Evaluate \/ CloseEpisode
  \/ Join \/ HonourVerdict \/ CheckAfter

RunnerNext ==
  \/ ThreadStep
  \/ \E k \in Runs : MonitorStep(k)
  \/ ServerDies
  \/ MemoryGrows

\* Requests have a timeout and completions end, so the thread goes on; a
\* killed process is reaped, so a monitor that judged goes on too.
RunnerFairness ==
  /\ WF_runnerVars(ThreadStep)
  /\ \A k \in Runs : WF_runnerVars(Judge(k) \/ CloseHandle(k))

RunnerSpec == RunnerInit /\ [][RunnerNext]_runnerVars /\ RunnerFairness

-----------------------------------------------------------------------------
(***************************************************************************)
(* Properties.                                                             *)
(***************************************************************************)

\* An attempt of an episode runs from its first call to its last on the
\* process on which it initialized the task: after every restart, by a retry
\* or around a monitor, it starts over (appworld_evals.py:337-353).
OneServerPerEpisode ==
  pc \in {"agent", "execute", "completed", "evaluate", "close"} => episodeOn = launched

\* A task id that an earlier run left behind makes initialize refuse the next
\* one (interface.py:244).  It is left over a process only if the close_world of an
\* episode on that very process was lost (appworld_evals.py:305-308), or by a run that
\* its monitor discarded (appworld_scenario_runner.py:585-594): such a run may
\* leave a world open on the server it launched meanwhile.
RefusedHasCause ==
  pc = "initialize" /\ opened =>
    \/ closeLostOn = launched
    \/ \E k \in Runs : k < run /\ verdict[k] = "soft_dead"

\* A process nobody can stop any more: it runs and the handle has lost it.
Orphans == {p \in alive : p # server}
Closers == {k \in Runs : monitor[k] = "done" /\ verdict[k] # "none"}

\* Retries, recycling and relaunches lose no process; each monitor that emptied
\* the handle after the thread had launched again (interface.py:402-413) loses
\* one at most.
OrphansHaveClosers ==
  Cardinality(Orphans) <= Cardinality(Closers)

\* What an episode leaves for the next, on a server or beside one, has a cause that
\* no retry, recycling or relaunch is.
LeftoversHaveCauses == RefusedHasCause /\ OrphansHaveClosers

\* Whatever dies, grows or is refused, the runs end and the runner is cleaned up.
RunnerEnds == <>(pc = "end")
=============================================================================
