-------------------------- MODULE ScenarioRunnerProofs --------------------------
(***************************************************************************)
(* Proofs about ScenarioRunner, for every number of runs, retries,         *)
(* interactions, launches, crashes and faults: an attempt of an episode    *)
(* stays on the server it began on, and what an episode leaves for the     *)
(* next one has a cause.                                                   *)
(***************************************************************************)
EXTENDS ScenarioRunner, TLAPS, FiniteSetTheorems

\* The thread is inside run or recycle_server, so there is a run to speak of.
Inside == pc \notin {"idle", "cleanup", "end"}

\* An attempt is left, and an interaction of it.
Budgets ==
  /\ Inside => run >= 1
  /\ pc = "initialize" => tries < MaxRetries
  /\ pc = "agent" => turn < MaxInteractions

\* A launch never forgets a process that runs.
LaunchIsClean ==
  /\ pc = "ensure" => clean
  /\ pc = "relaunch" => server \notin alive

\* The monitor of a run is not started yet.
Launching == pc \in {"ensure", "restart", "stopping", "relaunch", "wait"}
Early ==
  \/ pc \in {"assert", "before", "locked"}
  \/ Launching /\ resume \in {"assert", "before", "locked"}

MonitorsKnown ==
  \A k \in Runs :
    /\ k > run \/ (k = run /\ Early) => monitor[k] = "none"
    /\ monitor[k] \in {"none", "watching", "judged"} => verdict[k] = "none"
    /\ monitor[k] = "judged" => judged[k] # "none"
    /\ monitor[k] = "closing" => verdict[k] # "none"

\* A run that was discarded for a soft-dead server.
Discarded(last) == \E k \in Runs : k <= last /\ verdict[k] = "soft_dead"

\* Why a task id can be set where no episode is under way.
TaskIdExplained ==
  opened =>
    /\ pc \in {"verdict", "after"} \/ (pc = "join" /\ outcome = "none") => closeLostOn = launched
    /\ pc = "join" /\ outcome = "soft_dead" => Discarded(run)
    /\ pc = "idle" /\ Usable => closeLostOn = launched \/ Discarded(run)
    /\ pc \in {"assert", "before", "locked", "initialize"} =>
         closeLostOn = launched \/ Discarded(run - 1)

\* The outcome of a run is open until the thread leaves it.
OutcomeIsOpen ==
  /\ pc \notin {"idle", "cleanup", "end", "join"} /\ ~Launching => outcome = "none"
  /\ Launching /\ resume # "idle" => outcome = "none"
  /\ pc = "join" => outcome # "returned"

IInv ==
  /\ RunnerTypeOK
  /\ Budgets
  /\ LaunchIsClean
  /\ MonitorsKnown
  /\ OutcomeIsOpen
  /\ OneServerPerEpisode
  /\ OrphansHaveClosers
  /\ TaskIdExplained

-----------------------------------------------------------------------------
(* The thread.                                                             *)

\* The four ways on from the check of the server's health.
LEMMA ChecksBefore ==
  ASSUME RunnerTypeOK, CheckBefore
  PROVE  /\ pc = "before" /\ resume' = "locked"
         /\ UNCHANGED <<relaunches, run, marked, tries, turn, episodeOn, closeLostOn, monitor, judged,
                        verdict, hostFull, crashes, growth, faults>>
         /\ \/ pc' = "idle" /\ outcome' = "hard_dead" /\ UNCHANGED serverVars
            \/ pc' = "ensure" /\ UNCHANGED outcome /\ ForceClose /\ ~clean
            \/ pc' = "restart" /\ UNCHANGED outcome /\ UNCHANGED serverVars
            \/ pc' = "locked" /\ UNCHANGED outcome /\ UNCHANGED serverVars
<1>1. Status \in {"hard_dead", "soft_dead", "recycle", "healthy"}
  BY DEF RunnerTypeOK, ServerTypeOK, Levels, Status
<1>2. /\ pc = "before" /\ resume' = "locked"
      /\ UNCHANGED <<relaunches, run, marked, tries, turn, episodeOn, closeLostOn, monitor, judged,
                     verdict, hostFull, crashes, growth, faults>>
  BY DEF CheckBefore, StayInRun, KeepEpisode, Quiet, monitorVars, budgetVars
<1>3. CASE Status = "hard_dead"
  BY <1>2, <1>3 DEF CheckBefore, Goto
<1>4. CASE Status = "soft_dead"
  <2>1. ~clean
    BY <1>4 DEF Status
  <2> QED
    BY <1>2, <1>4, <2>1 DEF CheckBefore, Goto, KeepOutcome
<1>5. CASE Status = "recycle"
  BY <1>2, <1>5 DEF CheckBefore, Goto, KeepOutcome
<1>6. CASE Status = "healthy"
  BY <1>2, <1>6 DEF CheckBefore, Goto, KeepOutcome
<1> QED
  BY <1>1, <1>3, <1>4, <1>5, <1>6

\* The episode counts its attempts and interactions before it makes them.
LEMMA BudgetsHold == IInv /\ [RunnerNext]_runnerVars => Budgets'
<1> SUFFICES ASSUME IInv, [RunnerNext]_runnerVars PROVE Budgets'
  OBVIOUS
<1> USE DEF IInv, RunnerTypeOK, ServerTypeOK, Waiting, Budgets, Inside, Status, Goto, StayInRun,
        KeepEpisode, EpisodeOver, KeepOutcome, KeepWait, Quiet, RaiseFrom, RaiseInside,
        RaiseOutside, Continue, Leave, Retry, Fault, Call, serverVars, threadVars, monitorVars,
        budgetVars, Usable
<1>1. CASE Begin
  BY <1>1, RunnerAssumption DEF Begin
<1>2. CASE Recycle
  BY <1>2, RunnerAssumption DEF Recycle
<1>3. CASE Cleanup
  BY <1>3, RunnerAssumption DEF Cleanup
<1>4. CASE CleanupStops
  BY <1>4, RunnerAssumption DEF CleanupStops
<1>5. CASE EnsureLaunch
  BY <1>5, RunnerAssumption DEF EnsureLaunch
<1>6. CASE Restart
  BY <1>6, RunnerAssumption DEF Restart
<1>7. CASE Stopping
  BY <1>7, RunnerAssumption DEF Stopping
<1>8. CASE RelaunchStopped
  BY <1>8, RunnerAssumption DEF RelaunchStopped
<1>9. CASE WaitReady
  BY <1>9, RunnerAssumption DEF WaitReady
<1>10. CASE WaitFails
  BY <1>10, RunnerAssumption DEF WaitFails
<1>11. CASE AssertServer
  BY <1>11, RunnerAssumption DEF AssertServer
<1>12. CASE CheckBefore
  BY <1>12, ChecksBefore, RunnerAssumption
<1>13. CASE StartMonitor
  BY <1>13, RunnerAssumption DEF StartMonitor
<1>14. CASE Initialize
  BY <1>14, RunnerAssumption DEF Initialize
<1>15. CASE NextCodeBlock
  BY <1>15, RunnerAssumption DEF NextCodeBlock
<1>16. CASE Execute
  BY <1>16, RunnerAssumption DEF Execute
<1>17. CASE TaskCompleted
  BY <1>17, RunnerAssumption DEF TaskCompleted
<1>18. CASE Evaluate
  BY <1>18, RunnerAssumption DEF Evaluate
<1>19. CASE CloseEpisode
  BY <1>19, RunnerAssumption DEF CloseEpisode, CloseIsLost
<1>20. CASE Join
  BY <1>20, RunnerAssumption DEF Join
<1>21. CASE HonourVerdict
  BY <1>21, RunnerAssumption DEF HonourVerdict
<1>22. CASE CheckAfter
  BY <1>22, RunnerAssumption DEF CheckAfter
<1>23. ASSUME NEW k \in Runs, Look(k) PROVE Budgets'
  BY <1>23, RunnerAssumption DEF Look
<1>24. ASSUME NEW k \in Runs, Judge(k) PROVE Budgets'
  BY <1>24, RunnerAssumption DEF Judge
<1>25. ASSUME NEW k \in Runs, CloseHandle(k) PROVE Budgets'
  BY <1>25, RunnerAssumption DEF CloseHandle
<1>26. CASE ServerDies
  BY <1>26, RunnerAssumption DEF ServerDies
<1>27. CASE MemoryGrows
  BY <1>27, RunnerAssumption DEF MemoryGrows
<1>28. CASE UNCHANGED runnerVars
  BY <1>28, RunnerAssumption DEF runnerVars
<1> QED
  BY <1>1, <1>2, <1>3, <1>4, <1>5, <1>6, <1>7, <1>8, <1>9, <1>10, <1>11, <1>12, <1>13, <1>14,
        <1>15, <1>16, <1>17, <1>18, <1>19, <1>20, <1>21, <1>22, <1>23, <1>24, <1>25, <1>26, <1>27,
        <1>28
  DEF RunnerNext, ThreadStep, MonitorStep

\* Only the ways out of a run set its outcome.
LEMMA OutcomesOpen == IInv /\ [RunnerNext]_runnerVars => OutcomeIsOpen'
<1> SUFFICES ASSUME IInv, [RunnerNext]_runnerVars PROVE OutcomeIsOpen'
  OBVIOUS
<1> USE DEF IInv, RunnerTypeOK, ServerTypeOK, Waiting, OutcomeIsOpen, Launching, Status, Verdicts,
        Budgets, Inside, Runs, Goto, StayInRun, KeepEpisode, EpisodeOver, KeepOutcome, KeepWait,
        Quiet, RaiseFrom, RaiseInside, RaiseOutside, Continue, Leave, Retry, Fault, Call,
        serverVars, threadVars, monitorVars, budgetVars, Usable
<1>1. CASE Begin
  BY <1>1 DEF Begin
<1>2. CASE Recycle
  BY <1>2 DEF Recycle
<1>3. CASE Cleanup
  BY <1>3 DEF Cleanup
<1>4. CASE CleanupStops
  BY <1>4 DEF CleanupStops
<1>5. CASE EnsureLaunch
  BY <1>5 DEF EnsureLaunch
<1>6. CASE Restart
  BY <1>6 DEF Restart
<1>7. CASE Stopping
  BY <1>7 DEF Stopping
<1>8. CASE RelaunchStopped
  BY <1>8 DEF RelaunchStopped
<1>9. CASE WaitReady
  BY <1>9 DEF WaitReady
<1>10. CASE WaitFails
  BY <1>10 DEF WaitFails
<1>11. CASE AssertServer
  BY <1>11 DEF AssertServer
<1>12. CASE CheckBefore
  BY <1>12, ChecksBefore
<1>13. CASE StartMonitor
  BY <1>13 DEF StartMonitor
<1>14. CASE Initialize
  BY <1>14 DEF Initialize
<1>15. CASE NextCodeBlock
  BY <1>15 DEF NextCodeBlock
<1>16. CASE Execute
  BY <1>16 DEF Execute
<1>17. CASE TaskCompleted
  BY <1>17 DEF TaskCompleted
<1>18. CASE Evaluate
  BY <1>18 DEF Evaluate
<1>19. CASE CloseEpisode
  BY <1>19 DEF CloseEpisode, CloseIsLost
<1>20. CASE Join
  BY <1>20 DEF Join
<1>21. CASE HonourVerdict
  BY <1>21 DEF HonourVerdict
<1>22. CASE CheckAfter
  BY <1>22 DEF CheckAfter
<1>23. ASSUME NEW k \in Runs, Look(k) PROVE OutcomeIsOpen'
  BY <1>23 DEF Look
<1>24. ASSUME NEW k \in Runs, Judge(k) PROVE OutcomeIsOpen'
  BY <1>24 DEF Judge
<1>25. ASSUME NEW k \in Runs, CloseHandle(k) PROVE OutcomeIsOpen'
  BY <1>25 DEF CloseHandle
<1>26. CASE ServerDies
  BY <1>26 DEF ServerDies
<1>27. CASE MemoryGrows
  BY <1>27 DEF MemoryGrows
<1>28. CASE UNCHANGED runnerVars
  BY <1>28 DEF runnerVars
<1> QED
  BY <1>1, <1>2, <1>3, <1>4, <1>5, <1>6, <1>7, <1>8, <1>9, <1>10, <1>11, <1>12, <1>13, <1>14,
        <1>15, <1>16, <1>17, <1>18, <1>19, <1>20, <1>21, <1>22, <1>23, <1>24, <1>25, <1>26, <1>27,
        <1>28
  DEF RunnerNext, ThreadStep, MonitorStep

\* A launch sends the thread out of the attempt that was under way.
LEMMA EpisodesStay == IInv /\ [RunnerNext]_runnerVars => OneServerPerEpisode'
<1> SUFFICES ASSUME IInv, [RunnerNext]_runnerVars PROVE OneServerPerEpisode'
  OBVIOUS
<1> USE DEF IInv, RunnerTypeOK, Waiting, OneServerPerEpisode, Goto, StayInRun, KeepEpisode,
        EpisodeOver, KeepOutcome, KeepWait, Quiet, RaiseFrom, RaiseInside, RaiseOutside, Continue,
        Leave, Retry, Fault, Call, serverVars, threadVars, monitorVars, budgetVars, Usable, Stop,
        InitServer, Ready, Relaunch, GiveUp, Kill, Forget, ForceClose, StopServer, RestartLaunch,
        OpenWorld, CloseWorld, Crash, Grow, Reachable, clean, Answers
<1>1. CASE Begin
  BY <1>1 DEF Begin
<1>2. CASE Recycle
  BY <1>2 DEF Recycle
<1>3. CASE Cleanup
  BY <1>3 DEF Cleanup
<1>4. CASE CleanupStops
  BY <1>4 DEF CleanupStops
<1>5. CASE EnsureLaunch
  BY <1>5 DEF EnsureLaunch
<1>6. CASE Restart
  BY <1>6 DEF Restart
<1>7. CASE Stopping
  BY <1>7 DEF Stopping
<1>8. CASE RelaunchStopped
  BY <1>8 DEF RelaunchStopped
<1>9. CASE WaitReady
  BY <1>9 DEF WaitReady
<1>10. CASE WaitFails
  BY <1>10 DEF WaitFails
<1>11. CASE AssertServer
  BY <1>11 DEF AssertServer
<1>12. CASE CheckBefore
  BY <1>12, ChecksBefore
<1>13. CASE StartMonitor
  BY <1>13 DEF StartMonitor
<1>14. CASE Initialize
  BY <1>14 DEF Initialize
<1>15. CASE NextCodeBlock
  BY <1>15 DEF NextCodeBlock
<1>16. CASE Execute
  BY <1>16 DEF Execute
<1>17. CASE TaskCompleted
  BY <1>17 DEF TaskCompleted
<1>18. CASE Evaluate
  BY <1>18 DEF Evaluate
<1>19. CASE CloseEpisode
  BY <1>19 DEF CloseEpisode, CloseIsLost
<1>20. CASE Join
  BY <1>20 DEF Join
<1>21. CASE HonourVerdict
  BY <1>21 DEF HonourVerdict
<1>22. CASE CheckAfter
  BY <1>22 DEF CheckAfter
<1>23. ASSUME NEW k \in Runs, Look(k) PROVE OneServerPerEpisode'
  BY <1>23 DEF Look
<1>24. ASSUME NEW k \in Runs, Judge(k) PROVE OneServerPerEpisode'
  BY <1>24 DEF Judge
<1>25. ASSUME NEW k \in Runs, CloseHandle(k) PROVE OneServerPerEpisode'
  BY <1>25 DEF CloseHandle
<1>26. CASE ServerDies
  BY <1>26 DEF ServerDies
<1>27. CASE MemoryGrows
  BY <1>27 DEF MemoryGrows
<1>28. CASE UNCHANGED runnerVars
  BY <1>28 DEF runnerVars
<1> QED
  BY <1>1, <1>2, <1>3, <1>4, <1>5, <1>6, <1>7, <1>8, <1>9, <1>10, <1>11, <1>12, <1>13, <1>14,
        <1>15, <1>16, <1>17, <1>18, <1>19, <1>20, <1>21, <1>22, <1>23, <1>24, <1>25, <1>26, <1>27,
        <1>28
  DEF RunnerNext, ThreadStep, MonitorStep

\* A launch follows a kill or finds an empty handle, and no monitor refills it.
LEMMA LaunchesAreClean == IInv /\ [RunnerNext]_runnerVars => LaunchIsClean'
<1> SUFFICES ASSUME IInv, [RunnerNext]_runnerVars PROVE LaunchIsClean'
  OBVIOUS
<1> USE DEF IInv, RunnerTypeOK, ServerTypeOK, Waiting, LaunchIsClean, None, Goto, StayInRun,
        KeepEpisode, EpisodeOver, KeepOutcome, KeepWait, Quiet, RaiseFrom, RaiseInside,
        RaiseOutside, Continue, Leave, Retry, Fault, Call, serverVars, threadVars, monitorVars,
        budgetVars, Usable, Stop, InitServer, Ready, Relaunch, GiveUp, Kill, Forget, ForceClose,
        StopServer, RestartLaunch, OpenWorld, CloseWorld, Crash, Grow, Reachable, clean, Answers
<1>1. CASE Begin
  BY <1>1 DEF Begin
<1>2. CASE Recycle
  BY <1>2 DEF Recycle
<1>3. CASE Cleanup
  BY <1>3 DEF Cleanup
<1>4. CASE CleanupStops
  BY <1>4 DEF CleanupStops
<1>5. CASE EnsureLaunch
  BY <1>5 DEF EnsureLaunch
<1>6. CASE Restart
  BY <1>6 DEF Restart
<1>7. CASE Stopping
  BY <1>7 DEF Stopping
<1>8. CASE RelaunchStopped
  BY <1>8 DEF RelaunchStopped
<1>9. CASE WaitReady
  BY <1>9 DEF WaitReady
<1>10. CASE WaitFails
  BY <1>10 DEF WaitFails
<1>11. CASE AssertServer
  BY <1>11 DEF AssertServer
<1>12. CASE CheckBefore
  BY <1>12, ChecksBefore
<1>13. CASE StartMonitor
  BY <1>13 DEF StartMonitor
<1>14. CASE Initialize
  BY <1>14 DEF Initialize
<1>15. CASE NextCodeBlock
  BY <1>15 DEF NextCodeBlock
<1>16. CASE Execute
  BY <1>16 DEF Execute
<1>17. CASE TaskCompleted
  BY <1>17 DEF TaskCompleted
<1>18. CASE Evaluate
  BY <1>18 DEF Evaluate
<1>19. CASE CloseEpisode
  BY <1>19 DEF CloseEpisode, CloseIsLost
<1>20. CASE Join
  BY <1>20 DEF Join
<1>21. CASE HonourVerdict
  BY <1>21 DEF HonourVerdict
<1>22. CASE CheckAfter
  BY <1>22 DEF CheckAfter
<1>23. ASSUME NEW k \in Runs, Look(k) PROVE LaunchIsClean'
  BY <1>23 DEF Look
<1>24. ASSUME NEW k \in Runs, Judge(k) PROVE LaunchIsClean'
  BY <1>24 DEF Judge
<1>25. ASSUME NEW k \in Runs, CloseHandle(k) PROVE LaunchIsClean'
  BY <1>25 DEF CloseHandle
<1>26. CASE ServerDies
  BY <1>26 DEF ServerDies
<1>27. CASE MemoryGrows
  BY <1>27 DEF MemoryGrows
<1>28. CASE UNCHANGED runnerVars
  BY <1>28 DEF runnerVars
<1> QED
  BY <1>1, <1>2, <1>3, <1>4, <1>5, <1>6, <1>7, <1>8, <1>9, <1>10, <1>11, <1>12, <1>13, <1>14,
        <1>15, <1>16, <1>17, <1>18, <1>19, <1>20, <1>21, <1>22, <1>23, <1>24, <1>25, <1>26, <1>27,
        <1>28
  DEF RunnerNext, ThreadStep, MonitorStep

-----------------------------------------------------------------------------
(* The monitors, and the task id they and lost connections leave behind.   *)

\* A monitor starts with its run, and has a verdict from its judgement on.
LEMMA MonitorsStayKnown == IInv /\ [RunnerNext]_runnerVars => MonitorsKnown'
<1> SUFFICES ASSUME IInv, [RunnerNext]_runnerVars PROVE MonitorsKnown'
  OBVIOUS
<1> USE DEF IInv, RunnerTypeOK, Waiting, MonitorsKnown, Early, Launching, Budgets, Inside, Runs,
        Verdicts, Status, Goto, StayInRun, KeepEpisode, EpisodeOver, KeepOutcome, KeepWait, Quiet,
        RaiseFrom, RaiseInside, RaiseOutside, Continue, Leave, Retry, Fault, Call, serverVars,
        threadVars, monitorVars, budgetVars, Usable
<1>1. CASE Begin
  BY <1>1 DEF Begin
<1>2. CASE Recycle
  BY <1>2 DEF Recycle
<1>3. CASE Cleanup
  BY <1>3 DEF Cleanup
<1>4. CASE CleanupStops
  BY <1>4 DEF CleanupStops
<1>5. CASE EnsureLaunch
  BY <1>5 DEF EnsureLaunch
<1>6. CASE Restart
  BY <1>6 DEF Restart
<1>7. CASE Stopping
  BY <1>7 DEF Stopping
<1>8. CASE RelaunchStopped
  BY <1>8 DEF RelaunchStopped
<1>9. CASE WaitReady
  BY <1>9 DEF WaitReady
<1>10. CASE WaitFails
  BY <1>10 DEF WaitFails
<1>11. CASE AssertServer
  BY <1>11 DEF AssertServer
<1>12. CASE CheckBefore
  BY <1>12, ChecksBefore
<1>13. CASE StartMonitor
  BY <1>13 DEF StartMonitor
<1>14. CASE Initialize
  BY <1>14 DEF Initialize
<1>15. CASE NextCodeBlock
  BY <1>15 DEF NextCodeBlock
<1>16. CASE Execute
  BY <1>16 DEF Execute
<1>17. CASE TaskCompleted
  BY <1>17 DEF TaskCompleted
<1>18. CASE Evaluate
  BY <1>18 DEF Evaluate
<1>19. CASE CloseEpisode
  BY <1>19 DEF CloseEpisode, CloseIsLost
<1>20. CASE Join
  <2>1. monitor' \in {monitor, [monitor EXCEPT ![run] = "done"]} /\ run \in Runs
    BY <1>20 DEF Join
  <2>2. monitor' # monitor => monitor[run] = "watching"
    BY <1>20 DEF Join
  <2>3. UNCHANGED <<run, verdict, judged>> /\ pc = "join" /\ pc' \in {"verdict", "idle"}
    BY <1>20 DEF Join
  <2>4. CASE monitor' = monitor
    BY <2>3, <2>4
  <2>5. CASE monitor' = [monitor EXCEPT ![run] = "done"]
    BY <2>1, <2>3, <2>5
  <2> QED
    BY <2>1, <2>4, <2>5
<1>21. CASE HonourVerdict
  BY <1>21 DEF HonourVerdict
<1>22. CASE CheckAfter
  BY <1>22 DEF CheckAfter
<1>23. ASSUME NEW k \in Runs, Look(k) PROVE MonitorsKnown'
  BY <1>23 DEF Look
<1>24. ASSUME NEW k \in Runs, Judge(k) PROVE MonitorsKnown'
  BY <1>24, ZenonT(30) DEF Judge
<1>25. ASSUME NEW k \in Runs, CloseHandle(k) PROVE MonitorsKnown'
  BY <1>25 DEF CloseHandle
<1>26. CASE ServerDies
  BY <1>26 DEF ServerDies
<1>27. CASE MemoryGrows
  BY <1>27 DEF MemoryGrows
<1>28. CASE UNCHANGED runnerVars
  BY <1>28 DEF runnerVars
<1> QED
  BY <1>1, <1>2, <1>3, <1>4, <1>5, <1>6, <1>7, <1>8, <1>9, <1>10, <1>11, <1>12, <1>13, <1>14,
        <1>15, <1>16, <1>17, <1>18, <1>19, <1>20, <1>21, <1>22, <1>23, <1>24, <1>25, <1>26, <1>27,
        <1>28
  DEF RunnerNext, ThreadStep, MonitorStep

\* A run that an exception ends: what the handle keeps is of no use to a later
\* run, or its monitor discarded the run.
LEMMA RaisesExplained ==
  ASSUME RunnerTypeOK, Budgets, Inside, NEW inside \in BOOLEAN, RaiseFrom(inside),
         UNCHANGED <<run, verdict>>
  PROVE  TaskIdExplained'
<1>1. run \in Runs /\ verdict \in [Runs -> Verdicts]
  BY DEF RunnerTypeOK, Budgets, Runs
<1>2. CASE inside
  <2>1. pc' = "join" /\ outcome' = IF verdict[run] # "none" THEN verdict[run] ELSE "failed"
    BY <1>2 DEF RaiseFrom, RaiseInside, Goto
  <2>2. outcome' # "none" /\ (outcome' = "soft_dead" => Discarded(run)')
    BY <1>1, <2>1 DEF Discarded, Runs, RunnerTypeOK
  <2> QED
    BY <2>1, <2>2 DEF TaskIdExplained
<1>3. CASE ~inside
  <2>1. pc' = "idle" /\ outcome' = "failed"
    BY <1>3 DEF RaiseFrom, RaiseOutside, Goto
  <2> QED
    BY <2>1 DEF TaskIdExplained, Usable
<1> QED
  BY <1>2, <1>3

\* Wherever no episode is under way, a task id that is set has a reason.
LEMMA TaskIdsExplained == IInv /\ [RunnerNext]_runnerVars => TaskIdExplained'
<1> SUFFICES ASSUME IInv, [RunnerNext]_runnerVars PROVE TaskIdExplained'
  OBVIOUS
<1> USE DEF IInv, RunnerTypeOK, ServerTypeOK, Waiting, TaskIdExplained, MonitorsKnown,
        OutcomeIsOpen, Launching, Budgets, Inside, Discarded, Runs, Verdicts, Status, Goto,
        StayInRun, KeepEpisode, EpisodeOver, KeepOutcome, KeepWait, Quiet, RaiseFrom, RaiseInside,
        RaiseOutside, Continue, Leave, Retry, Fault, Call, serverVars, threadVars, monitorVars,
        budgetVars, Usable, Stop, InitServer, Ready, Relaunch, GiveUp, Kill, Forget, ForceClose,
        StopServer, RestartLaunch, OpenWorld, CloseWorld, Crash, Grow, Reachable, clean, Answers
<1>1. CASE Begin
  BY <1>1 DEF Begin
<1>2. CASE Recycle
  BY <1>2 DEF Recycle
<1>3. CASE Cleanup
  BY <1>3 DEF Cleanup
<1>4. CASE CleanupStops
  BY <1>4 DEF CleanupStops
<1>5. CASE EnsureLaunch
  BY <1>5 DEF EnsureLaunch
<1>6. CASE Restart
  BY <1>6 DEF Restart
<1>7. CASE Stopping
  <2>1. CASE RaiseFrom(resume = "initialize")
    BY <1>7, <2>1, RaisesExplained DEF Stopping
  <2>2. CASE pc' = "relaunch"
    BY <2>2
  <2> QED
    BY <1>7, <2>1, <2>2 DEF Stopping
<1>8. CASE RelaunchStopped
  BY <1>8 DEF RelaunchStopped
<1>9. CASE WaitReady
  BY <1>9 DEF WaitReady
<1>10. CASE WaitFails
  <2>1. CASE RaiseFrom(resume = "initialize")
    BY <1>10, <2>1, RaisesExplained DEF WaitFails
  <2>2. CASE pc' = "wait"
    BY <2>2
  <2> QED
    BY <1>10, <2>1, <2>2 DEF WaitFails
<1>11. CASE AssertServer
  BY <1>11 DEF AssertServer
<1>12. CASE CheckBefore
  <2>1. CASE pc' = "idle" /\ outcome' = "hard_dead"
    BY <2>1
  <2>2. CASE pc' \in {"ensure", "restart"}
    BY <2>2
  <2>3. CASE pc' = "locked" /\ UNCHANGED serverVars
    BY <1>12, <2>3, ChecksBefore
  <2> QED
    BY <1>12, <2>1, <2>2, <2>3, ChecksBefore
<1>13. CASE StartMonitor
  BY <1>13 DEF StartMonitor
<1>14. CASE Initialize
  <2>1. CASE Leave
    BY <1>14, <2>1, RaisesExplained DEF Initialize
  <2>2. CASE pc' = "agent"
    BY <2>2
  <2> QED
    BY <1>14, <2>1, <2>2 DEF Initialize
<1>15. CASE NextCodeBlock
  BY <1>15 DEF NextCodeBlock
<1>16. CASE Execute
  BY <1>16 DEF Execute
<1>17. CASE TaskCompleted
  BY <1>17 DEF TaskCompleted
<1>18. CASE Evaluate
  BY <1>18 DEF Evaluate
<1>19. CASE CloseEpisode
  <2>1. CASE Leave
    BY <1>19, <2>1, RaisesExplained DEF CloseEpisode, CloseIsLost
  <2>2. CASE Retry
    BY <2>2
  <2>3. CASE closeLostOn' = launched' /\ pc' = "join" /\ outcome' = "none"
    BY <2>3
  <2>4. CASE opened' = FALSE
    BY <2>4
  <2>5. outcome = "none"
    BY <1>19 DEF CloseEpisode, CloseIsLost
  <2> QED
    BY <1>19, <2>1, <2>2, <2>3, <2>4, <2>5 DEF CloseEpisode, CloseIsLost
<1>20. CASE Join
  BY <1>20 DEF Join
<1>21. CASE HonourVerdict
  BY <1>21 DEF HonourVerdict
<1>22. CASE CheckAfter
  <2>1. UNCHANGED <<run, verdict, closeLostOn>> /\ pc = "after" /\ pc' = "idle"
    BY <1>22 DEF CheckAfter
  <2>2. CASE Status = "soft_dead"
    <3>1. ~clean
      BY <2>2
    <3>2. opened' = FALSE
      BY <1>22, <2>2, <3>1 DEF CheckAfter
    <3> QED
      BY <3>2
  <2>3. CASE Status # "soft_dead"
    <3>1. UNCHANGED serverVars
      BY <1>22, <2>3 DEF CheckAfter
    <3> QED
      BY <2>1, <3>1
  <2> QED
    BY <2>2, <2>3
<1>23. ASSUME NEW k \in Runs, Look(k) PROVE TaskIdExplained'
  BY <1>23 DEF Look
<1>24. ASSUME NEW k \in Runs, Judge(k) PROVE TaskIdExplained'
  <2>1. /\ UNCHANGED <<pc, outcome, run, launched, opened>>
        /\ verdict' = [verdict EXCEPT ![k] = judged[k]] /\ verdict[k] = "none"
        /\ closeLostOn' = closeLostOn
    BY <1>24 DEF Judge
  <2>2. \A last : Discarded(last) => Discarded(last)'
    BY <2>1
  <2> QED
    BY <2>1, <2>2
<1>25. ASSUME NEW k \in Runs, CloseHandle(k) PROVE TaskIdExplained'
  BY <1>25 DEF CloseHandle
<1>26. CASE ServerDies
  BY <1>26 DEF ServerDies
<1>27. CASE MemoryGrows
  BY <1>27 DEF MemoryGrows
<1>28. CASE UNCHANGED runnerVars
  BY <1>28 DEF runnerVars
<1> QED
  BY <1>1, <1>2, <1>3, <1>4, <1>5, <1>6, <1>7, <1>8, <1>9, <1>10, <1>11, <1>12, <1>13, <1>14,
        <1>15, <1>16, <1>17, <1>18, <1>19, <1>20, <1>21, <1>22, <1>23, <1>24, <1>25, <1>26, <1>27,
        <1>28
  DEF RunnerNext, ThreadStep, MonitorStep

-----------------------------------------------------------------------------
(* The handle and the processes.                                           *)

\* What a step of the thread, of the processes and of a monitor that has not
\* waited yet can do to them.
Ends == Stop(server) /\ server' = None /\ opened' = FALSE /\ UNCHANGED launched

HandleStep ==
  \/ UNCHANGED serverVars
  \/ Ready \/ OpenWorld \/ CloseWorld
  \/ StopServer \/ Kill \/ GiveUp \/ Crash \/ ForceClose \/ Ends
  \/ \E higher \in Levels : Grow(higher)
  \/ server \notin alive /\ InitServer({}) /\ opened' \in BOOLEAN
  \/ Relaunch

\* Every step is one of these, or a monitor that empties the handle.
LEMMA HandleSteps ==
  IInv /\ [RunnerNext]_runnerVars => HandleStep \/ \E j \in Runs : CloseHandle(j)
<1> SUFFICES ASSUME IInv, [RunnerNext]_runnerVars
             PROVE  HandleStep \/ \E j \in Runs : CloseHandle(j)
  OBVIOUS
<1> USE DEF IInv, RunnerTypeOK, ServerTypeOK, LaunchIsClean, None, HandleStep, clean,
        RestartLaunch, Ends, Call, Quiet, monitorVars, threadVars, budgetVars, Continue, Leave,
        Retry
<1>1. CASE Begin
  BY <1>1 DEF Begin
<1>2. CASE Recycle
  BY <1>2 DEF Recycle
<1>3. CASE Cleanup
  BY <1>3 DEF Cleanup
<1>4. CASE CleanupStops
  BY <1>4 DEF CleanupStops
<1>5. CASE EnsureLaunch
  BY <1>5 DEF EnsureLaunch
<1>6. CASE Restart
  BY <1>6 DEF Restart
<1>7. CASE Stopping
  BY <1>7 DEF Stopping
<1>8. CASE RelaunchStopped
  BY <1>8 DEF RelaunchStopped
<1>9. CASE WaitReady
  BY <1>9 DEF WaitReady
<1>10. CASE WaitFails
  BY <1>10 DEF WaitFails
<1>11. CASE AssertServer
  BY <1>11 DEF AssertServer
<1>12. CASE CheckBefore
  BY <1>12, ChecksBefore
<1>13. CASE StartMonitor
  BY <1>13 DEF StartMonitor
<1>14. CASE Initialize
  BY <1>14 DEF Initialize
<1>15. CASE NextCodeBlock
  BY <1>15 DEF NextCodeBlock
<1>16. CASE Execute
  BY <1>16 DEF Execute
<1>17. CASE TaskCompleted
  BY <1>17 DEF TaskCompleted
<1>18. CASE Evaluate
  BY <1>18 DEF Evaluate
<1>19. CASE CloseEpisode
  BY <1>19 DEF CloseEpisode, CloseIsLost
<1>20. CASE Join
  BY <1>20 DEF Join
<1>21. CASE HonourVerdict
  BY <1>21 DEF HonourVerdict
<1>22. CASE CheckAfter
  BY <1>22 DEF CheckAfter
<1>23. ASSUME NEW k \in Runs, Look(k) PROVE HandleStep \/ \E j \in Runs : CloseHandle(j)
  BY <1>23 DEF Look
<1>24. ASSUME NEW k \in Runs, Judge(k) PROVE HandleStep \/ \E j \in Runs : CloseHandle(j)
  BY <1>24 DEF Judge
<1>25. ASSUME NEW k \in Runs, CloseHandle(k) PROVE HandleStep \/ \E j \in Runs : CloseHandle(j)
  BY <1>25 DEF CloseHandle
<1>26. CASE ServerDies
  BY <1>26 DEF ServerDies
<1>27. CASE MemoryGrows
  BY <1>27 DEF MemoryGrows
<1>28. CASE UNCHANGED runnerVars
  BY <1>28 DEF runnerVars
<1> QED
  BY <1>1, <1>2, <1>3, <1>4, <1>5, <1>6, <1>7, <1>8, <1>9, <1>10, <1>11, <1>12, <1>13, <1>14,
        <1>15, <1>16, <1>17, <1>18, <1>19, <1>20, <1>21, <1>22, <1>23, <1>24, <1>25, <1>26, <1>27,
        <1>28
  DEF RunnerNext, ThreadStep, MonitorStep

\* Each of them keeps the types.
LEMMA HandleTypes ==
  ASSUME ServerTypeOK, HandleStep \/ Forget
  PROVE  ServerTypeOK'
<1> USE ServerAssumption DEF ServerTypeOK, None, Levels
<1>1. CASE UNCHANGED serverVars
  BY <1>1 DEF serverVars
<1>2. CASE Ready \/ OpenWorld \/ CloseWorld \/ Forget
  BY <1>2 DEF Ready, OpenWorld, CloseWorld, Forget
<1>3. CASE StopServer \/ Kill \/ GiveUp \/ Crash \/ ForceClose \/ Ends
  BY <1>3 DEF StopServer, Kill, GiveUp, Crash, ForceClose, Ends, Stop
<1>4. CASE \E higher \in Levels : Grow(higher)
  BY <1>4 DEF Grow
<1>5. CASE InitServer({}) /\ opened' \in BOOLEAN
  BY <1>5 DEF InitServer
<1>6. CASE Relaunch
  BY <1>6 DEF Relaunch, InitServer
<1> QED
  BY <1>1, <1>2, <1>3, <1>4, <1>5, <1>6 DEF HandleStep

\* None of them but the emptying of the handle orphans a process.
LEMMA HandleOrphans ==
  ASSUME ServerTypeOK, HandleStep
  PROVE  Orphans' \subseteq Orphans
<1> USE DEF ServerTypeOK, None, Orphans, Stop
<1>1. CASE UNCHANGED serverVars
  BY <1>1 DEF serverVars
<1>2. CASE Ready \/ OpenWorld \/ CloseWorld \/ \E higher \in Levels : Grow(higher)
  BY <1>2 DEF Ready, OpenWorld, CloseWorld, Grow
<1>3. CASE StopServer \/ Kill \/ GiveUp \/ Crash \/ ForceClose \/ Ends
  BY <1>3 DEF StopServer, Kill, GiveUp, Crash, ForceClose, Ends, clean
<1>4. CASE server \notin alive /\ InitServer({})
  BY <1>4 DEF InitServer
<1>5. CASE Relaunch
  BY <1>5 DEF Relaunch, InitServer
<1> QED
  BY <1>1, <1>2, <1>3, <1>4, <1>5 DEF HandleStep

\* A monitor stays done and keeps its verdict.
LEMMA ClosersStay == IInv /\ [RunnerNext]_runnerVars => Closers \subseteq Closers'
<1> SUFFICES ASSUME IInv, [RunnerNext]_runnerVars, NEW k \in Closers PROVE k \in Closers'
  OBVIOUS
<1>1. k \in Runs /\ monitor[k] = "done" /\ verdict[k] # "none"
  BY DEF Closers
<1>2. monitor'[k] = "done" /\ verdict'[k] = verdict[k]
  <2>1. CASE UNCHANGED <<monitor, verdict>>
    BY <1>1, <2>1
  <2>2. CASE StartMonitor
    BY <1>1, <2>2 DEF StartMonitor, IInv, RunnerTypeOK, MonitorsKnown, Early
  <2>3. CASE Join
    <3>1. monitor' \in {monitor, [monitor EXCEPT ![run] = "done"]} /\ UNCHANGED verdict
      BY <2>3 DEF Join
    <3> QED
      BY <1>1, <3>1 DEF IInv, RunnerTypeOK
  <2>4. ASSUME NEW j \in Runs, MonitorStep(j)
    PROVE  monitor'[k] = "done" /\ verdict'[k] = verdict[k]
    BY <1>1, <2>4 DEF MonitorStep, Look, Judge, CloseHandle, IInv, RunnerTypeOK
  <2>5. CASE ~StartMonitor /\ ~Join /\ ThreadStep
    BY <2>1, <2>5
    DEF ThreadStep, Quiet, monitorVars, Call, Begin, Recycle, Cleanup, CleanupStops, EnsureLaunch,
          Restart, Stopping, RelaunchStopped, WaitReady, WaitFails, AssertServer, CheckBefore,
          Initialize, NextCodeBlock, Execute, TaskCompleted, Evaluate, CloseEpisode,
          HonourVerdict, CheckAfter
  <2> QED
    BY <2>1, <2>2, <2>3, <2>4, <2>5
    DEF RunnerNext, ServerDies, MemoryGrows, monitorVars, runnerVars
<1> QED
  BY <1>1, <1>2 DEF Closers

\* A monitor that empties the handle orphans one process at most, and it was no
\* closer before.
LEMMA OrphansStayFew == IInv /\ [RunnerNext]_runnerVars => OrphansHaveClosers'
<1> SUFFICES ASSUME IInv, [RunnerNext]_runnerVars PROVE OrphansHaveClosers'
  OBVIOUS
<1>1. IsFiniteSet(Runs) /\ IsFiniteSet(Closers) /\ IsFiniteSet(Closers')
  <2>1. IsFiniteSet(Runs)
    BY RunnerAssumption, FS_Interval DEF Runs
  <2>2. Closers \in SUBSET Runs /\ Closers' \in SUBSET Runs
    BY DEF Closers
  <2> QED
    BY <2>1, <2>2, FS_Subset
<1>2. ServerTypeOK /\ IsFiniteSet(Orphans) /\ Cardinality(Orphans) <= Cardinality(Closers)
  <2>1. ServerTypeOK /\ launched \in Nat
    BY ServerAssumption DEF IInv, RunnerTypeOK, ServerTypeOK
  <2>2. IsFiniteSet(1 .. launched)
    <3>1. 1 \in Int /\ launched \in Int
      BY <2>1
    <3> QED
      BY <3>1, FS_Interval
  <2>3. Orphans \in SUBSET (1 .. launched)
    BY <2>1 DEF Orphans, ServerTypeOK
  <2>4. IsFiniteSet(Orphans)
    BY <2>2, <2>3, FS_Subset
  <2> QED
    BY <2>1, <2>4 DEF IInv, OrphansHaveClosers
<1>3. /\ Cardinality(Orphans) \in Nat /\ Cardinality(Closers) \in Nat
      /\ Cardinality(Closers') \in Nat
  BY <1>1, <1>2, FS_CardinalityType
<1>4. CASE HandleStep
  <2>1. Cardinality(Orphans') <= Cardinality(Orphans) /\ Cardinality(Orphans') \in Nat
    BY <1>2, <1>4, HandleOrphans, FS_Subset, FS_CardinalityType
  <2>2. Cardinality(Closers) <= Cardinality(Closers')
    BY <1>1, ClosersStay, FS_Subset
  <2> QED
    BY <1>2, <1>3, <2>1, <2>2 DEF OrphansHaveClosers
<1>5. ASSUME NEW k \in Runs, CloseHandle(k) PROVE OrphansHaveClosers'
  <2>1. Orphans' \subseteq Orphans \cup {server}
    BY <1>5 DEF CloseHandle, Forget, Orphans
  <2>2. /\ IsFiniteSet(Orphans \cup {server})
        /\ Cardinality(Orphans \cup {server}) <= Cardinality(Orphans) + 1
        /\ Cardinality(Orphans \cup {server}) \in Nat
    <3>1. /\ IsFiniteSet(Orphans \cup {server})
          /\ Cardinality(Orphans \cup {server}) =
               IF server \in Orphans THEN Cardinality(Orphans) ELSE Cardinality(Orphans) + 1
      BY <1>2, FS_AddElement
    <3> QED
      BY <1>3, <3>1
  <2>3. Cardinality(Orphans') <= Cardinality(Orphans) + 1 /\ Cardinality(Orphans') \in Nat
    BY <1>3, <2>1, <2>2, FS_Subset, FS_CardinalityType
  <2>4. k \notin Closers /\ Closers' = Closers \cup {k}
    BY <1>5 DEF CloseHandle, Closers, IInv, RunnerTypeOK, MonitorsKnown
  <2>5. Cardinality(Closers') = Cardinality(Closers) + 1
    BY <1>1, <2>4, FS_AddElement
  <2> QED
    BY <1>2, <1>3, <2>3, <2>5 DEF OrphansHaveClosers
<1> QED
  BY <1>4, <1>5, HandleSteps

\* Every step keeps the types.
LEMMA TypesHold == IInv /\ [RunnerNext]_runnerVars => RunnerTypeOK'
<1> SUFFICES ASSUME IInv, [RunnerNext]_runnerVars PROVE RunnerTypeOK'
  OBVIOUS
<1>0. /\ ServerTypeOK' /\ RunnerTypeOK
      /\ launched \in 0 .. MaxLaunches /\ run \in Nat
  BY HandleSteps, HandleTypes DEF IInv, RunnerTypeOK, ServerTypeOK, CloseHandle
<1> USE DEF IInv, Budgets, Inside, MonitorsKnown, Status, Usable, RunnerTypeOK, Waiting, Sites,
        Outcomes, Verdicts, Runs, Goto, StayInRun, KeepEpisode, EpisodeOver, KeepOutcome,
        KeepWait, Quiet, RaiseFrom, RaiseInside, RaiseOutside, Continue, Leave, Retry, Fault,
        Call, serverVars, threadVars, monitorVars, budgetVars, Usable
<1>1. CASE Begin
  BY <1>1, <1>0, RunnerAssumption, ServerAssumption DEF Begin
<1>2. CASE Recycle
  BY <1>2, <1>0, RunnerAssumption, ServerAssumption DEF Recycle
<1>3. CASE Cleanup
  BY <1>3, <1>0, RunnerAssumption, ServerAssumption DEF Cleanup
<1>4. CASE CleanupStops
  BY <1>4, <1>0, RunnerAssumption, ServerAssumption DEF CleanupStops
<1>5. CASE EnsureLaunch
  BY <1>5, <1>0, RunnerAssumption, ServerAssumption DEF EnsureLaunch
<1>6. CASE Restart
  BY <1>6, <1>0, RunnerAssumption, ServerAssumption DEF Restart
<1>7. CASE Stopping
  BY <1>7, <1>0, RunnerAssumption, ServerAssumption DEF Stopping
<1>8. CASE RelaunchStopped
  BY <1>8, <1>0, RunnerAssumption, ServerAssumption DEF RelaunchStopped
<1>9. CASE WaitReady
  BY <1>9, <1>0, RunnerAssumption, ServerAssumption DEF WaitReady
<1>10. CASE WaitFails
  BY <1>10, <1>0, RunnerAssumption, ServerAssumption DEF WaitFails
<1>11. CASE AssertServer
  BY <1>11, <1>0, RunnerAssumption, ServerAssumption DEF AssertServer
<1>12. CASE CheckBefore
  <2>1. pc' \in Sites /\ outcome' \in Outcomes /\ resume' \in Waiting
    BY <1>12, <1>0, ChecksBefore
  <2> QED
    BY <1>12, <1>0, <2>1, ChecksBefore
<1>13. CASE StartMonitor
  BY <1>13, <1>0, RunnerAssumption, ServerAssumption DEF StartMonitor
<1>14. CASE Initialize
  BY <1>14, <1>0, RunnerAssumption, ServerAssumption DEF Initialize
<1>15. CASE NextCodeBlock
  BY <1>15, <1>0, RunnerAssumption, ServerAssumption DEF NextCodeBlock
<1>16. CASE Execute
  BY <1>16, <1>0, RunnerAssumption, ServerAssumption DEF Execute
<1>17. CASE TaskCompleted
  BY <1>17, <1>0, RunnerAssumption, ServerAssumption DEF TaskCompleted
<1>18. CASE Evaluate
  BY <1>18, <1>0, RunnerAssumption, ServerAssumption DEF Evaluate
<1>19. CASE CloseEpisode
  BY <1>19, <1>0, RunnerAssumption, ServerAssumption DEF CloseEpisode, CloseIsLost
<1>20. CASE Join
  <2>1. monitor' \in {monitor, [monitor EXCEPT ![run] = "done"]}
    BY <1>20 DEF Join
  <2>2. monitor' \in [Runs -> {"none", "watching", "judged", "closing", "done"}]
    BY <1>0, <2>1
  <2>3. /\ UNCHANGED <<resume, relaunches, run, marked, closeLostOn, outcome, judged, verdict>>
        /\ UNCHANGED <<hostFull, crashes, growth, faults>>
        /\ tries' = 0 /\ turn' = 0 /\ episodeOn' = None /\ pc' \in {"verdict", "idle"}
    BY <1>20 DEF Join
  <2>4. 0 \in 0 .. MaxRetries /\ 0 \in 0 .. MaxInteractions /\ None \in 0 .. MaxLaunches
    BY RunnerAssumption, ServerAssumption DEF None
  <2> QED
    BY <1>0, <2>2, <2>3, <2>4
<1>21. CASE HonourVerdict
  BY <1>21, <1>0, RunnerAssumption, ServerAssumption DEF HonourVerdict
<1>22. CASE CheckAfter
  BY <1>22, <1>0, RunnerAssumption, ServerAssumption DEF CheckAfter
<1>23. ASSUME NEW k \in Runs, Look(k) PROVE RunnerTypeOK'
  BY <1>23, <1>0, RunnerAssumption, ServerAssumption DEF Look
<1>24. ASSUME NEW k \in Runs, Judge(k) PROVE RunnerTypeOK'
  BY <1>24, <1>0, RunnerAssumption, ServerAssumption DEF Judge
<1>25. ASSUME NEW k \in Runs, CloseHandle(k) PROVE RunnerTypeOK'
  BY <1>25, <1>0, RunnerAssumption, ServerAssumption DEF CloseHandle
<1>26. CASE ServerDies
  BY <1>26, <1>0, RunnerAssumption, ServerAssumption DEF ServerDies
<1>27. CASE MemoryGrows
  <2>1. growth' \in 0 .. MaxGrowth
    BY <1>27, <1>0, RunnerAssumption DEF MemoryGrows
  <2>2. hostFull' \in BOOLEAN
    BY <1>27, <1>0 DEF MemoryGrows
  <2> QED
    BY <1>27, <1>0, <2>1, <2>2 DEF MemoryGrows
<1>28. CASE UNCHANGED runnerVars
  BY <1>28, <1>0, RunnerAssumption, ServerAssumption DEF runnerVars
<1> QED
  BY <1>1, <1>2, <1>3, <1>4, <1>5, <1>6, <1>7, <1>8, <1>9, <1>10, <1>11, <1>12, <1>13, <1>14,
        <1>15, <1>16, <1>17, <1>18, <1>19, <1>20, <1>21, <1>22, <1>23, <1>24, <1>25, <1>26, <1>27,
        <1>28
  DEF RunnerNext, ThreadStep, MonitorStep

-----------------------------------------------------------------------------
(* The invariant and the theorems.                                         *)

\* It holds of a runner whose constructor has launched the first server.
LEMMA InitIInv == RunnerInit => IInv
<1> SUFFICES ASSUME RunnerInit PROVE IInv
  OBVIOUS
<1> USE DEF RunnerInit, ServerInit
<1>1. RunnerTypeOK
  <2>1. /\ MaxLaunches \in Nat \ {0} /\ MaxRelaunches \in Nat /\ MaxRuns \in Nat
        /\ MaxRetries \in Nat /\ MaxInteractions \in Nat
        /\ MaxCrashes \in Nat /\ MaxGrowth \in Nat /\ MaxFaults \in Nat
    BY RunnerAssumption, ServerAssumption
  <2>2. ServerTypeOK
    <3>1. launched = 1 /\ server = 1 /\ alive = {1} /\ opened = FALSE /\ level = "healthy"
      OBVIOUS
    <3>2. launched \in 0 .. MaxLaunches
      BY <2>1, <3>1
    <3>3. \A p \in alive : p \in 1 .. launched
      BY <3>1
    <3> QED
      BY <3>1, <3>2, <3>3 DEF ServerTypeOK, Levels
  <2>3. /\ relaunches \in 0 .. MaxRelaunches /\ tries \in 0 .. MaxRetries
        /\ turn \in 0 .. MaxInteractions /\ run \in 0 .. MaxRuns
        /\ crashes \in 0 .. MaxCrashes /\ growth \in 0 .. MaxGrowth
        /\ faults \in 0 .. MaxFaults /\ episodeOn \in 0 .. MaxLaunches
    BY <2>1 DEF None
  <2>4. /\ monitor \in [Runs -> {"none", "watching", "judged", "closing", "done"}]
        /\ judged \in [Runs -> Verdicts] /\ verdict \in [Runs -> Verdicts]
    BY DEF Verdicts
  <2>5. /\ pc \in Sites /\ resume \in Waiting /\ outcome \in Outcomes
        /\ marked \in BOOLEAN /\ hostFull \in BOOLEAN
    BY DEF Sites, Waiting, Outcomes
  <2> QED
    BY <2>2, <2>3, <2>4, <2>5 DEF RunnerTypeOK
<1>2. Budgets /\ LaunchIsClean /\ OutcomeIsOpen /\ OneServerPerEpisode /\ TaskIdExplained
  BY DEF Budgets, Inside, LaunchIsClean, OutcomeIsOpen, Launching, OneServerPerEpisode,
         TaskIdExplained
<1>3. MonitorsKnown
  BY DEF MonitorsKnown
<1>4. OrphansHaveClosers
  <2>1. Orphans = {} /\ Closers = {}
    BY DEF Orphans, Closers
  <2>2. Cardinality({}) = 0
    BY FS_EmptySet
  <2> QED
    BY <2>1, <2>2 DEF OrphansHaveClosers
<1> QED
  BY <1>1, <1>2, <1>3, <1>4 DEF IInv

\* Every step keeps it.
LEMMA NextIInv == IInv /\ [RunnerNext]_runnerVars => IInv'
<1> SUFFICES ASSUME IInv, [RunnerNext]_runnerVars PROVE IInv'
  OBVIOUS
<1>1. RunnerTypeOK' /\ Budgets' /\ LaunchIsClean' /\ MonitorsKnown'
  BY TypesHold, BudgetsHold, LaunchesAreClean, MonitorsStayKnown
<1>2. OutcomeIsOpen' /\ OneServerPerEpisode' /\ OrphansHaveClosers' /\ TaskIdExplained'
  BY OutcomesOpen, EpisodesStay, OrphansStayFew, TaskIdsExplained
<1> QED
  BY <1>1, <1>2 DEF IInv

\* The invariant holds in every state of every behaviour.
THEOREM RunnerInvariant == RunnerSpec => []IInv
  BY InitIInv, NextIInv, PTL DEF RunnerSpec

\* The variables keep their types: the counters stay within their limits, and
\* the handle holds nothing or the last process launched.
THEOREM RunnerTypes == RunnerSpec => []RunnerTypeOK
<1>1. IInv => RunnerTypeOK
  BY DEF IInv
<1> QED
  BY <1>1, RunnerInvariant, PTL

\* However the monitors of this and of earlier runs interleave with it, an attempt of
\* an episode ends on the server process on which it initialized its task
\* (appworld_evals.py:337-353).
THEOREM EpisodesKeepTheirServer == RunnerSpec => []OneServerPerEpisode
<1>1. IInv => OneServerPerEpisode
  BY DEF IInv
<1> QED
  BY <1>1, RunnerInvariant, PTL

\* A task id that initialize finds set (interface.py:244) comes from a close_world lost
\* on that process or a discarded run, and a process that the handle has lost comes from a monitor
\* that emptied it late (appworld_scenario_runner.py:594): for every number of runs,
\* retries and crashes.
THEOREM LeftoversExplained == RunnerSpec => []LeftoversHaveCauses
<1>1. IInv => RefusedHasCause
  <2> SUFFICES ASSUME IInv, pc = "initialize", opened, closeLostOn # launched
               PROVE  \E k \in Runs : k < run /\ verdict[k] = "soft_dead"
    BY DEF RefusedHasCause
  <2>1. PICK k \in Runs : k <= run - 1 /\ verdict[k] = "soft_dead"
    BY DEF IInv, TaskIdExplained, Discarded
  <2>2. k < run
    BY <2>1, RunnerAssumption DEF IInv, RunnerTypeOK, Runs
  <2> QED
    BY <2>1, <2>2
<1>2. IInv => LeftoversHaveCauses
  BY <1>1 DEF IInv, LeftoversHaveCauses
<1> QED
  BY <1>2, RunnerInvariant, PTL
=============================================================================
