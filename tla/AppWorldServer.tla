----------------------------- MODULE AppWorldServer -----------------------------
(***************************************************************************)
(* The handle a scenario runner keeps on its AppWorld server process:      *)
(* AppWorldInterface of phi_agents/appworld/interface.py, over the launch  *)
(* and stop functions of phi_agents/appworld/server.py.  The handle can be *)
(* emptied by a second thread (the dead-server monitor of the runner), so  *)
(* an operation that blocks is split where it blocks.                      *)
(*                                                                         *)
(* Processes are numbered in the order of their launch.  The port changes  *)
(* with every launch, so a call always goes to process number launched,    *)
(* whatever the handle holds.                                              *)
(***************************************************************************)
EXTENDS Integers, FiniteSets

CONSTANTS
  MaxLaunches,           \* bound: processes that can be launched
  MaxRelaunches          \* max_restarts_on_error of the wait for readiness

ASSUME ServerAssumption ==
  /\ MaxLaunches \in Nat \ {0}
  /\ MaxRelaunches \in Nat

None == 0
Processes == 1 .. MaxLaunches

\* The health of a process, in the order of its resident memory; draining is
\* treated wherever it matters as recycle_after_task is.
Levels == {"healthy", "recycle", "soft_dead", "hard_dead"}
Rank(level) == CASE level = "healthy" -> 0 [] level = "recycle" -> 1
                 [] level = "soft_dead" -> 2 [] level = "hard_dead" -> 3

VARIABLES
  server,        \* _server: the process the handle holds, or None
  opened,        \* is _task_id set?
  alive,         \* the processes that run
  launched,      \* how many were launched, the number of the last one
  level          \* memory level of the last one launched

serverVars == <<server, opened, alive, launched, level>>

ServerTypeOK ==
  /\ launched \in 0 .. MaxLaunches
  /\ server \in {None, launched}
  /\ opened \in BOOLEAN
  /\ alive \in SUBSET (1 .. launched)
  /\ level \in Levels

\* The constructor launches the first process and waits until it is ready.
ServerInit ==
  /\ server = 1
  /\ opened = FALSE
  /\ alive = {1}
  /\ launched = 1
  /\ level = "healthy"

clean == server = None
Reachable == launched \in alive

\* _init_server, once the processes in dead are gone.
InitServer(dead) ==
  /\ launched < MaxLaunches
  /\ launched' = launched + 1
  /\ server' = launched + 1
  /\ alive' = (alive \ dead) \cup {launched + 1}
  /\ level' = "healthy"

\* A process that stops gives its memory back: the snapshot reads 0 for it.
Stop(p) ==
  /\ alive' = alive \ {p}
  /\ level' = IF p = launched THEN "healthy" ELSE level

\* _wait_for_server_ready when an answer comes, and what its callers reset.
Ready ==
  /\ Reachable
  /\ opened' = FALSE
  /\ UNCHANGED <<server, alive, launched, level>>

\* _wait_for_server_ready when no answer comes in all its tries: terminate
\* what the handle holds and launch again.
Relaunch ==
  /\ ~clean
  /\ InitServer({server})
  /\ UNCHANGED opened

\* The same after the last relaunch, or when the handle was emptied meanwhile:
\* terminate what the handle holds, if anything, and raise.  The handle keeps
\* the terminated process.
GiveUp ==
  /\ Stop(server)
  /\ UNCHANGED <<server, opened, launched>>

\* force_close_server: SIGKILL, then (after a wait) forget everything,
\* whatever the handle holds by then.
Kill ==
  /\ ~clean
  /\ Stop(server)
  /\ UNCHANGED <<server, opened, launched>>

Forget ==
  /\ server' = None
  /\ opened' = FALSE
  /\ UNCHANGED <<alive, launched, level>>

ForceClose ==
  /\ IF clean THEN UNCHANGED <<alive, level>> ELSE Stop(server)
  /\ server' = None
  /\ opened' = IF clean THEN opened ELSE FALSE
  /\ UNCHANGED launched

\* close_server up to the death of the process (close_all, then SIGINT or
\* SIGKILL); its callers go on to empty the handle.
StopServer ==
  /\ ~clean
  /\ Stop(server)
  /\ UNCHANGED <<server, opened, launched>>

\* The end of close_server, and the launch that follows it in restart.
RestartLaunch ==
  /\ InitServer({})
  /\ opened' = FALSE

\* initialize, close_world: the calls that change _task_id.
OpenWorld ==
  /\ opened' = TRUE
  /\ UNCHANGED <<server, alive, launched, level>>

\* Mutant of CloseWorld: _task_id is not reset.
CloseWorldKeepsTask == UNCHANGED serverVars

CloseWorld ==
  /\ opened' = FALSE
  /\ UNCHANGED <<server, alive, launched, level>>

\* A call succeeds only when the process at the port runs.
Answers == opened /\ Reachable

\* External: the process dies by itself, or its memory grows.
Crash ==
  /\ Reachable
  /\ Stop(launched)
  /\ UNCHANGED <<server, opened, launched>>

Grow(higher) ==
  /\ Reachable
  /\ Rank(higher) > Rank(level)
  /\ level' = higher
  /\ UNCHANGED <<server, opened, alive, launched>>
=============================================================================
