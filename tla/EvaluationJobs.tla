---------------------------- MODULE EvaluationJobs ----------------------------
(***************************************************************************)
(* The orchestrator of the R1/R2 evaluations                               *)
(* (scripts/loop7b/run_sft_loop15_evaluations.py): a sequence of jobs, each*)
(* a command with an output directory of its own, run one after the other  *)
(* by an orchestrator that may be killed and invoked again, with the same  *)
(* settings or with others.  A job's command and its hash are determined   *)
(* by the settings, so a setting stands for both.  The command is another  *)
(* process: it may outlive an orchestrator that is killed.                 *)
(***************************************************************************)
EXTENDS Integers, FiniteSets

CONSTANTS
  DevJobs,               \* number of dev jobs, which come first in the plan
  AllJobs,               \* number of all jobs
  Settings,              \* settings of an invocation, 1 .. n
  Twins,                 \* settings that differ only in what no validation looks at: the port, the
                         \* Python that runs it, the seed beside those of the rollouts
  Invocations,           \* bound: calls of the orchestrator
  Orphans                \* bound: commands that outlive their orchestrator

ASSUME JobsAssumption ==
  /\ DevJobs \in Nat
  /\ AllJobs \in Nat \ {0}
  /\ DevJobs <= AllJobs
  /\ Settings \in Nat \ {0}
  /\ Twins \subseteq 1 .. Settings
  /\ Invocations \in Nat
  /\ Orphans \in Nat

Plan == 1 .. AllJobs
Commands == 1 .. Settings
Dev(j) == j <= DevJobs

\* An output directory: the hashes in orchestrator_job.json and in
\* orchestrator_complete.json (0 when absent), the commands that wrote into it
\* and whether what they wrote is all there.
Directory == [launch : 0 .. Settings, done : 0 .. Settings, writers : SUBSET Commands, whole : BOOLEAN]
Absent == [launch |-> 0, done |-> 0, writers |-> {}, whole |-> FALSE]

OrchestratorSites == {"down", "check", "quarantine", "validate", "launch", "run", "finish", "refused",
                      "finished"}

VARIABLES
  orchestrator,  \* where the orchestrator is
  settings,      \* settings of this invocation
  current,       \* the job it is at
  invocations,
  directory,     \* the output directory of each job
  child,         \* the running command of the orchestrator: its settings, or 0
  stray,         \* commands that outlived their orchestrator, with their job
  strays         \* history: the settings of every such command so far

jobsVars == <<orchestrator, settings, current, invocations, directory, child, stray, strays>>

JobsTypeOK ==
  /\ orchestrator \in OrchestratorSites
  /\ settings \in Commands
  /\ current \in Plan
  /\ invocations \in 0 .. Invocations
  /\ directory \in [Plan -> Directory]
  /\ child \in 0 .. Settings
  /\ stray \in SUBSET (Plan \X Commands)
  /\ strays \in SUBSET Commands

JobsInit ==
  /\ orchestrator = "down"
  /\ settings = 1
  /\ current = 1
  /\ invocations = 0
  /\ directory = [j \in Plan |-> Absent]
  /\ child = 0
  /\ stray = {}
  /\ strays = {}

Dir == directory[current]
Put(record) == directory' = [directory EXCEPT ![current] = record]
Orchestrate(from, to) == orchestrator = from /\ orchestrator' = to
Same == UNCHANGED <<settings, invocations, stray, strays>>

\* validate_job_output: the dev validation looks at the split, the checkpoint
\* and the counts; the one of a diagnostic job also at tasks, seeds and policy, which
\* other settings than twins change, in every trajectory.
Like(command, other) == command = other \/ {command, other} \subseteq Twins
Valid(j) == directory[j].whole /\ (Dev(j) \/ \A writer \in directory[j].writers : Like(writer, settings))
Launched == Dir.launch = settings
Completed == Dir.done = settings

Invoke ==
  /\ Orchestrate("down", "check")
  /\ invocations < Invocations
  /\ invocations' = invocations + 1
  /\ settings' \in Commands
  /\ current' = 1
  /\ UNCHANGED <<directory, child, stray, strays>>

\* On to the next job of the plan, or the end.
Advance ==
  IF current = AllJobs THEN orchestrator' = "finished" /\ UNCHANGED current
                       ELSE orchestrator' = "check" /\ current' = current + 1

Skip ==
  /\ orchestrator = "check"
  /\ Valid(current) /\ Completed
  /\ Advance
  /\ UNCHANGED <<directory, child>>
  /\ Same

\* Mutant of Adopt: valid output is adopted whoever launched it.
AdoptAnything ==
  /\ orchestrator = "check"
  /\ Valid(current) /\ ~Completed
  /\ Put([Dir EXCEPT !.done = settings])
  /\ Advance
  /\ UNCHANGED child
  /\ Same

\* The output of an interrupted orchestrator with the same command is adopted.
Adopt ==
  /\ orchestrator = "check"
  /\ Valid(current) /\ ~Completed /\ Launched
  /\ Put([Dir EXCEPT !.done = settings])
  /\ Advance
  /\ UNCHANGED child
  /\ Same

\* Output without matching provenance is neither adopted nor overwritten.
Refuse ==
  /\ Orchestrate("check", "refused")
  /\ ~Launched
  /\ IF Valid(current) THEN ~Completed ELSE Dir # Absent
  /\ UNCHANGED <<current, directory, child>>
  /\ Same

\* Mutant of Incomplete: runs a job again whatever it has left.
IncompleteOrNot ==
  /\ Orchestrate("check", IF Dir = Absent THEN "validate" ELSE "quarantine")
  /\ Dir = Absent \/ Launched
  /\ UNCHANGED <<current, directory, child>>
  /\ Same

Incomplete ==
  /\ ~Valid(current)
  /\ Orchestrate("check", IF Dir = Absent THEN "validate" ELSE "quarantine")
  /\ Dir = Absent \/ Launched
  /\ UNCHANGED <<current, directory, child>>
  /\ Same

\* The directory is moved aside whole, whatever it holds by now.
Quarantine ==
  /\ Orchestrate("quarantine", "validate")
  /\ Put(Absent)
  /\ UNCHANGED <<current, child>>
  /\ Same

\* _validate_job_inputs: a missing model, adapter or split ends the invocation
\* before the launch is recorded.
ValidateInputs ==
  /\ orchestrator = "validate"
  /\ orchestrator' \in {"launch", "refused"}
  /\ UNCHANGED <<current, directory, child>>
  /\ Same

WriteLaunch ==
  /\ Orchestrate("launch", "run")
  /\ Put([Dir EXCEPT !.launch = settings])
  /\ child' = settings
  /\ UNCHANGED current
  /\ Same

\* A directory after a command has written into it: part of its output, or the last.
AfterWrite(d, command, last) ==
  [d EXCEPT !.writers = @ \cup {command}, !.whole = @ \/ last]

ChildWrites ==
  /\ orchestrator = "run" /\ child # 0
  /\ \E last \in BOOLEAN :
       Put(AfterWrite(Dir, child, last))
  /\ UNCHANGED <<orchestrator, current, child>>
  /\ Same

\* It exits, well or not; only a success with valid output is completed.
ChildEnds ==
  /\ orchestrator = "run" /\ child # 0
  /\ child' = 0
  /\ orchestrator' \in {"finish", "refused"}
  /\ UNCHANGED <<current, directory>>
  /\ Same

Finish ==
  /\ orchestrator = "finish"
  /\ IF Valid(current) THEN Put([Dir EXCEPT !.done = settings]) /\ Advance
                       ELSE orchestrator' = "refused" /\ UNCHANGED <<directory, current>>
  /\ UNCHANGED child
  /\ Same

\* A refusal or a failure ends the process, and so does the last job.
Exit ==
  /\ orchestrator \in {"refused", "finished"}
  /\ orchestrator' = "down"
  /\ UNCHANGED <<current, directory, child>>
  /\ Same

\* Killed: the command dies with it or lives on.
Kill ==
  /\ orchestrator \notin {"down", "refused", "finished"}
  /\ orchestrator' = "down"
  /\ child' = 0
  /\ \/ UNCHANGED <<stray, strays>>
     \/ /\ child # 0 /\ Cardinality(stray) < Orphans
        /\ stray' = stray \cup {<<current, child>>}
        /\ strays' = strays \cup {child}
  /\ UNCHANGED <<settings, current, invocations, directory>>

\* A command that lives on writes to the path it was given, whatever is there.
StrayWrites ==
  /\ \E s \in stray : \E last \in BOOLEAN :
       directory' = [directory EXCEPT ![s[1]] = AfterWrite(directory[s[1]], s[2], last)]
  /\ UNCHANGED <<orchestrator, settings, current, invocations, child, stray, strays>>

StrayEnds ==
  /\ \E s \in stray : stray' = stray \ {s}
  /\ UNCHANGED <<orchestrator, settings, current, invocations, directory, child, strays>>

JobsNext ==
  \/ Invoke \/ Skip \/ Adopt \/ Refuse \/ Incomplete \/ Quarantine \/ ValidateInputs
  \/ WriteLaunch \/ ChildWrites \/ ChildEnds \/ Finish \/ Exit
  \/ Kill \/ StrayWrites \/ StrayEnds

JobsSpec == JobsInit /\ [][JobsNext]_jobsVars

-----------------------------------------------------------------------------
\* A completion record vouches for its output: what another command wrote into
\* a completed directory came from one that outlived a killed orchestrator.
\* Neither adopting nor quarantining lets in anything else
\* (run_sft_loop15_evaluations.py:815-866).
CompletionVouches ==
  \A j \in Plan : directory[j].done # 0 =>
    directory[j].writers \subseteq {directory[j].done} \cup strays

\* Completed output that no such command touched stays: no later invocation
\* moves it aside or runs its command again, whatever its settings.
CompletedIsKept ==
  [][\A j \in Plan : directory[j].done # 0 /\ directory[j].writers = {directory[j].done} =>
        directory'[j].done = directory[j].done /\ directory'[j].whole]_jobsVars
=============================================================================
