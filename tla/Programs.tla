-------------------------------- MODULE Programs --------------------------------
(***************************************************************************)
(* The programs around a training run and the phases inside it that share  *)
(* no state with each other while they run: a behaviour chooses one and    *)
(* runs it, with whatever may be killed, started again or left over there. *)
(* Each is specified, and can be checked alone, in a module of its own.    *)
(***************************************************************************)
EXTENDS EvalWatch, EvaluationJobs, TeacherGeneration, ApiEvaluation, VllmServer,
        SftWindows, SftData, SftTraining, GradientSteps, ScenarioManifest, ProcessAdvantage, AgentContext, MergedBase,
        LoopReport

VARIABLE program

programVars == <<program, watchVars, jobsVars, apiVars, teacherVars, driverVars, llmVars, windowVars,
                 dataVars, sftVars, gradientVars, advantageVars, agentVars, manifestVars,
                 mergeVars, reportVars>>

ProgramNames == {"watch", "jobs", "teacher", "api", "vllm", "windows", "data", "sft", "gradient", "audit",
                 "agent", "manifest", "merge", "report"}

ProgramsInit ==
  /\ program \in ProgramNames
  /\ WatchInit /\ JobsInit /\ ApiInit /\ TeacherInit /\ DriverInit /\ VllmInit
  /\ WindowsInit /\ DataInit /\ SftInit /\ GradientInit /\ ManifestInit /\ AgentInit /\ AdvantageInit
  /\ MergeInit /\ ReportInit

\* Only the program that was chosen changes its variables.
Idle(names, vars) == IF program \in names THEN TRUE ELSE UNCHANGED vars

Alone ==
  /\ UNCHANGED program
  /\ Idle({"watch"}, watchVars)
  /\ Idle({"jobs", "report"}, jobsVars)
  /\ Idle({"teacher", "api"}, apiVars)
  /\ Idle({"teacher"}, teacherVars)
  /\ Idle({"api"}, driverVars)
  /\ Idle({"vllm"}, llmVars)
  /\ Idle({"windows"}, windowVars)
  /\ Idle({"data"}, dataVars)
  /\ Idle({"sft"}, sftVars)
  /\ Idle({"gradient"}, gradientVars)
  /\ Idle({"manifest"}, manifestVars)
  /\ Idle({"agent"}, agentVars)
  /\ Idle({"audit"}, advantageVars)
  /\ Idle({"merge"}, mergeVars)
  /\ Idle({"report"}, reportVars)

RunWatch == program = "watch" /\ WatchNext /\ Alone
RunJobs == program = "jobs" /\ JobsNext /\ Alone
RunTeacher == program = "teacher" /\ TeacherNext /\ Alone
RunApi == program = "api" /\ DriverNext /\ Alone
RunVllm == program = "vllm" /\ VllmNext /\ Alone
RunWindows == program = "windows" /\ WindowsNext /\ Alone
RunData == program = "data" /\ DataNext /\ Alone
RunSft == program = "sft" /\ SftNext /\ Alone
RunGradient == program = "gradient" /\ GradientNext /\ Alone
RunAudit == program = "audit" /\ AdvantageNext /\ Alone
RunAgent == program = "agent" /\ AgentNext /\ Alone
RunManifest == program = "manifest" /\ ManifestNext /\ Alone
RunMerge == program = "merge" /\ MergeNext /\ Alone
RunReport == program = "report" /\ ReportNext /\ Alone

ProgramsNext ==
  \/ RunWatch \/ RunJobs \/ RunTeacher \/ RunApi \/ RunVllm
  \/ RunWindows \/ RunData \/ RunSft \/ RunGradient \/ RunManifest \/ RunAgent \/ RunAudit
  \/ RunMerge \/ RunReport

ProgramsSpec ==
  /\ ProgramsInit
  /\ [][ProgramsNext]_programVars
  /\ WF_programVars(program = "watch" /\ WatchStep /\ Alone)
  /\ WF_programVars(program = "watch" /\ CheckpointAppears /\ Alone)

-----------------------------------------------------------------------------
(***************************************************************************)
(* The watcher dies, or ends up with a row of the first repeat for every   *)
(* due checkpoint, whatever command fails, whatever GPU stays busy for a   *)
(* while and whatever is killed meanwhile (eval_watch.py:718-832).         *)
(***************************************************************************)
WatcherEvaluates == program = "watch" => DueIsEvaluated

(***************************************************************************)
(* What a process that pays for answers leaves on disk accounts for what   *)
(* it has done, for teacher generation (teacher.py) and API evaluation     *)
(* (deepseek_appworld.py) alike, whatever was killed and resumed.          *)
(***************************************************************************)
ApiRunsAreAccounted == GenerationIsAccounted /\ EvaluationIsAccounted

(***************************************************************************)
(* What SFT trains on: data sets that keep apart what they are judged by   *)
(* (dataset.py, subsets.py), cut into windows that lose and repeat nothing *)
(* (trainer.py).                                                           *)
(***************************************************************************)
SftInputIsSound == TrainingDataIsSound /\ WindowsAreExact
=================================================================================
