----------------------------- MODULE ProgramsProofs -----------------------------
(***************************************************************************)
(* Proofs about the programs: the vLLM server of a training run, the two   *)
(* that pay for answers, the replay of an earlier run, and those that make *)
(* what is fine-tuned on.                                                  *)
(***************************************************************************)
EXTENDS Programs, SftProofs

(***************************************************************************)
(* The vLLM server of a training run.                                      *)
(***************************************************************************)

\* Before the first start nothing runs, and every place after the request of
\* rollouts has an iteration.
FirstBoot == boots = 0 => llm = "off" /\ Running = {}
Requested == llm \notin {"off", "learn"} => iteration >= 1

\* A run that connects never adds a process to one that runs, in whatever state
\* that is: the search for a process by its port sees it before it serves.
AtMostOne == connects => \A p, q \in Running : p = q

\* So the server that was asked for the adapter is every server there is, and no
\* other comes before the rollouts are collected.
LoadedEverywhere ==
  connects /\ llm = "generate" /\ iteration > 1 => \A p \in Running : iteration \in adapters[p]

\* The two halves of the type invariant: numbers, and everything else.
CountsOK ==
  /\ iteration \in 0 .. Iterations
  /\ loaded \in 0 .. Iterations
  /\ boots \in 0 .. Boots
  /\ llmFaults \in 0 .. LlmFaults
PlacesOK ==
  /\ llm \in LlmSites
  /\ connects \in BOOLEAN /\ exclusive \in BOOLEAN
  /\ process \in [Pids -> ProcessStates]
  /\ held \in Pids \cup {Nobody}
  /\ connected \in BOOLEAN
  /\ adapters \in [Pids -> SUBSET (1 .. Iterations)]
  /\ servers \in BOOLEAN

VllmInv == CountsOK /\ PlacesOK /\ FirstBoot /\ Requested /\ AtMostOne /\ LoadedEverywhere

\* The numbers among the constants, apart from the sets of Booleans.
LEMMA VllmNumbers == Iterations \in Nat \ {0} /\ Boots \in Nat \ {0} /\ LlmFaults \in Nat
BY VllmAssumption

LEMMA VllmInitInv == VllmInit => VllmInv
<1> SUFFICES ASSUME VllmInit PROVE VllmInv
  OBVIOUS
<1>1. CountsOK
  BY VllmNumbers DEF VllmInit, CountsOK, NoAdapter
<1>3. PlacesOK
  BY DEF VllmInit, PlacesOK, LlmSites, ProcessStates
<1>2. Running = {}
  BY DEF VllmInit, Running
<1> QED
  BY <1>1, <1>2, <1>3 DEF VllmInit, VllmInv, FirstBoot, Requested, AtMostOne, LoadedEverywhere

\* The steps that leave the processes and their adapters alone.
LEMMA WorkerSteps ==
  ASSUME VllmInv, \/ Boot \/ RequestGeneration \/ Generated \/ GenerationFails \/ AwaitTermination
                  \/ TrainingGone
  PROVE  VllmInv'
<1>1. UNCHANGED <<process, adapters>> /\ Running' = Running
  BY DEF Boot, RequestGeneration, Generated, GenerationFails, AwaitTermination, TrainingGone, Running
<1> USE DEF VllmInv
<1>2. CountsOK' /\ PlacesOK'
  <2>1. CountsOK'
    BY VllmNumbers
       DEF CountsOK, Boot, RequestGeneration, Generated, GenerationFails, AwaitTermination,
           TrainingGone, NoAdapter, LlmFault, NoLlmFault, Settled
  <2>2. connects' \in BOOLEAN /\ exclusive' \in BOOLEAN
    <3>1. CASE Boot
      BY <3>1, VllmAssumption DEF Boot, PlacesOK
    <3>2. CASE ~Boot
      BY <3>2 DEF PlacesOK, RequestGeneration, Generated, GenerationFails, AwaitTermination,
                  TrainingGone, Settled
    <3> QED
      BY <3>1, <3>2
  <2>3. /\ llm' \in LlmSites /\ connected' \in BOOLEAN /\ servers' \in BOOLEAN
        /\ held' \in Pids \cup {Nobody}
    BY DEF PlacesOK, LlmSites, LlmGoes, Boot, RequestGeneration, Generated, GenerationFails,
           AwaitTermination, TrainingGone
  <2> QED
    BY <1>1, <2>1, <2>2, <2>3 DEF PlacesOK
<1>3. FirstBoot' /\ AtMostOne'
  <2>1. CASE Boot
    BY <1>1, <2>1, VllmNumbers DEF Boot, FirstBoot, AtMostOne, CountsOK
  <2>2. CASE RequestGeneration \/ Generated \/ GenerationFails \/ AwaitTermination \/ TrainingGone
    BY <1>1, <2>2 DEF RequestGeneration, Generated, GenerationFails, AwaitTermination, TrainingGone,
                      FirstBoot, AtMostOne, Settled, LlmGoes
  <2> QED
    BY <2>1, <2>2
<1>4. Requested'
  <2>1. CASE Boot \/ RequestGeneration
    BY <2>1 DEF Boot, RequestGeneration, LlmGoes, CountsOK, Requested
  <2>2. CASE Generated \/ GenerationFails \/ AwaitTermination
    BY <2>2 DEF Generated, GenerationFails, AwaitTermination, LlmGoes, Requested
  <2>3. CASE TrainingGone
    BY <2>3 DEF TrainingGone, Requested
  <2> QED
    BY <2>1, <2>2, <2>3
<1>5. llm' # "generate"
  BY DEF Boot, RequestGeneration, Generated, GenerationFails, AwaitTermination, TrainingGone,
         LlmGoes
<1> QED
  BY <1>2, <1>3, <1>4, <1>5 DEF LoadedEverywhere

\* The steps that change the state of a process, but start none.
LEMMA ProcessSteps ==
  ASSUME VllmInv, ServerBinds \/ AwaitStartup \/ StopServer \/ ServerGone
  PROVE  VllmInv'
<1> USE DEF VllmInv
<1>1. /\ UNCHANGED <<connects, exclusive, boots, iteration, loaded, held, connected, servers>>
      /\ llm' = "generate" => llm = "generate"
      /\ Requested'
  BY DEF ServerBinds, AwaitStartup, StopServer, ServerGone, Requested, Settled
<1>2. CountsOK'
  <2>1. \/ UNCHANGED llmFaults
        \/ llmFaults < LlmFaults /\ llmFaults' = llmFaults + 1
    <3>1. CASE ServerBinds \/ StopServer
      BY <3>1 DEF ServerBinds, StopServer, NoLlmFault
    <3>2. CASE AwaitStartup
      BY <3>2 DEF AwaitStartup, LlmFault, NoLlmFault
    <3>3. CASE ServerGone
      BY <3>3 DEF ServerGone, LlmFault, NoLlmFault
    <3> QED
      BY <3>1, <3>2, <3>3
  <2> QED
    BY <1>1, <2>1, VllmNumbers DEF CountsOK
<1>3. /\ \A p \in Pids : process'[p] \in ProcessStates /\ (p \in Running' => p \in Running)
      /\ process' = [p \in Pids |-> process'[p]]
  <2>1. CASE ServerBinds
    BY <2>1 DEF ServerBinds, Running, PlacesOK, ProcessStates
  <2>2. CASE AwaitStartup \/ StopServer
    BY <2>2 DEF AwaitStartup, StopServer, Running, PlacesOK, ProcessStates
  <2>3. CASE ServerGone
    BY <2>3 DEF ServerGone, Running, PlacesOK, ProcessStates
  <2> QED
    BY <2>1, <2>2, <2>3
<1>4. Running' \subseteq Running
  BY <1>3 DEF Running
<1>5. /\ \A p \in Running' : adapters'[p] = adapters[p]
      /\ adapters' \in [Pids -> SUBSET (1 .. Iterations)]
  <2>1. CASE ServerBinds \/ AwaitStartup \/ StopServer
    BY <2>1 DEF ServerBinds, AwaitStartup, StopServer, PlacesOK
  <2>2. CASE ServerGone
    BY <2>2 DEF ServerGone, Running, PlacesOK
  <2> QED
    BY <2>1, <2>2
<1>6. llm' \in LlmSites
  BY DEF ServerBinds, AwaitStartup, StopServer, ServerGone, PlacesOK, LlmSites
<1>7. process' \in [Pids -> ProcessStates]
  BY <1>3
<1>8. PlacesOK'
  BY <1>1, <1>5, <1>6, <1>7 DEF PlacesOK
<1>9. FirstBoot'
  BY <1>1, <1>4 DEF FirstBoot, ServerBinds, AwaitStartup, StopServer, ServerGone
<1> QED
  BY <1>1, <1>2, <1>4, <1>5, <1>8, <1>9 DEF AtMostOne, LoadedEverywhere

\* A process is started only where none runs, unless the run does not connect.
LEMMA StartSteps ==
  ASSUME VllmInv, StartServer
  PROVE  VllmInv'
<1> USE DEF VllmInv
<1>1. /\ CountsOK' /\ Requested' /\ llm' = "await"
      /\ UNCHANGED <<connects, exclusive, boots>> /\ llm = "start"
  BY DEF StartServer, CountsOK, Requested, NoLlmFault, Settled, LlmGoes
<1>4. PlacesOK'
  <2>1. held' \in Pids /\ servers' = TRUE /\ connected' \in BOOLEAN /\ UNCHANGED adapters
    BY DEF StartServer, Running
  <2>2. process' \in [Pids -> ProcessStates]
    BY DEF StartServer, PlacesOK, ProcessStates
  <2> QED
    BY <1>1, <2>1, <2>2 DEF PlacesOK, LlmSites
<1>2. AtMostOne'
  <2>1. CASE connects /\ Running # {}
    BY <1>1, <2>1 DEF StartServer, AtMostOne, Running
  <2>2. CASE Running = {}
    <3>1. PICK p \in Pids : process' = [process EXCEPT ![p] = "starting"]
      BY <2>2 DEF StartServer
    <3>2. Running' = {p}
      BY <2>2, <3>1 DEF Running, PlacesOK
    <3> QED
      BY <3>2 DEF AtMostOne
  <2>3. CASE ~connects
    BY <1>1, <2>3 DEF AtMostOne
  <2> QED
    BY <2>1, <2>2, <2>3
<1>3. boots # 0
  BY <1>1 DEF FirstBoot
<1> QED
  BY <1>1, <1>2, <1>3, <1>4 DEF FirstBoot, LoadedEverywhere
\* _reload_lora_adapters.
LEMMA AdapterSteps ==
  ASSUME VllmInv, UnloadAdapter \/ LoadAdapter
  PROVE  VllmInv'
<1> USE DEF VllmInv
<1>2. /\ UNCHANGED <<process, connects, exclusive, boots, iteration, held, connected, servers, llmFaults>>
      /\ Running' = Running /\ llm \in {"unload", "load"}
  BY DEF UnloadAdapter, LoadAdapter, Asked, Running, NoLlmFault, Settled
<1>1. iteration \in 1 .. Iterations
  BY <1>2 DEF Requested, CountsOK
<1>3. llm' \in {"load", "generate", "failed"} /\ loaded' \in 0 .. Iterations
  <2>1. CASE UnloadAdapter
    BY <2>1 DEF UnloadAdapter, Asked, CountsOK
  <2>2. CASE LoadAdapter
    <3>1. llm' \in {"generate", "failed"} /\ loaded' \in {0, iteration}
      BY <2>2 DEF LoadAdapter, Asked, NoAdapter
    <3> QED
      BY <1>1, <3>1, VllmNumbers
  <2> QED
    BY <2>1, <2>2
<1>4. CountsOK' /\ Requested' /\ FirstBoot' /\ AtMostOne'
  BY <1>1, <1>2, <1>3 DEF CountsOK, Requested, FirstBoot, AtMostOne
<1>5. CASE UnloadAdapter
  <2>1. llm' # "generate"
    BY <1>5 DEF UnloadAdapter, Asked
  <2>2. \/ UNCHANGED adapters
        \/ \E p \in Answering : adapters' = [adapters EXCEPT ![p] = @ \ {loaded}]
    BY <1>5 DEF UnloadAdapter, Asked
  <2>3. PlacesOK'
    BY <1>2, <1>3, <2>2 DEF PlacesOK, LlmSites
  <2> QED
    BY <1>4, <2>1, <2>3 DEF LoadedEverywhere
<1>6. CASE LoadAdapter
  <2>1. \/ UNCHANGED adapters /\ (llm' # "generate" \/ iteration = 1)
        \/ \E p \in Answering : adapters' = [adapters EXCEPT ![p] = @ \cup {iteration}]
    BY <1>6 DEF LoadAdapter, Asked
  <2>2. PlacesOK'
    BY <1>1, <1>2, <1>3, <2>1 DEF PlacesOK, LlmSites
  <2>3. ASSUME connects, llm' = "generate", iteration > 1, NEW p \in Running
        PROVE  iteration \in adapters'[p]
    <3>1. PICK q \in Answering : adapters' = [adapters EXCEPT ![q] = @ \cup {iteration}]
      BY <2>1, <2>3
    <3>2. q \in Running
      BY DEF Answering, Running
    <3>3. p = q /\ p \in Pids
      BY <2>3, <3>2 DEF AtMostOne, Running
    <3> QED
      BY <3>1, <3>3 DEF PlacesOK
  <2> QED
    BY <1>2, <1>4, <2>2, <2>3 DEF LoadedEverywhere
<1> QED
  BY <1>5, <1>6

LEMMA VllmNextInv == VllmInv /\ [VllmNext]_llmVars => VllmInv'
<1>1. VllmInv /\ UNCHANGED llmVars => VllmInv'
  BY DEF VllmInv, CountsOK, PlacesOK, FirstBoot, Requested, AtMostOne, LoadedEverywhere, Running, llmVars
<1> QED
  BY <1>1, WorkerSteps, ProcessSteps, StartSteps, AdapterSteps DEF VllmNext

\* The variables keep their types, whatever crashes and is left behind.
THEOREM ServerTypes == VllmSpec => []VllmTypeOK
<1>1. VllmInv => VllmTypeOK
  BY DEF VllmInv, CountsOK, PlacesOK, VllmTypeOK
<1> QED
  BY <1>1, VllmInitInv, VllmNextInv, PTL DEF VllmSpec

\* A run that connects to what it finds at its port has one server there, with the
\* adapter of the iteration, however many runs before it crashed and whatever they
\* left running (vllm_server.py, start_server; _reload_lora_adapters).
THEOREM TheRightServerAnswers == VllmSpec => []RightServerAnswers
<1>1. ASSUME VllmInv PROVE RightServerAnswers
  <2>1. ASSUME connects PROVE Cardinality(Running) <= 1
    <3>1. \A p, q \in Running : p = q
      BY <1>1, <2>1 DEF VllmInv, AtMostOne
    <3>2. CASE Running = {}
      BY <3>2, FS_EmptySet
    <3>3. CASE Running # {}
      <4>1. PICK p \in Running : TRUE
        BY <3>3
      <4>2. Running = {p}
        BY <3>1, <4>1
      <4>3. Cardinality(Running) = 1
        BY <4>2, FS_Singleton
      <4> QED
        BY <4>3
    <3> QED
      BY <3>2, <3>3
  <2>2. AnswersWithAdapter
    BY <1>1 DEF VllmInv, LoadedEverywhere, AnswersWithAdapter, Running, Answering
  <2> QED
    BY <2>1, <2>2 DEF RightServerAnswers, OneServerPerPort
<1> QED
  BY <1>1, VllmInitInv, VllmNextInv, PTL DEF VllmSpec

-----------------------------------------------------------------------------
(***************************************************************************)
(* Runs that pay for answers.                                              *)
(***************************************************************************)
\* A set of numbers from an interval has its maximum.
LEMMA MaxOfNumbers ==
  ASSUME NEW n \in Nat, NEW S, S \subseteq 1 .. n, S # {}
  PROVE  Max(S) \in S
<1> DEFINE Below == {pair \in Nat \X Nat : pair[1] < pair[2]}
           Bounds == {m \in Nat : \A x \in S : x <= m}
<1>1. IsWellFoundedOn(Below, Nat)
  BY NatLessThanWellFounded DEF OpToRel
<1>2. n \in Bounds
  OBVIOUS
<1> HIDE DEF Below
<1>3. PICK m \in Bounds : \A k \in Bounds : <<k, m>> \notin Below
  BY <1>1, <1>2, WFMin
<1>4. \A k \in Bounds : m <= k
  <2>1. SUFFICES ASSUME NEW k \in Bounds, k < m PROVE FALSE
    OBVIOUS
  <2>2. <<k, m>> \in Below
    BY <2>1 DEF Below
  <2> QED
    BY <1>3, <2>2
<1>5. m \in S
  <2>1. SUFFICES ASSUME m \notin S PROVE FALSE
    OBVIOUS
  <2>2. PICK x \in S : TRUE
    OBVIOUS
  <2>3. m - 1 \in Nat
    BY <2>1, <2>2
  <2>4. \A y \in S : y <= m - 1
    BY <2>1
  <2> QED
    BY <1>4, <2>3, <2>4
<1>6. \A x \in S : m >= x
  OBVIOUS
<1> QED
  BY <1>5, <1>6 DEF Max

-----------------------------------------------------------------------------
\* What an attempt has saved, when it returns.
Saved(writing) ==
  [state |-> writing, status |-> status, limited |-> error = "cost_limit_reached",
   success |-> success, prefix |-> prefix]

AttemptInv ==
  /\ ApiTypeOK
  /\ total < CostLimit + Price
  /\ api = "act" => steps < TaskInteractions
  /\ steps = TaskInteractions => reasked = 0
  /\ source # NoPath => source # path /\ trajectories[source] # Missing
  /\ api = "replay" => source # NoPath
  /\ api = "returned" => trajectories[path] \in {Saved("torn"), Saved("whole")}

LEMMA ApiNumbers ==
  /\ CostLimit \in Nat \ {0} /\ Price \in Nat /\ TaskInteractions \in Nat \ {0} /\ Reasks \in Nat
  /\ TaskRetries \in Nat /\ ApiFaults \in Nat /\ ApiTasks \in Nat \ {0} /\ Attempts \in Nat \ {0}
BY ApiAssumption

\* The numbers of the attempt, apart from its other variables.
Counts ==
  /\ total \in Nat /\ total < CostLimit + Price
  /\ steps \in 0 .. TaskInteractions
  /\ prefix \in 0 .. steps
  /\ reasked \in 0 .. Reasks
  /\ steps = TaskInteractions => reasked = 0
  /\ api = "act" => steps < TaskInteractions
  /\ apiFaults \in 0 .. ApiFaults

\* What remains: the names, and the files.
Names ==
  /\ api \in ApiSites
  /\ path \in Paths /\ source \in Paths \cup {NoPath}
  /\ opened \in BOOLEAN /\ serving \in BOOLEAN
  /\ status \in {"completed", "failed"} /\ error \in ApiErrors /\ success \in BOOLEAN
  /\ source # NoPath => source # path
  /\ api = "replay" => source # NoPath

Files ==
  /\ trajectories \in [Paths -> Trajectory \cup {Missing}]
  /\ source # NoPath => trajectories[source] # Missing
  /\ api = "returned" => trajectories[path] \in {Saved("torn"), Saved("whole")}

LEMMA AttemptInParts == AttemptInv <=> Counts /\ Names /\ Files
BY ApiNumbers DEF AttemptInv, ApiTypeOK, Counts, Names, Files

LEMMA AttemptStarts == ApiInit => AttemptInv
<1> SUFFICES ASSUME ApiInit PROVE Counts /\ Names /\ Files
  BY AttemptInParts
<1>0. /\ api = "idle" /\ path = <<1, 0>> /\ source = NoPath /\ status = "failed" /\ error = "none"
      /\ total = 0 /\ steps = 0 /\ prefix = 0 /\ reasked = 0 /\ apiFaults = 0
      /\ trajectories = [p \in Paths |-> Missing]
  BY DEF ApiInit
<1>9. opened \in BOOLEAN /\ serving \in BOOLEAN /\ success \in BOOLEAN
  BY DEF ApiInit
<1>1. Counts
  BY <1>0, ApiNumbers DEF Counts
<1>2. <<1, 0>> \in Paths
  BY ApiNumbers DEF Paths, TaskIds
<1>3. Names
  BY <1>0, <1>2, <1>9 DEF Names, ApiSites, ApiErrors
<1>4. Files
  BY <1>0 DEF Files
<1> QED
  BY <1>1, <1>3, <1>4

\* The files change at the end of an attempt only, and only its own.
LEMMA FilesChange ==
  ASSUME AttemptStep \/ WorldDies
  PROVE  /\ UNCHANGED <<path, source>>
         /\ api \notin {"idle", "returned"} /\ api' # "idle"
         /\ IF api' = "returned"
            THEN /\ trajectories' = [trajectories EXCEPT ![path] = Saved("torn")]
                 /\ UNCHANGED <<status, error, success, prefix>>
            ELSE UNCHANGED trajectories
<1>1. CASE SaveBegins
  BY <1>1 DEF SaveBegins, AttemptGoes, Saved, Steps, Result
<1>2. CASE ApiInitialize \/ Replay \/ Ask \/ AskNoMore \/ Act
  BY <1>2 DEF ApiInitialize, Replay, Ask, AskNoMore, Act, Fixed, AttemptGoes, Raise, LostCall
<1>3. CASE ApiEvaluate \/ SafeCloseWorld \/ RestartWorld
  BY <1>3 DEF ApiEvaluate, SafeCloseWorld, RestartWorld, Fixed, AttemptGoes, Raise
<1>4. CASE WorldDies
  BY <1>4 DEF WorldDies
<1> QED
  BY <1>1, <1>2, <1>3, <1>4 DEF AttemptStep

LEMMA CountsHold ==
  ASSUME AttemptInv, AttemptStep \/ WorldDies
  PROVE  Counts'
<1>1. Counts /\ source \in Paths \cup {NoPath}
  BY AttemptInParts DEF Names
<1>2. apiFaults' \in 0 .. ApiFaults
  <2>1. apiFaults' = apiFaults \/ (apiFaults < ApiFaults /\ apiFaults' = apiFaults + 1)
    BY DEF AttemptStep, ApiInitialize, Replay, Ask, AskNoMore, Act, ApiEvaluate, SafeCloseWorld, RestartWorld,
       SaveBegins, WorldDies, NoApiFault, ApiFault, LostCall
  <2> QED
    BY <1>1, <2>1, ApiNumbers DEF Counts
<1>3. CASE UNCHANGED <<total, Steps>> /\ api' # "act"
  BY <1>1, <1>2, <1>3 DEF Counts, Steps
<1>4. CASE WorldDies
  BY <1>1, <1>2, <1>4 DEF Counts, Steps, WorldDies
<1>5. CASE Replay
  <2>1. total' = total /\ api' # "act"
    BY <1>5 DEF Replay, LostCall, Raise
  <2>2. CASE UNCHANGED Steps
    BY <1>3, <2>1, <2>2
  <2>3. CASE \E clean \in BOOLEAN : RecordStep(clean) /\ steps < trajectories[source].prefix
    <3>1. trajectories[source] \in Trajectory
      BY <1>5, AttemptInParts DEF Names, Files, Replay
    <3>2. trajectories[source].prefix \in 0 .. TaskInteractions
      BY <3>1 DEF Trajectory
    <3>3. /\ steps' = steps + 1 /\ reasked' = 0 /\ steps < TaskInteractions
          /\ prefix' = prefix \/ (prefix = steps /\ prefix' = prefix + 1)
      BY <1>1, <2>3, <3>2, ApiNumbers DEF RecordStep, Counts
    <3> QED
      BY <1>1, <1>2, <2>1, <3>3, ApiNumbers DEF Counts
  <2> QED
    BY <1>5, <2>2, <2>3 DEF Replay, LostCall, Steps
<1>6. CASE Ask
  <2>1. /\ steps < TaskInteractions /\ UNCHANGED <<steps, prefix>>
        /\ api' # "act" => reasked' = reasked \/ (reasked < Reasks /\ reasked' = reasked + 1)
        /\ api' = "act" => reasked' = reasked
        /\ total' = total \/ (total < CostLimit /\ \E price \in 0 .. Price : total' = total + price)
    <3>1. steps < TaskInteractions /\ UNCHANGED <<steps, prefix>>
      BY <1>6 DEF Ask
    <3>2. CASE UNCHANGED <<total, reasked>>
      BY <3>1, <3>2
    <3>3. CASE ~UNCHANGED <<total, reasked>>
      <4>1. /\ total < CostLimit
            /\ \E price \in 0 .. Price : total' = total + price
            /\ (api' = "act" /\ UNCHANGED reasked)
               \/ (reasked < Reasks /\ reasked' = reasked + 1 /\ UNCHANGED api)
        BY <1>1, <1>6, <3>3, ApiNumbers DEF Ask, cost_limit_reached, Counts
      <4> QED
        BY <1>6, <3>1, <4>1 DEF Ask
    <3> QED
      BY <3>2, <3>3
  <2>2. total' \in Nat /\ total' < CostLimit + Price
    <3>1. CASE total' = total
      BY <1>1, <3>1 DEF Counts
    <3>2. CASE total < CostLimit /\ \E price \in 0 .. Price : total' = total + price
      BY <1>1, <3>2, ApiNumbers DEF Counts
    <3> QED
      BY <2>1, <3>1, <3>2
  <2> QED
    BY <1>1, <1>2, <2>1, <2>2, ApiNumbers DEF Counts
<1>7. CASE Act
  <2>1. total' = total /\ api = "act" /\ api' # "act"
    BY <1>7 DEF Act, LostCall, Raise
  <2>2. CASE UNCHANGED Steps
    BY <1>3, <2>1, <2>2
  <2>3. CASE \E clean, completed \in BOOLEAN : RecordStep(clean /\ ~completed)
    <3>1. /\ steps' = steps + 1 /\ reasked' = 0 /\ steps < TaskInteractions
          /\ prefix' = prefix \/ (prefix = steps /\ prefix' = prefix + 1)
      BY <1>1, <2>1, <2>3 DEF RecordStep, Counts
    <3> QED
      BY <1>1, <1>2, <2>1, <3>1, ApiNumbers DEF Counts
  <2> QED
    BY <1>7, <2>2, <2>3 DEF Act, LostCall, Steps
<1>8. CASE ApiInitialize \/ AskNoMore \/ ApiEvaluate \/ SafeCloseWorld \/ RestartWorld \/ SaveBegins
  BY <1>3, <1>8 DEF ApiInitialize, AskNoMore, ApiEvaluate, SafeCloseWorld, RestartWorld, SaveBegins, AttemptGoes, Raise
<1> QED
  BY <1>4, <1>5, <1>6, <1>7, <1>8 DEF AttemptStep

LEMMA NamesHold ==
  ASSUME AttemptInv, AttemptStep \/ WorldDies
  PROVE  Names'
<1>1. Names
  BY AttemptInParts
<1>2. path' = path /\ source' = source
  BY FilesChange
<1>3. api' \in ApiSites
  BY <1>1 DEF Names, ApiSites, AttemptStep, ApiInitialize, Replay, Ask, AskNoMore, Act, ApiEvaluate, SafeCloseWorld,
     RestartWorld, SaveBegins, WorldDies, AttemptGoes, Raise, LostCall
<1>4. opened' \in BOOLEAN /\ serving' \in BOOLEAN
  BY <1>1 DEF Names, AttemptStep, ApiInitialize, Replay, Ask, AskNoMore, Act, ApiEvaluate, SafeCloseWorld,
     RestartWorld, SaveBegins, WorldDies, AppWorld
<1>5. status' \in {"completed", "failed"} /\ error' \in ApiErrors
  BY <1>1 DEF Names, ApiErrors, AttemptStep, ApiInitialize, Replay, Ask, AskNoMore, Act, ApiEvaluate, SafeCloseWorld,
     RestartWorld, SaveBegins, WorldDies, Raise, LostCall, Result
<1>6. success' \in BOOLEAN
  <2>1. success' = success \/ success' \in BOOLEAN
    BY DEF AttemptStep, ApiInitialize, Replay, Ask, AskNoMore, Act, ApiEvaluate, SafeCloseWorld,
       RestartWorld, SaveBegins, WorldDies, Raise, LostCall, Result
  <2> QED
    BY <1>1, <2>1 DEF Names
<1>7. api' = "replay" => source # NoPath
  BY <1>1 DEF Names, AttemptStep, ApiInitialize, Replay, Ask, AskNoMore, Act, ApiEvaluate, SafeCloseWorld,
     RestartWorld, SaveBegins, WorldDies, AttemptGoes, Raise, LostCall
<1> QED
  BY <1>1, <1>2, <1>3, <1>4, <1>5, <1>6, <1>7 DEF Names

LEMMA SavedIsTrajectory ==
  ASSUME AttemptInv, NEW writing \in {"torn", "whole"}
  PROVE  Saved(writing) \in Trajectory /\ Saved(writing) # Missing
<1>1. Counts /\ Names
  BY AttemptInParts
<1>2. prefix \in 0 .. TaskInteractions
  BY <1>1, ApiNumbers DEF Counts
<1>3. Saved(writing) \in Trajectory
  BY <1>1, <1>2 DEF Saved, Trajectory, Names
<1>4. Saved(writing).state # Missing.state
  BY DEF Saved, Missing
<1> QED
  BY <1>3, <1>4

LEMMA FilesHold ==
  ASSUME AttemptInv, AttemptStep \/ WorldDies
  PROVE  Files'
<1>1. Files /\ Names
  BY AttemptInParts
<1>2. CASE api' # "returned"
  BY <1>1, <1>2, FilesChange DEF Files
<1>3. CASE api' = "returned"
  <2>1. /\ trajectories' = [trajectories EXCEPT ![path] = Saved("torn")]
        /\ Saved("torn")' = Saved("torn") /\ UNCHANGED <<path, source>>
    BY <1>3, FilesChange DEF Saved
  <2>2. Saved("torn") \in Trajectory /\ Saved("torn") # Missing
    BY SavedIsTrajectory
  <2>3. trajectories' \in [Paths -> Trajectory \cup {Missing}]
    BY <1>1, <2>1, <2>2 DEF Files
  <2>4. trajectories'[path] = Saved("torn") /\ (source # NoPath => trajectories'[source] # Missing)
    BY <1>1, <2>1 DEF Files, Names
  <2> QED
    BY <1>3, <2>1, <2>3, <2>4 DEF Files
<1> QED
  BY <1>2, <1>3

\* An attempt goes on.
LEMMA AttemptGoesOn ==
  ASSUME AttemptInv, AttemptStep \/ WorldDies
  PROVE  /\ AttemptInv'
         /\ UNCHANGED <<path, source>>
         /\ api \notin {"idle", "returned"} /\ api' # "idle"
         /\ \A p \in Paths : p # path => trajectories'[p] = trajectories[p]
<1>1. AttemptInv' <=> Counts' /\ Names' /\ Files'
  BY AttemptInParts, ApiNumbers DEF AttemptInv, ApiTypeOK, Counts, Names, Files
<1>2. AttemptInv'
  BY <1>1, CountsHold, NamesHold, FilesHold
<1>3. \A p \in Paths : p # path => trajectories'[p] = trajectories[p]
  BY FilesChange, AttemptInParts DEF Files
<1> QED
  BY <1>2, <1>3, FilesChange

\* The writing of a trajectory ends.
LEMMA SaveEndsWell ==
  ASSUME AttemptInv, SaveEnds,
         trajectories[path] \in {Saved("torn"), Saved("whole")}
  PROVE  /\ trajectories' \in [Paths -> Trajectory \cup {Missing}]
         /\ trajectories'[path] = Saved("whole")
         /\ \A p \in Paths : p # path => trajectories'[p] = trajectories[p]
<1>1. Files /\ path \in Paths
  BY AttemptInParts DEF Names
<1>2. trajectories' = [trajectories EXCEPT ![path] = [@ EXCEPT !.state = "whole"]]
  BY DEF SaveEnds
<1>3. [trajectories[path] EXCEPT !.state = "whole"] = Saved("whole")
  BY DEF Saved
<1>4. Saved("whole") \in Trajectory
  BY SavedIsTrajectory
<1> QED
  BY <1>1, <1>2, <1>3, <1>4 DEF Files

LEMMA AttemptInPartsAfter == AttemptInv' <=> Counts' /\ Names' /\ Files'
BY ApiNumbers DEF AttemptInv, ApiTypeOK, Counts, Names, Files

\* An attempt that is about to start, or none.
LEMMA AttemptIsFresh ==
  ASSUME AttemptInv, Blank, api' \in {"idle", "initialize"},
         path' \in Paths, source' \in Paths \cup {NoPath}, opened' \in BOOLEAN, serving' \in BOOLEAN,
         total' \in Nat, total' < CostLimit + Price, apiFaults' = apiFaults \/ ApiFault,
         trajectories' \in [Paths -> Trajectory \cup {Missing}],
         source' # NoPath => source' # path' /\ trajectories'[source'] # Missing
  PROVE  AttemptInv'
<1>1. Counts'
  <2>1. Counts
    BY AttemptInParts
  <2>2. apiFaults' \in 0 .. ApiFaults
    BY <2>1, ApiNumbers DEF Counts, ApiFault
  <2> QED
    BY <2>2, ApiNumbers DEF Counts, Blank
<1>2. Names'
  BY DEF Names, Blank, ApiSites, ApiErrors
<1>3. Files'
  BY DEF Files
<1> QED
  BY <1>1, <1>2, <1>3, AttemptInPartsAfter

\* A process that is gone leaves its files.
LEMMA AttemptIsGone ==
  ASSUME AttemptInv, ProcessGone, apiFaults' = apiFaults \/ ApiFault
  PROVE  AttemptInv' /\ api' = "idle" /\ total' = 0 /\ UNCHANGED <<path, trajectories>>
<1>1. /\ path \in Paths /\ trajectories \in [Paths -> Trajectory \cup {Missing}]
      /\ CostLimit \in Nat \ {0} /\ Price \in Nat
  BY AttemptInParts, ApiNumbers DEF Names, Files
<1>2. /\ Blank /\ api' = "idle" /\ source' = NoPath /\ total' = 0 /\ UNCHANGED <<path, trajectories>>
  BY DEF ProcessGone, AttemptOver
<1>3. opened' \in BOOLEAN /\ serving' \in BOOLEAN
  BY DEF ProcessGone
<1>4. total' \in Nat /\ total' < CostLimit + Price
  BY <1>1, <1>2
<1> QED
  BY <1>1, <1>2, <1>3, <1>4, AttemptIsFresh
-----------------------------------------------------------------------------
\* The evaluation: what the summary says of the tasks that are done.
Outcome(t) == [status |-> File(t).status, success |-> File(t).success]
Agrees(t) == summary[t] # NoRow /\ File(t).state = "whole" /\ summary[t] = Outcome(t)

DriverInv ==
  /\ AttemptInv
  /\ DriverTypeOK
  /\ IF driver = "attempt" THEN api # "idle" /\ path = <<task, 0>> ELSE api = "idle"
  /\ driver \in {"task", "attempt", "upsert"} => \A t \in 1 .. task - 1 : Agrees(t)
  /\ driver = "upsert" => /\ row \in ApiRow /\ row = Outcome(task) /\ File(task).state = "whole"
                          /\ error = "cost_limit_reached" => File(task).limited
  /\ driver = "finished" => IF through THEN \A t \in TaskIds : Agrees(t)
                                       ELSE cost_limit_reached \/ File(task).limited

LEMMA TaskPaths ==
  /\ \A t \in TaskIds : <<t, 0>> \in Paths
  /\ \A t, u : <<t, 0>> = <<u, 0>> => t = u
BY ApiNumbers DEF Paths, TaskIds

LEMMA DriverStartsWell == ApiInit /\ DriverInit => DriverInv
<1> SUFFICES ASSUME ApiInit, DriverInit PROVE DriverInv
  OBVIOUS
<1>1. AttemptInv /\ api = "idle"
  BY AttemptStarts DEF ApiInit
<1>2. /\ driver = "down" /\ resume \in BOOLEAN /\ task = 1 /\ tried = 0 /\ row = NoRow /\ through \in BOOLEAN
      /\ summary = [t \in TaskIds |-> NoRow]
  BY DEF DriverInit
<1>3. DriverTypeOK
  BY <1>2, ApiNumbers DEF DriverTypeOK, DriverSites, TaskIds
<1> QED
  BY <1>1, <1>2, <1>3 DEF DriverInv

\* The attempt of the evaluation, and what is between two attempts.
LEMMA DriverAttemptsHold ==
  ASSUME DriverInv, DriverNext
  PROVE  /\ AttemptInv'
         /\ IF driver' = "attempt" THEN api' # "idle" /\ path' = <<task', 0>> ELSE api' = "idle"
<1>1. /\ AttemptInv /\ DriverTypeOK
      /\ IF driver = "attempt" THEN api # "idle" /\ path = <<task, 0>> ELSE api = "idle"
  BY DEF DriverInv
<1>2. /\ task \in TaskIds /\ path \in Paths /\ source \in Paths \cup {NoPath}
      /\ trajectories \in [Paths -> Trajectory \cup {Missing}] /\ total \in Nat /\ total < CostLimit + Price
      /\ source # NoPath => source # path /\ trajectories[source] # Missing
      /\ api = "returned" => trajectories[path] \in {Saved("torn"), Saved("whole")}
  BY <1>1, AttemptInParts DEF Names, Files, Counts, DriverTypeOK
<1>3. opened \in BOOLEAN /\ serving \in BOOLEAN
  BY <1>1, AttemptInParts DEF Names
<1>4. CASE DriverStarts
  <2>1. AttemptInv'
    BY <1>1, <1>4 DEF DriverStarts, apiVars, AttemptInv, ApiTypeOK, Saved
  <2> QED
    BY <1>1, <1>4, <2>1 DEF DriverStarts, apiVars, DriverGoes
<1>5. CASE Resumed
  <2>1. /\ api = "idle" /\ api' = "idle" /\ UNCHANGED <<path, source, total, Steps, status, trajectories, apiFaults>>
        /\ UNCHANGED <<opened, serving, success>>
        /\ error' \in {"cost_limit_reached", "none"} /\ driver' = "upsert"
    BY <1>1, <1>5 DEF Resumed, DriverGoes, AppWorld
  <2>2. Counts'
    BY <1>1, <2>1, AttemptInParts DEF Counts, Steps
  <2>3. Names'
    BY <1>1, <2>1, AttemptInParts DEF Names, ApiErrors
  <2>4. Files'
    BY <1>2, <2>1 DEF Files
  <2> QED
    BY <2>1, <2>2, <2>3, <2>4, AttemptInPartsAfter
<1>6. CASE TaskBegins
  <2>1. /\ Blank /\ api' = "initialize" /\ path' = <<task, 0>> /\ source' = NoPath /\ driver' = "attempt"
        /\ UNCHANGED <<task, total, trajectories, apiFaults>>
    BY <1>6 DEF TaskBegins, BeginAttempt, DriverGoes
  <2>2. opened' \in BOOLEAN /\ serving' \in BOOLEAN
    BY <1>3, <1>6 DEF TaskBegins, BeginAttempt, AppWorld
  <2>3. <<task, 0>> \in Paths
    BY <1>2, TaskPaths
  <2>4. AttemptInv'
    BY <1>1, <1>2, <2>1, <2>2, <2>3, AttemptIsFresh
  <2> QED
    BY <2>1, <2>4
<1>7. CASE DriverAttempt
  BY <1>1, <1>7, AttemptGoesOn DEF DriverAttempt, driverVars
<1>8. CASE TaskTried
  <2>1. /\ driver = "attempt" /\ SaveEnds /\ trajectories[path] \in {Saved("torn"), Saved("whole")}
        /\ UNCHANGED <<task, path, source, total, apiFaults>>
    BY <1>2, <1>8 DEF TaskTried
  <2>2. opened' \in BOOLEAN /\ serving' \in BOOLEAN
    BY <1>3, <1>8 DEF TaskTried, AppWorld
  <2>3. /\ trajectories' \in [Paths -> Trajectory \cup {Missing}]
        /\ source' # NoPath => source' # path' /\ trajectories'[source'] # Missing
    BY <1>1, <1>2, <2>1, SaveEndsWell
  <2>4. CASE driver' = "upsert"
    <3>1. api' = "idle" /\ UNCHANGED <<Steps, Result>>
      BY <1>1, <1>8, <2>1, <2>4 DEF TaskTried
    <3>2. Counts'
      BY <1>1, <2>1, <3>1, AttemptInParts DEF Counts, Steps
    <3>3. Names'
      <4>1. UNCHANGED <<path, source, status, error>> /\ success' = success
        BY <2>1, <3>1 DEF Result
      <4> QED
        BY <1>1, <2>2, <3>1, <4>1, AttemptInParts DEF Names, ApiSites
    <3>4. Files'
      BY <2>3, <3>1 DEF Files
    <3> QED
      BY <2>4, <3>1, <3>2, <3>3, <3>4, AttemptInPartsAfter
  <2>5. CASE driver' # "upsert"
    <3>1. api' = "initialize" /\ Blank /\ driver' = "attempt"
      BY <1>8, <2>1, <2>5 DEF TaskTried
    <3>2. AttemptInv'
      BY <1>1, <1>2, <2>1, <2>2, <2>3, <3>1, AttemptIsFresh
    <3> QED
      BY <1>1, <2>1, <3>1, <3>2
  <2> QED
    BY <2>4, <2>5
<1>9. CASE Upserted
  <2>1. /\ api = "idle" /\ api' = "idle" /\ Blank /\ driver' # "attempt"
        /\ UNCHANGED <<path, source, total, trajectories, apiFaults>>
    BY <1>1, <1>9 DEF Upserted
  <2>2. opened' \in BOOLEAN /\ serving' \in BOOLEAN
    BY <1>3, <1>9 DEF Upserted, AppWorld
  <2>3. AttemptInv'
    BY <1>1, <1>2, <2>1, <2>2, AttemptIsFresh
  <2> QED
    BY <2>1, <2>3
<1>10. CASE DriverExits \/ DriverKilled
  <2>1. /\ ProcessGone /\ driver' = "down"
        /\ apiFaults' = apiFaults \/ ApiFault
    BY <1>10 DEF DriverExits, DriverKilled, ProcessExits, NoApiFault, DriverGoes
  <2> QED
    BY <1>1, <2>1, AttemptIsGone
<1> QED
  BY <1>4, <1>5, <1>6, <1>7, <1>8, <1>9, <1>10 DEF DriverNext

\* What the evaluation keeps of its tasks.
LEMMA TrajectoriesHaveOutcomes ==
  ASSUME AttemptInv, NEW t \in TaskIds, File(t) # Missing
  PROVE  Outcome(t) \in ApiRow /\ Outcome(t) # NoRow
<1>1. trajectories \in [Paths -> Trajectory \cup {Missing}] /\ <<t, 0>> \in Paths
  BY AttemptInParts, TaskPaths DEF Files
<1>2. File(t) \in Trajectory
  BY <1>1 DEF File
<1>3. Outcome(t) \in ApiRow
  BY <1>2 DEF Trajectory, Outcome, ApiRow
<1>4. Outcome(t).status \in {"completed", "failed"} /\ NoRow.status = "none"
  BY <1>3 DEF ApiRow, NoRow
<1> QED
  BY <1>3, <1>4

LEMMA DriverTypesHold ==
  ASSUME DriverInv, DriverNext
  PROVE  DriverTypeOK'
<1>1. DriverTypeOK /\ ApiTasks \in Nat \ {0} /\ TaskRetries \in Nat
  BY ApiNumbers DEF DriverInv
<1>2. CASE DriverStarts
  <2>1. 1 \in TaskIds
    BY <1>1 DEF TaskIds
  <2> QED
    BY <1>1, <1>2, <2>1 DEF DriverStarts, DriverGoes, DriverTypeOK, DriverSites
<1>3. CASE Resumed
  <2>1. File(task) # Missing /\ task \in TaskIds /\ AttemptInv
    BY <1>1, <1>3 DEF Resumed, is_completed_trajectory, DriverTypeOK, DriverInv
  <2>2. [status |-> "completed", success |-> File(task).success] = Outcome(task)
    BY <1>3 DEF Resumed, is_completed_trajectory, Outcome
  <2>3. row' \in ApiRow
    BY <1>3, <2>1, <2>2, TrajectoriesHaveOutcomes DEF Resumed
  <2> QED
    BY <1>1, <1>3, <2>3 DEF Resumed, DriverGoes, DriverTypeOK, DriverSites
<1>4. CASE TaskBegins \/ DriverAttempt
  BY <1>1, <1>4 DEF TaskBegins, DriverAttempt, driverVars, DriverGoes, DriverTypeOK, DriverSites
<1>5. CASE TaskTried
  <2>1. tried' \in 0 .. TaskRetries
    BY <1>1, <1>5 DEF TaskTried, DriverTypeOK
  <2>2. [status |-> status, success |-> success] \in ApiRow
    BY AttemptInParts DEF DriverInv, Names, ApiRow
  <2>3. row' \in ApiRow \cup {NoRow}
    BY <1>1, <1>5, <2>2 DEF TaskTried, DriverTypeOK
  <2>4. driver' \in DriverSites
    BY <1>5 DEF TaskTried, DriverSites
  <2> QED
    BY <1>1, <1>5, <2>1, <2>3, <2>4 DEF TaskTried, DriverTypeOK
<1>6. CASE Upserted
  <2>1. task' \in TaskIds /\ driver' \in DriverSites /\ through' \in BOOLEAN
    <3>1. task' \in TaskIds
      BY <1>1, <1>6 DEF Upserted, DriverTypeOK, TaskIds
    <3>2. through' \in BOOLEAN
      BY <1>1, <1>6 DEF Upserted, DriverTypeOK
    <3> QED
      BY <1>6, <3>1, <3>2 DEF Upserted, DriverSites
  <2> QED
    BY <1>1, <1>6, <2>1 DEF Upserted, DriverTypeOK
<1>7. CASE DriverExits
  BY <1>1, <1>7 DEF DriverExits, DriverGoes, DriverTypeOK, DriverSites
<1>8. CASE DriverKilled
  <2>1. summary' \in [TaskIds -> ApiRow \cup {NoRow}]
    BY <1>1, <1>8 DEF DriverKilled, DriverTypeOK
  <2> QED
    BY <1>1, <1>8, <2>1 DEF DriverKilled, DriverTypeOK, DriverSites
<1> QED
  BY <1>2, <1>3, <1>4, <1>5, <1>6, <1>7, <1>8 DEF DriverNext

LEMMA DriverInductive ==
  ASSUME DriverInv, DriverNext
  PROVE  DriverInv'
<1>1. /\ AttemptInv /\ DriverTypeOK /\ task \in TaskIds
      /\ IF driver = "attempt" THEN api # "idle" /\ path = <<task, 0>> ELSE api = "idle"
  BY DEF DriverInv, DriverTypeOK
<1>2. ApiTasks \in Nat \ {0} /\ task \in 1 .. ApiTasks /\ TaskIds = 1 .. ApiTasks
  BY <1>1, ApiNumbers DEF TaskIds
\* The attempt changes the file of its task only.
<1>3. ASSUME driver = "attempt", DriverAttempt \/ TaskTried
      PROVE  \A t \in 1 .. task - 1 : File(t)' = File(t)
  <2>1. \A p \in Paths : p # path => trajectories'[p] = trajectories[p]
    <3>1. CASE DriverAttempt
      BY <1>1, <3>1, AttemptGoesOn DEF DriverAttempt
    <3>2. CASE TaskTried
      BY <1>1, <3>2, AttemptInParts, SaveEndsWell DEF TaskTried, Files
    <3> QED
      BY <1>3, <3>1, <3>2
  <2>2. SUFFICES ASSUME NEW t \in 1 .. task - 1
                 PROVE  File(t)' = File(t)
    OBVIOUS
  <2>3. t \in TaskIds /\ t # task
    BY <1>2
  <2>4. path = <<task, 0>>
    BY <1>1, <1>3
  <2>5. <<t, 0>> \in Paths /\ <<t, 0>> # path
    BY <2>3, <2>4, TaskPaths
  <2> QED
    BY <2>1, <2>5 DEF File
<1>4. /\ AttemptInv' /\ DriverTypeOK'
      /\ IF driver' = "attempt" THEN api' # "idle" /\ path' = <<task', 0>> ELSE api' = "idle"
  BY DriverAttemptsHold, DriverTypesHold
<1>5. SUFFICES
        /\ driver' \in {"task", "attempt", "upsert"} => \A t \in 1 .. task' - 1 : Agrees(t)'
        /\ driver' = "upsert" => /\ row' \in ApiRow /\ row' = Outcome(task)' /\ File(task)'.state = "whole"
                                 /\ error' = "cost_limit_reached" => File(task)'.limited
        /\ driver' = "finished" => IF through' THEN \A t \in TaskIds : Agrees(t)'
                                               ELSE cost_limit_reached' \/ File(task)'.limited
  BY <1>4 DEF DriverInv
<1>6. CASE DriverStarts
  BY <1>6 DEF DriverStarts, DriverGoes
<1>7. CASE Resumed
  <2>1. /\ driver = "task" /\ driver' = "upsert" /\ UNCHANGED <<task, summary, trajectories>>
        /\ File(task) # Missing /\ File(task).state = "whole" /\ File(task).status = "completed"
        /\ row' = [status |-> "completed", success |-> File(task).success]
        /\ error' = "cost_limit_reached" => File(task).limited
    BY <1>7 DEF Resumed, DriverGoes, is_completed_trajectory
  <2>2. row' = Outcome(task)
    BY <2>1 DEF Outcome
  <2>3. Outcome(task)' = Outcome(task) /\ \A t : File(t)' = File(t)
    BY <2>1 DEF Outcome, File
  <2>4. row' \in ApiRow
    BY <1>1, <2>1, <2>2, TrajectoriesHaveOutcomes
  <2>5. \A t \in 1 .. task' - 1 : Agrees(t)'
    BY <2>1, <2>3 DEF DriverInv, Agrees, Outcome
  <2> QED
    BY <2>1, <2>2, <2>3, <2>4, <2>5
<1>8. CASE TaskBegins
  <2>1. driver = "task" /\ driver' = "attempt" /\ UNCHANGED <<task, summary, trajectories>>
    BY <1>8 DEF TaskBegins, DriverGoes, BeginAttempt
  <2> QED
    BY <2>1 DEF DriverInv, Agrees, Outcome, File
<1>9. CASE DriverAttempt
  <2>1. driver = "attempt" /\ driver' = "attempt" /\ UNCHANGED <<task, summary>>
    BY <1>9 DEF DriverAttempt, driverVars
  <2> QED
    BY <1>3, <1>9, <2>1 DEF DriverInv, Agrees, Outcome
<1>10. CASE TaskTried
  <2>1. /\ driver = "attempt" /\ driver' \in {"attempt", "upsert"} /\ UNCHANGED <<task, summary>>
        /\ driver' = "upsert" => row' = [status |-> status, success |-> success] /\ error' = error
    BY <1>10 DEF TaskTried, Result
  <2>2. \A t \in 1 .. task' - 1 : Agrees(t)'
    BY <1>3, <1>10, <2>1 DEF DriverInv, Agrees, Outcome
  <2>3. File(task)' = Saved("whole")
    BY <1>1, <1>10, <2>1, SaveEndsWell, AttemptInParts DEF TaskTried, Files, File
  <2>4. Saved("whole") # Missing /\ Saved("whole").state = "whole" /\ Saved("whole").status = status
        /\ Saved("whole").success = success /\ Saved("whole").limited = (error = "cost_limit_reached")
    BY <1>1, SavedIsTrajectory DEF Saved
  <2>5. driver' = "upsert" => row' = Outcome(task)' /\ row' \in ApiRow
    <3>1. driver' = "upsert" => row' = Outcome(task)'
      BY <2>1, <2>3, <2>4 DEF Outcome
    <3>2. [status |-> status, success |-> success] \in ApiRow
      BY <1>1, AttemptInParts DEF Names, ApiRow
    <3> QED
      BY <2>1, <3>1, <3>2
  <2> QED
    BY <2>1, <2>2, <2>3, <2>4, <2>5
<1>11. CASE Upserted
  <2>1. /\ driver = "upsert" /\ UNCHANGED <<trajectories, total>>
        /\ summary' = [summary EXCEPT ![task] = row]
        /\ row \in ApiRow /\ row = Outcome(task) /\ File(task).state = "whole"
        /\ \A t \in 1 .. task - 1 : Agrees(t)
        /\ error = "cost_limit_reached" => File(task).limited
    BY <1>11 DEF Upserted, DriverInv
  <2>2. \A t : File(t)' = File(t) /\ Outcome(t)' = Outcome(t)
    BY <2>1 DEF File, Outcome
  <2>3. \A t \in 1 .. task : Agrees(t)'
    <3>1. summary \in [TaskIds -> ApiRow \cup {NoRow}]
      BY <1>1 DEF DriverTypeOK
    <3>2. row # NoRow
      <4>1. row.status \in {"completed", "failed"} /\ NoRow.status = "none"
        BY <2>1 DEF ApiRow, NoRow
      <4> QED
        BY <4>1
    <3>3. \A t \in TaskIds : t = task => Agrees(t)'
      BY <1>1, <2>1, <2>2, <3>1, <3>2 DEF Agrees
    <3>4. \A t \in 1 .. task - 1 : Agrees(t)'
      <4>1. \A t \in 1 .. task - 1 : summary'[t] = summary[t]
        BY <1>2, <2>1, <3>1
      <4> QED
        BY <2>1, <2>2, <4>1 DEF Agrees
    <3>5. \A t \in 1 .. task : (t \in TaskIds /\ t = task) \/ t \in 1 .. task - 1
      BY <1>2
    <3> QED
      BY <3>3, <3>4, <3>5
  <2>4. \/ driver' = "task" /\ task' = task + 1
        \/ /\ driver' = "finished" /\ through' = (task = ApiTasks) /\ task' = task
           /\ cost_limit_reached \/ error = "cost_limit_reached" \/ task = ApiTasks
    BY <1>11 DEF Upserted
  <2>5. CASE driver' = "task" /\ task' = task + 1
    <3>1. 1 .. task' - 1 = 1 .. task
      BY <1>2, <2>5
    <3> QED
      BY <2>3, <2>5, <3>1
  <2>6. CASE /\ driver' = "finished" /\ through' = (task = ApiTasks) /\ task' = task
             /\ cost_limit_reached \/ error = "cost_limit_reached" \/ task = ApiTasks
    <3>1. cost_limit_reached' = cost_limit_reached
      BY <2>1 DEF cost_limit_reached
    <3>2. CASE task = ApiTasks
      BY <1>2, <2>3, <2>6, <3>2
    <3>3. CASE task # ApiTasks
      <4>1. cost_limit_reached' \/ File(task)'.limited
        BY <2>1, <2>2, <2>6, <3>1, <3>3
      <4> QED
        BY <2>6, <3>3, <4>1
    <3> QED
      BY <3>2, <3>3
  <2> QED
    BY <2>4, <2>5, <2>6
<1>12. CASE DriverExits \/ DriverKilled
  BY <1>12 DEF DriverExits, DriverKilled, DriverGoes
<1> QED
  BY <1>6, <1>7, <1>8, <1>9, <1>10, <1>11, <1>12 DEF DriverNext

LEMMA DriverAccounts == DriverInv => EvaluationIsAccounted
<1> SUFFICES ASSUME DriverInv PROVE EvaluationIsAccounted
  OBVIOUS
<1>1. SummaryAgrees
  BY DEF SummaryAgrees, DriverInv, Agrees, Outcome
<1>2. StopsAtLimit
  BY DEF StopsAtLimit, DriverInv
<1> QED
  BY <1>1, <1>2 DEF EvaluationIsAccounted
-----------------------------------------------------------------------------
\* The generation: how many answers an attempt can have paid for so far.
PerTry == TaskInteractions * (Reasks + 1)
Answered ==
  CASE api \in {"idle", "initialize", "replay"} -> 0
    [] api = "ask" -> steps * (Reasks + 1) + reasked
    [] api = "act" -> steps * (Reasks + 1) + reasked + 1
    [] OTHER -> PerTry

LEMMA Products ==
  /\ \A m, n \in Nat : m * n \in Nat
  /\ \A m, n, k \in Nat : m <= n => m * k <= n * k
  /\ \A m, n, k \in Int : (m + n) * k = m * k + n * k
<1>1. ASSUME NEW m \in Nat, NEW n \in Nat PROVE m * n \in Nat
  OBVIOUS
<1>2. ASSUME NEW m \in Int, NEW n \in Int, NEW k \in Int PROVE (m + n) * k = m * k + n * k
  OBVIOUS
<1>3. ASSUME NEW m \in Nat, NEW n \in Nat, NEW k \in Nat, m <= n PROVE m * k <= n * k
  <2>1. n - m \in Nat /\ m + (n - m) = n /\ m * k \in Nat
    BY <1>1, <1>3
  <2>2. (n - m) * k \in Nat
    BY <1>1, <2>1
  <2>3. (m + (n - m)) * k = m * k + (n - m) * k
    BY <1>2, <2>1
  <2>4. n * k = m * k + (n - m) * k
    BY <2>1, <2>3
  <2> QED
    BY <2>1, <2>2, <2>4
<1> QED
  BY <1>1, <1>2, <1>3

LEMMA PaidFor ==
  ASSUME NEW before \in Nat, NEW after \in Nat, NEW paid \in Nat, NEW pays \in Nat, NEW price \in Nat,
         \/ pays = paid /\ before <= after
         \/ pays \in paid .. paid + price /\ after = before + 1
  PROVE  paid <= pays /\ pays - paid <= (after - before) * price
<1>1. CASE pays = paid /\ before <= after
  <2>1. after - before \in Nat
    BY <1>1
  <2>2. (after - before) * price \in Nat
    BY <2>1, Products
  <2> QED
    BY <1>1, <2>2
<1>2. CASE pays \in paid .. paid + price /\ after = before + 1
  <2>1. (after - before) * price = price
    <3>1. after - before = 1
      BY <1>2
    <3>2. 1 * price = price
      OBVIOUS
    <3> QED
      BY <3>1, <3>2
  <2> QED
    BY <1>2, <2>1
<1> QED
  BY <1>1, <1>2

\* The answers to the first interactions of an attempt.
LEMMA AnswersOf ==
  ASSUME NEW s \in 0 .. TaskInteractions
  PROVE  /\ s * (Reasks + 1) \in Nat
         /\ PerTry \in Nat
         /\ s * (Reasks + 1) <= PerTry
         /\ s < TaskInteractions => (s + 1) * (Reasks + 1) <= PerTry
         /\ (s + 1) * (Reasks + 1) = s * (Reasks + 1) + Reasks + 1
<1>1. s \in Nat /\ s + 1 \in Nat /\ Reasks + 1 \in Nat /\ TaskInteractions \in Nat /\ Reasks \in Nat
  BY ApiNumbers
<1>2. s * (Reasks + 1) \in Nat /\ PerTry \in Nat
  BY <1>1, Products DEF PerTry
<1>3. s * (Reasks + 1) <= PerTry
  BY <1>1, Products DEF PerTry
<1>4. s < TaskInteractions => (s + 1) * (Reasks + 1) <= PerTry
  BY <1>1, Products DEF PerTry
<1>5. (s + 1) * (Reasks + 1) = s * (Reasks + 1) + Reasks + 1
  <2>1. (s + 1) * (Reasks + 1) = s * (Reasks + 1) + 1 * (Reasks + 1)
    BY <1>1, Products
  <2> QED
    BY <1>1, <2>1
<1> QED
  BY <1>2, <1>3, <1>4, <1>5

LEMMA AnsweredIsBounded ==
  ASSUME AttemptInv
  PROVE  Answered \in Nat /\ Answered <= PerTry
<1>1. /\ steps \in 0 .. TaskInteractions /\ reasked \in 0 .. Reasks /\ Reasks \in Nat /\ TaskInteractions \in Nat
      /\ steps = TaskInteractions => reasked = 0
      /\ api = "act" => steps < TaskInteractions
  BY AttemptInParts, ApiNumbers DEF Counts
<1>2. /\ steps * (Reasks + 1) \in Nat /\ PerTry \in Nat /\ steps * (Reasks + 1) <= PerTry
      /\ steps < TaskInteractions => steps * (Reasks + 1) + Reasks + 1 <= PerTry
  BY <1>1, AnswersOf
<1> DEFINE earlier == steps * (Reasks + 1)
<1> HIDE DEF earlier
<1>3. /\ earlier \in Nat /\ PerTry \in Nat /\ earlier <= PerTry
      /\ steps < TaskInteractions => earlier + Reasks + 1 <= PerTry
  BY <1>2 DEF earlier
<1>4. Answered = (CASE api \in {"idle", "initialize", "replay"} -> 0
                    [] api = "ask" -> earlier + reasked
                    [] api = "act" -> earlier + reasked + 1
                    [] OTHER -> PerTry)
  BY DEF Answered, earlier
<1>5. steps < TaskInteractions \/ reasked = 0
  BY <1>1
<1> QED
  BY <1>1, <1>3, <1>4, <1>5

\* Every step pays for at most the answers it gets.
LEMMA AnswersArePaid ==
  ASSUME AttemptInv, AttemptStep \/ WorldDies
  PROVE  /\ total' \in Nat /\ total <= total'
         /\ Answered' \in Nat
         /\ total' - total <= (Answered' - Answered) * Price
<1> DEFINE wanted == steps * (Reasks + 1)
           asked1 == wanted + Reasks + 1
<1>1. /\ AttemptInv' /\ total \in Nat /\ total' \in Nat
      /\ steps \in 0 .. TaskInteractions /\ reasked \in 0 .. Reasks /\ Reasks \in Nat /\ Price \in Nat
      /\ TaskInteractions \in Nat /\ api # "returned" /\ api # "idle"
      /\ api = "act" => steps < TaskInteractions
  BY AttemptGoesOn, AttemptInParts, AttemptInPartsAfter, ApiNumbers DEF Counts
<1>2. /\ Answered \in Nat /\ Answered <= PerTry /\ PerTry \in Nat
      /\ Answered' \in Nat /\ Answered' <= PerTry
  <2>1. (AttemptInv => Answered \in Nat /\ Answered <= PerTry)'
    BY AnsweredIsBounded, PTL
  <2> QED
    BY <1>1, <2>1, AnsweredIsBounded, AnswersOf DEF PerTry
<1>3. /\ wanted \in Nat /\ wanted <= PerTry
      /\ steps < TaskInteractions => asked1 <= PerTry
      /\ (steps + 1) * (Reasks + 1) = asked1
  BY <1>1, AnswersOf
<1> HIDE DEF wanted
<1>4. /\ api \in {"initialize", "replay"} => Answered = 0
      /\ api = "ask" => Answered = wanted + reasked
      /\ api = "act" => Answered = wanted + reasked + 1
      /\ api \notin {"initialize", "replay", "ask", "act"} => Answered = PerTry
  BY <1>1 DEF Answered, wanted
<1>5. /\ api' = "ask" /\ steps' = steps => Answered' = wanted + reasked'
      /\ api' = "ask" /\ steps' = steps + 1 /\ reasked' = 0 => Answered' = asked1
      /\ api' = "act" /\ steps' = steps => Answered' = wanted + reasked' + 1
      /\ api' \notin {"idle", "initialize", "replay", "ask", "act"} => Answered' = PerTry
  BY <1>1, <1>3 DEF Answered, wanted
<1>6. api' \in ApiSites
  BY <1>1, AttemptInPartsAfter DEF Names
<1>7. \/ total' = total /\ Answered <= Answered'
      \/ total' \in total .. total + Price /\ Answered' = Answered + 1
  <2>1. CASE ApiInitialize \/ Replay
    <3>1. total' = total /\ api \in {"initialize", "replay"}
      BY <2>1 DEF ApiInitialize, Replay
    <3> QED
      BY <1>2, <1>4, <3>1
  <2>2. CASE Ask
    <3>1. api = "ask" /\ steps' = steps
      BY <2>2 DEF Ask
    <3>2. CASE api' \in {"ask", "act"}
      <4>1. /\ \E price \in 0 .. Price : total' = total + price
            /\ \/ api' = "act" /\ reasked' = reasked
               \/ api' = "ask" /\ reasked' = reasked + 1
        BY <2>2, <3>1, <3>2 DEF Ask, Raise
      <4>2. total' \in total .. total + Price
        BY <1>1, <4>1
      <4>3. Answered' = Answered + 1
        BY <1>1, <1>3, <1>4, <1>5, <3>1, <4>1
      <4> QED
        BY <4>2, <4>3
    <3>3. CASE api' \notin {"ask", "act"}
      <4>1. total' = total /\ api' \in {"close", "restart"}
        BY <2>2, <3>1, <3>3 DEF Ask, Raise
      <4> QED
        BY <1>2, <1>5, <4>1
    <3> QED
      BY <3>2, <3>3
  <2>3. CASE Act
    <3>1. total' = total /\ api = "act"
      BY <2>3 DEF Act
    <3>2. CASE api' = "ask"
      <4>1. steps' = steps + 1 /\ reasked' = 0
        BY <2>3, <3>2 DEF Act, RecordStep, LostCall, Raise
      <4> QED
        BY <1>1, <1>3, <1>4, <1>5, <3>1, <3>2, <4>1
    <3>3. CASE api' # "ask"
      <4>1. api' \in {"evaluate", "close", "restart"}
        BY <2>3, <3>3 DEF Act, LostCall, Raise
      <4> QED
        BY <1>2, <1>5, <3>1, <4>1
    <3> QED
      BY <3>2, <3>3
  <2>4. CASE AskNoMore \/ ApiEvaluate \/ SafeCloseWorld \/ RestartWorld \/ SaveBegins
    <3>1. total' = total /\ api' \in {"evaluate", "close", "restart", "save", "returned"}
      BY <2>4 DEF AskNoMore, ApiEvaluate, SafeCloseWorld, RestartWorld, SaveBegins, AttemptGoes, Raise
    <3> QED
      BY <1>2, <1>5, <3>1
  <2>5. CASE WorldDies
    <3>1. total' = total /\ Answered' = Answered
      BY <2>5 DEF WorldDies, Steps, Answered
    <3> QED
      BY <1>2, <3>1
  <2> QED
    BY <2>1, <2>2, <2>3, <2>4, <2>5 DEF AttemptStep
<1> QED
  BY <1>1, <1>2, <1>7, PaidFor

\* What the manifest has of a task, and the attempt under way: its place is the
\* next one of its task.
RecordedOf(t) == {i \in DOMAIN manifest.jobs : manifest.jobs[i].path[1] = t}
NextPlace(t) == Cardinality(RecordedOf(t))
AtWork == {"attempt", "annotate", "record"}

Books ==
  /\ manifest.jobs \in Seq(Job) /\ jobs \in Seq(Job)
  /\ manifest.cost \in Nat /\ manifest.cost < CostLimit + Price
  /\ teacher # "down" => jobs = manifest.jobs /\ manifest.cost <= total
  /\ teacher \in {"round", "finished"} => total = manifest.cost

Numbered ==
  \A i \in DOMAIN manifest.jobs : manifest.jobs[i].path[2] < NextPlace(manifest.jobs[i].path[1])

Work ==
  /\ teacher \in TeacherSites /\ retry \in 0 .. TaskRetries
  /\ IF teacher \in AtWork THEN api # "idle" /\ path[2] = NextPlace(path[1]) ELSE api = "idle"
  /\ teacher = "annotate" => api = "returned" /\ trajectories[path] = Saved("whole")
  /\ teacher = "record" => api = "returned" /\ trajectories[path] = Saved("torn")

Spending ==
  /\ spent \in Nat /\ kills \in Nat
  /\ spent <= (IF teacher = "down" THEN manifest.cost ELSE total) + kills * MaxAttemptCost
  /\ teacher \in AtWork => total - manifest.cost <= (retry * PerTry + Answered) * Price

TeacherInv ==
  /\ AttemptInv
  /\ Books
  /\ Numbered
  /\ Work
  /\ JobsHaveTrajectories
  /\ Spending

LEMMA CostOfAttempt ==
  /\ MaxAttemptCost \in Nat
  /\ \A tries \in 0 .. TaskRetries : \A answers \in 0 .. PerTry :
       /\ tries * PerTry \in Nat
       /\ (tries * PerTry + answers) * Price <= MaxAttemptCost
       /\ (tries + 1) * PerTry = tries * PerTry + PerTry
<1>1. /\ TaskRetries \in Nat /\ TaskInteractions \in Nat /\ Reasks + 1 \in Nat /\ Price \in Nat /\ PerTry \in Nat
  BY ApiNumbers, Products DEF PerTry
<1>2. MaxAttemptCost = ((TaskRetries + 1) * PerTry) * Price
  <2>1. ASSUME NEW a \in Nat, NEW b \in Nat, NEW c \in Nat PROVE a * b * c = a * (b * c)
    OBVIOUS
  <2> QED
    BY <1>1, <2>1 DEF MaxAttemptCost, PerTry
<1>3. (TaskRetries + 1) * PerTry \in Nat
  BY <1>1, Products
<1>4. MaxAttemptCost \in Nat
  BY <1>1, <1>2, <1>3, Products
<1>5. ASSUME NEW tries \in 0 .. TaskRetries, NEW answers \in 0 .. PerTry
      PROVE  /\ tries * PerTry \in Nat
             /\ (tries * PerTry + answers) * Price <= MaxAttemptCost
             /\ (tries + 1) * PerTry = tries * PerTry + PerTry
  <2>1. tries * PerTry \in Nat /\ (tries + 1) * PerTry <= (TaskRetries + 1) * PerTry
    <3>1. tries \in Nat /\ tries + 1 \in Nat /\ TaskRetries + 1 \in Nat /\ tries + 1 <= TaskRetries + 1
      BY <1>1
    <3> QED
      BY <1>1, <3>1, Products
  <2>2. (tries + 1) * PerTry = tries * PerTry + PerTry
    <3>1. (tries + 1) * PerTry = tries * PerTry + 1 * PerTry
      BY <1>1, Products
    <3> QED
      BY <1>1, <3>1
  <2>3. tries * PerTry + answers \in Nat /\ tries * PerTry + answers <= (TaskRetries + 1) * PerTry
    BY <1>1, <1>3, <2>1, <2>2
  <2> QED
    BY <1>1, <1>2, <1>3, <2>1, <2>2, <2>3, Products
<1> QED
  BY <1>4, <1>5

\* The attempt under way has a place that no recorded job has.
LEMMA PathIsNew ==
  ASSUME TeacherInv, teacher \in AtWork, NEW i \in DOMAIN manifest.jobs
  PROVE  manifest.jobs[i].path # path /\ manifest.jobs[i].path \in Paths
<1>1. manifest.jobs[i] \in Job
  BY DEF TeacherInv, Books
<1>2. manifest.jobs[i].path \in Paths
  BY <1>1 DEF Job
<1>3. /\ manifest.jobs[i].path[2] < NextPlace(manifest.jobs[i].path[1])
      /\ path[2] = NextPlace(path[1])
  BY DEF TeacherInv, Numbered, Work
<1>4. manifest.jobs[i].path[2] \in Int
  BY <1>2, ApiNumbers DEF Paths
<1>5. ASSUME manifest.jobs[i].path = path PROVE FALSE
  BY <1>3, <1>4, <1>5
<1> QED
  BY <1>2, <1>5

\* What is not recorded may change.
LEMMA JobsKeepTrajectories ==
  ASSUME TeacherInv, teacher \in AtWork, manifest'.jobs = manifest.jobs,
         \A p \in Paths : p # path => trajectories'[p] = trajectories[p]
  PROVE  JobsHaveTrajectories'
<1>1. SUFFICES ASSUME NEW i \in DOMAIN manifest.jobs
               PROVE  LET entry == manifest.jobs[i]
                      IN  trajectories'[entry.path] # Missing /\ trajectories'[entry.path].state = "whole"
                          /\ trajectories'[entry.path].success = entry.success
  BY DEF JobsHaveTrajectories
<1>2. trajectories'[manifest.jobs[i].path] = trajectories[manifest.jobs[i].path]
  BY PathIsNew
<1> QED
  BY <1>2 DEF TeacherInv, JobsHaveTrajectories

LEMMA TeacherStartsWell == ApiInit /\ TeacherInit => TeacherInv
<1> SUFFICES ASSUME ApiInit, TeacherInit PROVE TeacherInv
  OBVIOUS
<1>1. AttemptInv /\ api = "idle"
  BY AttemptStarts DEF ApiInit
<1>2. /\ teacher = "down" /\ retry = 0 /\ jobs = <<>> /\ manifest = [jobs |-> <<>>, cost |-> 0]
      /\ spent = 0 /\ kills = 0
  BY DEF TeacherInit
<1>3. manifest.jobs = <<>> /\ manifest.cost = 0
  BY <1>2
<1>4. Books
  BY <1>2, <1>3, ApiNumbers DEF Books
<1>5. Work
  BY <1>1, <1>2, ApiNumbers DEF Work, TeacherSites, AtWork
<1>6. JobsHaveTrajectories /\ Numbered
  BY <1>3 DEF JobsHaveTrajectories, Numbered
<1>7. Spending
  <2>1. 0 * MaxAttemptCost = 0
    BY CostOfAttempt
  <2> QED
    BY <1>2, <1>3, <2>1 DEF Spending, AtWork
<1> QED
  BY <1>1, <1>4, <1>5, <1>6, <1>7 DEF TeacherInv

LEMMA BooksInductive ==
  ASSUME TeacherInv, TeacherNext, AttemptInv'
  PROVE  Books'
<1>1. /\ manifest.jobs \in Seq(Job) /\ jobs \in Seq(Job)
      /\ manifest.cost \in Nat /\ manifest.cost < CostLimit + Price
      /\ teacher # "down" => jobs = manifest.jobs /\ manifest.cost <= total
      /\ teacher \in {"round", "finished"} => total = manifest.cost
      /\ total \in Nat /\ total < CostLimit + Price /\ total' \in Nat /\ total' < CostLimit + Price
  BY AttemptInParts, AttemptInPartsAfter DEF TeacherInv, Books, Counts
<1>2. AttemptInv /\ CostLimit \in Nat /\ Price \in Nat
  BY ApiNumbers DEF TeacherInv
<1>3. CASE TeacherStarts
  BY <1>1, <1>3 DEF TeacherStarts, TeacherGoes, Books
<1>4. CASE BeginJob \/ NextRound
  <2>1. /\ UNCHANGED <<jobs, manifest, total>> /\ teacher = "round" /\ teacher' # "down"
    BY <1>4 DEF BeginJob, NextRound, BeginAttempt, apiVars
  <2> QED
    BY <1>1, <2>1 DEF Books
<1>5. CASE Attempt \/ AttemptEnds \/ Annotate
  <2>1. /\ UNCHANGED <<jobs, manifest>> /\ teacher # "down" /\ teacher' \notin {"round", "finished"}
    BY <1>5 DEF Attempt, AttemptEnds, Annotate, TeacherGoes
  <2>2. total <= total'
    <3>1. CASE Attempt
      BY <1>2, <3>1, AnswersArePaid DEF Attempt
    <3>2. CASE AttemptEnds \/ Annotate
      BY <1>1, <3>2 DEF AttemptEnds, Annotate
    <3> QED
      BY <1>5, <3>1, <3>2
  <2> QED
    BY <1>1, <1>2, <2>1, <2>2 DEF Books
<1>6. CASE RecordJob
  <2>1. PICK admitted \in {success, FALSE} :
           jobs' = Append(jobs, [path |-> path, success |-> success, accepted |-> admitted])
    BY <1>6 DEF RecordJob
  <2>2. path \in Paths /\ success \in BOOLEAN /\ admitted \in BOOLEAN
    BY <1>2, AttemptInParts DEF Names
  <2>3. [path |-> path, success |-> success, accepted |-> admitted] \in Job
    BY <2>2 DEF Job
  <2>4. jobs' \in Seq(Job)
    BY <1>1, <2>1, <2>3
  <2>5. total' = total /\ manifest'.jobs = jobs' /\ manifest'.cost = total
    BY <1>6 DEF RecordJob
  <2> QED
    BY <1>1, <2>4, <2>5 DEF Books
<1>7. CASE TeacherExits
  <2>1. /\ teacher = "finished" /\ teacher' = "down" /\ manifest'.jobs = jobs /\ manifest'.cost = total
        /\ jobs' = <<>>
    BY <1>7 DEF TeacherExits, TeacherGoes, Forgotten
  <2> QED
    BY <1>1, <2>1 DEF Books
<1>8. CASE TeacherKilled
  <2>1. /\ teacher' = "down" /\ UNCHANGED manifest /\ jobs' = <<>>
    BY <1>8 DEF TeacherKilled, Forgotten
  <2> QED
    BY <1>1, <2>1 DEF Books
<1> QED
  BY <1>3, <1>4, <1>5, <1>6, <1>7, <1>8 DEF TeacherNext, TeacherStep

\* Only the recording of a job changes what is in the manifest.
LEMMA JobsChange ==
  ASSUME TeacherInv, TeacherNext, ~RecordJob
  PROVE  manifest'.jobs = manifest.jobs /\ \A t : NextPlace(t)' = NextPlace(t)
<1>1. manifest'.jobs = manifest.jobs
  BY DEF TeacherInv, Books, TeacherNext, TeacherStep, TeacherStarts, BeginJob, NextRound, Attempt, AttemptEnds, Annotate,
     TeacherExits, TeacherKilled, TeacherGoes
<1> QED
  BY <1>1 DEF NextPlace, RecordedOf

LEMMA NumberedInductive ==
  ASSUME TeacherInv, TeacherNext
  PROVE  Numbered'
<1>1. CASE ~RecordJob
  BY <1>1, JobsChange DEF TeacherInv, Numbered
<1>2. CASE RecordJob
  <2> DEFINE n == Len(jobs)
             earlier(t) == {i \in 1 .. n : jobs[i].path[1] = t}
  <2>1. /\ manifest.jobs = jobs /\ jobs \in Seq(Job) /\ manifest'.jobs = jobs' /\ teacher \in AtWork
    BY <1>2 DEF RecordJob, TeacherGoes, TeacherInv, Books, AtWork
  <2>2. PICK admitted \in {success, FALSE} :
           jobs' = Append(jobs, [path |-> path, success |-> success, accepted |-> admitted])
    BY <1>2 DEF RecordJob
  <2>3. /\ n \in Nat /\ DOMAIN jobs = 1 .. n /\ DOMAIN jobs' = 1 .. n + 1
        /\ \A i \in 1 .. n : jobs'[i] = jobs[i]
        /\ jobs'[n + 1].path = path
    BY <2>1, <2>2
  <2>4. /\ \A t : NextPlace(t) = Cardinality(earlier(t))
        /\ \A t : NextPlace(t)' = Cardinality({i \in 1 .. n + 1 : jobs'[i].path[1] = t})
    BY <2>1, <2>3 DEF NextPlace, RecordedOf
  <2>5. ASSUME NEW t
        PROVE  /\ NextPlace(t) \in Nat
               /\ NextPlace(t)' = IF t = path[1] THEN NextPlace(t) + 1 ELSE NextPlace(t)
    <3>1. 1 \in Int /\ n \in Int
      BY <2>3
    <3>2. IsFiniteSet(1 .. n) /\ earlier(t) \subseteq 1 .. n
      BY <3>1, FS_Interval
    <3>3. IsFiniteSet(earlier(t)) /\ Cardinality(earlier(t)) \in Nat
      BY <3>2, FS_Subset, FS_CardinalityType
    <3>4. CASE t # path[1]
      <4>1. {i \in 1 .. n + 1 : jobs'[i].path[1] = t} = earlier(t)
        BY <2>3, <3>4
      <4> QED
        BY <2>4, <3>3, <3>4, <4>1
    <3>5. CASE t = path[1]
      <4>1. {i \in 1 .. n + 1 : jobs'[i].path[1] = t} = earlier(t) \cup {n + 1}
        BY <2>3, <3>5
      <4>2. n + 1 \notin earlier(t)
        BY <2>3
      <4>3. Cardinality(earlier(t) \cup {n + 1}) = Cardinality(earlier(t)) + 1
        BY <3>3, <4>2, FS_AddElement
      <4> QED
        BY <2>4, <3>3, <3>5, <4>1, <4>3
    <3> QED
      BY <3>4, <3>5
  <2>6. path[2] = NextPlace(path[1])
    BY <2>1 DEF TeacherInv, Work
  <2> HIDE DEF earlier
  <2>7. ASSUME NEW i \in 1 .. n + 1, NEW t, t = jobs'[i].path[1]
        PROVE  jobs'[i].path[2] < NextPlace(t)'
    <3>1. CASE i = n + 1
      <4>1. t = path[1] /\ jobs'[i].path[2] = NextPlace(t)
        BY <2>3, <2>6, <2>7, <3>1
      <4> QED
        BY <2>5, <4>1
    <3>2. CASE i # n + 1
      <4>1. i \in 1 .. n /\ jobs'[i] = jobs[i] /\ i \in DOMAIN manifest.jobs /\ manifest.jobs[i] = jobs[i]
        BY <2>1, <2>3, <3>2
      <4>2. jobs[i] \in Job
        BY <2>1, <2>3, <4>1
      <4>3. jobs[i].path[2] \in Nat
        BY <4>2, ApiNumbers DEF Job, Paths
      <4>4. jobs[i].path[2] < NextPlace(t)
        BY <2>7, <4>1 DEF TeacherInv, Numbered
      <4> QED
        BY <2>5, <4>1, <4>3, <4>4
    <3> QED
      BY <3>1, <3>2
  <2> QED
    BY <2>1, <2>3, <2>7 DEF Numbered
<1> QED
  BY <1>1, <1>2

\* A new attempt has a place of its own, and is repaired from a recorded one.
LEMMA NewAttempt ==
  ASSUME TeacherInv, teacher = "round", NEW t \in TeacherIds, Wanted(t)
  PROVE  /\ <<t, Tried(t)>> \in Paths /\ Tried(t) = NextPlace(t)
         /\ RepairSource(t) \in Paths \cup {NoPath}
         /\ RepairSource(t) # NoPath =>
              RepairSource(t) # <<t, Tried(t)>> /\ trajectories[RepairSource(t)] # Missing
<1>1. jobs = manifest.jobs /\ jobs \in Seq(Job)
  BY DEF TeacherInv, Books
<1>2. Tried(t) = NextPlace(t)
  BY <1>1 DEF Tried, JobsOf, NextPlace, RecordedOf
<1>3. /\ Len(jobs) \in Nat /\ DOMAIN jobs = 1 .. Len(jobs)
      /\ \A i \in DOMAIN jobs : jobs[i] \in Job
  BY <1>1
<1>4. Tried(t) \in Nat
  <2>1. IsFiniteSet(1 .. Len(jobs)) /\ JobsOf(t) \subseteq 1 .. Len(jobs)
    <3>1. 1 \in Int /\ Len(jobs) \in Int
      BY <1>3
    <3> QED
      BY <1>3, <3>1, FS_Interval DEF JobsOf
  <2> QED
    BY <2>1, FS_Subset, FS_CardinalityType DEF Tried
<1>5. <<t, Tried(t)>> \in Paths
  <2>1. t \in TaskIds
    BY TeacherAssumption, ApiNumbers DEF TeacherIds, TaskIds
  <2>2. Tried(t) \in 0 .. Attempts - 1
    BY <1>4, ApiNumbers DEF Wanted
  <2> QED
    BY <2>1, <2>2 DEF Paths
<1> DEFINE failed == {i \in JobsOf(t) : ~jobs[i].success}
<1>6. CASE failed = {}
  BY <1>2, <1>5, <1>6 DEF RepairSource
<1>7. CASE failed # {}
  <2>1. failed \subseteq 1 .. Len(jobs)
    BY <1>3 DEF JobsOf
  <2>2. Max(failed) \in failed
    BY ONLY <1>3, <1>7, <2>1, MaxOfNumbers
  <2>3. PICK i \in failed : RepairSource(t) = jobs[i].path
    BY <1>7, <2>2 DEF RepairSource
  <2>4. i \in DOMAIN jobs /\ jobs[i] \in Job /\ jobs[i].path[1] = t
    BY <1>3, <2>3 DEF JobsOf
  <2>5. jobs[i].path \in Paths /\ jobs[i].path[2] \in Int
    BY <2>4, ApiNumbers DEF Job, Paths
  <2>6. jobs[i].path[2] < NextPlace(t)
    BY <1>1, <2>4 DEF TeacherInv, Numbered
  <2>7. trajectories[jobs[i].path] # Missing
    BY <1>1, <2>4 DEF TeacherInv, JobsHaveTrajectories
  <2>8. jobs[i].path # <<t, Tried(t)>>
    <3>1. SUFFICES ASSUME jobs[i].path = <<t, Tried(t)>> PROVE FALSE
      OBVIOUS
    <3>2. jobs[i].path[2] = Tried(t)
      BY <3>1
    <3> QED
      BY <1>2, <2>5, <2>6, <3>2
  <2> QED
    BY <1>2, <1>5, <2>3, <2>5, <2>7, <2>8
<1> QED
  BY <1>6, <1>7

LEMMA TeacherAttemptsHold ==
  ASSUME TeacherInv, TeacherNext
  PROVE  AttemptInv' /\ Work'
<1>1. AttemptInv /\ Work /\ Books
  BY DEF TeacherInv
<1>2. /\ path \in Paths /\ source \in Paths \cup {NoPath} /\ TaskRetries \in Nat
      /\ trajectories \in [Paths -> Trajectory \cup {Missing}] /\ total \in Nat /\ total < CostLimit + Price
      /\ source # NoPath => source # path /\ trajectories[source] # Missing
      /\ api = "returned" => trajectories[path] \in {Saved("torn"), Saved("whole")}
  BY <1>1, ApiNumbers, AttemptInParts DEF Names, Files, Counts
<1>3. opened \in BOOLEAN /\ serving \in BOOLEAN
  BY <1>1, AttemptInParts DEF Names
<1>4. CASE TeacherStarts
  <2>1. /\ api = "idle" /\ retry' = 0 /\ teacher' = "round" /\ total' \in Nat /\ total' < CostLimit + Price
        /\ UNCHANGED <<api, path, source, steps, prefix, reasked, status, error, trajectories, apiFaults>>
        /\ UNCHANGED <<opened, serving, success>>
    BY <1>1, <1>4 DEF TeacherStarts, TeacherGoes, Work, Books, AtWork, AppWorld, Steps, Result
  <2>2. Counts'
    BY <1>1, <2>1, AttemptInParts DEF Counts
  <2>3. Names'
    BY <1>1, <2>1, AttemptInParts DEF Names
  <2>4. Files'
    BY <1>2, <2>1 DEF Files
  <2>5. Work'
    BY <1>2, <2>1 DEF Work, TeacherSites, AtWork
  <2> QED
    BY <2>2, <2>3, <2>4, <2>5, AttemptInPartsAfter
<1>5. CASE BeginJob
  <2>1. PICK t \in TeacherIds :
          IF Wanted(t) THEN teacher' = "attempt" /\ BeginAttempt(<<t, Tried(t)>>, RepairSource(t))
                       ELSE UNCHANGED <<teacher, apiVars>>
    BY <1>5 DEF BeginJob
  <2>2. /\ teacher = "round" /\ retry' = 0 /\ UNCHANGED manifest /\ api = "idle"
    BY <1>1, <1>5 DEF BeginJob, Work, AtWork
  <2>3. CASE ~Wanted(t)
    <3>1. AttemptInv'
      BY <1>1, <2>1, <2>3 DEF apiVars, AttemptInv, ApiTypeOK, Saved
    <3>2. Work'
      BY <1>2, <2>1, <2>2, <2>3 DEF apiVars, Work, TeacherSites, AtWork
    <3> QED
      BY <3>1, <3>2
  <2>4. CASE Wanted(t)
    <3>1. /\ Blank /\ api' = "initialize" /\ path' = <<t, Tried(t)>> /\ source' = RepairSource(t)
          /\ UNCHANGED <<opened, serving, total, trajectories, apiFaults>> /\ teacher' = "attempt"
      BY <2>1, <2>4 DEF BeginAttempt, AppWorld
    <3>2. /\ path' \in Paths /\ Tried(t) = NextPlace(t) /\ source' \in Paths \cup {NoPath}
          /\ source' # NoPath => source' # path' /\ trajectories'[source'] # Missing
      BY <2>2, <2>4, <3>1, NewAttempt
    <3>3. AttemptInv'
      BY <1>1, <1>2, <1>3, <3>1, <3>2, AttemptIsFresh
    <3>4. \A u : NextPlace(u)' = NextPlace(u)
      BY <2>2 DEF NextPlace, RecordedOf
    <3>5. path'[1] = t /\ path'[2] = NextPlace(t)
      BY <3>1, <3>2
    <3>6. path'[2] = NextPlace(path[1])'
      BY <3>4, <3>5
    <3> QED
      BY <1>2, <2>2, <3>1, <3>3, <3>6 DEF Work, TeacherSites, AtWork
  <2> QED
    BY <2>3, <2>4
<1>6. CASE NextRound
  <2>1. /\ UNCHANGED <<apiVars, manifest, retry>> /\ teacher = "round" /\ teacher' \in {"round", "finished"}
    BY <1>6 DEF NextRound
  <2>2. AttemptInv'
    BY <1>1, <2>1 DEF apiVars, AttemptInv, ApiTypeOK, Saved
  <2> QED
    BY <1>1, <2>1, <2>2 DEF apiVars, Work, TeacherSites, AtWork
<1>7. CASE Attempt
  <2>1. /\ AttemptInv' /\ api' # "idle" /\ path' = path /\ UNCHANGED <<manifest, retry>>
        /\ teacher = "attempt" /\ teacher' = "attempt"
    BY <1>1, <1>7, AttemptGoesOn DEF Attempt
  <2>2. NextPlace(path[1])' = NextPlace(path[1])
    BY <2>1 DEF NextPlace, RecordedOf
  <2> QED
    BY <1>1, <2>1, <2>2 DEF Work, TeacherSites, AtWork
<1>8. CASE AttemptEnds
  <2>1. /\ teacher = "attempt" /\ SaveEnds /\ trajectories[path] \in {Saved("torn"), Saved("whole")}
        /\ UNCHANGED <<manifest, path, source, total, apiFaults>> /\ api = "returned"
    BY <1>2, <1>8 DEF AttemptEnds
  <2>2. opened' \in BOOLEAN /\ serving' \in BOOLEAN
    BY <1>3, <1>8 DEF AttemptEnds, AppWorld
  <2>3. /\ trajectories' \in [Paths -> Trajectory \cup {Missing}] /\ trajectories'[path] = Saved("whole")
        /\ source' # NoPath => source' # path' /\ trajectories'[source'] # Missing
    BY <1>1, <1>2, <2>1, SaveEndsWell
  <2>4. NextPlace(path[1])' = NextPlace(path[1]) /\ path'[2] = NextPlace(path[1])
    BY <1>1, <2>1 DEF NextPlace, RecordedOf, Work, AtWork
  <2>5. CASE teacher' = "annotate"
    <3>1. UNCHANGED <<api, Steps, Result, retry>>
      BY <1>8, <2>1, <2>5 DEF AttemptEnds
    <3>2. Counts'
      BY <1>1, <2>1, <3>1, AttemptInParts DEF Counts, Steps
    <3>3. Saved("whole")' = Saved("whole") /\ Saved("torn")' = Saved("torn")
      BY <3>1 DEF Saved, Steps, Result
    <3>4. Names'
      <4>1. UNCHANGED <<api, path, source, status, error>> /\ success' = success
        BY <2>1, <3>1 DEF Result
      <4> QED
        BY <1>1, <2>2, <4>1, AttemptInParts DEF Names
    <3>5. Files'
      BY <2>1, <2>3, <3>1, <3>3 DEF Files
    <3>6. Work'
      BY <1>1, <2>1, <2>3, <2>4, <2>5, <3>1, <3>3 DEF Work, TeacherSites, AtWork
    <3> QED
      BY <3>2, <3>4, <3>5, <3>6, AttemptInPartsAfter
  <2>6. CASE teacher' # "annotate"
    <3>1. /\ api' = "initialize" /\ Blank /\ teacher' = "attempt"
          /\ retry' = retry + 1
      BY <1>8, <2>1, <2>6 DEF AttemptEnds
    <3>2. AttemptInv'
      BY <1>1, <1>2, <2>1, <2>2, <2>3, <3>1, AttemptIsFresh
    <3>3. retry # TaskRetries
      BY <1>8, <2>6 DEF AttemptEnds
    <3>4. retry' \in 0 .. TaskRetries
      BY <1>1, <1>2, <3>1, <3>3 DEF Work
    <3> QED
      BY <2>4, <3>1, <3>2, <3>4 DEF Work, TeacherSites, AtWork
  <2> QED
    BY <2>5, <2>6
<1>9. CASE Annotate
  <2>1. /\ teacher' = "record" /\ api = "returned" /\ trajectories[path] = Saved("whole")
        /\ UNCHANGED <<api, path, source, total, steps, prefix, reasked, status, error, apiFaults, manifest, retry>>
        /\ UNCHANGED <<opened, serving, success>>
        /\ trajectories' = [trajectories EXCEPT ![path] = [@ EXCEPT !.state = "torn"]]
    BY <1>1, <1>9 DEF Annotate, TeacherGoes, Work, AppWorld, Steps, Result
  <2>2. [Saved("whole") EXCEPT !.state = "torn"] = Saved("torn") /\ Saved("torn")' = Saved("torn")
    BY <2>1 DEF Saved
  <2>3. Saved("torn") \in Trajectory /\ Saved("torn") # Missing
    BY <1>1, SavedIsTrajectory
  <2>4. /\ trajectories' \in [Paths -> Trajectory \cup {Missing}] /\ trajectories'[path] = Saved("torn")
        /\ source # NoPath => trajectories'[source] # Missing
    BY <1>2, <2>1, <2>2, <2>3
  <2>5. Counts'
    BY <1>1, <2>1, AttemptInParts DEF Counts
  <2>6. Names'
    BY <1>1, <2>1, AttemptInParts DEF Names
  <2>7. Files'
    BY <2>1, <2>2, <2>4 DEF Files
  <2>8. NextPlace(path[1])' = NextPlace(path[1]) /\ path[2] = NextPlace(path[1])
    BY <1>1, <1>9, <2>1 DEF NextPlace, RecordedOf, Work, AtWork, Annotate, TeacherGoes
  <2>9. Work'
    BY <1>1, <2>1, <2>2, <2>4, <2>8 DEF Work, TeacherSites, AtWork
  <2> QED
    BY <2>5, <2>6, <2>7, <2>9, AttemptInPartsAfter
<1>10. CASE RecordJob
  <2>1. /\ teacher = "record" /\ teacher' = "round" /\ SaveEnds /\ retry' = 0
        /\ UNCHANGED <<path, total, apiFaults>>
        /\ api' = "idle" /\ source' = NoPath /\ Blank /\ trajectories[path] = Saved("torn")
    BY <1>1, <1>10 DEF RecordJob, TeacherGoes, AttemptOver, Work
  <2>2. opened' \in BOOLEAN /\ serving' \in BOOLEAN
    BY <1>3, <1>10 DEF RecordJob, AppWorld
  <2>3. trajectories' \in [Paths -> Trajectory \cup {Missing}]
    BY <1>1, <2>1, SaveEndsWell
  <2>4. AttemptInv'
    BY <1>1, <1>2, <2>1, <2>2, <2>3, AttemptIsFresh
  <2> QED
    BY <1>2, <2>1, <2>4 DEF Work, TeacherSites, AtWork
<1>11. CASE TeacherExits \/ TeacherKilled
  <2>1. /\ ProcessGone /\ teacher' = "down" /\ retry' = 0
        /\ apiFaults' = apiFaults \/ ApiFault
    BY <1>11 DEF TeacherExits, TeacherKilled, ProcessExits, NoApiFault, TeacherGoes, Forgotten
  <2>2. AttemptInv' /\ api' = "idle"
    BY <1>1, <2>1, AttemptIsGone
  <2> QED
    BY <1>2, <2>1, <2>2 DEF Work, TeacherSites, AtWork
<1> QED
  BY <1>4, <1>5, <1>6, <1>7, <1>8, <1>9, <1>10, <1>11 DEF TeacherNext, TeacherStep

LEMMA TrajectoriesInductive ==
  ASSUME TeacherInv, TeacherNext
  PROVE  JobsHaveTrajectories'
<1>1. AttemptInv /\ Work /\ Books /\ JobsHaveTrajectories /\ trajectories \in [Paths -> Trajectory \cup {Missing}]
  BY AttemptInParts DEF TeacherInv, Files
<1>2. CASE manifest'.jobs = manifest.jobs /\ UNCHANGED trajectories
  BY <1>1, <1>2 DEF JobsHaveTrajectories
<1>3. CASE Attempt \/ AttemptEnds \/ Annotate
  <2>1. manifest'.jobs = manifest.jobs /\ teacher \in AtWork
    BY <1>3 DEF Attempt, AttemptEnds, Annotate, TeacherGoes, AtWork
  <2>2. \A p \in Paths : p # path => trajectories'[p] = trajectories[p]
    <3>1. CASE Attempt
      BY <1>1, <3>1, AttemptGoesOn DEF Attempt
    <3>2. CASE AttemptEnds
      BY <1>1, <3>2 DEF AttemptEnds, SaveEnds
    <3>3. CASE Annotate
      BY <1>1, <3>3 DEF Annotate
    <3> QED
      BY <1>3, <3>1, <3>2, <3>3
  <2> QED
    BY <2>1, <2>2, JobsKeepTrajectories
<1>4. CASE RecordJob
  <2>1. /\ teacher \in AtWork /\ SaveEnds /\ trajectories[path] = Saved("torn")
        /\ manifest.jobs = jobs /\ jobs \in Seq(Job) /\ manifest'.jobs = jobs'
    BY <1>1, <1>4 DEF RecordJob, TeacherGoes, Work, AtWork, Books
  <2>2. PICK admitted \in {success, FALSE} :
           jobs' = Append(jobs, [path |-> path, success |-> success, accepted |-> admitted])
    BY <1>4 DEF RecordJob
  <2>3. /\ trajectories'[path] = Saved("whole")
        /\ \A p \in Paths : p # path => trajectories'[p] = trajectories[p]
    BY <1>1, <2>1, SaveEndsWell
  <2>4. Saved("whole") # Missing /\ Saved("whole").state = "whole" /\ Saved("whole").success = success
    BY <1>1, SavedIsTrajectory DEF Saved
  <2>5. ASSUME NEW i \in DOMAIN jobs'
        PROVE  /\ trajectories'[jobs'[i].path] # Missing /\ trajectories'[jobs'[i].path].state = "whole"
               /\ trajectories'[jobs'[i].path].success = jobs'[i].success
    <3>1. CASE i = Len(jobs) + 1
      <4>1. jobs'[i].path = path /\ jobs'[i].success = success
        BY <2>1, <2>2, <3>1
      <4> QED
        BY <2>3, <2>4, <4>1
    <3>2. CASE i # Len(jobs) + 1
      <4>1. i \in DOMAIN jobs /\ jobs'[i] = jobs[i]
        BY <2>1, <2>2, <3>2
      <4>2. manifest.jobs[i].path # path /\ manifest.jobs[i].path \in Paths
        BY <2>1, <4>1, PathIsNew
      <4>3. trajectories'[jobs[i].path] = trajectories[jobs[i].path]
        BY <2>1, <2>3, <4>2
      <4> QED
        BY <1>1, <2>1, <4>1, <4>3 DEF JobsHaveTrajectories
    <3> QED
      BY <3>1, <3>2
  <2> QED
    BY <2>1, <2>5 DEF JobsHaveTrajectories
<1>5. CASE TeacherStarts \/ BeginJob \/ NextRound \/ TeacherExits \/ TeacherKilled
  <2>1. UNCHANGED trajectories /\ ~RecordJob
    BY <1>5 DEF TeacherStarts, BeginJob, NextRound, TeacherExits, TeacherKilled, apiVars, BeginAttempt, ProcessExits,
       ProcessGone, RecordJob, TeacherGoes
  <2> QED
    BY <1>2, <2>1, JobsChange
<1> QED
  BY <1>3, <1>4, <1>5 DEF TeacherNext, TeacherStep

LEMMA SpendingInductive ==
  ASSUME TeacherInv, TeacherNext, AttemptInv'
  PROVE  Spending'
<1>1. /\ AttemptInv /\ teacher \in TeacherSites /\ retry \in 0 .. TaskRetries /\ TaskRetries \in Nat /\ Price \in Nat
      /\ manifest.cost \in Nat /\ total \in Nat /\ total' \in Nat
      /\ teacher # "down" => manifest.cost <= total
      /\ teacher \in {"round", "finished"} => total = manifest.cost
  BY ApiNumbers, AttemptInParts, AttemptInPartsAfter DEF TeacherInv, Work, Books, Counts
<1> DEFINE lost == kills * MaxAttemptCost
           owed == (retry * PerTry + Answered) * Price
<1>2. /\ Answered \in 0 .. PerTry /\ Answered' \in 0 .. PerTry /\ PerTry \in Nat
  <2>1. (AttemptInv => Answered \in Nat /\ Answered <= PerTry)'
    BY AnsweredIsBounded, PTL
  <2>2. PerTry \in Nat
    BY ApiNumbers, Products DEF PerTry
  <2> QED
    BY <1>1, <2>1, <2>2, AnsweredIsBounded DEF PerTry
<1>3. /\ MaxAttemptCost \in Nat /\ kills \in Nat /\ spent \in Nat
      /\ owed <= MaxAttemptCost /\ owed \in Int
      /\ retry * PerTry \in Nat
      /\ (retry + 1) * PerTry = retry * PerTry + PerTry
      /\ lost \in Nat /\ (kills + 1) * MaxAttemptCost = lost + MaxAttemptCost
      /\ spent <= (IF teacher = "down" THEN manifest.cost ELSE total) + lost
      /\ teacher \in AtWork => total - manifest.cost <= owed
  <2>1. MaxAttemptCost \in Nat /\ kills \in Nat /\ spent \in Nat
    BY CostOfAttempt DEF TeacherInv, Spending
  <2>2. /\ owed <= MaxAttemptCost /\ retry * PerTry \in Nat
        /\ (retry + 1) * PerTry = retry * PerTry + PerTry
    BY <1>1, <1>2, CostOfAttempt
  <2>3. owed \in Int
    <3>1. retry * PerTry + Answered \in Nat
      BY <1>2, <2>2
    <3> QED
      BY <1>1, <3>1, Products
  <2>4. lost \in Nat /\ (kills + 1) * MaxAttemptCost = lost + MaxAttemptCost
    <3>1. (kills + 1) * MaxAttemptCost = lost + 1 * MaxAttemptCost
      BY <2>1, Products
    <3> QED
      BY <2>1, <3>1, Products
  <2> QED
    BY <2>1, <2>2, <2>3, <2>4 DEF TeacherInv, Spending
<1> HIDE DEF lost, owed
<1>4. SUFFICES /\ spent' \in Nat /\ kills' \in Nat
               /\ spent' <= (IF teacher' = "down" THEN manifest'.cost ELSE total') + kills' * MaxAttemptCost
               /\ teacher' \in AtWork =>
                    total' - manifest'.cost <= (retry' * PerTry + Answered') * Price
  BY DEF Spending, PerTry, MaxAttemptCost
\* Nothing is lost by a process that goes on.
<1>5. ASSUME kills' = kills, spent' \in Nat,
             spent' <= (IF teacher' = "down" THEN manifest'.cost ELSE total') + lost,
             teacher' \in AtWork =>
               total' - manifest'.cost <= (retry' * PerTry + Answered') * Price
      PROVE  /\ spent' \in Nat /\ kills' \in Nat
             /\ spent' <= (IF teacher' = "down" THEN manifest'.cost ELSE total') + kills' * MaxAttemptCost
             /\ teacher' \in AtWork =>
                  total' - manifest'.cost <= (retry' * PerTry + Answered') * Price
  BY <1>3, <1>5 DEF lost
<1>6. CASE TeacherStarts
  <2>1. UNCHANGED <<manifest, spent, kills>> /\ total' = manifest.cost /\ teacher = "down" /\ teacher' = "round"
    BY <1>6 DEF TeacherStarts, TeacherGoes
  <2> QED
    BY <1>3, <1>5, <2>1 DEF AtWork
<1>7. CASE BeginJob
  <2>1. /\ UNCHANGED <<manifest, spent, kills, total>> /\ teacher = "round" /\ teacher' \in {"round", "attempt"}
        /\ retry' = 0
    BY <1>7 DEF BeginJob, BeginAttempt, apiVars
  <2>2. (retry' * PerTry + Answered') * Price \in Nat
    <3>1. retry' * PerTry = 0
      BY <1>2, <2>1
    <3>2. retry' * PerTry + Answered' \in Nat
      BY <1>2, <3>1
    <3> QED
      BY <1>1, <3>2, Products
  <2> QED
    BY <1>1, <1>3, <1>5, <2>1, <2>2
<1>8. CASE NextRound
  <2>1. /\ UNCHANGED <<manifest, spent, kills, total>> /\ teacher = "round" /\ teacher' \in {"round", "finished"}
    BY <1>8 DEF NextRound, apiVars
  <2> QED
    BY <1>1, <1>3, <1>5, <2>1 DEF AtWork
<1>9. CASE Attempt
  <2>1. /\ UNCHANGED <<manifest, kills, teacher, retry>> /\ teacher = "attempt"
        /\ spent' = spent + (total' - total) /\ total <= total'
        /\ total' - total <= (Answered' - Answered) * Price
    BY <1>1, <1>9, AnswersArePaid DEF Attempt
  <2>2. (retry' * PerTry + Answered') * Price = owed + (Answered' - Answered) * Price
    <3>1. /\ retry * PerTry + Answered \in Int /\ Answered' - Answered \in Int
          /\ (retry * PerTry + Answered) + (Answered' - Answered) = retry * PerTry + Answered'
      BY <1>2, <1>3
    <3>2. ((retry * PerTry + Answered) + (Answered' - Answered)) * Price = owed + (Answered' - Answered) * Price
      BY <1>1, <3>1, Products DEF owed
    <3> QED
      BY <2>1, <3>1, <3>2
  <2>3. (Answered' - Answered) * Price \in Int
    BY <1>1, <1>2
  <2>4. total' - manifest'.cost <= (retry' * PerTry + Answered') * Price
    BY <1>1, <1>3, <2>1, <2>2, <2>3 DEF AtWork
  <2>5. spent' \in Nat /\ spent' <= total' + lost
    <3>1. spent <= total + lost /\ spent \in Nat /\ lost \in Nat
      BY <1>3, <2>1
    <3>2. \A before, paid, extra, after \in Nat :
            before <= paid + extra /\ paid <= after =>
              before + (after - paid) \in Nat /\ before + (after - paid) <= after + extra
      OBVIOUS
    <3> QED
      BY <1>1, <2>1, <3>1, <3>2
  <2> QED
    BY <1>5, <2>1, <2>4, <2>5
<1>10. CASE AttemptEnds
  <2>1. /\ UNCHANGED <<manifest, kills, total, spent>> /\ teacher = "attempt"
        /\ \/ teacher' = "annotate" /\ UNCHANGED <<retry, api, Steps>>
           \/ teacher' = "attempt" /\ retry' = retry + 1 /\ api' = "initialize"
    BY <1>10 DEF AttemptEnds
  <2>2. spent' \in Nat /\ spent' <= (IF teacher' = "down" THEN manifest'.cost ELSE total') + lost
    BY <1>1, <1>3, <2>1
  <2>3. CASE teacher' = "annotate" /\ UNCHANGED <<retry, api, Steps>>
    <3>1. Answered' = Answered
      BY <2>3 DEF Answered, Steps
    <3> QED
      BY <1>3, <1>5, <2>1, <2>2, <2>3, <3>1 DEF owed, AtWork
  <2>4. CASE retry' = retry + 1 /\ api' = "initialize"
    <3>1. Answered' = 0
      BY <2>4 DEF Answered
    <3>2. retry' * PerTry + Answered' = retry * PerTry + PerTry
      BY <1>2, <1>3, <2>4, <3>1
    <3>3. owed <= (retry * PerTry + PerTry) * Price /\ (retry * PerTry + PerTry) * Price \in Nat
      <4>1. /\ retry * PerTry + Answered \in Nat /\ retry * PerTry + PerTry \in Nat
            /\ retry * PerTry + Answered <= retry * PerTry + PerTry
        BY <1>2, <1>3
      <4> QED
        BY <1>1, <4>1, Products DEF owed
    <3>4. total' - manifest'.cost <= (retry' * PerTry + Answered') * Price
      <4>1. total - manifest.cost <= owed /\ total' - manifest'.cost = total - manifest.cost
        BY <1>3, <2>1 DEF AtWork
      <4> QED
        BY <1>1, <1>3, <3>2, <3>3, <4>1
    <3> QED
      BY <1>5, <2>1, <2>2, <3>4
  <2> QED
    BY <2>1, <2>3, <2>4
<1>11. CASE Annotate
  <2>1. /\ UNCHANGED <<manifest, kills, total, spent, retry, api, Steps>> /\ teacher = "annotate" /\ teacher' = "record"
    BY <1>11 DEF Annotate, TeacherGoes
  <2>2. Answered' = Answered
    BY <2>1 DEF Answered, Steps
  <2> QED
    BY <1>3, <1>5, <2>1, <2>2 DEF owed, AtWork
<1>12. CASE RecordJob
  <2>1. /\ UNCHANGED <<kills, total, spent>> /\ teacher = "record" /\ teacher' = "round"
    BY <1>12 DEF RecordJob, TeacherGoes
  <2> QED
    BY <1>3, <1>5, <2>1 DEF AtWork
<1>13. CASE TeacherExits
  <2>1. /\ UNCHANGED <<kills, spent>> /\ teacher = "finished" /\ teacher' = "down" /\ manifest'.cost = total
    BY <1>13 DEF TeacherExits, TeacherGoes
  <2> QED
    BY <1>3, <1>5, <2>1 DEF AtWork
<1>14. CASE TeacherKilled
  <2>1. /\ UNCHANGED <<manifest, spent>> /\ kills' = kills + 1 /\ teacher' = "down" /\ teacher \notin {"down", "finished"}
    BY <1>14 DEF TeacherKilled
  <2>2. total <= manifest.cost + MaxAttemptCost
    <3>1. CASE teacher \in AtWork
      BY <1>1, <1>3, <3>1
    <3>2. CASE teacher \notin AtWork
      BY <1>1, <1>3, <2>1, <3>2 DEF AtWork, TeacherSites
    <3> QED
      BY <3>1, <3>2
  <2> QED
    BY <1>1, <1>3, <2>1, <2>2 DEF AtWork
<1> QED
  BY <1>6, <1>7, <1>8, <1>9, <1>10, <1>11, <1>12, <1>13, <1>14 DEF TeacherNext, TeacherStep

LEMMA TeacherInductive ==
  ASSUME TeacherInv, TeacherNext
  PROVE  TeacherInv'
BY TeacherAttemptsHold, BooksInductive, NumberedInductive, TrajectoriesInductive, SpendingInductive DEF TeacherInv

LEMMA TeacherAccounts == TeacherInv => GenerationIsAccounted
<1> SUFFICES ASSUME TeacherInv PROVE GenerationIsAccounted
  OBVIOUS
<1>1. /\ spent \in Nat /\ kills \in Nat /\ MaxAttemptCost \in Nat /\ CostLimit \in Nat /\ Price \in Nat
      /\ total \in Nat /\ total < CostLimit + Price /\ manifest.cost \in Nat /\ manifest.cost < CostLimit + Price
      /\ spent <= (IF teacher = "down" THEN manifest.cost ELSE total) + kills * MaxAttemptCost
  BY ApiNumbers, CostOfAttempt, AttemptInParts DEF TeacherInv, Counts, Books, Spending
<1>2. kills * MaxAttemptCost \in Nat
  BY <1>1, Products
<1>3. SpendIsBounded
  BY <1>1, <1>2 DEF SpendIsBounded
<1> QED
  BY <1>3 DEF GenerationIsAccounted, TeacherInv

-----------------------------------------------------------------------------
(***************************************************************************)
(* The scenario batches of an earlier run: read from its log, then         *)
(* replayed.                                                               *)
(***************************************************************************)
\* What the extractor has read of an iteration tells, of the batch that was run, its
\* tasks, and their places unless a rollout was overtaken.
LogState == [adapter : Nat, started : [LogTasks -> Nat], pending : Seq(LogTasks),
             counts : [Indices -> [LogTasks -> Nat]], cancelled : Nat]
Tells(s, b, unordered, number) ==
  /\ s.adapter + 1 = number
  /\ \A t \in LogTasks : s.started[t] # 0 <=> t \in Range(b)
  /\ unordered \/ \A i \in Indices : \A t \in LogTasks : s.counts[i][t] # 0 => t = b[i]

\* Whatever is collected has returned before.
Returned == {k \in LogRuns : rollout[k] = "returned"}
ReadingLog ==
  /\ checkpoint \in Nat
  /\ batch \in [Indices -> LogTasks]
  /\ rollout \in [LogRuns -> {"running", "returned", "collected", "cancelled"}]
  /\ overtaken \in BOOLEAN
  /\ state \in LogState
  /\ extractor = "reading" =>
       /\ Tells(state, batch, overtaken, checkpoint + 1)
       /\ Cardinality(Returned) <= Len(state.pending)

Past == [batch : [Indices -> LogTasks], overtaken : BOOLEAN, iteration : Nat]
LogRead ==
  /\ completed_states \in Seq(LogState) /\ history \in Seq(Past)
  /\ Len(history) = Len(completed_states)
  /\ \A n \in 1 .. Len(history) :
       Tells(completed_states[n], history[n].batch, history[n].overtaken, history[n].iteration)
  /\ extractor \in {"idle", "reading"} => Len(history) < LogIterations
  /\ extractor = "finalize" => Len(history) = LogIterations

Extracted ==
  /\ extractor \in {"idle", "reading", "finalize", "written", "refused"}
  /\ extractor \in {"idle", "reading", "finalize"} => scenario_manifest = <<>>
  /\ extractor = "written" => scenario_manifest # <<>>
  /\ scenario_manifest # <<>> =>
       /\ scenario_manifest \in [1 .. LogIterations -> [Indices -> LogTasks]]
       /\ \A n \in 1 .. LogIterations :
            /\ history[n].iteration = n
            /\ Range(scenario_manifest[n]) = Range(history[n].batch)
            /\ ~history[n].overtaken => scenario_manifest[n] = history[n].batch

LogInv == ReadingLog /\ LogRead /\ Extracted

-----------------------------------------------------------------------------
LEMMA LogNumbers ==
  /\ LogIterations \in Nat \ {0} /\ LogScenarios \in Nat \ {0} /\ LogRollouts \in Nat \ {0}
  /\ ExpectedTasks \in Nat \ {0} /\ WorldSizes \subseteq Nat \ {0} /\ LogFaults \in Nat /\ Replays \in Nat
BY ManifestAssumption

LEMMA LogFinite ==
  /\ IsFiniteSet(Indices) /\ Cardinality(Indices) = LogScenarios
  /\ IsFiniteSet(LogTasks) /\ IsFiniteSet(LogRuns)
<1>1. \A n \in Nat : IsFiniteSet(1 .. n) /\ Cardinality(1 .. n) = n
  <2> TAKE n \in Nat
  <2>1. IsFiniteSet(1 .. n) /\ Cardinality(1 .. n) = (IF 1 > n THEN 0 ELSE n - 1 + 1)
    BY FS_Interval
  <2> QED
    BY <2>1
<1>2. IsFiniteSet(1 .. LogScenarios) /\ IsFiniteSet(1 .. ExpectedTasks) /\ IsFiniteSet(1 .. LogRollouts)
  BY <1>1, LogNumbers
<1>3. IsFiniteSet((1 .. LogScenarios) \X (1 .. LogRollouts))
  BY <1>2, FS_Product
<1> QED
  BY <1>1, <1>2, <1>3, LogNumbers DEF Indices, LogTasks, LogRuns

\* A task is requested once for each rollout of its scenarios, so not at all or at
\* least once.
LEMMA TimesAre ==
  ASSUME NEW b \in [Indices -> LogTasks], NEW t \in LogTasks
  PROVE  Times(b, t) \in Nat /\ (Times(b, t) # 0 <=> t \in Range(b))
<1> DEFINE S == {k \in LogRuns : b[k[1]] = t}
<1>1. IsFiniteSet(S) /\ Cardinality(S) \in Nat /\ (Cardinality(S) = 0 <=> S = {})
  BY LogFinite, FS_Subset, FS_CardinalityType, FS_EmptySet
<1>2. S # {} <=> t \in Range(b)
  <2>1. ASSUME NEW k \in S PROVE t \in Range(b)
    BY <2>1 DEF Range, LogRuns
  <2>2. ASSUME t \in Range(b) PROVE S # {}
    <3>1. PICK i \in Indices : b[i] = t
      BY <2>2 DEF Range
    <3>2. <<i, 1>> \in LogRuns
      BY LogNumbers DEF LogRuns
    <3>3. <<i, 1>> \in S
      BY <3>1, <3>2
    <3> QED
      BY <3>3
  <2> QED
    BY <2>1, <2>2
<1> QED
  BY <1>1, <1>2 DEF Times

\* As many tasks as places, each place with a task of its own: they are all there.
LEMMA PlacesFillTasks ==
  ASSUME NEW T \in SUBSET LogTasks, Cardinality(T) = LogScenarios,
         NEW f \in [Indices -> T], \A i, j \in Indices : f[i] = f[j] => i = j
  PROVE  Range(f) = T
<1>1. f \in Injection(Indices, T)
  BY DEF Injection, IsInjective
<1>2. IsFiniteSet(T) /\ Cardinality(Indices) = Cardinality(T)
  BY LogFinite, FS_Subset
<1>3. f \in Surjection(Indices, T)
  BY <1>1, <1>2, FS_Injection
<1> QED
  BY <1>3 DEF Surjection, Range

\* What _finalize_iteration accepts tells the batch.
MappedTask(s) == [i \in Indices |-> CHOOSE t \in Mapped(s, i) : TRUE]
LEMMA ProvableTells ==
  ASSUME NEW s \in LogState, NEW b \in [Indices -> LogTasks], NEW unordered \in BOOLEAN,
         NEW number \in Nat, NEW n \in Nat, Tells(s, b, unordered, number), Provable(s, n)
  PROVE  /\ number = n
         /\ MappedTask(s) \in [Indices -> LogTasks]
         /\ Range(MappedTask(s)) = Range(b)
         /\ ~unordered => MappedTask(s) = b
<1> DEFINE f == MappedTask(s)
<1>1. s.adapter = n - 1 /\ Complete(s) /\ s.adapter \in Nat
  BY DEF Provable, LogState
<1>2. \A i \in Indices : f[i] \in Started(s) /\ Mapped(s, i) = {f[i]}
  <2> TAKE i \in Indices
  <2>1. PICK t \in Started(s) : Mapped(s, i) = {t}
    BY <1>1 DEF Complete
  <2>2. f[i] = t
    BY <2>1 DEF MappedTask
  <2> QED
    BY <2>1, <2>2
<1>3. Started(s) = Range(b) /\ Started(s) \in SUBSET LogTasks
  BY DEF Started, Tells, Range
<1>4. f \in [Indices -> Started(s)]
  BY <1>2 DEF MappedTask
<1>5. \A i, j \in Indices : f[i] = f[j] => i = j
  <2> HIDE DEF f
  <2> TAKE i, j \in Indices
  <2>1. \A p, q \in Indices : Mapped(s, p) = Mapped(s, q) => p = q
    BY <1>1 DEF Complete
  <2>2. Mapped(s, i) = {f[i]} /\ Mapped(s, j) = {f[j]}
    BY <1>2
  <2> QED
    BY <2>1, <2>2, Zenon
<1>6. Cardinality(Started(s)) = LogScenarios
  BY <1>1 DEF Complete
<1>7. ASSUME ~unordered PROVE f = b
  <2>1. \A i \in Indices : f[i] = b[i]
    BY <1>2, <1>3, <1>7 DEF Tells, Mapped
  <2> QED
    BY <1>4, <2>1
<1>8. number = n
  BY <1>1 DEF Tells
<1> HIDE DEF f
<1>9. Range(f) = Started(s)
  BY <1>3, <1>4, <1>5, <1>6, PlacesFillTasks
<1> QED
  BY <1>3, <1>4, <1>7, <1>8, <1>9 DEF f

-----------------------------------------------------------------------------
LEMMA LogStarts == ManifestInit => LogInv
<1> SUFFICES ASSUME ManifestInit PROVE LogInv
  OBVIOUS
<1>1. 1 \in LogTasks
  BY LogNumbers DEF LogTasks
<1>2. ReadingLog
  <2>1. NoState \in LogState
    BY DEF NoState, LogState
  <2> QED
    BY <1>1, <2>1 DEF ManifestInit, ReadingLog
<1>3. LogRead
  BY LogNumbers DEF ManifestInit, LogRead
<1>4. Extracted
  BY DEF ManifestInit, Extracted
<1> QED
  BY <1>2, <1>3, <1>4 DEF LogInv

LEMMA RequestReads == LogInv /\ RolloutsRequested => LogInv'
<1> SUFFICES ASSUME LogInv, RolloutsRequested PROVE LogInv'
  OBVIOUS
<1>1. /\ extractor = "idle" /\ extractor' = "reading"
      /\ batch' \in [Indices -> LogTasks] /\ rollout' = [k \in LogRuns |-> "running"] /\ overtaken' = FALSE
      /\ UNCHANGED <<checkpoint, completed_states, history, scenario_manifest>>
  BY DEF RolloutsRequested
<1>2. state' = [adapter |-> checkpoint, started |-> [t \in LogTasks |-> Times(batch', t)], pending |-> <<>>,
                counts |-> [i \in Indices |-> [t \in LogTasks |-> 0]], cancelled |-> 0]
  BY DEF RolloutsRequested, NoState
<1>3. state' \in LogState
  <2>1. [t \in LogTasks |-> Times(batch', t)] \in [LogTasks -> Nat]
    BY <1>1, TimesAre
  <2>2. checkpoint \in Nat
    BY DEF LogInv, ReadingLog
  <2> QED
    BY <1>2, <2>1, <2>2 DEF LogState
<1>4. Tells(state', batch', overtaken', checkpoint + 1)
  <2>1. \A t \in LogTasks : state'.started[t] = Times(batch', t)
    BY <1>2
  <2>2. \A t \in LogTasks : state'.started[t] # 0 <=> t \in Range(batch')
    BY <1>1, <2>1, TimesAre
  <2> QED
    BY <1>2, <2>2 DEF Tells
<1>5. ReadingLog'
  <2>1. Returned' = {}
    BY <1>1 DEF Returned
  <2>2. Cardinality(Returned') <= Len(state'.pending)
    BY <1>2, <2>1, FS_EmptySet
  <2> QED
    BY <1>1, <1>3, <1>4, <2>2 DEF LogInv, ReadingLog, Tells
<1>6. LogRead' /\ Extracted'
  BY <1>1 DEF LogInv, LogRead, Extracted, Tells
<1> QED
  BY <1>5, <1>6 DEF LogInv

\* The counts of the extractor, when the tasks of more rollouts are pending.
LEMMA ReturnReads == LogInv /\ EpisodeReturned => LogInv'
<1> SUFFICES ASSUME LogInv, EpisodeReturned PROVE LogInv'
  OBVIOUS
<1>1. /\ extractor = "reading"
      /\ UNCHANGED <<extractor, checkpoint, batch, overtaken, completed_states, history, scenario_manifest>>
  BY Zenon DEF EpisodeReturned
<1>2. PICK k \in LogRuns :
        /\ rollout[k] = "running"
        /\ \/ /\ rollout' = [rollout EXCEPT ![k] = "returned"]
              /\ state' = [state EXCEPT !.pending = Append(@, batch[k[1]])]
           \/ /\ rollout' = [rollout EXCEPT ![k] = "cancelled"]
              /\ state' = [state EXCEPT !.pending = Append(@, batch[k[1]]), !.cancelled = @ + 1]
           \/ /\ UNCHANGED rollout
              /\ state' = [state EXCEPT !.pending = Append(@, batch[k[1]]), !.started[batch[k[1]]] = @ + 1]
  BY Zenon DEF EpisodeReturned
<1>3. /\ checkpoint \in Nat /\ batch \in [Indices -> LogTasks] /\ overtaken \in BOOLEAN
      /\ rollout \in [LogRuns -> {"running", "returned", "collected", "cancelled"}]
      /\ state \in LogState /\ Tells(state, batch, overtaken, checkpoint + 1)
      /\ Cardinality(Returned) <= Len(state.pending)
  BY <1>1 DEF LogInv, ReadingLog
<1> DEFINE t == batch[k[1]]
<1>4. t \in LogTasks /\ t \in Range(batch)
  BY <1>2, <1>3 DEF LogRuns, Range
<1>5. /\ state.pending \in Seq(LogTasks) /\ state.started \in [LogTasks -> Nat] /\ state.cancelled \in Nat
      /\ state.adapter \in Nat /\ state.counts \in [Indices -> [LogTasks -> Nat]]
  BY <1>3 DEF LogState
<1> HIDE DEF t
<1>6. /\ state' \in LogState
      /\ state'.adapter = state.adapter /\ state'.counts = state.counts
      /\ state'.pending = Append(state.pending, t)
      /\ \A u \in LogTasks : state'.started[u] # 0 <=> state.started[u] # 0 \/ (u = t /\ state'.started[u] # 0)
      /\ \A u \in LogTasks : u # t => state'.started[u] = state.started[u]
      /\ state'.started[t] # 0
  <2>1. state.started[t] # 0
    BY <1>3, <1>4 DEF Tells
  <2> DEFINE more == Append(state.pending, t)
  <2>2. more \in Seq(LogTasks)
    BY <1>4, <1>5
  <2> HIDE DEF more
  <2>3. PICK started \in {state.started, [state.started EXCEPT ![t] = @ + 1]},
             cancelled \in {state.cancelled, state.cancelled + 1} :
          state' = [adapter |-> state.adapter, started |-> started, pending |-> more,
                    counts |-> state.counts, cancelled |-> cancelled]
    <3>1. state = [adapter |-> state.adapter, started |-> state.started, pending |-> state.pending,
                   counts |-> state.counts, cancelled |-> state.cancelled]
      BY <1>3 DEF LogState
    <3>2. \/ state' = [state EXCEPT !.pending = more]
          \/ state' = [state EXCEPT !.pending = more, !.cancelled = @ + 1]
          \/ state' = [state EXCEPT !.pending = more, !.started[t] = @ + 1]
      BY <1>2 DEF t, more
    <3> QED
      BY <3>1, <3>2
  <2>4. started \in [LogTasks -> Nat] /\ cancelled \in Nat
    <3>1. state.started[t] + 1 \in Nat /\ state.cancelled + 1 \in Nat
      BY <1>4, <1>5
    <3>2. started = state.started \/ started = [state.started EXCEPT ![t] = @ + 1]
      OBVIOUS
    <3>3. [state.started EXCEPT ![t] = @ + 1] \in [LogTasks -> Nat]
      BY <1>5, <3>1
    <3> QED
      BY <1>5, <3>1, <3>2, <3>3
  <2>5. (\A u \in LogTasks : u # t => started[u] = state.started[u]) /\ started[t] # 0
    BY <1>4, <1>5, <2>1, <2>3
  <2>6. state' \in LogState
    BY <1>5, <2>2, <2>3, <2>4 DEF LogState
  <2> QED
    BY <2>3, <2>5, <2>6 DEF more
<1>7. Tells(state', batch', overtaken', checkpoint' + 1)
  <2>1. \A u \in LogTasks : state'.started[u] # 0 <=> u \in Range(batch)
    BY <1>3, <1>4, <1>6 DEF Tells
  <2> QED
    BY <1>1, <1>3, <1>6, <2>1 DEF Tells
<1>8. Cardinality(Returned') <= Len(state'.pending)
  <2>1. Returned' \in SUBSET (Returned \cup {k})
    BY <1>2, <1>3 DEF Returned
  <2>2. IsFiniteSet(Returned)
    BY LogFinite, FS_Subset DEF Returned
  <2>3. IsFiniteSet(Returned \cup {k}) /\ Cardinality(Returned \cup {k}) <= Cardinality(Returned) + 1
    BY <2>2, FS_AddElement, FS_CardinalityType
  <2>4. Cardinality(Returned') <= Cardinality(Returned) + 1
    BY <2>1, <2>2, <2>3, FS_Subset, FS_CardinalityType
  <2>5. Len(state'.pending) = Len(state.pending) + 1 /\ Len(state.pending) \in Nat
    BY <1>4, <1>5, <1>6
  <2>6. Cardinality(Returned) \in Nat /\ Cardinality(Returned') \in Nat
    BY <2>1, <2>2, <2>3, FS_Subset, FS_CardinalityType
  <2> QED
    BY <1>3, <2>4, <2>5, <2>6
<1>9. rollout' \in [LogRuns -> {"running", "returned", "collected", "cancelled"}]
  BY <1>2, <1>3
<1>10. ReadingLog'
  BY <1>1, <1>3, <1>6, <1>7, <1>8, <1>9 DEF ReadingLog, Tells
<1>11. LogRead' /\ Extracted'
  BY <1>1 DEF LogInv, LogRead, Extracted, Tells
<1> QED
  BY <1>10, <1>11 DEF LogInv

LEMMA CollectReads == LogInv /\ RolloutCollected => LogInv'
<1> SUFFICES ASSUME LogInv, RolloutCollected PROVE LogInv'
  OBVIOUS
<1>1. /\ extractor = "reading"
      /\ UNCHANGED <<extractor, checkpoint, batch, completed_states, history, scenario_manifest>>
  BY Zenon DEF RolloutCollected
<1> DEFINE t == Head(state.pending)
<1>2. PICK k \in LogRuns :
        /\ rollout[k] = "returned" /\ rollout' = [rollout EXCEPT ![k] = "collected"]
        /\ state' = [state EXCEPT !.counts[k[1]][t] = @ + 1, !.pending = Tail(@)]
        /\ overtaken' = (overtaken \/ t # batch[k[1]])
  BY Zenon DEF RolloutCollected
<1>3. /\ checkpoint \in Nat /\ batch \in [Indices -> LogTasks] /\ overtaken \in BOOLEAN
      /\ rollout \in [LogRuns -> {"running", "returned", "collected", "cancelled"}]
      /\ state \in LogState /\ Tells(state, batch, overtaken, checkpoint + 1)
      /\ Cardinality(Returned) <= Len(state.pending)
  BY <1>1 DEF LogInv, ReadingLog
<1>4. /\ state.pending \in Seq(LogTasks) /\ state.started \in [LogTasks -> Nat] /\ state.cancelled \in Nat
      /\ state.adapter \in Nat /\ state.counts \in [Indices -> [LogTasks -> Nat]]
  BY <1>3 DEF LogState
<1>5. /\ IsFiniteSet(Returned) /\ k \in Returned /\ Returned' = Returned \ {k}
      /\ Cardinality(Returned) \in Nat /\ Cardinality(Returned') = Cardinality(Returned) - 1
      /\ Cardinality(Returned) > 0
  <2>1. IsFiniteSet(Returned) /\ k \in Returned
    BY <1>2, LogFinite, FS_Subset DEF Returned
  <2>2. Returned' = Returned \ {k}
    BY <1>2, <1>3 DEF Returned
  <2>3. Cardinality(Returned) \in Nat /\ Cardinality(Returned) # 0
    BY <2>1, FS_CardinalityType, FS_EmptySet
  <2> QED
    BY <2>1, <2>2, <2>3, FS_RemoveElement
<1>6. /\ state.pending # <<>> /\ t \in LogTasks
      /\ Tail(state.pending) \in Seq(LogTasks) /\ Len(Tail(state.pending)) = Len(state.pending) - 1
      /\ Len(state.pending) \in Nat
  BY <1>3, <1>4, <1>5
<1>7. k[1] \in Indices
  BY <1>2 DEF LogRuns
<1> HIDE DEF t
<1>8. /\ state' \in LogState
      /\ state'.adapter = state.adapter /\ state'.started = state.started
      /\ state'.pending = Tail(state.pending)
      /\ \A i \in Indices : \A u \in LogTasks : i # k[1] \/ u # t => state'.counts[i][u] = state.counts[i][u]
  <2>1. state.counts[k[1]] \in [LogTasks -> Nat] /\ state.counts[k[1]][t] + 1 \in Nat
    <3>1. state.counts[k[1]] \in [LogTasks -> Nat]
      BY <1>4, <1>7, Zenon
    <3>2. state.counts[k[1]][t] \in Nat
      BY <1>6, <3>1, Zenon
    <3> QED
      BY <3>1, <3>2
  <2> DEFINE entry == [state.counts[k[1]] EXCEPT ![t] = @ + 1]
             table == [state.counts EXCEPT ![k[1]] = entry]
  <2>2. entry \in [LogTasks -> Nat] /\ \A u \in LogTasks : u # t => entry[u] = state.counts[k[1]][u]
    BY <1>6, <2>1
  <2>3. state' = [adapter |-> state.adapter, started |-> state.started, pending |-> Tail(state.pending),
                  counts |-> table, cancelled |-> state.cancelled]
    BY <1>2, <1>3 DEF LogState
  <2> HIDE DEF entry
  <2>4. table \in [Indices -> [LogTasks -> Nat]]
    BY <1>4, <2>2
  <2>5. \A i \in Indices : \A u \in LogTasks : i # k[1] \/ u # t => table[i][u] = state.counts[i][u]
    BY <1>4, <1>7, <2>2
  <2> HIDE DEF table
  <2> QED
    BY <1>4, <1>6, <2>3, <2>4, <2>5 DEF LogState
<1>9. Tells(state', batch', overtaken', checkpoint' + 1)
  <2>1. ASSUME ~overtaken', NEW i \in Indices, NEW u \in LogTasks, state'.counts[i][u] # 0 PROVE u = batch[i]
    <3>1. ~overtaken /\ t = batch[k[1]]
      BY <1>2, <1>3, <2>1
    <3>2. CASE i # k[1] \/ u # t
      BY <1>3, <1>8, <2>1, <3>1, <3>2 DEF Tells
    <3>3. CASE i = k[1] /\ u = t
      BY <3>1, <3>3
    <3> QED
      BY <3>2, <3>3
  <2> QED
    BY <1>1, <1>3, <1>8, <2>1 DEF Tells
<1>10. Cardinality(Returned') <= Len(state'.pending)
  BY <1>3, <1>5, <1>6, <1>8
<1>11. rollout' \in [LogRuns -> {"running", "returned", "collected", "cancelled"}] /\ overtaken' \in BOOLEAN
  BY <1>2, <1>3
<1>12. ReadingLog'
  BY <1>1, <1>3, <1>8, <1>9, <1>10, <1>11 DEF ReadingLog, Tells
<1>13. LogRead' /\ Extracted'
  BY <1>1 DEF LogInv, LogRead, Extracted, Tells
<1> QED
  BY <1>12, <1>13 DEF LogInv

LEMMA SummaryReads == LogInv /\ SummaryLogged => LogInv'
<1> SUFFICES ASSUME LogInv, SummaryLogged PROVE LogInv'
  OBVIOUS
<1> DEFINE past == [batch |-> batch, overtaken |-> overtaken, iteration |-> checkpoint + 1]
<1>1. /\ extractor = "reading"
      /\ completed_states' = Append(completed_states, state) /\ history' = Append(history, past)
      /\ extractor' = IF Len(completed_states') = LogIterations THEN "finalize" ELSE "idle"
      /\ checkpoint' \in {checkpoint, checkpoint + 1}
      /\ UNCHANGED <<batch, rollout, overtaken, state, scenario_manifest>>
  BY DEF SummaryLogged
<1>2. /\ checkpoint \in Nat /\ batch \in [Indices -> LogTasks] /\ overtaken \in BOOLEAN
      /\ state \in LogState /\ Tells(state, batch, overtaken, checkpoint + 1)
  BY <1>1 DEF LogInv, ReadingLog
<1>3. past \in Past /\ past.batch = batch /\ past.overtaken = overtaken /\ past.iteration = checkpoint + 1
  BY <1>2 DEF Past
<1> HIDE DEF past
<1> DEFINE n == Len(history)
<1>4. /\ completed_states \in Seq(LogState) /\ history \in Seq(Past) /\ n \in Nat /\ Len(completed_states) = n
      /\ n < LogIterations
  BY <1>1 DEF LogInv, LogRead
<1>5. /\ completed_states' \in Seq(LogState) /\ history' \in Seq(Past)
      /\ Len(completed_states') = n + 1 /\ Len(history') = n + 1
      /\ completed_states'[n + 1] = state /\ history'[n + 1] = past
      /\ \A m \in 1 .. n : completed_states'[m] = completed_states[m] /\ history'[m] = history[m]
  BY <1>1, <1>2, <1>3, <1>4
<1>6. \A m \in 1 .. n + 1 : m \in 1 .. n \/ m = n + 1
  BY <1>4
<1>7. \A m \in 1 .. n : Tells(completed_states[m], history[m].batch, history[m].overtaken, history[m].iteration)
  BY DEF LogInv, LogRead
<1>8. LogIterations \in Nat /\ n + 1 <= LogIterations
  BY <1>4, LogNumbers
<1> HIDE DEF n
<1>9. \A m \in 1 .. n + 1 :
        Tells(completed_states'[m], history'[m].batch, history'[m].overtaken, history'[m].iteration)
  BY <1>2, <1>3, <1>5, <1>6, <1>7
<1>10. LogRead'
  <2>1. \A m \in 1 .. Len(history') :
          Tells(completed_states'[m], history'[m].batch, history'[m].overtaken, history'[m].iteration)
    BY <1>5, <1>9
  <2>2. /\ extractor' \in {"idle", "reading"} => Len(history') < LogIterations
        /\ extractor' = "finalize" => Len(history') = LogIterations
    BY <1>1, <1>4, <1>5, <1>8
  <2> QED
    BY <1>5, <2>1, <2>2 DEF LogRead, Tells
<1>11. ReadingLog'
  BY <1>1, <1>2 DEF LogInv, ReadingLog
<1>12. Extracted'
  BY <1>1 DEF LogInv, Extracted
<1> QED
  BY <1>10, <1>11, <1>12 DEF LogInv

\* The steps that read no more of the log.
LEMMA LogAtRest ==
  ASSUME LogInv, UNCHANGED logVars, UNCHANGED scenario_manifest,
         \/ extractor' = extractor
         \/ extractor' = "refused"
  PROVE  LogInv'
<1>1. UNCHANGED <<checkpoint, batch, rollout, overtaken, state, completed_states, history, scenario_manifest>>
  BY DEF logVars
<1>2. ReadingLog'
  BY <1>1 DEF LogInv, ReadingLog, Tells, Returned
<1>3. LogRead'
  BY <1>1 DEF LogInv, LogRead, Tells
<1>4. Extracted'
  BY <1>1 DEF LogInv, Extracted
<1> QED
  BY <1>2, <1>3, <1>4 DEF LogInv

LEMMA ExtractReads == LogInv /\ ExtractManifest => LogInv'
<1> SUFFICES ASSUME LogInv, ExtractManifest PROVE LogInv'
  OBVIOUS
<1> DEFINE mapped == [n \in DOMAIN completed_states |->
                        [i \in Indices |-> CHOOSE t \in Mapped(completed_states[n], i) : TRUE]]
<1>1. extractor = "finalize" /\ UNCHANGED logVars
  BY DEF ExtractManifest
<1>2. CASE extractor' = "refused" /\ UNCHANGED scenario_manifest
  BY <1>1, <1>2, LogAtRest
<1>3. CASE /\ \A n \in DOMAIN completed_states : Provable(completed_states[n], n)
           /\ extractor' = "written" /\ scenario_manifest' = mapped
  <2>1. /\ completed_states \in Seq(LogState) /\ history \in Seq(Past)
        /\ Len(history) = LogIterations /\ Len(completed_states) = LogIterations
        /\ \A n \in 1 .. LogIterations :
             Tells(completed_states[n], history[n].batch, history[n].overtaken, history[n].iteration)
    BY <1>1 DEF LogInv, LogRead
  <2>2. DOMAIN completed_states = 1 .. LogIterations
    BY <2>1
  <2>3. ASSUME NEW n \in 1 .. LogIterations
        PROVE  /\ mapped[n] \in [Indices -> LogTasks]
               /\ history[n].iteration = n
               /\ Range(mapped[n]) = Range(history[n].batch)
               /\ ~history[n].overtaken => mapped[n] = history[n].batch
    <3>1. mapped[n] = MappedTask(completed_states[n])
      BY <2>2 DEF MappedTask
    <3>2. history[n] \in Past /\ completed_states[n] \in LogState /\ n \in Nat
      BY <2>1, <2>2
    <3>3. history[n].batch \in [Indices -> LogTasks] /\ history[n].overtaken \in BOOLEAN /\ history[n].iteration \in Nat
      BY <3>2 DEF Past
    <3>4. Provable(completed_states[n], n)
      BY <1>3, <2>2
    <3> HIDE DEF mapped
    <3> QED
      BY <2>1, <3>1, <3>2, <3>3, <3>4, ProvableTells
  <2>4. mapped = [n \in 1 .. LogIterations |-> mapped[n]]
    BY <2>2
  <2> HIDE DEF mapped
  <2>5. mapped \in [1 .. LogIterations -> [Indices -> LogTasks]]
    BY <2>3, <2>4
  <2>6. mapped # <<>>
    BY <2>5, LogNumbers
  <2>7. UNCHANGED <<checkpoint, batch, rollout, overtaken, state, completed_states, history>>
    BY <1>1 DEF logVars
  <2>8. Extracted'
    BY <1>3, <2>3, <2>5, <2>6, <2>7 DEF Extracted
  <2>9. ReadingLog' /\ LogRead'
    BY <1>3, <2>7 DEF LogInv, ReadingLog, LogRead, Tells
  <2> QED
    BY <2>8, <2>9 DEF LogInv
<1> QED
  BY <1>2, <1>3 DEF ExtractManifest

LEMMA FarEnough ==
  ASSUME NEW m \in Nat, NEW size \in Nat
  PROVE  \A j \in 1 .. size : m + j \in 1 .. m + size
OBVIOUS

\* A whole is its beginning and the piece that follows it.
PieceAt(whole, k, piece) == \A j \in 1 .. Len(piece) : piece[j] = whole[k + j]
LEMMA TwoPieces ==
  ASSUME NEW T, NEW a \in Seq(T), NEW b \in Seq(T), NEW whole \in Seq(T),
         Len(whole) = Len(a) + Len(b), PieceAt(whole, 0, a), PieceAt(whole, Len(a), b)
  PROVE  a \o b = whole
<1>1. /\ a \o b \in Seq(T) /\ Len(a \o b) = Len(whole)
      /\ \A j \in 1 .. Len(whole) : (a \o b)[j] = IF j <= Len(a) THEN a[j] ELSE b[j - Len(a)]
  BY ConcatProperties
<1>2. ASSUME NEW j \in 1 .. Len(whole) PROVE (IF j <= Len(a) THEN a[j] ELSE b[j - Len(a)]) = whole[j]
  <2>1. CASE j <= Len(a)
    <3>1. j \in 1 .. Len(a) /\ 0 + j = j
      BY <2>1
    <3> QED
      BY <2>1, <3>1 DEF PieceAt
  <2>2. CASE ~(j <= Len(a))
    <3>1. j - Len(a) \in 1 .. Len(b) /\ Len(a) + (j - Len(a)) = j
      BY <2>2
    <3> QED
      BY <2>2, <3>1 DEF PieceAt
  <2> QED
    BY <2>1, <2>2
<1>3. \A c \in Seq(T) : c = [j \in 1 .. Len(c) |-> c[j]]
  OBVIOUS
<1>4. a \o b = [j \in 1 .. Len(a \o b) |-> (a \o b)[j]]
  BY <1>1, <1>3, Zenon
<1>5. whole = [j \in 1 .. Len(whole) |-> whole[j]]
  BY <1>3
<1> QED
  BY <1>1, <1>2, <1>4, <1>5

\* Sequences of one length, the pieces of a whole, make it up again.
LEMMA FlattenPieces ==
  ASSUME NEW T, NEW n \in Nat \ {0}, NEW size \in Nat, NEW s \in [1 .. n -> Seq(T)], NEW whole \in Seq(T),
         Len(whole) = n * size, \A i \in 1 .. n : Len(s[i]) = size,
         \A i \in 1 .. n : \A j \in 1 .. size : s[i][j] = whole[(i - 1) * size + j]
  PROVE  FlattenSeq(s) = whole
<1> DEFINE Flattens(f) == f = [i \in 1 .. n |-> IF i = 1 THEN s[i] ELSE f[i - 1] \o s[i]]
           First(i) == [j \in 1 .. i * size |-> whole[j]]
<1>1. Len(s) = n
  <2>1. s \in Seq(Seq(T))
    OBVIOUS
  <2> QED
    BY <2>1
<1>2. FlattenSeq(s) = (CHOOSE f : Flattens(f))[n]
  BY <1>1 DEF FlattenSeq
<1>3. ASSUME NEW i \in 1 .. n
      PROVE  i * size \in Nat /\ i * size <= n * size /\ i * size = (i - 1) * size + size /\ (i - 1) * size \in Nat
  BY <1>3
<1>4. ASSUME NEW i \in 1 .. n PROVE First(i) \in Seq(T) /\ Len(First(i)) = i * size
  <2> DEFINE m == i * size
  <2>1. m \in Nat /\ m <= Len(whole)
    BY <1>3
  <2> HIDE DEF m
  <2>2. [j \in 1 .. m |-> whole[j]] \in [1 .. m -> T]
    BY <2>1
  <2>3. [j \in 1 .. m |-> whole[j]] \in Seq(T) /\ Len([j \in 1 .. m |-> whole[j]]) = m
    BY <2>1, <2>2
  <2> QED
    BY <2>3 DEF m
<1>5. s[1] = First(1)
  BY <1>3, <1>4
<1>6. ASSUME NEW i \in 2 .. n PROVE First(i - 1) \o s[i] = First(i)
  <2> DEFINE m == (i - 1) * size
  <2>1. i \in 1 .. n /\ i - 1 \in 1 .. n
    BY <1>6
  <2>2. m \in Nat /\ i * size = m + size
    BY <1>3, <2>1
  <2>3. First(i - 1) = [j \in 1 .. m |-> whole[j]] /\ First(i) = [j \in 1 .. m + size |-> whole[j]]
    BY <2>2
  <2>4. First(i - 1) \in Seq(T) /\ Len(First(i - 1)) = m /\ First(i) \in Seq(T) /\ Len(First(i)) = m + size
    BY <1>4, <2>1, <2>2
  <2>5. s[i] \in Seq(T) /\ Len(s[i]) = size /\ \A j \in 1 .. size : s[i][j] = whole[m + j]
    BY <2>1
  <2> DEFINE left == First(i - 1)
             all  == First(i)
  <2> HIDE DEF m, left, all, First
  <2>6. PieceAt(all, 0, left)
    <3>1. \A j \in 1 .. m : left[j] = whole[j] /\ all[0 + j] = whole[j]
      BY <2>2, <2>3 DEF left, all
    <3> QED
      BY <2>4, <3>1 DEF PieceAt, left
  <2>7. PieceAt(all, m, s[i])
    <3>1. \A j \in 1 .. size : m + j \in 1 .. m + size
      BY <2>2, FarEnough
    <3>2. \A j \in 1 .. size : all[m + j] = whole[m + j]
      BY <2>3, <3>1 DEF all
    <3> QED
      BY <2>5, <3>2 DEF PieceAt
  <2>8. left \in Seq(T) /\ all \in Seq(T) /\ Len(left) = m /\ Len(all) = Len(left) + Len(s[i])
    BY <2>4, <2>5 DEF left, all
  <2> QED
    BY <2>5, <2>6, <2>7, <2>8, TwoPieces DEF left, all
<1> HIDE DEF First
<1>7. Flattens([i \in 1 .. n |-> First(i)])
  <2> DEFINE g == [i \in 1 .. n |-> First(i)]
  <2>1. ASSUME NEW i \in 1 .. n PROVE First(i) = IF i = 1 THEN s[i] ELSE g[i - 1] \o s[i]
    <3>1. CASE i = 1
      BY <1>5, <3>1
    <3>2. CASE i # 1
      <4>1. i \in 2 .. n /\ i - 1 \in 1 .. n
        BY <3>2
      <4>2. g[i - 1] = First(i - 1)
        BY <4>1
      <4> QED
        BY <1>6, <3>2, <4>1, <4>2
    <3> QED
      BY <3>1, <3>2
  <2> QED
    BY <2>1
<1>8. Flattens(CHOOSE f : Flattens(f))
  <2> HIDE DEF Flattens
  <2> QED
    BY <1>7, Zenon
<1> DEFINE flat == CHOOSE f : Flattens(f)
           N == {i \in Nat : i + 1 \in 1 .. n => flat[i + 1] = First(i + 1)}
<1> HIDE DEF flat
<1>9. flat = [i \in 1 .. n |-> IF i = 1 THEN s[i] ELSE flat[i - 1] \o s[i]]
  BY <1>8, Zenon DEF flat
<1>10. 0 \in N
  BY <1>5, <1>9
<1>11. \A i \in N : i + 1 \in N
  <2> TAKE i \in N
  <2>1. SUFFICES ASSUME (i + 1) + 1 \in 1 .. n PROVE flat[(i + 1) + 1] = First((i + 1) + 1)
    OBVIOUS
  <2> DEFINE k == (i + 1) + 1
  <2>2. i \in Nat /\ k \in 2 .. n /\ k \in 1 .. n /\ k # 1 /\ k - 1 = i + 1 /\ i + 1 \in 1 .. n
    BY <2>1
  <2>3. flat[i + 1] = First(i + 1)
    BY <2>2
  <2> HIDE DEF k, N
  <2>4. flat[k] = First(k - 1) \o s[k]
    <3>1. flat[k] = flat[k - 1] \o s[k]
      BY <1>9, <2>2
    <3>2. flat[k - 1] = First(k - 1)
      BY <2>2, <2>3
    <3> QED
      BY <3>1, <3>2, Zenon
  <2> QED
    BY <1>6, <2>2, <2>4 DEF k
<1>12. N = Nat
  <2> HIDE DEF N
  <2>1. N \in SUBSET Nat
    BY DEF N
  <2> QED
    BY <1>10, <1>11, <2>1, Induction
<1>13. flat[n] = First(n)
  <2>1. n - 1 \in Nat /\ (n - 1) + 1 = n /\ n \in 1 .. n
    OBVIOUS
  <2>2. n - 1 \in N
    <3> HIDE DEF N
    <3> QED
      BY <1>12, <2>1
  <2> QED
    BY <2>1, <2>2
<1>14. First(n) = whole
  BY <1>3, <1>4 DEF First
<1> QED
  BY <1>2, <1>13, <1>14 DEF flat

\* The numbers of the shards.
LEMMA ShardsDivide ==
  ASSUME NEW n \in Nat \ {0}, LogScenarios % n = 0
  PROVE  /\ LogScenarios \div n \in Nat \ {0}
         /\ n * (LogScenarios \div n) = LogScenarios
BY LogNumbers

LEMMA ShardIsWithin ==
  ASSUME NEW n \in Nat, NEW r \in 1 .. n, NEW size \in Nat
  PROVE  /\ (r - 1) * size \in Nat /\ r * size \in Nat
         /\ r * size = (r - 1) * size + size /\ r * size <= n * size
OBVIOUS

\* The iterations of the manifest come round.
LEMMA PlacesComeRound ==
  ASSUME NEW p \in Nat
  PROVE  /\ p % LogIterations \in 0 .. LogIterations - 1
         /\ (p + 1) % LogIterations = (IF p % LogIterations = LogIterations - 1 THEN 0 ELSE (p % LogIterations) + 1)
         /\ p < LogIterations => p % LogIterations = p
<1> DEFINE L == LogIterations
           q == p \div L
           m == p % L
<1>1. L \in Nat \ {0}
  BY LogNumbers
<1> HIDE DEF L
<1>2. m \in 0 .. L - 1 /\ q \in Int /\ p = L * q + m
  BY <1>1
<1> HIDE DEF m, q
<1>3. ASSUME m = L - 1 PROVE (p + 1) % L = 0
  <2>1. p + 1 = L * (q + 1) + 0 /\ q + 1 \in Int /\ 0 \in 0 .. L - 1 /\ p + 1 \in Nat
    BY <1>1, <1>2, <1>3
  <2> QED
    BY <1>1, <2>1, OneDivision
<1>4. ASSUME m # L - 1 PROVE (p + 1) % L = m + 1
  <2>1. p + 1 = L * q + (m + 1) /\ m + 1 \in 0 .. L - 1 /\ p + 1 \in Nat
    BY <1>1, <1>2, <1>4
  <2> QED
    BY <1>1, <1>2, <2>1, OneDivision
<1>5. ASSUME p < L PROVE p % L = p
  <2>1. p = L * 0 + p /\ p \in 0 .. L - 1
    BY <1>1, <1>5
  <2> QED
    BY <1>1, <2>1, OneDivision
<1> QED
  BY <1>2, <1>3, <1>4, <1>5 DEF L, m

-----------------------------------------------------------------------------
\* The place in the manifest that the later run is at, and the one after it.
Place == 1 + ((replaying - 1) % LogIterations)
AfterPlace == IF Place = LogIterations /\ cycle THEN 1 ELSE Place + 1

\* A rank has taken the first tasks of its part, or waits at the end of the manifest.
Taken(r) ==
  LET far == Len(replayed[r])
  IN /\ far <= ShardSize
     /\ \A j \in 1 .. far : replayed[r][j] = scenario_manifest[Place][(r - 1) * ShardSize + j]
     /\ IF far < ShardSize
        THEN /\ scenario_index[r] = far + 1
             /\ iteration_index[r] = Place \/ (iteration_index[r] = Over /\ far = 0)
        ELSE scenario_index[r] = 1 /\ iteration_index[r] = AfterPlace

Sharded ==
  /\ shards \in Nat \ {0} /\ LogScenarios % shards = 0
  /\ cycle \in BOOLEAN /\ replaying \in Nat \ {0}
  /\ iteration_index \in [ReplayRanks -> Nat] /\ scenario_index \in [ReplayRanks -> Nat]
  /\ replayed \in [ReplayRanks -> Seq(LogTasks)]
Replaying ==
  /\ extractor \in {"idle", "reading", "finalize"} => shards = 0
  /\ extractor = "written" /\ shards # 0 => Sharded /\ \A r \in ReplayRanks : Taken(r)

ManifestInv == LogInv /\ Replaying

-----------------------------------------------------------------------------
LEMMA PlaceIs ==
  ASSUME replaying \in Nat \ {0}
  PROVE  /\ Place \in 1 .. LogIterations
         /\ replaying <= LogIterations => Place = replaying
<1>1. replaying - 1 \in Nat
  OBVIOUS
<1>2. /\ (replaying - 1) % LogIterations \in 0 .. LogIterations - 1
      /\ replaying - 1 < LogIterations => (replaying - 1) % LogIterations = replaying - 1
  BY <1>1, PlacesComeRound
<1> QED
  BY <1>2, LogNumbers DEF Place

LEMMA ShardSizeIs ==
  ASSUME Sharded
  PROVE  /\ ShardSize \in Nat \ {0} /\ shards * ShardSize = LogScenarios
         /\ \A r \in ReplayRanks :
              /\ (r - 1) * ShardSize \in Nat /\ r * ShardSize \in Nat
              /\ r * ShardSize = (r - 1) * ShardSize + ShardSize /\ r * ShardSize <= LogScenarios
<1>1. ShardSize \in Nat \ {0} /\ shards * ShardSize = LogScenarios
  BY ShardsDivide DEF Sharded, ShardSize
<1>2. shards \in Nat
  BY DEF Sharded
<1> QED
  BY <1>1, <1>2, ShardIsWithin DEF ReplayRanks

\* The part of a rank, from the batch of an iteration.
LEMMA ShardIs ==
  ASSUME Sharded, NEW r \in ReplayRanks, NEW n,
         scenario_manifest[n] \in [Indices -> LogTasks]
  PROVE  \A j \in 1 .. ShardSize :
           /\ ShardBatch(r, n)[j] = scenario_manifest[n][(r - 1) * ShardSize + j]
           /\ ShardBatch(r, n)[j] \in LogTasks
<1> DEFINE m == (r - 1) * ShardSize
           whole == scenario_manifest[n]
           size == ShardSize
<1>1. /\ size \in Nat \ {0} /\ m \in Nat /\ r * ShardSize = m + size /\ m + size <= LogScenarios
  BY ShardSizeIs
<1>2. LogScenarios \in Nat /\ whole \in [1 .. LogScenarios -> LogTasks]
  BY LogNumbers DEF Indices
<1>3. ShardBatch(r, n) = SubSeq(whole, m + 1, m + size)
  BY <1>1 DEF ShardBatch
<1>4. whole \in Seq(LogTasks) /\ Len(whole) = LogScenarios
  <2> HIDE DEF whole
  <2> QED
    BY <1>2
<1> HIDE DEF whole, m, size
<1>5. ASSUME NEW j \in 1 .. size
      PROVE  SubSeq(whole, m + 1, m + size)[j] = whole[m + j] /\ whole[m + j] \in LogTasks
  <2>1. m + j \in 1 .. LogScenarios /\ (m + 1) + j - 1 = m + j
    BY <1>1, <1>2
  <2> QED
    BY <1>1, <1>2, <1>4, <2>1
<1> QED
  BY <1>3, <1>5 DEF m, whole, size

LEMMA ReplayStarts == ManifestInit => Replaying
BY DEF ManifestInit, Replaying

\* Before the manifest is written nothing is replayed.
LEMMA NothingReplayed ==
  ASSUME Replaying, UNCHANGED shards, extractor \in {"idle", "reading", "finalize"}
  PROVE  Replaying'
<1>1. shards' = 0
  BY DEF Replaying
<1> QED
  BY <1>1 DEF Replaying

LEMMA SamplerStartsKeeps == ManifestInv /\ SamplerStarts => ManifestInv'
<1> SUFFICES ASSUME ManifestInv, SamplerStarts PROVE ManifestInv'
  OBVIOUS
<1>1. /\ extractor = "written" /\ UNCHANGED logVars /\ UNCHANGED scenario_manifest
      /\ extractor' \in {extractor, "refused"}
  BY DEF SamplerStarts
<1>2. LogInv'
  BY <1>1, LogAtRest DEF ManifestInv
<1>3. CASE extractor' = "refused"
  BY <1>2, <1>3 DEF ManifestInv, Replaying
<1>4. CASE extractor' # "refused"
  <2>1. /\ ~(LogScenarios % shards' # 0 \/ replaying' > LogIterations)
        /\ iteration_index' = [r \in 1 .. shards' |-> replaying']
        /\ scenario_index' = [r \in 1 .. shards' |-> 1]
        /\ replayed' = [r \in 1 .. shards' |-> <<>>]
    BY <1>4, ZenonT(30) DEF SamplerStarts
  <2>2. shards' \in Nat \ {0} /\ cycle' \in BOOLEAN /\ replaying' \in Nat \ {0}
    <3>1. \/ shards' \in WorldSizes /\ cycle' \in BOOLEAN /\ replaying' = 1
          \/ shards # 0 /\ UNCHANGED <<shards, cycle, replaying>>
      BY ZenonT(30) DEF SamplerStarts
    <3>2. CASE shards' \in WorldSizes /\ cycle' \in BOOLEAN /\ replaying' = 1
      BY <3>2, LogNumbers
    <3>3. CASE shards # 0 /\ UNCHANGED <<shards, cycle, replaying>>
      BY <1>1, <3>3 DEF ManifestInv, Replaying, Sharded
    <3> QED
      BY <3>1, <3>2, <3>3
  <2>3. Sharded'
    BY <2>1, <2>2 DEF Sharded, ReplayRanks
  <2>4. ShardSize' \in Nat \ {0}
    BY <2>1, <2>2, ShardsDivide DEF ShardSize
  <2>5. Place' = replaying'
    <3>1. replaying' - 1 \in Nat /\ replaying' - 1 < LogIterations
      <4>1. ~(replaying' > LogIterations)
        BY <2>1
      <4>2. LogIterations \in Nat /\ replaying' \in Nat \ {0}
        BY <2>2, LogNumbers
      <4>3. \A m, n \in Nat : n # 0 /\ ~(n > m) => n - 1 \in Nat /\ n - 1 < m
        OBVIOUS
      <4> QED
        BY <4>1, <4>2, <4>3
    <3>2. (replaying' - 1) % LogIterations = replaying' - 1
      BY <3>1, PlacesComeRound
    <3> QED
      BY <2>2, <3>2 DEF Place
  <2>6. ASSUME NEW r \in 1 .. shards' PROVE Taken(r)'
    <3>1. replayed'[r] = <<>> /\ Len(replayed'[r]) = 0 /\ scenario_index'[r] = 1 /\ iteration_index'[r] = Place'
      BY <2>1, <2>5, <2>6
    <3> QED
      BY <2>4, <3>1 DEF Taken
  <2>7. \A r \in ReplayRanks' : Taken(r)'
    BY <2>6 DEF ReplayRanks
  <2>8. extractor' = "written"
    BY <1>1, <1>4
  <2> QED
    BY <1>2, <2>3, <2>7, <2>8 DEF ManifestInv, Replaying
<1> QED
  BY <1>3, <1>4

LEMMA NextScenarioKeeps == ManifestInv /\ NextScenario => ManifestInv'
<1> SUFFICES ASSUME ManifestInv, NextScenario PROVE ManifestInv'
  OBVIOUS
<1>1. /\ extractor = "written" /\ shards # 0
      /\ UNCHANGED <<extractor, scenario_manifest, shards, cycle, replaying>> /\ UNCHANGED logVars
  BY DEF NextScenario
<1>2. LogInv'
  BY <1>1, LogAtRest DEF ManifestInv
<1>3. Sharded /\ \A r \in ReplayRanks : Taken(r)
  BY <1>1 DEF ManifestInv, Replaying
<1>4. /\ ShardSize \in Nat \ {0} /\ Place \in 1 .. LogIterations
      /\ scenario_manifest[Place] \in [Indices -> LogTasks]
  BY <1>1, <1>3, ShardSizeIs, PlaceIs DEF Sharded, ManifestInv, LogInv, Extracted
<1>5. UNCHANGED <<ShardSize, Place, AfterPlace, ReplayRanks>>
  BY <1>1 DEF ShardSize, Place, AfterPlace, ReplayRanks
<1>6. PICK r \in ReplayRanks :
        /\ iteration_index[r] # Over /\ Len(replayed[r]) < ShardSize
        /\ replayed' = [replayed EXCEPT ![r] = Append(@, ShardBatch(r, iteration_index[r])[scenario_index[r]])]
        /\ IF scenario_index[r] < ShardSize
           THEN scenario_index' = [scenario_index EXCEPT ![r] = @ + 1] /\ UNCHANGED iteration_index
           ELSE /\ scenario_index' = [scenario_index EXCEPT ![r] = 1]
                /\ iteration_index' = [iteration_index EXCEPT ![r] =
                                         IF @ = LogIterations /\ cycle THEN 1 ELSE @ + 1]
  BY DEF NextScenario
<1> DEFINE far == Len(replayed[r])
           next == ShardBatch(r, Place)[far + 1]
<1>7. /\ replayed[r] \in Seq(LogTasks) /\ far \in Nat /\ far < ShardSize
      /\ scenario_index[r] = far + 1 /\ iteration_index[r] = Place
      /\ \A j \in 1 .. far : replayed[r][j] = scenario_manifest[Place][(r - 1) * ShardSize + j]
  <2>1. replayed[r] \in Seq(LogTasks)
    BY <1>3 DEF Sharded
  <2> QED
    BY <1>3, <1>6, <2>1 DEF Taken
<1>8. next = scenario_manifest[Place][(r - 1) * ShardSize + (far + 1)] /\ next \in LogTasks
  <2>1. far + 1 \in 1 .. ShardSize
    BY <1>4, <1>7
  <2> QED
    BY <1>3, <1>4, <2>1, ShardIs
<1>9. replayed' = [replayed EXCEPT ![r] = Append(@, next)]
  BY <1>6, <1>7
<1>10. /\ replayed \in [ReplayRanks -> Seq(LogTasks)] /\ iteration_index \in [ReplayRanks -> Nat]
       /\ scenario_index \in [ReplayRanks -> Nat]
  BY <1>3 DEF Sharded
<1>11. /\ \A q \in ReplayRanks \ {r} : /\ replayed'[q] = replayed[q]
                                       /\ scenario_index'[q] = scenario_index[q]
                                       /\ iteration_index'[q] = iteration_index[q]
       /\ replayed'[r] = Append(replayed[r], next)
       /\ scenario_index'[r] = (IF far + 1 < ShardSize THEN far + 2 ELSE 1)
       /\ iteration_index'[r] = (IF far + 1 < ShardSize THEN Place ELSE AfterPlace)
       /\ replayed' \in [ReplayRanks -> Seq(LogTasks)]
       /\ scenario_index' \in [ReplayRanks -> Nat] /\ iteration_index' \in [ReplayRanks -> Nat]
  <2> HIDE DEF next, far
  <2>1. Append(replayed[r], next) \in Seq(LogTasks)
    BY <1>7, <1>8
  <2>2. /\ replayed' \in [ReplayRanks -> Seq(LogTasks)] /\ replayed'[r] = Append(replayed[r], next)
        /\ \A q \in ReplayRanks \ {r} : replayed'[q] = replayed[q]
    BY <1>9, <1>10, <2>1
  <2>3. Place \in Nat /\ AfterPlace \in Nat
    BY <1>4, LogNumbers DEF AfterPlace
  <2>4. CASE far + 1 < ShardSize
    <3>1. scenario_index' = [scenario_index EXCEPT ![r] = far + 2] /\ iteration_index' = iteration_index
      BY <1>6, <1>7, <2>4
    <3>2. far + 2 \in Nat
      BY <1>7
    <3> QED
      BY <1>7, <1>10, <2>2, <2>4, <3>1, <3>2
  <2>5. CASE ~(far + 1 < ShardSize)
    <3>1. /\ scenario_index' = [scenario_index EXCEPT ![r] = 1]
          /\ iteration_index' = [iteration_index EXCEPT ![r] = AfterPlace]
      BY <1>6, <1>7, <2>5 DEF AfterPlace
    <3> QED
      BY <1>10, <2>2, <2>3, <2>5, <3>1
  <2> QED
    BY <2>4, <2>5
<1>12. Taken(r)'
  <2> HIDE DEF next
  <2>1. /\ Len(replayed'[r]) = far + 1 /\ replayed'[r][far + 1] = next
        /\ \A j \in 1 .. far : replayed'[r][j] = replayed[r][j]
    BY <1>7, <1>8, <1>11
  <2> HIDE DEF far
  <2>2. \A j \in 1 .. far + 1 : j \in 1 .. far \/ j = far + 1
    BY <1>7
  <2>3. \A j \in 1 .. far + 1 : replayed'[r][j] = scenario_manifest'[Place'][(r - 1) * ShardSize' + j]
    BY <1>1, <1>5, <1>7, <1>8, <2>1, <2>2
  <2>4. far + 1 <= ShardSize
    BY <1>4, <1>7
  <2> QED
    BY <1>5, <1>7, <1>11, <2>1, <2>3, <2>4 DEF Taken
<1>13. ASSUME NEW q \in ReplayRanks \ {r} PROVE Taken(q)'
  <2> HIDE DEF next, far
  <2>1. /\ replayed'[q] = replayed[q] /\ scenario_index'[q] = scenario_index[q]
        /\ iteration_index'[q] = iteration_index[q]
    BY <1>11
  <2>2. Taken(q)
    BY <1>3
  <2> QED
    BY <1>1, <1>5, <2>1, <2>2 DEF Taken
<1>14. Sharded'
  BY <1>1, <1>3, <1>5, <1>11 DEF Sharded
<1> QED
  BY <1>1, <1>2, <1>5, <1>12, <1>13, <1>14 DEF ManifestInv, Replaying

LEMMA IterationKeeps == ManifestInv /\ IterationReplayed => ManifestInv'
<1> SUFFICES ASSUME ManifestInv, IterationReplayed PROVE ManifestInv'
  OBVIOUS
<1>1. /\ extractor = "written" /\ ReplayComplete /\ replaying' = replaying + 1
      /\ replayed' = [r \in ReplayRanks |-> <<>>]
      /\ UNCHANGED <<extractor, scenario_manifest, shards, cycle, iteration_index, scenario_index>>
      /\ UNCHANGED logVars
  BY DEF IterationReplayed
<1>2. LogInv'
  BY <1>1, LogAtRest DEF ManifestInv
<1>3. Sharded /\ \A r \in ReplayRanks : Taken(r)
  BY <1>1 DEF ManifestInv, Replaying, ReplayComplete
<1>4. ShardSize \in Nat \ {0} /\ Place \in 1 .. LogIterations /\ LogIterations \in Nat
  BY <1>3, ShardSizeIs, PlaceIs, LogNumbers DEF Sharded
<1>5. UNCHANGED <<ShardSize, ReplayRanks>>
  BY <1>1 DEF ShardSize, ReplayRanks
<1>6. Place' = IF Place = LogIterations THEN 1 ELSE Place + 1
  <2>1. replaying - 1 \in Nat /\ (replaying - 1) + 1 = replaying /\ replaying' - 1 = replaying
    BY <1>1, <1>3 DEF Sharded
  <2>2. replaying % LogIterations =
          (IF (replaying - 1) % LogIterations = LogIterations - 1 THEN 0 ELSE ((replaying - 1) % LogIterations) + 1)
    BY <2>1, PlacesComeRound
  <2>3. (replaying - 1) % LogIterations \in 0 .. LogIterations - 1
    BY <2>1, PlacesComeRound
  <2> QED
    BY <1>4, <2>1, <2>2, <2>3 DEF Place
<1>7. ASSUME NEW r \in ReplayRanks PROVE Taken(r)'
  <2>1. scenario_index[r] = 1 /\ iteration_index[r] = AfterPlace
    <3>1. Len(replayed[r]) = ShardSize
      BY <1>1, <1>3 DEF ReplayComplete, Sharded
    <3> QED
      BY <1>3, <1>4, <3>1 DEF Taken
  <2>2. AfterPlace = Place' \/ AfterPlace = Over
    BY <1>4, <1>6 DEF AfterPlace, Over
  <2>3. replayed'[r] = <<>> /\ Len(replayed'[r]) = 0
    BY <1>1
  <2> QED
    BY <1>1, <1>4, <1>5, <2>1, <2>2, <2>3 DEF Taken, Over
<1>8. Sharded'
  BY <1>1, <1>3, <1>5 DEF Sharded
<1> QED
  BY <1>1, <1>2, <1>5, <1>7, <1>8 DEF ManifestInv, Replaying

LEMMA ManifestStarts == ManifestInit => ManifestInv
BY LogStarts, ReplayStarts DEF ManifestInv

LEMMA ManifestInductive == ManifestInv /\ [ManifestNext]_manifestVars => ManifestInv'
<1> SUFFICES ASSUME ManifestInv, [ManifestNext]_manifestVars PROVE ManifestInv'
  OBVIOUS
<1>1. LogInv /\ Replaying
  BY DEF ManifestInv
<1>2. CASE RolloutsRequested
  <2>1. extractor = "idle" /\ UNCHANGED shards
    BY <1>2, Zenon DEF RolloutsRequested, replayVars
  <2>2. LogInv'
    BY <1>1, <1>2, RequestReads, Zenon
  <2> QED
    BY <1>1, <2>1, <2>2, NothingReplayed DEF ManifestInv
<1>3. CASE EpisodeReturned
  <2>1. extractor = "reading" /\ UNCHANGED shards
    BY <1>3, Zenon DEF EpisodeReturned, replayVars
  <2>2. LogInv'
    BY <1>1, <1>3, ReturnReads, Zenon
  <2> QED
    BY <1>1, <2>1, <2>2, NothingReplayed DEF ManifestInv
<1>4. CASE RolloutCollected
  <2>1. extractor = "reading" /\ UNCHANGED shards
    BY <1>4, Zenon DEF RolloutCollected, replayVars
  <2>2. LogInv'
    BY <1>1, <1>4, CollectReads, Zenon
  <2> QED
    BY <1>1, <2>1, <2>2, NothingReplayed DEF ManifestInv
<1>5. CASE SummaryLogged
  <2>1. extractor = "reading" /\ UNCHANGED shards
    BY <1>5, Zenon DEF SummaryLogged, replayVars
  <2>2. LogInv'
    BY <1>1, <1>5, SummaryReads, Zenon
  <2> QED
    BY <1>1, <2>1, <2>2, NothingReplayed DEF ManifestInv
<1>6. CASE LogBreaks
  BY <1>1, <1>6, LogAtRest, NothingReplayed DEF ManifestInv, LogBreaks, replayVars
<1>7. CASE ExtractManifest
  BY <1>1, <1>7, ExtractReads, NothingReplayed DEF ManifestInv, ExtractManifest, replayVars
<1>8. CASE SamplerStarts \/ NextScenario \/ IterationReplayed
  BY <1>8, SamplerStartsKeeps, NextScenarioKeeps, IterationKeeps
<1>9. CASE UNCHANGED manifestVars
  <2>1. UNCHANGED <<extractor, scenario_manifest, shards, cycle, iteration_index, scenario_index, replaying, replayed>>
        /\ UNCHANGED logVars
    BY <1>9 DEF manifestVars, replayVars
  <2>2. LogInv'
    BY <1>1, <2>1, LogAtRest
  <2> QED
    BY <1>1, <2>1, <2>2 DEF ManifestInv, Replaying, Sharded, Taken, ReplayRanks, ShardSize, Place, AfterPlace
<1> QED
  BY <1>2, <1>3, <1>4, <1>5, <1>6, <1>7, <1>8, <1>9 DEF ManifestNext

LEMMA ReplayFaithful == ManifestInv => ReplayIsFaithful
<1> SUFFICES ASSUME ManifestInv PROVE ReplayIsFaithful
  OBVIOUS
<1>1. scenario_manifest # <<>> =>
        \A n \in 1 .. LogIterations : /\ history[n].iteration = n
                                      /\ Range(scenario_manifest[n]) = Range(history[n].batch)
                                      /\ ~history[n].overtaken => scenario_manifest[n] = history[n].batch
  BY DEF ManifestInv, LogInv, Extracted
<1>2. ASSUME extractor = "written", ReplayComplete
      PROVE  /\ Len(FlattenSeq(replayed)) = LogScenarios
             /\ Range(FlattenSeq(replayed)) = Range(history[Place].batch)
  <2>1. Sharded /\ \A r \in ReplayRanks : Taken(r)
    BY <1>2 DEF ManifestInv, Replaying, ReplayComplete
  <2> DEFINE whole == scenario_manifest[Place]
             size == ShardSize
  <2>2. /\ size \in Nat \ {0} /\ shards * size = LogScenarios /\ Place \in 1 .. LogIterations
        /\ whole \in [Indices -> LogTasks] /\ Range(whole) = Range(history[Place].batch)
    BY <1>2, <2>1, ShardSizeIs, PlaceIs DEF Sharded, ManifestInv, LogInv, Extracted
  <2>3. /\ shards \in Nat \ {0} /\ replayed \in [1 .. shards -> Seq(LogTasks)]
        /\ \A r \in 1 .. shards : Len(replayed[r]) = size
    BY <1>2, <2>1 DEF Sharded, ReplayRanks, ReplayComplete
  <2>4. \A r \in 1 .. shards : \A j \in 1 .. size : replayed[r][j] = whole[(r - 1) * size + j]
    BY <2>1, <2>3 DEF Taken, ReplayRanks
  <2> HIDE DEF whole, size
  <2>5. whole \in Seq(LogTasks) /\ Len(whole) = shards * size
    BY <2>2, LogNumbers DEF Indices
  <2>6. FlattenSeq(replayed) = whole
    BY <2>2, <2>3, <2>4, <2>5, FlattenPieces
  <2> QED
    BY <2>2, <2>5, <2>6
<1> QED
  BY <1>1, <1>2 DEF ReplayIsFaithful, Place

\* Whatever was cancelled, run again or overtaken in a log of any length, a manifest
\* has the batches that were run (extract_r2_first15_manifest.py), and ranks of
\* any number replay each of their tasks once an iteration.
THEOREM ManifestIsFaithful == ManifestSpec => []ReplayIsFaithful
BY ManifestStarts, ManifestInductive, ReplayFaithful, PTL DEF ManifestSpec

-----------------------------------------------------------------------------
(***************************************************************************)
(* The specifications.                                                     *)
(***************************************************************************)
\* Steps of others.
LEMMA DriverStutters == DriverInv /\ UNCHANGED <<apiVars, driverVars>> => DriverInv'
<1> SUFFICES ASSUME DriverInv, UNCHANGED <<apiVars, driverVars>> PROVE DriverInv'
  OBVIOUS
<1>1. AttemptInv'
  BY DEF DriverInv, AttemptInv, ApiTypeOK, Saved, apiVars
<1>2. DriverTypeOK'
  BY DEF DriverInv, DriverTypeOK, driverVars
<1>3. /\ \A t : Agrees(t)' <=> Agrees(t)
      /\ \A t : File(t)' = File(t) /\ Outcome(t)' = Outcome(t)
      /\ UNCHANGED <<driver, task, row, through, api, path, error, cost_limit_reached>>
  BY DEF Agrees, Outcome, File, apiVars, driverVars, cost_limit_reached
<1> QED
  BY <1>1, <1>2, <1>3 DEF DriverInv

LEMMA TeacherStutters == TeacherInv /\ UNCHANGED <<apiVars, teacherVars>> => TeacherInv'
<1> SUFFICES ASSUME TeacherInv, UNCHANGED <<apiVars, teacherVars>> PROVE TeacherInv'
  OBVIOUS
<1>1. AttemptInv'
  BY DEF TeacherInv, AttemptInv, ApiTypeOK, Saved, apiVars
<1>2. /\ UNCHANGED <<teacher, retry, jobs, manifest, spent, kills, api, path, total, steps, reasked,
                     status, error, success, prefix, trajectories>>
  BY DEF apiVars, teacherVars
<1>3. Books'
  BY <1>2 DEF TeacherInv, Books
<1>4. Numbered'
  BY <1>2 DEF TeacherInv, Numbered, NextPlace, RecordedOf
<1>5. Work'
  BY <1>2 DEF TeacherInv, Work, NextPlace, RecordedOf, Saved
<1>6. JobsHaveTrajectories'
  BY <1>2 DEF TeacherInv, JobsHaveTrajectories
<1>7. Spending'
  BY <1>2 DEF TeacherInv, Spending, Answered
<1> QED
  BY <1>1, <1>3, <1>4, <1>5, <1>6, <1>7 DEF TeacherInv

\* The generation alone accounts for what it has spent and recorded, however
\* often it is killed (teacher.py, generate_teacher_dataset).
THEOREM TeacherIsAccounted == TeacherSpec => []GenerationIsAccounted
<1>1. TeacherInv /\ [TeacherNext]_<<apiVars, teacherVars>> => TeacherInv'
  BY TeacherInductive, TeacherStutters
<1> QED
  BY <1>1, TeacherStartsWell, TeacherAccounts, PTL DEF TeacherSpec

\* So does the evaluation, for its summary and the reason of its end
\* (deepseek_appworld.py, run_deepseek_appworld_dev_eval).
THEOREM DriverIsAccounted == DriverSpec => []EvaluationIsAccounted
<1>1. DriverInv /\ [DriverNext]_<<apiVars, driverVars>> => DriverInv'
  BY DriverInductive, DriverStutters
<1> QED
  BY <1>1, DriverStartsWell, DriverAccounts, PTL DEF DriverSpec

\* Among the programs: the one that runs keeps its invariant, the one that does
\* not is where it began.
ApiProgramsInv ==
  /\ program \in ProgramNames
  /\ IF program = "teacher" THEN TeacherInv ELSE TeacherInit
  /\ IF program = "api" THEN DriverInv ELSE DriverInit

LEMMA ApiProgramsStart == ProgramsInit => ApiProgramsInv
<1> SUFFICES ASSUME ProgramsInit PROVE ApiProgramsInv
  OBVIOUS
<1>1. program \in ProgramNames /\ ApiInit /\ TeacherInit /\ DriverInit
  BY DEF ProgramsInit
<1>2. TeacherInv /\ DriverInv
  BY <1>1, TeacherStartsWell, DriverStartsWell
<1> QED
  BY <1>1, <1>2 DEF ApiProgramsInv

\* A program that does not run stays where it is.
LEMMA IdleTeacher == TeacherInit /\ UNCHANGED teacherVars => TeacherInit'
BY DEF TeacherInit, teacherVars
LEMMA IdleDriver == DriverInit /\ UNCHANGED driverVars => DriverInit'
BY DEF DriverInit, driverVars

LEMMA ApiProgramsGoOn == ApiProgramsInv /\ [ProgramsNext]_programVars => ApiProgramsInv'
<1> SUFFICES ASSUME ApiProgramsInv, [ProgramsNext]_programVars PROVE ApiProgramsInv'
  OBVIOUS
<1>1. CASE UNCHANGED programVars
  <2>1. UNCHANGED <<program, apiVars, teacherVars, driverVars>>
    BY <1>1 DEF programVars
  <2> QED
    BY <2>1, TeacherStutters, DriverStutters, IdleTeacher, IdleDriver DEF ApiProgramsInv
<1>2. CASE ProgramsNext
  <2>1. Alone
    BY <1>2 DEF ProgramsNext, RunWatch, RunJobs, RunTeacher, RunApi, RunVllm, RunWindows, RunData,
                RunSft, RunGradient, RunAudit, RunAgent, RunManifest, RunMerge, RunReport
  <2>2. /\ UNCHANGED program
        /\ program \notin {"teacher", "api"} => UNCHANGED apiVars
        /\ program # "teacher" => UNCHANGED teacherVars
        /\ program # "api" => UNCHANGED driverVars
    BY <2>1 DEF Alone, Idle
  <2>3. /\ program = "teacher" => TeacherNext
        /\ program = "api" => DriverNext
    BY <1>2 DEF ProgramsNext, RunWatch, RunJobs, RunTeacher, RunApi, RunVllm, RunWindows, RunData,
                RunSft, RunGradient, RunAudit, RunAgent, RunManifest, RunMerge, RunReport
  <2>4. IF program' = "teacher" THEN TeacherInv' ELSE TeacherInit'
    BY <2>2, <2>3, TeacherInductive, IdleTeacher DEF ApiProgramsInv
  <2>5. IF program' = "api" THEN DriverInv' ELSE DriverInit'
    BY <2>2, <2>3, DriverInductive, IdleDriver DEF ApiProgramsInv
  <2> QED
    BY <2>2, <2>4, <2>5 DEF ApiProgramsInv
<1> QED
  BY <1>1, <1>2

LEMMA ApiProgramsAccount == ApiProgramsInv => ApiRunsAreAccounted
<1> SUFFICES ASSUME ApiProgramsInv PROVE ApiRunsAreAccounted
  OBVIOUS
<1>1. GenerationIsAccounted
  <2>1. CASE program = "teacher"
    BY <2>1, TeacherAccounts DEF ApiProgramsInv
  <2>2. CASE program # "teacher"
    <3>1. manifest.jobs = <<>> /\ spent = 0 /\ kills = 0
      BY <2>2 DEF ApiProgramsInv, TeacherInit
    <3>2. 0 * MaxAttemptCost = 0
      BY CostOfAttempt, Products
    <3> QED
      BY <3>1, <3>2, ApiNumbers DEF GenerationIsAccounted, SpendIsBounded, JobsHaveTrajectories
  <2> QED
    BY <2>1, <2>2
<1>2. EvaluationIsAccounted
  <2>1. CASE program = "api"
    BY <2>1, DriverAccounts DEF ApiProgramsInv
  <2>2. CASE program # "api"
    BY <2>2 DEF ApiProgramsInv, DriverInit, EvaluationIsAccounted, SummaryAgrees, StopsAtLimit
  <2> QED
    BY <2>1, <2>2
<1> QED
  BY <1>1, <1>2 DEF ApiRunsAreAccounted

\* The accounts of the programs that pay for answers hold whichever program is
\* run, for every number of tasks, attempts, retries and faults.
THEOREM ApiRunsAccount == ProgramsSpec => []ApiRunsAreAccounted
BY ApiProgramsStart, ApiProgramsGoOn, ApiProgramsAccount, PTL DEF ProgramsSpec
\* What supervised training reads, in the same way.
SftProgramsInv ==
  /\ program \in ProgramNames
  /\ IF program = "data" THEN DataInv ELSE DataInit
  /\ IF program = "windows" THEN WindowsInv ELSE WindowsInit

LEMMA SftProgramsStart == ProgramsInit => SftProgramsInv
<1> SUFFICES ASSUME ProgramsInit PROVE SftProgramsInv
  OBVIOUS
<1>1. program \in ProgramNames /\ DataInit /\ WindowsInit
  BY DEF ProgramsInit
<1>2. DataInv /\ WindowsInv
  BY <1>1, DataStartsWell, WindowsStart
<1> QED
  BY <1>1, <1>2 DEF SftProgramsInv

LEMMA IdleData == DataInit /\ UNCHANGED dataVars => DataInit'
BY DEF DataInit, dataVars, buildVars, subsetVars
LEMMA IdleWindows == WindowsInit /\ UNCHANGED windowVars => WindowsInit'
BY DEF WindowsInit, windowVars

LEMMA SftProgramsGoOn == SftProgramsInv /\ [ProgramsNext]_programVars => SftProgramsInv'
<1> SUFFICES ASSUME SftProgramsInv, [ProgramsNext]_programVars PROVE SftProgramsInv'
  OBVIOUS
<1>1. CASE UNCHANGED programVars
  <2>1. UNCHANGED <<program, dataVars, windowVars>>
    BY <1>1 DEF programVars
  <2> QED
    BY <2>1, DataInductive, WindowsInductive, IdleData, IdleWindows DEF SftProgramsInv
<1>2. CASE ProgramsNext
  <2>1. Alone
    BY <1>2 DEF ProgramsNext, RunWatch, RunJobs, RunTeacher, RunApi, RunVllm, RunWindows, RunData,
                RunSft, RunGradient, RunAudit, RunAgent, RunManifest, RunMerge, RunReport
  <2>2. /\ UNCHANGED program
        /\ program # "data" => UNCHANGED dataVars
        /\ program # "windows" => UNCHANGED windowVars
    BY <2>1 DEF Alone, Idle
  <2>3. /\ program = "data" => DataNext
        /\ program = "windows" => WindowsNext
    BY <1>2 DEF ProgramsNext, RunWatch, RunJobs, RunTeacher, RunApi, RunVllm, RunWindows, RunData,
                RunSft, RunGradient, RunAudit, RunAgent, RunManifest, RunMerge, RunReport
  <2>4. IF program' = "data" THEN DataInv' ELSE DataInit'
    BY <2>2, <2>3, DataInductive, IdleData DEF SftProgramsInv
  <2>5. IF program' = "windows" THEN WindowsInv' ELSE WindowsInit'
    BY <2>2, <2>3, WindowsInductive, IdleWindows DEF SftProgramsInv
  <2> QED
    BY <2>2, <2>4, <2>5 DEF SftProgramsInv
<1> QED
  BY <1>1, <1>2

\* Whichever program is run, over however many trajectories and turns: the data
\* sets keep apart what they are judged by (dataset.py, subsets.py), and windows
\* lose and repeat nothing (trainer.py, window_sample).
THEOREM SftInputSound == ProgramsSpec => []SftInputIsSound
<1>1. SftProgramsInv => SftInputIsSound
  <2> SUFFICES ASSUME SftProgramsInv PROVE SftInputIsSound
    OBVIOUS
  <2>1. DataInv /\ WindowsInv
    BY DataStartsWell, WindowsStart DEF SftProgramsInv
  <2> QED
    BY <2>1, DataSound, WindowsSound DEF SftInputIsSound
<1> QED
  BY <1>1, SftProgramsStart, SftProgramsGoOn, PTL DEF ProgramsSpec

=================================================================================
