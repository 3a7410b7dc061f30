------------------------------- MODULE VllmServer -------------------------------
(***************************************************************************)
(* One vLLM server of a training run (phi_agents/vllm/vllm_server.py), as  *)
(* the rollout worker of rank 0 starts, loads, stops and replaces it.  The *)
(* server is a process at a port; a training run that crashed may have     *)
(* left one there, and a run may connect to a process it finds.            *)
(***************************************************************************)
EXTENDS Integers, FiniteSets

CONSTANTS
  Iterations,            \* training iterations: one adapter each
  Boots,                 \* bound: starts of the training run
  AllowConnect,          \* allow_connect_to_existing
  Exclusive,             \* exclusive_inference_and_learning
  LlmFaults              \* bound: processes that die or start badly, crashes of the run

ASSUME VllmAssumption ==
  /\ Iterations \in Nat \ {0}
  /\ Boots \in Nat \ {0}
  /\ AllowConnect \in SUBSET BOOLEAN /\ AllowConnect # {}
  /\ Exclusive \in SUBSET BOOLEAN /\ Exclusive # {}
  /\ LlmFaults \in Nat

\* At most one launch per iteration of every start.
Pids == 1 .. Iterations * Boots
Nobody == 0
NoAdapter == 0

ProcessStates == {"absent", "starting", "serving", "dying", "gone"}
LlmSites == {"off", "learn", "start", "await", "unload", "load", "generate", "stop", "terminate", "failed",
             "ended"}

VARIABLES
  llm,           \* where the worker is
  connects, exclusive,   \* the configuration of this system
  iteration,     \* the iteration, whose adapter is wanted
  process,       \* state of every process
  held,          \* _process, or Nobody
  connected,     \* _connected_to_existing
  adapters,      \* adapters loaded in every process
  loaded,        \* _loaded_adapter_model_id
  servers,       \* is _servers set?
  boots, llmFaults

llmVars == <<llm, connects, exclusive, iteration, process, held, connected, adapters, loaded, servers,
             boots, llmFaults>>

VllmTypeOK ==
  /\ llm \in LlmSites
  /\ connects \in BOOLEAN /\ exclusive \in BOOLEAN
  /\ iteration \in 0 .. Iterations
  /\ process \in [Pids -> ProcessStates]
  /\ held \in Pids \cup {Nobody}
  /\ connected \in BOOLEAN
  /\ adapters \in [Pids -> SUBSET (1 .. Iterations)]
  /\ loaded \in 0 .. Iterations
  /\ servers \in BOOLEAN
  /\ boots \in 0 .. Boots
  /\ llmFaults \in 0 .. LlmFaults

VllmInit ==
  /\ llm = "off"
  /\ connects = FALSE /\ exclusive = FALSE
  /\ iteration = 0
  /\ process = [p \in Pids |-> "absent"]
  /\ held = Nobody
  /\ connected = FALSE
  /\ adapters = [p \in Pids |-> {}]
  /\ loaded = NoAdapter
  /\ servers = FALSE
  /\ boots = 0
  /\ llmFaults = 0

LlmGoes(from, to) == llm = from /\ llm' = to
Settled == UNCHANGED <<connects, exclusive, boots>>
LlmFault == llmFaults < LlmFaults /\ llmFaults' = llmFaults + 1
NoLlmFault == UNCHANGED llmFaults

Running == {p \in Pids : process[p] \in {"starting", "serving", "dying"}}
\* Who holds the port, and answers: a server that was told to stop answers
\* until it is gone.
Answering == {p \in Pids : process[p] \in {"serving", "dying"}}

\* A training run starts, with the iteration it resumes and the configuration
\* of the first start.
Boot ==
  /\ LlmGoes("off", "learn")
  /\ boots < Boots
  /\ boots' = boots + 1
  /\ IF boots = 0 THEN connects' \in AllowConnect /\ exclusive' \in Exclusive
                  ELSE UNCHANGED <<connects, exclusive>>
  /\ held' = Nobody /\ connected' = FALSE /\ loaded' = NoAdapter /\ servers' = FALSE
  /\ NoLlmFault
  /\ UNCHANGED <<iteration, process, adapters>>

\* request_rollout_generation for the next iteration: the first has no adapter.
RequestGeneration ==
  /\ llm = "learn"
  /\ iteration < Iterations
  /\ iteration' = iteration + 1
  /\ llm' = IF servers THEN "unload" ELSE "start"
  /\ UNCHANGED <<process, held, connected, adapters, loaded, servers>>
  /\ NoLlmFault /\ Settled

\* start_server: a process with the port in its command line is taken over,
\* also one that is about to stop; killing by port compares a number with a
\* string and finds nobody.
StartServer ==
  /\ LlmGoes("start", "await")
  /\ servers' = TRUE
  /\ IF connects /\ Running # {}
     THEN /\ held' \in Running
          /\ connected' = TRUE
          /\ UNCHANGED <<process, adapters>>
     ELSE /\ \E p \in Pids :
               /\ process[p] = "absent" /\ \A q \in Pids : process[q] = "absent" => p <= q
               /\ held' = p
               /\ process' = [process EXCEPT ![p] = "starting"]
          /\ connected' = FALSE
          /\ UNCHANGED adapters
  /\ UNCHANGED <<iteration, loaded>>
  /\ NoLlmFault /\ Settled

\* A starting process binds the port, or ends because another holds it.
ServerBinds ==
  /\ \E p \in Pids :
       /\ process[p] = "starting"
       /\ process' = [process EXCEPT ![p] = IF Answering = {} THEN "serving" ELSE "gone"]
  /\ UNCHANGED <<llm, iteration, held, connected, adapters, loaded, servers>>
  /\ NoLlmFault /\ Settled

\* await_startup: any answer with the right model will do; without one in time
\* the server is stopped and the run fails.
AwaitStartup ==
  /\ llm = "await"
  /\ \/ Answering # {} /\ llm' = "unload" /\ UNCHANGED process /\ NoLlmFault
     \/ /\ IF Running # {} THEN LlmFault ELSE NoLlmFault
        /\ llm' = "failed"
        /\ process' = IF held \in Running THEN [process EXCEPT ![held] = "dying"] ELSE process
  /\ UNCHANGED <<iteration, held, connected, adapters, loaded, servers>>
  /\ Settled

\* _reload_lora_adapters: the adapter this worker knows of is unloaded, then the
\* wanted one is loaded.  Whoever answers is asked; a refusal fails the run.
Asked(site, holds, change(_)) ==
  \/ /\ \E p \in Answering : /\ holds[p]
                             /\ adapters' = [adapters EXCEPT ![p] = change(@)]
     /\ llm' = site
  \/ /\ \/ Answering = {}
        \/ \E p \in Answering : ~holds[p]
     /\ llm' = "failed" /\ UNCHANGED adapters

UnloadAdapter ==
  /\ llm = "unload"
  /\ IF loaded = NoAdapter THEN llm' = "load" /\ UNCHANGED adapters
     ELSE Asked("load", [p \in Pids |-> loaded \in adapters[p]], LAMBDA s : s \ {loaded})
  /\ UNCHANGED <<iteration, process, held, connected, loaded, servers>>
  /\ NoLlmFault /\ Settled

\* Mutant of LoadAdapter: loads only the first adapter a server gets.
LoadAdapterOnce ==
  /\ llm = "load"
  /\ IF iteration = 1 \/ loaded # NoAdapter THEN llm' = "generate" /\ UNCHANGED adapters
     ELSE Asked("generate", [p \in Pids |-> iteration \notin adapters[p]],
                LAMBDA s : s \cup {iteration})
  /\ loaded' = IF iteration = 1 THEN NoAdapter ELSE iteration
  /\ UNCHANGED <<iteration, process, held, connected, servers>>
  /\ NoLlmFault /\ Settled

LoadAdapter ==
  /\ llm = "load"
  /\ IF iteration = 1 THEN llm' = "generate" /\ UNCHANGED adapters
     ELSE Asked("generate", [p \in Pids |-> iteration \notin adapters[p]],
                LAMBDA s : s \cup {iteration})
  /\ loaded' = IF iteration = 1 THEN NoAdapter ELSE iteration
  /\ UNCHANGED <<iteration, process, held, connected, servers>>
  /\ NoLlmFault /\ Settled

\* The rollouts are collected; the servers stop before learning when both share
\* the GPUs, and at the end of the run.
Generated ==
  /\ llm = "generate"
  /\ Answering # {}
  /\ llm' = IF exclusive \/ iteration = Iterations THEN "stop" ELSE "learn"
  /\ UNCHANGED <<iteration, process, held, connected, adapters, loaded, servers>>
  /\ NoLlmFault /\ Settled

\* Without an answer the rollouts fail.
GenerationFails ==
  /\ LlmGoes("generate", "failed")
  /\ Answering = {}
  /\ UNCHANGED <<iteration, process, held, connected, adapters, loaded, servers>>
  /\ NoLlmFault /\ Settled

\* stop_server: SIGTERM; psutil raises when the process is gone already.  At
\* shutdown an existing server is kept.
Keeps == connected /\ connects /\ ~exclusive
StopServer ==
  /\ llm = "stop"
  /\ CASE Keeps -> llm' = "terminate" /\ UNCHANGED process
       [] ~Keeps /\ held \in Running -> /\ llm' = "terminate"
                                        /\ process' = [process EXCEPT ![held] = "dying"]
       [] OTHER -> llm' = "failed" /\ UNCHANGED process
  /\ UNCHANGED <<iteration, held, connected, adapters, loaded, servers>>
  /\ NoLlmFault /\ Settled

\* await_termination waits for ten seconds and returns, whether the process is
\* gone or not; the actor is killed and forgotten.
AwaitTermination ==
  /\ llm = "terminate"
  /\ IF held \in Running /\ ~Keeps THEN LlmFault ELSE NoLlmFault
  /\ held' = Nobody /\ servers' = FALSE /\ loaded' = NoAdapter
  /\ llm' = IF iteration = Iterations THEN "ended" ELSE "learn"
  /\ UNCHANGED <<iteration, process, connected, adapters>>
  /\ Settled

\* A process goes: told to stop, or of itself.
ServerGone ==
  /\ \E p \in Running :
       /\ IF process[p] = "dying" THEN NoLlmFault ELSE LlmFault
       /\ process' = [process EXCEPT ![p] = "gone"]
       /\ adapters' = [adapters EXCEPT ![p] = {}]
  /\ UNCHANGED <<llm, iteration, held, connected, loaded, servers>>
  /\ Settled

\* The run crashes or has failed; its server may live on.  The next one resumes
\* at this iteration or at the one before.
TrainingGone ==
  /\ IF llm = "failed" THEN NoLlmFault ELSE llm \notin {"off", "ended"} /\ LlmFault
  /\ llm' = "off"
  /\ iteration' \in {i \in {iteration - 1, iteration} : i >= 0}
  /\ held' = Nobody /\ connected' = FALSE /\ loaded' = NoAdapter /\ servers' = FALSE
  /\ UNCHANGED <<process, adapters>>
  /\ Settled

VllmNext ==
  \/ Boot \/ RequestGeneration \/ StartServer \/ ServerBinds \/ AwaitStartup
  \/ UnloadAdapter \/ LoadAdapter \/ Generated \/ GenerationFails
  \/ StopServer \/ AwaitTermination \/ ServerGone \/ TrainingGone

VllmSpec == VllmInit /\ [][VllmNext]_llmVars

-----------------------------------------------------------------------------
\* Connecting to what is found at the port keeps the port to one server, over
\* crashes of the run and stops that are not waited for
\* (vllm_server.py:361-378, 432-453).
OneServerPerPort ==
  connects => Cardinality(Running) <= 1

\* In such a run whoever answers during generation has the adapter of the
\* iteration, also a server that an earlier run left at the port, with the
\* adapters of that run (vllm_rollout_worker.py:456-489).
AnswersWithAdapter ==
  connects /\ llm = "generate" /\ iteration > 1 =>
    \A p \in Answering : iteration \in adapters[p]

\* Both: in a run that connects, generation asks one server, and the right one.
RightServerAnswers == OneServerPerPort /\ AnswersWithAdapter
==================================================================================
