--------------------------- MODULE EvaluationProofs ----------------------------
(***************************************************************************)
(* Proofs about evaluation: the worker beside training, the watcher of the *)
(* checkpoints, the orchestrator of evaluation jobs and the report.        *)
(***************************************************************************)
EXTENDS EvalLoop, EvalWatch, LoopReport, NumberLemmas

(***************************************************************************)
(* Proofs about EvalLoop, for every number of iterations, evaluation       *)
(* frequency, set of configurations and number of faults: evaluation never *)
(* overlaps the exchange of the adapter, and beside synchronous training   *)
(* it finds its adapter and is done before the adapter goes.               *)
(***************************************************************************)
\* The trainer is in the loop of _run.
InLoop == trainer \notin {"stop", "shutdown", "ended"}

\* Where an iteration still has to learn there is one left.
Counting ==
  (\/ trainer \in {"before", "collect", "stop_servers", "learn"}
   \/ mode = "async" /\ trainer \in {"await", "swap"})
    => completed < TotalIterations

\* A task that is under way in the loop is the one the callback remembers, and
\* when the adapter is exchanged the callback remembers none.
TaskIsKnown ==
  /\ InLoop /\ actor \in Busy => future
  /\ trainer = "swap" => ~future

\* With synchronous training the servers stay up, have the adapter of the
\* completed iterations when an iteration begins, keep it through the learning
\* phase, and a task under way asks for what they have.
AdapterIsKept ==
  mode = "sync" /\ InLoop =>
    /\ servers
    /\ trainer # "stop_servers"
    /\ trainer \in {"before", "collect", "learn"} => loaded = completed
    /\ trainer \in {"await", "swap"} => loaded = completed - 1
    /\ trainer = "before" => ~future
    /\ future => asked = loaded

\* Without faults a checkpoint that is due is being evaluated, or has been, from
\* the start of its iteration to the exchange of the adapter, and the generation
\* thread lives.
Undisturbed == mode = "sync" /\ faults = 0 /\ InLoop
DueIsServed ==
  Undisturbed =>
    /\ actor # "none" => thread
    /\ actor \notin {"dead", "polling"}
    /\ trainer \in {"collect", "learn", "await", "swap"} /\ loaded % EvalEveryNIterations = 0
         => loaded \in evaluated \/ (future /\ actor \in {"requesting", "generating"})

IInv == TypeOK /\ Counting /\ TaskIsKnown /\ AdapterIsKept /\ DueIsServed

\* A run starts, or resumes, with its adapter loaded and no task.
LEMMA InitIInv == Init => IInv
<1> SUFFICES ASSUME Init PROVE IInv
  OBVIOUS
<1>1. TypeOK
  <2>1. mode \in Modes /\ servers \in BOOLEAN /\ future \in BOOLEAN /\ thread \in BOOLEAN
    BY DEF Init
  <2>2. 0 \in 0 .. TotalIterations /\ 0 \in 0 .. MaxFaults /\ completed \in 0 .. TotalIterations
    BY EvalAssumption DEF Init
  <2> QED
    BY <2>1, <2>2 DEF Init, TypeOK, Trainers, Busy
<1>2. TaskIsKnown
  BY DEF Init, TaskIsKnown, Busy
<1>3. AdapterIsKept
  BY DEF Init, AdapterIsKept
<1>4. DueIsServed
  BY DEF Init, DueIsServed
<1>5. Counting
  BY EvalAssumption DEF Init, Counting
<1> QED
  BY <1>1, <1>2, <1>3, <1>4, <1>5 DEF IInv

\* Only Learn needs more than the types: an iteration that is left.
LEMMA TypeInductive == TypeOK /\ Counting /\ [Next]_vars => TypeOK'
<1> SUFFICES ASSUME TypeOK, Counting, [Next]_vars PROVE TypeOK'
  OBVIOUS
<1> USE EvalAssumption DEF TypeOK, Trainers, Busy, Goto, EvalIsDue, serverVars, actorVars, trainerVars
<1>1. CASE BeforeIteration
  <2>1. future' \in BOOLEAN /\ thread' \in BOOLEAN /\ asked' \in {asked, completed}
    BY <1>1, Zenon DEF BeforeIteration, StartEval
  <2>2. attached' \in {"none", "existing", "own"} /\ actor' \in {"none", "idle", "dead"} \cup Busy
    BY <1>1 DEF BeforeIteration, StartEval
  <2>3. trainer' \in Trainers
    BY <1>1 DEF BeforeIteration
  <2> QED
    BY <1>1, <2>1, <2>2, <2>3 DEF BeforeIteration
<1>2. CASE SkipEval
  BY <1>2 DEF SkipEval
<1>3. CASE Collect
  BY <1>3 DEF Collect
<1>4. CASE StopServers
  BY <1>4 DEF StopServers
<1>5. CASE Learn
  BY <1>5 DEF Learn, Counting
<1>6. CASE AwaitEval
  BY <1>6 DEF AwaitEval
<1>7. CASE Swap
  BY <1>7 DEF Swap
<1>8. CASE StopTraining
  BY <1>8 DEF StopTraining
<1>9. CASE ShutdownCallback
  <2>1. servers' \in BOOLEAN
    BY <1>9, Zenon DEF ShutdownCallback
  <2> QED
    BY <1>9, <2>1 DEF ShutdownCallback
<1>10. CASE EvalRequests
  <2>1. servers' \in BOOLEAN /\ loaded' \in {0, loaded}
    BY <1>10, Zenon DEF EvalRequests
  <2>2. attached' \in {"none", "existing", "own"} /\ actor' \in {"none", "idle", "dead"} \cup Busy
    BY <1>10 DEF EvalRequests
  <2> QED
    BY <1>10, <2>1, <2>2 DEF EvalRequests
<1>11. CASE EvalFinishes
  BY <1>11 DEF EvalFinishes
<1>12. CASE EvalFails
  <2>1. (faults' = faults \/ (faults < MaxFaults /\ faults' = faults + 1)) /\ mode' = mode
    BY <1>12 DEF EvalFails, Faulty
  <2>2. faults' \in 0 .. MaxFaults
    BY <2>1, SMT
  <2> QED
    BY <1>12, <2>1, <2>2 DEF EvalFails
<1>13. CASE ActorCrashes
  <2>1. actor' \in {"none", "idle", "dead"} \cup Busy /\ faults' \in 0 .. MaxFaults
    BY <1>13 DEF ActorCrashes, Faulty
  <2> QED
    BY <1>13, <2>1 DEF ActorCrashes, Faulty
<1>14. CASE TrainerRaises
  <2>1. future' \in BOOLEAN
    BY <1>14, Zenon DEF TrainerRaises
  <2> QED
    BY <1>14, <2>1 DEF TrainerRaises, Faulty
<1>15. CASE UNCHANGED vars
  BY <1>15 DEF vars
<1> QED
  BY <1>1, <1>2, <1>3, <1>4, <1>5, <1>6, <1>7, <1>8, <1>9, <1>10, <1>11, <1>12, <1>13,
     <1>14, <1>15 DEF Next, Trainer, Actor

\* Only where an iteration begins is one counted on; Collect and Learn look ahead.
LEMMA CountingInductive == TypeOK /\ Counting /\ [Next]_vars => Counting'
<1> SUFFICES ASSUME TypeOK, Counting, [Next]_vars PROVE Counting'
  OBVIOUS
<1> USE EvalAssumption DEF TypeOK, Trainers, Counting, Busy, Goto, serverVars, actorVars, trainerVars
<1>1. CASE BeforeIteration
  BY <1>1 DEF BeforeIteration, StartEval
<1>2. CASE SkipEval
  BY <1>2 DEF SkipEval
<1>3. CASE Collect
  BY <1>3 DEF Collect
<1>4. CASE StopServers
  BY <1>4 DEF StopServers
<1>5. CASE Learn
  BY <1>5 DEF Learn
<1>6. CASE AwaitEval
  BY <1>6 DEF AwaitEval
<1>7. CASE Swap
  BY <1>7 DEF Swap
<1>8. CASE StopTraining
  BY <1>8 DEF StopTraining
<1>9. CASE ShutdownCallback
  BY <1>9 DEF ShutdownCallback
<1>10. CASE EvalRequests
  BY <1>10 DEF EvalRequests
<1>11. CASE EvalFinishes
  BY <1>11 DEF EvalFinishes, Served
<1>12. CASE EvalFails
  BY <1>12 DEF EvalFails, Faulty, Served
<1>13. CASE ActorCrashes
  BY <1>13 DEF ActorCrashes, Faulty
<1>14. CASE TrainerRaises
  BY <1>14 DEF TrainerRaises, Faulty
<1>15. CASE UNCHANGED vars
  BY <1>15 DEF vars
<1> QED
  BY <1>1, <1>2, <1>3, <1>4, <1>5, <1>6, <1>7, <1>8, <1>9, <1>10, <1>11, <1>12, <1>13,
     <1>14, <1>15 DEF Next, Trainer, Actor

\* The callback forgets its task only when the actor is done with it.
LEMMA TaskIsKnownInductive == TypeOK /\ TaskIsKnown /\ [Next]_vars => TaskIsKnown'
<1> SUFFICES ASSUME TypeOK, TaskIsKnown, [Next]_vars PROVE TaskIsKnown'
  OBVIOUS
<1> USE EvalAssumption DEF TypeOK, TaskIsKnown, InLoop, Busy, Goto, serverVars, actorVars, trainerVars
<1>1. CASE BeforeIteration
  BY <1>1 DEF BeforeIteration, StartEval
<1>2. CASE SkipEval
  BY <1>2 DEF SkipEval
<1>3. CASE Collect
  BY <1>3 DEF Collect
<1>4. CASE StopServers
  BY <1>4 DEF StopServers
<1>5. CASE Learn
  BY <1>5 DEF Learn
<1>6. CASE AwaitEval
  BY <1>6 DEF AwaitEval
<1>7. CASE Swap
  BY <1>7 DEF Swap
<1>8. CASE StopTraining
  BY <1>8 DEF StopTraining
<1>9. CASE ShutdownCallback
  BY <1>9 DEF ShutdownCallback
<1>10. CASE EvalRequests
  BY <1>10 DEF EvalRequests
<1>11. CASE EvalFinishes
  BY <1>11 DEF EvalFinishes, Served
<1>12. CASE EvalFails
  BY <1>12 DEF EvalFails, Faulty, Served
<1>13. CASE ActorCrashes
  BY <1>13 DEF ActorCrashes, Faulty
<1>14. CASE TrainerRaises
  BY <1>14 DEF TrainerRaises, Faulty
<1>15. CASE UNCHANGED vars
  BY <1>15 DEF vars
<1> QED
  BY <1>1, <1>2, <1>3, <1>4, <1>5, <1>6, <1>7, <1>8, <1>9, <1>10, <1>11, <1>12, <1>13,
     <1>14, <1>15 DEF Next, Trainer, Actor

\* The servers of synchronous training are touched where no task is under way.
LEMMA AdapterIsKeptInductive == TypeOK /\ TaskIsKnown /\ AdapterIsKept /\ [Next]_vars => AdapterIsKept'
<1> SUFFICES ASSUME TypeOK, TaskIsKnown, AdapterIsKept, [Next]_vars PROVE AdapterIsKept'
  OBVIOUS
<1> USE EvalAssumption DEF TypeOK, TaskIsKnown, AdapterIsKept, InLoop, Busy, Goto, serverVars, actorVars, trainerVars
<1>1. CASE BeforeIteration
  BY <1>1 DEF BeforeIteration, StartEval
<1>2. CASE SkipEval
  BY <1>2 DEF SkipEval
<1>3. CASE Collect
  BY <1>3 DEF Collect
<1>4. CASE StopServers
  BY <1>4 DEF StopServers
<1>5. CASE Learn
  BY <1>5 DEF Learn
<1>6. CASE AwaitEval
  BY <1>6 DEF AwaitEval
<1>7. CASE Swap
  BY <1>7 DEF Swap
<1>8. CASE StopTraining
  BY <1>8 DEF StopTraining
<1>9. CASE ShutdownCallback
  BY <1>9 DEF ShutdownCallback
<1>10. CASE EvalRequests
  BY <1>10 DEF EvalRequests
<1>11. CASE EvalFinishes
  BY <1>11 DEF EvalFinishes, Served
<1>12. CASE EvalFails
  BY <1>12 DEF EvalFails, Faulty, Served
<1>13. CASE ActorCrashes
  BY <1>13 DEF ActorCrashes, Faulty
<1>14. CASE TrainerRaises
  BY <1>14 DEF TrainerRaises, Faulty
<1>15. CASE UNCHANGED vars
  BY <1>15 DEF vars
<1> QED
  BY <1>1, <1>2, <1>3, <1>4, <1>5, <1>6, <1>7, <1>8, <1>9, <1>10, <1>11, <1>12, <1>13,
     <1>14, <1>15 DEF Next, Trainer, Actor

\* A task that is served ends with its checkpoint among the evaluated ones.
LEMMA DueIsServedInductive == TypeOK /\ TaskIsKnown /\ AdapterIsKept /\ DueIsServed /\ [Next]_vars => DueIsServed'
<1> SUFFICES ASSUME TypeOK, TaskIsKnown, AdapterIsKept, DueIsServed, [Next]_vars PROVE DueIsServed'
  OBVIOUS
<1> USE EvalAssumption DEF TypeOK, TaskIsKnown, AdapterIsKept, DueIsServed, Undisturbed, InLoop, EvalIsDue, Busy, Goto, serverVars, actorVars, trainerVars
<1>1. CASE BeforeIteration
  BY <1>1 DEF BeforeIteration, StartEval
<1>2. CASE SkipEval
  BY <1>2 DEF SkipEval
<1>3. CASE Collect
  BY <1>3 DEF Collect
<1>4. CASE StopServers
  BY <1>4 DEF StopServers
<1>5. CASE Learn
  BY <1>5 DEF Learn
<1>6. CASE AwaitEval
  BY <1>6 DEF AwaitEval
<1>7. CASE Swap
  BY <1>7 DEF Swap
<1>8. CASE StopTraining
  BY <1>8 DEF StopTraining
<1>9. CASE ShutdownCallback
  BY <1>9 DEF ShutdownCallback
<1>10. CASE EvalRequests
  BY <1>10 DEF EvalRequests
<1>11. CASE EvalFinishes
  BY <1>11 DEF EvalFinishes, Served
<1>12. CASE EvalFails
  BY <1>12 DEF EvalFails, Faulty, Served
<1>13. CASE ActorCrashes
  BY <1>13 DEF ActorCrashes, Faulty
<1>14. CASE TrainerRaises
  BY <1>14 DEF TrainerRaises, Faulty
<1>15. CASE UNCHANGED vars
  BY <1>15 DEF vars
<1> QED
  BY <1>1, <1>2, <1>3, <1>4, <1>5, <1>6, <1>7, <1>8, <1>9, <1>10, <1>11, <1>12, <1>13,
     <1>14, <1>15 DEF Next, Trainer, Actor

-----------------------------------------------------------------------------
(* The invariant and what follows from it.                                 *)

\* The five parts hold throughout a run: each is preserved with the help of the
\* ones before it.
LEMMA IInvInvariant == Safety => []IInv
<1>1. Init => IInv
  BY InitIInv
<1>2. IInv /\ [Next]_vars => IInv'
  BY TypeInductive, CountingInductive, TaskIsKnownInductive, AdapterIsKeptInductive,
     DueIsServedInductive DEF IInv
<1> QED
  BY <1>1, <1>2, PTL DEF Safety

\* Every value keeps its type: no iteration beyond the last is begun, evaluated or
\* loaded, however evaluation fails.
THEOREM EvalTypeCorrect == Safety => []TypeOK
<1>1. IInv => TypeOK
  BY DEF IInv
<1> QED
  BY <1>1, IInvInvariant, PTL

\* callbacks.py, before_new_rollouts: no evaluation is under way when the trainer
\* restarts the servers and loads the next adapter, in no configuration and after
\* no crash of the EvalWorker or exception of the trainer.
THEOREM SwapsStayQuiet == Safety => []SwapsAreQuiet
<1>1. IInv => SwapsAreQuiet
  BY DEF IInv, TaskIsKnown, InLoop, SwapsAreQuiet
<1> QED
  BY <1>1, IInvInvariant, PTL

\* eval.py, reload_lora=False: an evaluation beside synchronous training generates
\* on servers that are up and have its adapter, until the trainer leaves its loop.
THEOREM AdapterStays == Safety => []RightAdapterLoaded
<1>1. IInv => RightAdapterLoaded
  BY DEF IInv, TaskIsKnown, AdapterIsKept, InLoop, Busy, RightAdapterLoaded, Served
<1> QED
  BY <1>1, IInvInvariant, PTL

\* callbacks.py, before_iteration: beside synchronous training without faults no
\* checkpoint that is due goes unevaluated, whatever the evaluation frequency and
\* the iteration the run resumed from.
THEOREM DueEvalsAreDone == Safety => []EveryDueEvalIsDone
<1>1. IInv => EveryDueEvalIsDone
  <2> SUFFICES ASSUME IInv, mode = "sync", faults = 0, trainer = "swap",
                      (completed - 1) % EvalEveryNIterations = 0
               PROVE  completed - 1 \in evaluated
    BY DEF EveryDueEvalIsDone
  <2>1. loaded = completed - 1 /\ ~future
    BY DEF IInv, TaskIsKnown, AdapterIsKept, InLoop
  <2> QED
    BY <2>1 DEF IInv, DueIsServed, Undisturbed, InLoop
<1> QED
  BY <1>1, IInvInvariant, PTL

-----------------------------------------------------------------------------
(***************************************************************************)
(* Proof about EvalWatch, for every set of checkpoints and every number of *)
(* repeats, faults and kills: no row of a checkpoint is written before the *)
(* base has one to be compared with.                                       *)
(***************************************************************************)
BaseKnown == \E r \in rows : r.model = Base

\* The watcher looks for checkpoints, or works on one, only when the base is known.
BaseFirst == watcher \in {"scan", "next"} \/ job.model # Base => BaseKnown

WInv ==
  /\ WatchTypeOK
  /\ BaseFirst
  /\ ComparedWithBase

\* Steps that write no row, and go on with the job or from a known base.
Elsewhere ==
  /\ UNCHANGED <<job, rows>>
  /\ watcher' \in {"scan", "next"} => watcher \in {"scan", "next"} \/ BaseKnown

-----------------------------------------------------------------------------
\* An upsert replaces a base row by a base row only.
LEMMA UpsertKeepsBase ==
  ASSUME BaseKnown
  PROVE  \E r \in Upsert : r.model = Base
<1>1. PICK r \in rows : r.model = Base
  BY DEF BaseKnown
<1>2. CASE job.model = Base
  <2>1. NewRow \in Upsert /\ NewRow.model = Base
    BY <1>2 DEF Upsert, NewRow
  <2> QED
    BY <2>1
<1>3. CASE job.model # Base
  BY <1>1, <1>3 DEF Upsert
<1> QED
  BY <1>2, <1>3

\* The ways on from the top of the loop.
LEMMA PollSteps ==
  ASSUME Poll
  PROVE  \/ watcher' \in {"sleep", "died"} /\ UNCHANGED job
         \/ watcher' = "infer" /\ job' = [model |-> Base, repeat |-> 0]
         \/ watcher' = "scan" /\ Evaluated(rows, Base) /\ UNCHANGED job
<1> USE DEF Poll, To
<1>1. CASE torn
  BY <1>1
<1>2. CASE ~torn /\ Evaluated(rows, Base)
  BY <1>2
<1>3. CASE ~torn /\ ~Evaluated(rows, Base)
  BY <1>3
<1> QED
  BY <1>1, <1>2, <1>3

\* The jobs are of models, and a job's next repeat is one of the same model.
LEMMA WatchTypesHold == WatchTypeOK /\ [WatchNext]_watchVars => WatchTypeOK'
<1> SUFFICES ASSUME WatchTypeOK, [WatchNext]_watchVars PROVE WatchTypeOK'
  OBVIOUS
<1>a. Fails \/ UNCHANGED watchFaults => watchFaults' \in 0 .. WatchFaults
  BY WatchAssumption DEF Fails, WatchTypeOK
<1> USE WatchAssumption DEF WatchTypeOK, WatchSites, At, To, NoFault, Summary
<1>0. 0 \in RepeatIdx /\ Base \in Models /\ Due \subseteq Models /\ Due \subseteq Checkpoints
  BY DEF RepeatIdx, Models, Due
<1>1. CASE Poll
  <2>1. [model |-> Base, repeat |-> 0] \in Jobs
    BY <1>0 DEF Jobs
  <2>2. job' \in {job, [model |-> Base, repeat |-> 0]} /\ watcher' \in WatchSites
    BY <1>1, PollSteps
  <2> QED
    BY <1>1, <1>a, <2>1, <2>2 DEF Poll
<1>2. CASE Scan \/ Sleep \/ Restarted \/ Killed
  BY <1>2, <1>a DEF Scan, Sleep, Restarted, Killed
<1>3. CASE NextCheckpoint
  <2>1. \A c \in Pending : [model |-> c, repeat |-> 0] \in Jobs
    BY <1>0 DEF Pending, Jobs
  <2> QED
    BY <1>3, <1>a, <2>1 DEF NextCheckpoint
<1>4. CASE Infer
  <2>1. CASE CommandFails(TRUE)
    BY <1>a, <2>1 DEF CommandFails
  <2>2. CASE ~CommandFails(TRUE)
    BY <1>4, <1>a, <2>2 DEF Infer
  <2> QED
    BY <2>1, <2>2
<1>5. CASE Parse \/ Summarize \/ Analyze
  <2>1. CASE \E visible \in BOOLEAN : CommandFails(visible)
    BY <1>a, <2>1 DEF CommandFails
  <2>2. CASE ~\E visible \in BOOLEAN : CommandFails(visible)
    BY <1>5, <1>a, <2>2 DEF Parse, Summarize, Analyze, Command
  <2> QED
    BY <2>1, <2>2
<1>6. CASE WriteRows
  BY <1>6, <1>a DEF WriteRows
<1>7. CASE RowsWritten
  <2>1. NewRow \in Row
    BY DEF NewRow, Row, Jobs
  <2>2. rows' \in SUBSET Row
    BY <1>7, <2>1 DEF RowsWritten, Upsert
  <2>3. job' \in Jobs
    <3>1. CASE job.repeat < Repeats - 1
      <4>1. job' = [job EXCEPT !.repeat = @ + 1]
        BY <1>7, <3>1 DEF RowsWritten
      <4> QED
        BY <3>1, <4>1 DEF Jobs, RepeatIdx
    <3>2. CASE ~(job.repeat < Repeats - 1)
      BY <1>7, <3>2 DEF RowsWritten
    <3> QED
      BY <3>1, <3>2
  <2> QED
    BY <1>7, <1>a, <2>2, <2>3 DEF RowsWritten
<1>8. CASE CheckpointAppears
  BY <1>8 DEF CheckpointAppears
<1>9. CASE UNCHANGED watchVars
  BY <1>9 DEF watchVars
<1> QED
  BY <1>1, <1>2, <1>3, <1>4, <1>5, <1>6, <1>7, <1>8, <1>9 DEF WatchNext, WatchStep

\* A step that writes no row keeps what is known of the base and of the rows.
LEMMA ElsewhereKeeps ==
  ASSUME BaseFirst, ComparedWithBase, Elsewhere
  PROVE  BaseFirst' /\ ComparedWithBase'
  BY DEF BaseFirst, ComparedWithBase, Elsewhere, BaseKnown

\* Every step keeps the base ahead of the checkpoints.
LEMMA BaseStaysFirst == WInv /\ [WatchNext]_watchVars => BaseFirst' /\ ComparedWithBase'
<1> SUFFICES ASSUME WInv, [WatchNext]_watchVars PROVE BaseFirst' /\ ComparedWithBase'
  OBVIOUS
<1> USE DEF At, To, Summary
<1>1. CASE Poll
  <2>1. UNCHANGED rows
    BY <1>1 DEF Poll
  <2>2. CASE watcher' = "infer"
    <3>1. job'.model = Base
      BY <1>1, <2>2, PollSteps
    <3> QED
      BY <2>1, <2>2, <3>1 DEF WInv, BaseFirst, ComparedWithBase
  <2>3. CASE watcher' # "infer"
    <3>1. UNCHANGED job /\ (watcher' = "scan" => Evaluated(rows, Base)) /\ watcher' # "next"
      BY <1>1, <2>3, PollSteps
    <3>2. Elsewhere
      BY <2>1, <3>1 DEF Elsewhere, Evaluated, BaseKnown
    <3> QED
      BY <3>2, ElsewhereKeeps DEF WInv
  <2> QED
    BY <2>2, <2>3
<1>2. CASE Scan \/ Sleep \/ Restarted \/ Killed \/ CheckpointAppears
  BY <1>2, ElsewhereKeeps
  DEF Elsewhere, WInv, Scan, Sleep, Restarted, Killed, CheckpointAppears
<1>3. CASE NextCheckpoint
  <2>1. UNCHANGED rows /\ BaseKnown
    BY <1>3 DEF NextCheckpoint, WInv, BaseFirst
  <2> QED
    BY <2>1 DEF WInv, BaseFirst, BaseKnown, ComparedWithBase
<1>4. CASE Infer
  BY <1>4, ElsewhereKeeps DEF Elsewhere, WInv, Infer, CommandFails
<1>5. CASE Parse \/ Summarize \/ Analyze
  BY <1>5, ElsewhereKeeps DEF Elsewhere, WInv, Parse, Summarize, Analyze, Command, CommandFails
<1>6. CASE WriteRows
  BY <1>6, ElsewhereKeeps DEF Elsewhere, WInv, WriteRows
<1>7. CASE RowsWritten
  <2>1. rows' = Upsert /\ (watcher' = "scan" => job.model = Base)
    BY <1>7 DEF RowsWritten
  <2>2. job'.model = job.model
    BY <1>7 DEF RowsWritten, WInv, WatchTypeOK, Jobs
  <2>3. BaseKnown'
    <3>1. CASE job.model = Base
      <4>1. NewRow \in Upsert /\ NewRow.model = Base
        BY <3>1 DEF Upsert, NewRow
      <4> QED
        BY <2>1, <4>1 DEF BaseKnown
    <3>2. CASE job.model # Base
      BY <2>1, <3>2, UpsertKeepsBase DEF WInv, BaseFirst, BaseKnown
    <3> QED
      BY <3>1, <3>2
  <2>4. ASSUME NEW r \in rows', r.model # Base PROVE r.compared
    <3>1. CASE r \in rows
      BY <2>4, <3>1 DEF WInv, ComparedWithBase
    <3>2. CASE r = NewRow
      BY <2>4, <3>2 DEF NewRow, WInv, BaseFirst, BaseKnown
    <3> QED
      BY <2>1, <3>1, <3>2 DEF Upsert
  <2> QED
    BY <2>3, <2>4 DEF BaseFirst, ComparedWithBase
<1>8. CASE UNCHANGED watchVars
  BY <1>8, ElsewhereKeeps DEF Elsewhere, WInv, watchVars
<1> QED
  BY <1>1, <1>2, <1>3, <1>4, <1>5, <1>6, <1>7, <1>8 DEF WatchNext, WatchStep

-----------------------------------------------------------------------------
\* However often commands fail, GPUs are busy or the watcher is killed and started
\* again, every row of a checkpoint was compared with a row of the base
\* (eval_watch.py:739-776): the summary of a checkpoint is never one without its
\* reference.
THEOREM ChecksHaveAReference == WatchSpec => []ComparedWithBase
<1>1. WatchInit => WInv
  <2> SUFFICES ASSUME WatchInit PROVE WInv
    OBVIOUS
  <2>1. WatchTypeOK
    <3>1. 0 \in RepeatIdx /\ 0 \in 0 .. WatchFaults
      BY WatchAssumption DEF RepeatIdx
    <3>2. [model |-> Base, repeat |-> 0] \in Jobs
      BY <3>1 DEF Jobs, Models
    <3> QED
      BY <3>1, <3>2 DEF WatchInit, WatchTypeOK, WatchSites
  <2>2. BaseFirst /\ ComparedWithBase
    BY DEF WatchInit, BaseFirst, ComparedWithBase
  <2> QED
    BY <2>1, <2>2 DEF WInv
<1>2. WInv /\ [WatchNext]_watchVars => WInv'
  BY WatchTypesHold, BaseStaysFirst DEF WInv
<1>3. WInv => ComparedWithBase
  BY DEF WInv
<1> QED
  BY <1>1, <1>2, <1>3, PTL DEF WatchSpec

-----------------------------------------------------------------------------
(***************************************************************************)
(* The orchestrator of EvaluationJobs, for every number of jobs, settings, *)
(* invocations and commands that outlive it: a completion record vouches   *)
(* for the output beside it, and completed output stays.                   *)
(***************************************************************************)
\* What may stand in a directory beside its records.
RecordsAgree ==
  \A j \in Plan :
    /\ directory[j].done # 0 => /\ directory[j].done = directory[j].launch
                                /\ directory[j].whole
    /\ directory[j].whole => directory[j].writers # {}
    /\ directory[j].writers \subseteq {directory[j].launch} \cup strays

\* The directory of the job that is about to be launched or runs.
LaunchIsClean ==
  /\ orchestrator \in {"validate", "launch"} =>
       Dir.launch = 0 /\ Dir.done = 0 /\ Dir.writers \subseteq strays
  /\ orchestrator \in {"run", "finish"} => Dir.launch = settings
  /\ orchestrator = "quarantine" => ~(Dir.done # 0 /\ Dir.writers = {Dir.done})

\* Commands that live on are on record; the running one has this invocation's settings.
CommandsKnown ==
  /\ child \in {0, settings}
  /\ child # 0 => orchestrator = "run"
  /\ \A s \in stray : s[2] \in strays

JobsInv == JobsTypeOK /\ RecordsAgree /\ LaunchIsClean /\ CommandsKnown

\* There is a first job and a first command, and no command is numbered 0.
LEMMA PlanFacts ==
  /\ 1 \in Plan /\ Plan \subseteq Nat
  /\ 1 \in Commands /\ 0 \notin Commands /\ Commands \subseteq Nat
  /\ 0 \in 0 .. Settings /\ Commands \subseteq 0 .. Settings
  BY JobsAssumption DEF JobsAssumption, Plan, Commands

\* A directory, field by field, and what the orchestrator makes of one.
LEMMA DirFacts ==
  ASSUME JobsTypeOK
  PROVE  /\ Dir \in Directory
         /\ settings \in Commands
         /\ Absent \in Directory
         /\ [Dir EXCEPT !.done = settings] \in Directory
         /\ [Dir EXCEPT !.launch = settings] \in Directory
<1>1. Dir \in Directory /\ settings \in Commands
  BY DEF JobsTypeOK, Dir
<1>2. Absent \in Directory
  BY PlanFacts DEF Absent, Directory
<1> QED
  BY <1>1, <1>2, PlanFacts DEF Directory

\* What Put leaves in the directories.
LEMMA PutFacts ==
  ASSUME JobsTypeOK, NEW record \in Directory, Put(record)
  PROVE  /\ directory' \in [Plan -> Directory]
         /\ directory'[current] = record
         /\ \A j \in Plan \ {current} : directory'[j] = directory[j]
  BY DEF JobsTypeOK, Put

\* What a command leaves in a directory.
LEMMA WrittenFacts ==
  ASSUME NEW d \in Directory, NEW command \in Commands, NEW last \in BOOLEAN
  PROVE  /\ AfterWrite(d, command, last) \in Directory
         /\ AfterWrite(d, command, last).launch = d.launch
         /\ AfterWrite(d, command, last).done = d.done
         /\ AfterWrite(d, command, last).writers = d.writers \cup {command}
         /\ d.whole => AfterWrite(d, command, last).whole
<1>1. (d.whole \/ last) \in BOOLEAN
  OBVIOUS
<1>2. d.writers \cup {command} \in SUBSET Commands
  BY DEF Directory
<1> QED
  BY <1>1, <1>2 DEF AfterWrite, Directory

\* On to the next job or to the end.
LEMMA AdvanceFacts ==
  ASSUME JobsTypeOK, Advance
  PROVE  orchestrator' \in {"finished", "check"} /\ current' \in Plan
  BY JobsAssumption DEF JobsAssumption, JobsTypeOK, Advance, Plan

\* The command of the orchestrator writes into the directory of the current job.
LEMMA ChildFacts ==
  ASSUME JobsTypeOK, ChildWrites
  PROVE  /\ directory' \in [Plan -> Directory]
         /\ child \in Commands
         /\ directory'[current].launch = Dir.launch
         /\ directory'[current].done = Dir.done
         /\ directory'[current].writers = Dir.writers \cup {child}
         /\ Dir.whole => directory'[current].whole
         /\ \A j \in Plan \ {current} : directory'[j] = directory[j]
<1>1. PICK last \in BOOLEAN : Put(AfterWrite(Dir, child, last))
  BY DEF ChildWrites
<1>2. child \in Commands
  BY DEF ChildWrites, JobsTypeOK, Commands
<1>3. /\ directory' \in [Plan -> Directory]
      /\ directory'[current] = AfterWrite(Dir, child, last)
      /\ \A j \in Plan \ {current} : directory'[j] = directory[j]
  BY <1>1, <1>2, DirFacts, PutFacts, WrittenFacts
<1> QED
  BY <1>2, <1>3, DirFacts, WrittenFacts

\* A command that outlived its orchestrator writes into the directory of its job.
LEMMA StrayFacts ==
  ASSUME JobsTypeOK, CommandsKnown, StrayWrites
  PROVE  /\ directory' \in [Plan -> Directory]
         /\ \E j \in Plan, c \in Commands :
              /\ c \in strays
              /\ directory'[j].launch = directory[j].launch
              /\ directory'[j].done = directory[j].done
              /\ directory'[j].writers = directory[j].writers \cup {c}
              /\ directory[j].whole => directory'[j].whole
              /\ \A k \in Plan \ {j} : directory'[k] = directory[k]
<1>1. PICK s \in stray, last \in BOOLEAN :
        directory' = [directory EXCEPT ![s[1]] = AfterWrite(directory[s[1]], s[2], last)]
  BY DEF StrayWrites
<1>2. s[1] \in Plan /\ s[2] \in Commands /\ s[2] \in strays
  BY DEF JobsTypeOK, CommandsKnown
<1>3. directory[s[1]] \in Directory
  BY <1>2 DEF JobsTypeOK
<1> DEFINE w == AfterWrite(directory[s[1]], s[2], last)
<1>4. directory' = [directory EXCEPT ![s[1]] = w]
  BY <1>1
<1>5. /\ w \in Directory
      /\ w.launch = directory[s[1]].launch /\ w.done = directory[s[1]].done
      /\ w.writers = directory[s[1]].writers \cup {s[2]}
      /\ directory[s[1]].whole => w.whole
  BY <1>2, <1>3, WrittenFacts
<1> HIDE DEF w
<1>6. /\ directory' \in [Plan -> Directory]
      /\ directory'[s[1]] = w
      /\ \A k \in Plan \ {s[1]} : directory'[k] = directory[k]
  BY <1>2, <1>4, <1>5 DEF JobsTypeOK
<1> QED
  BY <1>2, <1>5, <1>6

\* Before the first call no directory exists and no command runs.
LEMMA JobsInitInv == JobsInit => JobsInv
  BY PlanFacts, JobsAssumption
  DEF JobsAssumption, JobsInit, JobsInv, JobsTypeOK, RecordsAgree, LaunchIsClean, CommandsKnown, Absent,
      Directory, OrchestratorSites, Dir

\* Every step keeps the types. The writes of a directory go through PutFacts.
LEMMA JobsTypeStep == JobsInv /\ [JobsNext]_jobsVars => JobsTypeOK'
<1> SUFFICES ASSUME JobsInv, [JobsNext]_jobsVars PROVE JobsTypeOK'
  OBVIOUS
<1> USE PlanFacts, JobsAssumption DEF JobsAssumption, JobsInv
<1>1. CASE Invoke
  BY <1>1, DirFacts DEF JobsTypeOK, OrchestratorSites, Invoke, Same, Orchestrate, Advance
<1>2. CASE Skip
  BY <1>2, DirFacts, AdvanceFacts
  DEF JobsTypeOK, OrchestratorSites, Skip, Same, Orchestrate, Advance
<1>3. CASE Adopt
  <2>1. Put([Dir EXCEPT !.done = settings])
    BY <1>3 DEF Adopt
  <2>2. /\ directory' \in [Plan -> Directory]
        /\ directory'[current] = [Dir EXCEPT !.done = settings]
        /\ \A j \in Plan \ {current} : directory'[j] = directory[j]
    BY <2>1, DirFacts, PutFacts
  <2> QED
    BY <1>3, <2>2, DirFacts, AdvanceFacts
    DEF JobsTypeOK, OrchestratorSites, Adopt, Same, Orchestrate, Advance, Directory, Absent,
        Valid, Launched, Completed
<1>4. CASE Refuse
  BY <1>4, DirFacts DEF JobsTypeOK, OrchestratorSites, Refuse, Same, Orchestrate, Advance
<1>5. CASE Incomplete
  BY <1>5, DirFacts
  DEF JobsTypeOK, OrchestratorSites, Incomplete, Same, Orchestrate, Advance, Valid, Launched,
      Absent, Directory
<1>6. CASE Quarantine
  <2>1. Put(Absent)
    BY <1>6 DEF Quarantine
  <2>2. /\ directory' \in [Plan -> Directory]
        /\ directory'[current] = Absent
        /\ \A j \in Plan \ {current} : directory'[j] = directory[j]
    BY <2>1, DirFacts, PutFacts
  <2> QED
    BY <1>6, <2>2, DirFacts, AdvanceFacts
    DEF JobsTypeOK, OrchestratorSites, Quarantine, Same, Orchestrate, Advance, Directory,
        Absent, Valid, Launched, Completed
<1>7. CASE ValidateInputs
  BY <1>7, DirFacts DEF JobsTypeOK, OrchestratorSites, ValidateInputs, Same, Orchestrate, Advance
<1>8. CASE WriteLaunch
  <2>1. Put([Dir EXCEPT !.launch = settings])
    BY <1>8 DEF WriteLaunch
  <2>2. /\ directory' \in [Plan -> Directory]
        /\ directory'[current] = [Dir EXCEPT !.launch = settings]
        /\ \A j \in Plan \ {current} : directory'[j] = directory[j]
    BY <2>1, DirFacts, PutFacts
  <2> QED
    BY <1>8, <2>2, DirFacts, AdvanceFacts
    DEF JobsTypeOK, OrchestratorSites, WriteLaunch, Same, Orchestrate, Advance, Directory,
        Absent, Valid, Launched, Completed
<1>9. CASE ChildWrites
  BY <1>9, ChildFacts, DirFacts
  DEF JobsTypeOK, OrchestratorSites, ChildWrites, Same, Orchestrate, Advance
<1>10. CASE ChildEnds
  BY <1>10, DirFacts DEF JobsTypeOK, OrchestratorSites, ChildEnds, Same, Orchestrate, Advance
<1>11. CASE Finish
  <2>1. CASE Valid(current)
    <3>1. Put([Dir EXCEPT !.done = settings])
      BY <1>11, <2>1 DEF Finish
    <3>2. /\ directory' \in [Plan -> Directory]
          /\ directory'[current] = [Dir EXCEPT !.done = settings]
          /\ \A j \in Plan \ {current} : directory'[j] = directory[j]
      BY <3>1, DirFacts, PutFacts
    <3> QED
      BY <1>11, <2>1, <3>2, DirFacts, AdvanceFacts
      DEF JobsTypeOK, OrchestratorSites, Finish, Same, Orchestrate, Advance, Directory,
          Valid
  <2>2. CASE ~Valid(current)
    BY <1>11, <2>2 DEF JobsTypeOK, OrchestratorSites, Finish, Same, Orchestrate, Advance
  <2> QED
    BY <2>1, <2>2
<1>12. CASE Exit
  BY <1>12, DirFacts DEF JobsTypeOK, OrchestratorSites, Exit, Same, Orchestrate, Advance
<1>13. CASE Kill
  <2>1. CASE UNCHANGED <<stray, strays>>
    BY <1>13, <2>1 DEF JobsTypeOK, OrchestratorSites, Kill
  <2>2. CASE child # 0 /\ stray' = stray \cup {<<current, child>>} /\ strays' = strays \cup {child}
    <3>1. child \in Commands /\ current \in Plan
      BY <2>2 DEF JobsTypeOK, Commands
    <3>2. stray' \in SUBSET (Plan \X Commands) /\ strays' \in SUBSET Commands
      BY <2>2, <3>1 DEF JobsTypeOK
    <3> QED
      BY <1>13, <3>2 DEF JobsTypeOK, OrchestratorSites, Kill
  <2> QED
    BY <1>13, <2>1, <2>2 DEF Kill
<1>14. CASE StrayWrites
  BY <1>14, StrayFacts, DirFacts
  DEF JobsTypeOK, OrchestratorSites, StrayWrites, Same, Orchestrate, Advance
<1>15. CASE StrayEnds
  BY <1>15, DirFacts DEF JobsTypeOK, OrchestratorSites, StrayEnds, Same, Orchestrate, Advance
<1>16. CASE UNCHANGED jobsVars
  BY <1>16 DEF JobsTypeOK, OrchestratorSites, jobsVars
<1> QED
  BY <1>1, <1>2, <1>3, <1>4, <1>5, <1>6, <1>7, <1>8, <1>9, <1>10, <1>11, <1>12, <1>13, <1>14,
     <1>15, <1>16
  DEF JobsNext

\* A completion record is written only for the launch record's own command and only
\* after its whole output: Adopt and Finish validate first, Quarantine takes record
\* and output away together.
LEMMA RecordsStep == JobsInv /\ [JobsNext]_jobsVars => RecordsAgree'
<1> SUFFICES ASSUME JobsInv, [JobsNext]_jobsVars PROVE RecordsAgree'
  OBVIOUS
<1> USE PlanFacts, JobsAssumption DEF JobsAssumption, JobsInv
<1>1. CASE Invoke
  BY <1>1, DirFacts
  DEF JobsTypeOK, RecordsAgree, LaunchIsClean, CommandsKnown, Dir, Invoke, Same, Orchestrate,
      Advance
<1>2. CASE Skip
  BY <1>2, DirFacts, AdvanceFacts
  DEF JobsTypeOK, RecordsAgree, LaunchIsClean, CommandsKnown, Dir, Skip, Same, Orchestrate,
      Advance
<1>3. CASE Adopt
  <2>1. Put([Dir EXCEPT !.done = settings])
    BY <1>3 DEF Adopt
  <2>2. /\ directory' \in [Plan -> Directory]
        /\ directory'[current] = [Dir EXCEPT !.done = settings]
        /\ \A j \in Plan \ {current} : directory'[j] = directory[j]
    BY <2>1, DirFacts, PutFacts
  <2> QED
    BY <1>3, <2>2, DirFacts, AdvanceFacts, SMTT(30)
    DEF JobsTypeOK, RecordsAgree, LaunchIsClean, CommandsKnown, Dir, Adopt, Same,
        Orchestrate, Advance, Directory, Absent, Valid, Launched, Completed
<1>4. CASE Refuse
  BY <1>4, DirFacts
  DEF JobsTypeOK, RecordsAgree, LaunchIsClean, CommandsKnown, Dir, Refuse, Same, Orchestrate,
      Advance
<1>5. CASE Incomplete
  BY <1>5, DirFacts
  DEF JobsTypeOK, RecordsAgree, LaunchIsClean, CommandsKnown, Dir, Incomplete, Same,
      Orchestrate, Advance, Valid, Launched, Absent, Directory
<1>6. CASE Quarantine
  <2>1. Put(Absent)
    BY <1>6 DEF Quarantine
  <2>2. /\ directory' \in [Plan -> Directory]
        /\ directory'[current] = Absent
        /\ \A j \in Plan \ {current} : directory'[j] = directory[j]
    BY <2>1, DirFacts, PutFacts
  <2> QED
    BY <1>6, <2>2, DirFacts, AdvanceFacts
    DEF JobsTypeOK, RecordsAgree, LaunchIsClean, CommandsKnown, Dir, Quarantine, Same,
        Orchestrate, Advance, Directory, Absent, Valid, Launched, Completed
<1>7. CASE ValidateInputs
  BY <1>7, DirFacts
  DEF JobsTypeOK, RecordsAgree, LaunchIsClean, CommandsKnown, Dir, ValidateInputs, Same,
      Orchestrate, Advance
<1>8. CASE WriteLaunch
  <2>1. Put([Dir EXCEPT !.launch = settings])
    BY <1>8 DEF WriteLaunch
  <2>2. /\ directory' \in [Plan -> Directory]
        /\ directory'[current] = [Dir EXCEPT !.launch = settings]
        /\ \A j \in Plan \ {current} : directory'[j] = directory[j]
    BY <2>1, DirFacts, PutFacts
  <2> QED
    BY <1>8, <2>2, DirFacts, AdvanceFacts
    DEF JobsTypeOK, RecordsAgree, LaunchIsClean, CommandsKnown, Dir, WriteLaunch, Same,
        Orchestrate, Advance, Directory, Absent, Valid, Launched, Completed
<1>9. CASE ChildWrites
  <2>1. UNCHANGED strays /\ Dir.launch = settings /\ child = settings
    BY <1>9, ChildFacts, PlanFacts DEF ChildWrites, Same, LaunchIsClean, CommandsKnown
  <2>2. \A j \in Plan \ {current} : directory'[j] = directory[j]
    BY <1>9, ChildFacts
  <2>3. /\ directory'[current].launch = Dir.launch /\ directory'[current].done = Dir.done
        /\ directory'[current].writers = Dir.writers \cup {child}
        /\ Dir.whole => directory'[current].whole
    BY <1>9, ChildFacts
  <2>4. current \in Plan
    BY DEF JobsTypeOK
  <2> QED
    BY <2>1, <2>2, <2>3, <2>4 DEF RecordsAgree, Dir
<1>10. CASE ChildEnds
  BY <1>10, DirFacts
  DEF JobsTypeOK, RecordsAgree, LaunchIsClean, CommandsKnown, Dir, ChildEnds, Same,
      Orchestrate, Advance
<1>11. CASE Finish
  <2>1. CASE Valid(current)
    <3>1. Put([Dir EXCEPT !.done = settings])
      BY <1>11, <2>1 DEF Finish
    <3>2. /\ directory' \in [Plan -> Directory]
          /\ directory'[current] = [Dir EXCEPT !.done = settings]
          /\ \A j \in Plan \ {current} : directory'[j] = directory[j]
      BY <3>1, DirFacts, PutFacts
    <3> QED
      BY <1>11, <2>1, <3>2, DirFacts, AdvanceFacts
      DEF JobsTypeOK, RecordsAgree, LaunchIsClean, CommandsKnown, Dir, Finish, Same,
          Orchestrate, Advance, Directory, Valid
  <2>2. CASE ~Valid(current)
    BY <1>11, <2>2
    DEF JobsTypeOK, RecordsAgree, LaunchIsClean, CommandsKnown, Dir, Finish, Same,
        Orchestrate, Advance
  <2> QED
    BY <2>1, <2>2
<1>12. CASE Exit
  BY <1>12, DirFacts
  DEF JobsTypeOK, RecordsAgree, LaunchIsClean, CommandsKnown, Dir, Exit, Same, Orchestrate,
      Advance
<1>13. CASE Kill
  BY <1>13, DirFacts
  DEF JobsTypeOK, RecordsAgree, LaunchIsClean, CommandsKnown, Dir, Kill, Same, Orchestrate,
      Advance
<1>14. CASE StrayWrites
  <2>1. PICK j \in Plan, c \in Commands :
          /\ c \in strays
          /\ directory'[j].launch = directory[j].launch
          /\ directory'[j].done = directory[j].done
          /\ directory'[j].writers = directory[j].writers \cup {c}
          /\ directory[j].whole => directory'[j].whole
          /\ \A k \in Plan \ {j} : directory'[k] = directory[k]
    BY <1>14, StrayFacts
  <2>2. strays' = strays
    BY <1>14 DEF StrayWrites
  <2> QED
    BY <2>1, <2>2 DEF RecordsAgree
<1>15. CASE StrayEnds
  BY <1>15, DirFacts
  DEF JobsTypeOK, RecordsAgree, LaunchIsClean, CommandsKnown, Dir, StrayEnds, Same,
      Orchestrate, Advance
<1>16. CASE UNCHANGED jobsVars
  BY <1>16 DEF JobsTypeOK, RecordsAgree, LaunchIsClean, CommandsKnown, Dir, jobsVars
<1> QED
  BY <1>1, <1>2, <1>3, <1>4, <1>5, <1>6, <1>7, <1>8, <1>9, <1>10, <1>11, <1>12, <1>13, <1>14,
     <1>15, <1>16
  DEF JobsNext

\* Between the look at the directory and the launch record nobody but a command that
\* outlived its orchestrator can have written there; and what is quarantined was not
\* complete when it was looked at.
LEMMA LaunchStep == JobsInv /\ [JobsNext]_jobsVars => LaunchIsClean'
<1> SUFFICES ASSUME JobsInv, [JobsNext]_jobsVars PROVE LaunchIsClean'
  OBVIOUS
<1> USE PlanFacts, JobsAssumption DEF JobsAssumption, JobsInv
<1>1. CASE Invoke
  BY <1>1, DirFacts
  DEF JobsTypeOK, LaunchIsClean, CommandsKnown, RecordsAgree, Dir, Invoke, Same, Orchestrate,
      Advance
<1>2. CASE Skip
  BY <1>2, DirFacts, AdvanceFacts
  DEF JobsTypeOK, LaunchIsClean, CommandsKnown, RecordsAgree, Dir, Skip, Same, Orchestrate,
      Advance
<1>3. CASE Adopt
  <2>1. Put([Dir EXCEPT !.done = settings])
    BY <1>3 DEF Adopt
  <2>2. /\ directory' \in [Plan -> Directory]
        /\ directory'[current] = [Dir EXCEPT !.done = settings]
        /\ \A j \in Plan \ {current} : directory'[j] = directory[j]
    BY <2>1, DirFacts, PutFacts
  <2> QED
    BY <1>3, <2>2, DirFacts, AdvanceFacts
    DEF JobsTypeOK, LaunchIsClean, CommandsKnown, RecordsAgree, Dir, Adopt, Same,
        Orchestrate, Advance, Directory, Absent, Valid, Launched, Completed
<1>4. CASE Refuse
  BY <1>4, DirFacts
  DEF JobsTypeOK, LaunchIsClean, CommandsKnown, RecordsAgree, Dir, Refuse, Same, Orchestrate,
      Advance
<1>5. CASE Incomplete
  BY <1>5, DirFacts
  DEF JobsTypeOK, LaunchIsClean, CommandsKnown, RecordsAgree, Dir, Incomplete, Same,
      Orchestrate, Advance, Valid, Like, Launched, Absent, Directory
<1>6. CASE Quarantine
  <2>1. Put(Absent)
    BY <1>6 DEF Quarantine
  <2>2. /\ directory' \in [Plan -> Directory]
        /\ directory'[current] = Absent
        /\ \A j \in Plan \ {current} : directory'[j] = directory[j]
    BY <2>1, DirFacts, PutFacts
  <2> QED
    BY <1>6, <2>2, DirFacts, AdvanceFacts
    DEF JobsTypeOK, LaunchIsClean, CommandsKnown, RecordsAgree, Dir, Quarantine, Same,
        Orchestrate, Advance, Directory, Absent, Valid, Launched, Completed
<1>7. CASE ValidateInputs
  BY <1>7, DirFacts
  DEF JobsTypeOK, LaunchIsClean, CommandsKnown, RecordsAgree, Dir, ValidateInputs, Same,
      Orchestrate, Advance
<1>8. CASE WriteLaunch
  <2>1. Put([Dir EXCEPT !.launch = settings])
    BY <1>8 DEF WriteLaunch
  <2>2. /\ directory' \in [Plan -> Directory]
        /\ directory'[current] = [Dir EXCEPT !.launch = settings]
        /\ \A j \in Plan \ {current} : directory'[j] = directory[j]
    BY <2>1, DirFacts, PutFacts
  <2> QED
    BY <1>8, <2>2, DirFacts, AdvanceFacts
    DEF JobsTypeOK, LaunchIsClean, CommandsKnown, RecordsAgree, Dir, WriteLaunch, Same,
        Orchestrate, Advance, Directory, Absent, Valid, Launched, Completed
<1>9. CASE ChildWrites
  BY <1>9, ChildFacts, DirFacts
  DEF JobsTypeOK, LaunchIsClean, CommandsKnown, RecordsAgree, Dir, ChildWrites, Same,
      Orchestrate, Advance
<1>10. CASE ChildEnds
  BY <1>10, DirFacts
  DEF JobsTypeOK, LaunchIsClean, CommandsKnown, RecordsAgree, Dir, ChildEnds, Same,
      Orchestrate, Advance
<1>11. CASE Finish
  <2>1. CASE Valid(current)
    <3>1. Put([Dir EXCEPT !.done = settings])
      BY <1>11, <2>1 DEF Finish
    <3>2. /\ directory' \in [Plan -> Directory]
          /\ directory'[current] = [Dir EXCEPT !.done = settings]
          /\ \A j \in Plan \ {current} : directory'[j] = directory[j]
      BY <3>1, DirFacts, PutFacts
    <3> QED
      BY <1>11, <2>1, <3>2, DirFacts, AdvanceFacts
      DEF JobsTypeOK, LaunchIsClean, CommandsKnown, RecordsAgree, Dir, Finish, Same,
          Orchestrate, Advance, Directory, Valid
  <2>2. CASE ~Valid(current)
    BY <1>11, <2>2
    DEF JobsTypeOK, LaunchIsClean, CommandsKnown, RecordsAgree, Dir, Finish, Same,
        Orchestrate, Advance
  <2> QED
    BY <2>1, <2>2
<1>12. CASE Exit
  BY <1>12, DirFacts
  DEF JobsTypeOK, LaunchIsClean, CommandsKnown, RecordsAgree, Dir, Exit, Same, Orchestrate,
      Advance
<1>13. CASE Kill
  BY <1>13, DirFacts
  DEF JobsTypeOK, LaunchIsClean, CommandsKnown, RecordsAgree, Dir, Kill, Same, Orchestrate,
      Advance
<1>14. CASE StrayWrites
  <2>1. PICK j \in Plan, c \in Commands :
          /\ c \in strays
          /\ directory'[j].launch = directory[j].launch
          /\ directory'[j].done = directory[j].done
          /\ directory'[j].writers = directory[j].writers \cup {c}
          /\ \A k \in Plan \ {j} : directory'[k] = directory[k]
    BY <1>14, StrayFacts
  <2>2. UNCHANGED <<orchestrator, settings, current, strays>>
    BY <1>14 DEF StrayWrites
  <2>3. Dir.done # 0 => Dir.writers # {}
    BY DEF JobsTypeOK, RecordsAgree, Dir
  <2>4. CASE j = current
    BY <2>1, <2>2, <2>3, <2>4 DEF LaunchIsClean, Dir
  <2>5. CASE j # current
    BY <2>1, <2>2, <2>5 DEF LaunchIsClean, Dir, JobsTypeOK
  <2> QED
    BY <2>4, <2>5
<1>15. CASE StrayEnds
  BY <1>15, DirFacts
  DEF JobsTypeOK, LaunchIsClean, CommandsKnown, RecordsAgree, Dir, StrayEnds, Same,
      Orchestrate, Advance
<1>16. CASE UNCHANGED jobsVars
  BY <1>16 DEF JobsTypeOK, LaunchIsClean, CommandsKnown, RecordsAgree, Dir, jobsVars
<1> QED
  BY <1>1, <1>2, <1>3, <1>4, <1>5, <1>6, <1>7, <1>8, <1>9, <1>10, <1>11, <1>12, <1>13, <1>14,
     <1>15, <1>16
  DEF JobsNext

\* A command outlives its orchestrator only through Kill, which puts it on record.
LEMMA CommandsStep == JobsInv /\ [JobsNext]_jobsVars => CommandsKnown'
<1> SUFFICES ASSUME JobsInv, [JobsNext]_jobsVars PROVE CommandsKnown'
  OBVIOUS
<1> USE PlanFacts, JobsAssumption DEF JobsAssumption, JobsInv
<1>1. CASE Invoke
  BY <1>1, DirFacts DEF JobsTypeOK, CommandsKnown, Invoke, Same, Orchestrate, Advance
<1>2. CASE Skip
  BY <1>2, DirFacts, AdvanceFacts DEF JobsTypeOK, CommandsKnown, Skip, Same, Orchestrate, Advance
<1>3. CASE Adopt
  <2>1. Put([Dir EXCEPT !.done = settings])
    BY <1>3 DEF Adopt
  <2>2. /\ directory' \in [Plan -> Directory]
        /\ directory'[current] = [Dir EXCEPT !.done = settings]
        /\ \A j \in Plan \ {current} : directory'[j] = directory[j]
    BY <2>1, DirFacts, PutFacts
  <2> QED
    BY <1>3, <2>2, DirFacts, AdvanceFacts
    DEF JobsTypeOK, CommandsKnown, Adopt, Same, Orchestrate, Advance, Directory, Absent,
        Valid, Launched, Completed
<1>4. CASE Refuse
  BY <1>4, DirFacts DEF JobsTypeOK, CommandsKnown, Refuse, Same, Orchestrate, Advance
<1>5. CASE Incomplete
  BY <1>5, DirFacts
  DEF JobsTypeOK, CommandsKnown, Incomplete, Same, Orchestrate, Advance, Valid, Launched,
      Absent, Directory
<1>6. CASE Quarantine
  <2>1. Put(Absent)
    BY <1>6 DEF Quarantine
  <2>2. /\ directory' \in [Plan -> Directory]
        /\ directory'[current] = Absent
        /\ \A j \in Plan \ {current} : directory'[j] = directory[j]
    BY <2>1, DirFacts, PutFacts
  <2> QED
    BY <1>6, <2>2, DirFacts, AdvanceFacts
    DEF JobsTypeOK, CommandsKnown, Quarantine, Same, Orchestrate, Advance, Directory,
        Absent, Valid, Launched, Completed
<1>7. CASE ValidateInputs
  BY <1>7, DirFacts DEF JobsTypeOK, CommandsKnown, ValidateInputs, Same, Orchestrate, Advance
<1>8. CASE WriteLaunch
  <2>1. Put([Dir EXCEPT !.launch = settings])
    BY <1>8 DEF WriteLaunch
  <2>2. /\ directory' \in [Plan -> Directory]
        /\ directory'[current] = [Dir EXCEPT !.launch = settings]
        /\ \A j \in Plan \ {current} : directory'[j] = directory[j]
    BY <2>1, DirFacts, PutFacts
  <2> QED
    BY <1>8, <2>2, DirFacts, AdvanceFacts
    DEF JobsTypeOK, CommandsKnown, WriteLaunch, Same, Orchestrate, Advance, Directory,
        Absent, Valid, Launched, Completed
<1>9. CASE ChildWrites
  BY <1>9, ChildFacts, DirFacts
  DEF JobsTypeOK, CommandsKnown, ChildWrites, Same, Orchestrate, Advance
<1>10. CASE ChildEnds
  BY <1>10, DirFacts DEF JobsTypeOK, CommandsKnown, ChildEnds, Same, Orchestrate, Advance
<1>11. CASE Finish
  <2>1. CASE Valid(current)
    <3>1. Put([Dir EXCEPT !.done = settings])
      BY <1>11, <2>1 DEF Finish
    <3>2. /\ directory' \in [Plan -> Directory]
          /\ directory'[current] = [Dir EXCEPT !.done = settings]
          /\ \A j \in Plan \ {current} : directory'[j] = directory[j]
      BY <3>1, DirFacts, PutFacts
    <3> QED
      BY <1>11, <2>1, <3>2, DirFacts, AdvanceFacts
      DEF JobsTypeOK, CommandsKnown, Finish, Same, Orchestrate, Advance, Directory, Valid
  <2>2. CASE ~Valid(current)
    BY <1>11, <2>2 DEF JobsTypeOK, CommandsKnown, Finish, Same, Orchestrate, Advance
  <2> QED
    BY <2>1, <2>2
<1>12. CASE Exit
  BY <1>12, DirFacts DEF JobsTypeOK, CommandsKnown, Exit, Same, Orchestrate, Advance
<1>13. CASE Kill
  BY <1>13, DirFacts DEF JobsTypeOK, CommandsKnown, Kill, Same, Orchestrate, Advance
<1>14. CASE StrayWrites
  BY <1>14, StrayFacts, DirFacts
  DEF JobsTypeOK, CommandsKnown, StrayWrites, Same, Orchestrate, Advance
<1>15. CASE StrayEnds
  BY <1>15, DirFacts DEF JobsTypeOK, CommandsKnown, StrayEnds, Same, Orchestrate, Advance
<1>16. CASE UNCHANGED jobsVars
  BY <1>16 DEF JobsTypeOK, CommandsKnown, jobsVars
<1> QED
  BY <1>1, <1>2, <1>3, <1>4, <1>5, <1>6, <1>7, <1>8, <1>9, <1>10, <1>11, <1>12, <1>13, <1>14,
     <1>15, <1>16
  DEF JobsNext

\* The invariant is kept.
LEMMA JobsStepInv == JobsInv /\ [JobsNext]_jobsVars => JobsInv'
  BY JobsTypeStep, RecordsStep, LaunchStep, CommandsStep DEF JobsInv

\* The strengthened invariant, types included, holds of every state of the orchestrator.
THEOREM JobsInvariant == JobsSpec => []JobsInv
  BY JobsInitInv, JobsStepInv, PTL DEF JobsSpec

\* A completion record vouches for the output beside it, for any number of jobs,
\* settings and calls, whatever is killed, adopted or quarantined
\* (run_sft_loop15_evaluations.py:815-866).
THEOREM CompletionIsVouched == JobsSpec => []CompletionVouches
<1>1. JobsInv => CompletionVouches
  BY DEF JobsInv, RecordsAgree, CompletionVouches
<1> QED
  BY <1>1, JobsInvariant, PTL

\* No step takes a completion record away from output that is all its command's.
LEMMA CompletedStep ==
  ASSUME JobsInv, JobsNext, NEW j \in Plan,
         directory[j].done # 0, directory[j].writers = {directory[j].done}
  PROVE  directory'[j].done = directory[j].done /\ directory'[j].whole
<1> USE DEF JobsInv
<1>1. directory[j].done = directory[j].launch /\ directory[j].whole
  BY DEF RecordsAgree
<1>2. current \in Plan
  BY DEF JobsTypeOK
<1>3. CASE UNCHANGED directory
  BY <1>1, <1>3
<1>4. CASE Adopt
  <2>1. Put([Dir EXCEPT !.done = settings]) /\ (j = current => directory[j].done = settings)
    BY <1>1, <1>4 DEF Adopt, Launched, Dir
  <2> QED
    BY <1>1, <1>2, <2>1, DirFacts, PutFacts DEF Directory, Dir
<1>5. CASE Finish
  <2>1. CASE Put([Dir EXCEPT !.done = settings])
    <3>1. j = current => directory[j].done = settings
      BY <1>1, <1>5 DEF Finish, Orchestrate, LaunchIsClean, Dir
    <3> QED
      BY <1>1, <1>2, <2>1, <3>1, DirFacts, PutFacts DEF Directory, Dir
  <2>2. CASE UNCHANGED directory
    BY <1>3, <2>2
  <2> QED
    BY <1>5, <2>1, <2>2 DEF Finish
<1>6. CASE Quarantine
  <2>1. j # current /\ Put(Absent)
    BY <1>6 DEF Quarantine, Orchestrate, LaunchIsClean, Dir
  <2> QED
    BY <1>1, <1>2, <2>1, DirFacts, PutFacts
<1>7. CASE WriteLaunch
  <2>1. Put([Dir EXCEPT !.launch = settings])
    BY <1>7 DEF WriteLaunch
  <2> QED
    BY <1>1, <1>2, <2>1, DirFacts, PutFacts DEF Directory, Dir
<1>8. CASE ChildWrites
  BY <1>1, <1>2, <1>8, ChildFacts DEF Dir
<1>9. CASE StrayWrites
  BY <1>1, <1>9, StrayFacts
<1>10. CASE Invoke \/ Skip \/ Refuse \/ Incomplete \/ ValidateInputs \/ ChildEnds \/ Exit \/ Kill \/ StrayEnds
  BY <1>3, <1>10
  DEF Invoke, Skip, Refuse, Incomplete, ValidateInputs, ChildEnds, Exit, Kill, StrayEnds
<1> QED
  BY <1>4, <1>5, <1>6, <1>7, <1>8, <1>9, <1>10 DEF JobsNext

\* No invocation moves completed output aside or runs its command again, unless a
\* command that outlived its orchestrator has written there
\* (run_sft_loop15_evaluations.py:815-866).
THEOREM CompletedStays == JobsSpec => CompletedIsKept
<1>1. JobsInv /\ [JobsNext]_jobsVars =>
        [\A j \in Plan : directory[j].done # 0 /\ directory[j].writers = {directory[j].done} =>
            directory'[j].done = directory[j].done /\ directory'[j].whole]_jobsVars
  BY CompletedStep
<1> QED
  BY <1>1, JobsInvariant, PTL DEF JobsSpec, CompletedIsKept

-----------------------------------------------------------------------------
(***************************************************************************)
(* The report of LoopReport, for every curve, every number of points, jobs *)
(* and invocations: it vouches for what it compares.  First, sums along    *)
(* the points.                                                             *)
(***************************************************************************)
LEMMA IntervalSum ==
  ASSUME NEW f, NEW n \in Nat, \A i \in 1 .. n + 1 : f[i] \in Int
  PROVE  /\ SumFunctionOnSet(f, 1 .. n + 1) = f[n + 1] + SumFunctionOnSet(f, 1 .. n)
         /\ SumFunctionOnSet(f, 1 .. n) \in Int
<1>1. IsFiniteSet(1 .. n + 1) /\ IsFiniteSet(1 .. n)
  <2>1. 1 \in Int /\ n \in Int /\ n + 1 \in Int
    OBVIOUS
  <2> QED
    BY ONLY <2>1, FS_Interval
<1>2. n + 1 \in 1 .. n + 1 /\ (1 .. n + 1) \ {n + 1} = 1 .. n
  OBVIOUS
<1>3. SumFunctionOnSet(f, 1 .. n + 1) = f[n + 1] + SumFunctionOnSet(f, (1 .. n + 1) \ {n + 1})
  BY <1>1, <1>2, SumWithout
<1>4. \A i \in 1 .. n : f[i] \in Int
  BY <1>2
<1>5. SumFunctionOnSet(f, 1 .. n) \in Int
  BY <1>1, <1>4, SumIsInteger
<1> QED
  BY <1>2, <1>3, <1>5

LEMMA NoInterval ==
  ASSUME NEW f
  PROVE  SumFunctionOnSet(f, 1 .. 0) = 0
<1>1. 1 .. 0 = {}
  OBVIOUS
<1> QED
  BY <1>1, SumOfNone

\* A sum of differences.
LEMMA SumOfDifferences ==
  ASSUME NEW N \in Nat, NEW f, NEW g, NEW h,
         \A i \in 1 .. N : f[i] \in Int /\ g[i] \in Int /\ h[i] = f[i] - g[i]
  PROVE  /\ SumFunctionOnSet(f, 1 .. N) \in Int /\ SumFunctionOnSet(g, 1 .. N) \in Int
         /\ SumFunctionOnSet(h, 1 .. N) = SumFunctionOnSet(f, 1 .. N) - SumFunctionOnSet(g, 1 .. N)
<1> DEFINE F(n) == SumFunctionOnSet(f, 1 .. n)
           G(n) == SumFunctionOnSet(g, 1 .. n)
           H(n) == SumFunctionOnSet(h, 1 .. n)
           P(n) == n <= N => F(n) \in Int /\ G(n) \in Int /\ H(n) = F(n) - G(n)
<1>1. P(0)
  BY NoInterval
<1>2. ASSUME NEW n \in Nat, P(n) PROVE P(n + 1)
  <2>1. SUFFICES ASSUME n + 1 <= N
                 PROVE  F(n + 1) \in Int /\ G(n + 1) \in Int /\ H(n + 1) = F(n + 1) - G(n + 1)
    OBVIOUS
  <2>2. \A i \in 1 .. n + 1 : i \in 1 .. N
    BY <2>1
  <2>3. \A i \in 1 .. n + 1 : f[i] \in Int /\ g[i] \in Int /\ h[i] \in Int
    BY <2>2
  <2>4. F(n + 1) = f[n + 1] + F(n)
    BY <2>3, IntervalSum
  <2>5. G(n + 1) = g[n + 1] + G(n)
    BY <2>3, IntervalSum
  <2>6. H(n + 1) = h[n + 1] + H(n)
    BY <2>3, IntervalSum
  <2>7. n + 1 \in 1 .. N
    BY <2>1
  <2>8. f[n + 1] \in Int /\ g[n + 1] \in Int /\ h[n + 1] = f[n + 1] - g[n + 1]
    BY <2>7
  <2>9. F(n) \in Int /\ G(n) \in Int /\ H(n) = F(n) - G(n)
    BY <1>2, <2>1
  <2> HIDE DEF F, G, H
  <2> QED
    BY <2>4, <2>5, <2>6, <2>8, <2>9
<1>3. \A n \in Nat : P(n)
  <2> DEFINE M == {n \in Nat : P(n)}
  <2> HIDE DEF P
  <2>1. M \in SUBSET Nat /\ 0 \in M /\ \A n \in M : n + 1 \in M
    BY <1>1, <1>2
  <2>2. M = Nat
    <3> HIDE DEF M
    <3> QED
      BY <2>1, Induction
  <2> QED
    BY <2>2
<1> QED
  BY <1>3

\* The area under a piece of a curve between two heights.
LEMMA Trapezoid ==
  ASSUME NEW a \in Int, NEW b \in Int, NEW lo \in Int, NEW hi \in Int, NEW d \in Int, d > 0,
         lo <= a, a <= hi, lo <= b, b <= hi
  PROVE  2 * lo * d <= (a + b) * d /\ (a + b) * d <= 2 * hi * d
<1>1. \A x, y \in Int : x <= y => x * d <= y * d
  OBVIOUS
<1>2. 2 * lo <= a + b /\ a + b <= 2 * hi /\ 2 * lo \in Int /\ 2 * hi \in Int /\ a + b \in Int
  OBVIOUS
<1> QED
  BY <1>1, <1>2

LEMMA AddsUp ==
  ASSUME NEW x \in Int, NEW p \in Int, NEW q \in Int, NEW r \in Int
  PROVE  2 * x * (q - p) + 2 * x * (r - q) = 2 * x * (r - p)
  OBVIOUS

LEMMA AreaWithin ==
  ASSUME NEW N \in Nat, NEW f, NEW c, NEW points, NEW lo \in Int, NEW hi \in Int,
         \A n \in 1 .. N + 1 : points[n] \in Int /\ c[n] \in Int /\ lo <= c[n] /\ c[n] <= hi,
         \A n \in 1 .. N : points[n] < points[n + 1] /\ f[n] = (c[n] + c[n + 1]) * (points[n + 1] - points[n])
  PROVE  /\ SumFunctionOnSet(f, 1 .. N) \in Int
         /\ 2 * lo * (points[N + 1] - points[1]) <= SumFunctionOnSet(f, 1 .. N)
         /\ SumFunctionOnSet(f, 1 .. N) <= 2 * hi * (points[N + 1] - points[1])
<1> DEFINE F(n) == SumFunctionOnSet(f, 1 .. n)
           L(n) == 2 * lo * (points[n + 1] - points[1])
           U(n) == 2 * hi * (points[n + 1] - points[1])
           P(n) == n <= N => F(n) \in Int /\ L(n) <= F(n) /\ F(n) <= U(n)
<1>1. P(0)
  <2>1. F(0) = 0
    BY NoInterval
  <2>2. points[1] \in Int
    OBVIOUS
  <2>3. L(0) = 0 /\ U(0) = 0
    BY <2>2
  <2> QED
    BY <2>1, <2>3
<1>2. ASSUME NEW n \in Nat, P(n) PROVE P(n + 1)
  <2>1. SUFFICES ASSUME n + 1 <= N
                 PROVE  F(n + 1) \in Int /\ L(n + 1) <= F(n + 1) /\ F(n + 1) <= U(n + 1)
    OBVIOUS
  <2> DEFINE m == n + 1
             d == points[m + 1] - points[m]
  <2>2. m \in 1 .. N /\ m \in 1 .. N + 1 /\ m + 1 \in 1 .. N + 1 /\ 1 \in 1 .. N + 1 /\ m \in Nat
    BY <2>1
  <2>3. /\ points[1] \in Int /\ points[m] \in Int /\ points[m + 1] \in Int /\ points[m] < points[m + 1]
        /\ c[m] \in Int /\ c[m + 1] \in Int
        /\ lo <= c[m] /\ c[m] <= hi /\ lo <= c[m + 1] /\ c[m + 1] <= hi
        /\ f[m] = (c[m] + c[m + 1]) * d
    <3> HIDE DEF m
    <3> QED
      BY <2>2 DEF d
  <2>4. d \in Int /\ d > 0
    <3> HIDE DEF m
    <3> QED
      BY <2>3 DEF d
  <2>5. 2 * lo * d <= f[m] /\ f[m] <= 2 * hi * d
    <3> HIDE DEF m, d
    <3>1. 2 * lo * d <= (c[m] + c[m + 1]) * d /\ (c[m] + c[m + 1]) * d <= 2 * hi * d
      BY <2>3, <2>4, Trapezoid, Zenon
    <3> QED
      BY <2>3, <3>1
  <2>6. \A i \in 1 .. m : f[i] \in Int
    <3>1. SUFFICES ASSUME NEW i \in 1 .. m PROVE f[i] \in Int
      OBVIOUS
    <3>2. i \in 1 .. N /\ i \in 1 .. N + 1 /\ i + 1 \in 1 .. N + 1
      BY <2>1
    <3> QED
      BY <3>2
  <2>7. F(m) = f[m] + F(n)
    BY <2>6, IntervalSum
  <2>8. F(n) \in Int /\ L(n) <= F(n) /\ F(n) <= U(n)
    BY <1>2, <2>1
  <2>9. /\ L(n) + 2 * lo * d = L(m) /\ U(n) + 2 * hi * d = U(m)
        /\ L(n) \in Int /\ U(n) \in Int /\ 2 * lo * d \in Int /\ 2 * hi * d \in Int
    <3>1. L(n) = 2 * lo * (points[m] - points[1]) /\ U(n) = 2 * hi * (points[m] - points[1])
      OBVIOUS
    <3> HIDE DEF L, U, m
    <3> QED
      BY <2>3, <3>1, AddsUp DEF L, U, d
  <2>10. f[m] \in Int
    BY <2>6, <2>2
  <2> HIDE DEF F, L, U, m, d
  <2>11. F(m) \in Int /\ L(m) <= F(m) /\ F(m) <= U(m)
    BY <2>5, <2>7, <2>8, <2>9, <2>10
  <2> QED
    BY <2>11 DEF m
<1>3. \A n \in Nat : P(n)
  <2> DEFINE M == {n \in Nat : P(n)}
  <2> HIDE DEF P
  <2>1. M \in SUBSET Nat /\ 0 \in M /\ \A n \in M : n + 1 \in M
    BY <1>1, <1>2
  <2>2. M = Nat
    <3> HIDE DEF M
    <3> QED
      BY <2>1, Induction
  <2> QED
    BY <2>2
<1> QED
  BY <1>3

\* The smallest and the largest of finitely many integers.
LEMMA ExtremesExist ==
  ASSUME NEW N \in Nat, NEW c, \A n \in 1 .. N + 1 : c[n] \in Int
  PROVE  \E low, high \in 1 .. N + 1 : \A n \in 1 .. N + 1 : c[low] <= c[n] /\ c[n] <= c[high]
<1> DEFINE P(m) == m <= N => \E low, high \in 1 .. m + 1 : \A n \in 1 .. m + 1 : c[low] <= c[n] /\ c[n] <= c[high]
<1>1. P(0)
  <2>1. \A n \in 1 .. 0 + 1 : n = 1
    OBVIOUS
  <2>2. 1 \in 1 .. 0 + 1 /\ 1 \in 1 .. N + 1
    OBVIOUS
  <2> QED
    BY <2>1, <2>2
<1>2. ASSUME NEW m \in Nat, P(m) PROVE P(m + 1)
  <2>1. SUFFICES ASSUME m + 1 <= N
                 PROVE  \E low, high \in 1 .. m + 1 + 1 : \A n \in 1 .. m + 1 + 1 : c[low] <= c[n] /\ c[n] <= c[high]
    OBVIOUS
  <2>2. PICK low \in 1 .. m + 1, high \in 1 .. m + 1 : \A n \in 1 .. m + 1 : c[low] <= c[n] /\ c[n] <= c[high]
    BY <1>2, <2>1
  <2> DEFINE new == m + 1 + 1
  <2>3. /\ new \in 1 .. N + 1 /\ low \in 1 .. N + 1 /\ high \in 1 .. N + 1
        /\ new \in 1 .. new /\ low \in 1 .. new /\ high \in 1 .. new
        /\ \A n \in 1 .. new : n \in 1 .. m + 1 \/ n = new
    BY <2>1
  <2>4. c[new] \in Int /\ c[low] \in Int /\ c[high] \in Int
    <3> HIDE DEF new
    <3> QED
      BY <2>3
  <2>5. \A n \in 1 .. m + 1 : c[n] \in Int
    BY <2>1
  <2> DEFINE a == IF c[new] <= c[low] THEN new ELSE low
             b == IF c[new] >= c[high] THEN new ELSE high
  <2>6. \A n \in 1 .. new : c[a] <= c[n] /\ c[n] <= c[b]
    <3> SUFFICES ASSUME NEW n \in 1 .. new PROVE c[a] <= c[n] /\ c[n] <= c[b]
      OBVIOUS
    <3>1. c[low] <= c[high]
      BY <2>2
    <3>2. CASE n = new
      <4> HIDE DEF new
      <4> QED
        BY <2>4, <3>1, <3>2
    <3>3. CASE n \in 1 .. m + 1
      <4>1. c[low] <= c[n] /\ c[n] <= c[high] /\ c[n] \in Int
        BY <2>2, <2>5, <3>3
      <4> HIDE DEF new
      <4> QED
        BY <2>4, <4>1
    <3> QED
      BY <2>3, <3>2, <3>3
  <2>7. a \in 1 .. new /\ b \in 1 .. new
    <3> HIDE DEF new
    <3> QED
      BY <2>3
  <2> HIDE DEF a, b
  <2> QED
    BY <2>6, <2>7
<1>3. \A n \in Nat : P(n)
  <2> DEFINE M == {n \in Nat : P(n)}
  <2> HIDE DEF P
  <2>1. M \in SUBSET Nat /\ 0 \in M /\ \A n \in M : n + 1 \in M
    BY <1>1, <1>2
  <2>2. M = Nat
    <3> HIDE DEF M
    <3> QED
      BY <2>1, Induction
  <2> QED
    BY <2>2
<1>4. P(N)
  <2> HIDE DEF P
  <2> QED
    BY <1>3
<1> QED
  BY <1>4
-----------------------------------------------------------------------------
(* The comparisons.                                                        *)

Pieces == Len(Points) - 1
AreaPieces(curve) == [n \in 1 .. Pieces |-> (curve[n] + curve[n + 1]) * (Points[n + 1] - Points[n])]

LEMMA PointsFacts ==
  /\ Pieces \in Nat /\ Pieces >= 1 /\ DOMAIN Points = 1 .. Pieces + 1
  /\ \A n \in 1 .. Pieces + 1 : Points[n] \in Int
  /\ \A n \in 1 .. Pieces : Points[n] < Points[n + 1]
  /\ Points[1] = 0 /\ Interval = Points[Pieces + 1]
  /\ NoNumber \notin Int
<1>1. Points \in Seq(Nat) /\ Len(Points) >= 2 /\ Len(Points) \in Nat
  BY ReportAssumption
<1>2. Pieces + 1 = Len(Points) /\ Pieces \in Nat /\ Pieces >= 1
  BY <1>1 DEF Pieces
<1>3. DOMAIN Points = 1 .. Pieces + 1 /\ \A n \in 1 .. Pieces + 1 : Points[n] \in Nat
  BY <1>1, <1>2
<1> QED
  BY <1>2, <1>3, ReportAssumption DEF Interval, Pieces

LEMMA AreaIs ==
  ASSUME NEW curve, \A n \in DOMAIN Points : curve[n] \in Int
  PROVE  Auc(curve) = SumFunctionOnSet(AreaPieces(curve), 1 .. Pieces)
<1>1. ~\E n \in DOMAIN Points : curve[n] = NoNumber
  BY PointsFacts
<1>2. DOMAIN AreaPieces(curve) = 1 .. Pieces
  BY DEF AreaPieces
<1>3. Auc(curve) = SumFunction(AreaPieces(curve))
  BY <1>1 DEF Auc, AreaPieces, Pieces
<1> QED
  BY <1>2, <1>3 DEF SumFunction

LEMMA AreaFits ==
  ASSUME NEW curve, \A n \in DOMAIN Points : curve[n] \in Int
  PROVE  LET values == {curve[n] : n \in DOMAIN Points}
         IN Auc(curve) \in Int /\ 2 * Interval * Min(values) <= Auc(curve) /\ Auc(curve) <= 2 * Interval * Max(values)
<1> DEFINE values == {curve[n] : n \in DOMAIN Points}
           f == AreaPieces(curve)
<1>1. \A n \in 1 .. Pieces + 1 : curve[n] \in Int
  BY PointsFacts
<1>2. PICK low \in 1 .. Pieces + 1, high \in 1 .. Pieces + 1 :
        \A n \in 1 .. Pieces + 1 : curve[low] <= curve[n] /\ curve[n] <= curve[high]
  BY <1>1, PointsFacts, ExtremesExist
<1> DEFINE lo == curve[low]
           hi == curve[high]
<1>3. lo \in Int /\ hi \in Int
  BY <1>1
<1>4. Min(values) = lo
  <2>1. lo \in values /\ \A v \in values : v \in Int /\ lo <= v
    BY <1>1, <1>2, PointsFacts
  <2> HIDE DEF values, lo
  <2> QED
    BY <2>1, LeastIs
<1>5. Max(values) = hi
  <2>1. hi \in values /\ \A v \in values : v \in Int /\ hi >= v
    BY <1>1, <1>2, PointsFacts
  <2> HIDE DEF values, hi
  <2> QED
    BY <2>1, LeastIs
<1>6. \A n \in 1 .. Pieces + 1 : Points[n] \in Int /\ curve[n] \in Int /\ lo <= curve[n] /\ curve[n] <= hi
  BY <1>1, <1>2, PointsFacts
<1>7. \A n \in 1 .. Pieces : Points[n] < Points[n + 1] /\ f[n] = (curve[n] + curve[n + 1]) * (Points[n + 1] - Points[n])
  BY PointsFacts DEF AreaPieces
<1>8. Auc(curve) = SumFunctionOnSet(f, 1 .. Pieces)
  BY AreaIs
<1> HIDE DEF lo, hi, f, values
<1>9. Pieces \in Nat
  BY PointsFacts
<1>10. /\ SumFunctionOnSet(f, 1 .. Pieces) \in Int
       /\ 2 * lo * (Points[Pieces + 1] - Points[1]) <= SumFunctionOnSet(f, 1 .. Pieces)
       /\ SumFunctionOnSet(f, 1 .. Pieces) <= 2 * hi * (Points[Pieces + 1] - Points[1])
  BY <1>3, <1>6, <1>7, <1>9, AreaWithin
<1>11. Points[Pieces + 1] \in Int /\ Points[Pieces + 1] - Points[1] = Interval /\ Interval \in Int
  <2>1. Pieces + 1 \in 1 .. Pieces + 1
    BY PointsFacts
  <2>2. Points[Pieces + 1] \in Int
    BY <2>1, PointsFacts
  <2> QED
    BY <2>2, PointsFacts
<1>12. 2 * lo * Interval = 2 * Interval * lo /\ 2 * hi * Interval = 2 * Interval * hi
  BY <1>3, <1>11
<1>13. /\ Auc(curve) \in Int /\ 2 * Interval * Min(values) <= Auc(curve) /\ Auc(curve) <= 2 * Interval * Max(values)
  BY <1>4, <1>5, <1>8, <1>10, <1>11, <1>12
<1> QED
  BY <1>13 DEF values

LEMMA TrapezoidsDiffer ==
  ASSUME NEW a \in Int, NEW b \in Int, NEW c \in Int, NEW e \in Int, NEW d \in Int
  PROVE  ((a - c) + (b - e)) * d = (a + b) * d - (c + e) * d
  OBVIOUS

LEMMA AreasDiffer ==
  ASSUME NEW r1, NEW r2, NEW delta,
         \A n \in DOMAIN Points : r1[n] \in Int /\ r2[n] \in Int /\ delta[n] = r1[n] - r2[n]
  PROVE  Auc(delta) = Auc(r1) - Auc(r2)
<1> DEFINE f == AreaPieces(r1)
           g == AreaPieces(r2)
           h == AreaPieces(delta)
<1>1. \A n \in DOMAIN Points : delta[n] \in Int
  OBVIOUS
<1>2. /\ Auc(r1) = SumFunctionOnSet(f, 1 .. Pieces)
      /\ Auc(r2) = SumFunctionOnSet(g, 1 .. Pieces)
      /\ Auc(delta) = SumFunctionOnSet(h, 1 .. Pieces)
  BY <1>1, AreaIs
<1>3. ASSUME NEW n \in 1 .. Pieces
      PROVE  f[n] \in Int /\ g[n] \in Int /\ h[n] = f[n] - g[n]
  <2>1. n \in DOMAIN Points /\ n + 1 \in DOMAIN Points /\ Points[n] \in Int /\ Points[n + 1] \in Int
    <3>1. n \in 1 .. Pieces + 1 /\ n + 1 \in 1 .. Pieces + 1
      BY PointsFacts
    <3> QED
      BY <3>1, PointsFacts
  <2> DEFINE d == Points[n + 1] - Points[n]
             m == n + 1
  <2>2. d \in Int
    BY <2>1
  <2>3. f[n] = (r1[n] + r1[m]) * d /\ g[n] = (r2[n] + r2[m]) * d /\ h[n] = (delta[n] + delta[m]) * d
    BY DEF AreaPieces
  <2>4. /\ r1[n] \in Int /\ r1[m] \in Int /\ r2[n] \in Int /\ r2[m] \in Int
        /\ delta[n] = r1[n] - r2[n] /\ delta[m] = r1[m] - r2[m]
    BY <2>1
  <2> HIDE DEF f, g, h, d, m
  <2>5. ((r1[n] - r2[n]) + (r1[m] - r2[m])) * d = (r1[n] + r1[m]) * d - (r2[n] + r2[m]) * d
    <3>1. r1[n] \in Int /\ r1[m] \in Int /\ r2[n] \in Int /\ r2[m] \in Int /\ d \in Int
      BY <2>2, <2>4
    <3> QED
      BY ONLY <3>1
  <2> QED
    BY <2>2, <2>3, <2>4, <2>5
<1> HIDE DEF f, g, h
<1>4. SumFunctionOnSet(h, 1 .. Pieces) = SumFunctionOnSet(f, 1 .. Pieces) - SumFunctionOnSet(g, 1 .. Pieces)
  BY <1>3, PointsFacts, SumOfDifferences, ZenonT(30)
<1> QED
  BY <1>2, <1>4

\* What Compare makes of the metric.
RowsOf(metric) == [s \in ReportStates |-> IF s \in available THEN metric[s[1]][s[2]] ELSE NoNumber]
MadeOf(metric) ==
  LET table == RowsOf(metric)
      auc == [b \in Branches |-> Auc(Curve(table, b))]
  IN [rows |-> table, auc |-> auc, auc_delta |-> Delta(auc["r1"], auc["r2"]),
      pointwise |-> [n \in DOMAIN Points |-> Delta(table[<<"r1", n>>], table[<<"r2", n>>])]]

LEMMA CurveIs ==
  ASSUME NEW metric \in [Branches -> Curves], NEW b \in Branches, NEW n \in DOMAIN Points
  PROVE  LET value == Curve(RowsOf(metric), b)[n]
         IN /\ value = RowsOf(metric)[<<b, n>>]
            /\ <<b, n>> \in available => value \in Int
            /\ <<b, n>> \notin available => value = NoNumber
<1>1. <<b, n>> \in ReportStates
  BY DEF ReportStates
<1>2. Curve(RowsOf(metric), b)[n] = RowsOf(metric)[<<b, n>>]
  BY DEF Curve
<1>3. RowsOf(metric)[<<b, n>>] = IF <<b, n>> \in available THEN metric[b][n] ELSE NoNumber
  BY <1>1 DEF RowsOf
<1>4. metric[b][n] \in Int
  <2>1. metric[b] \in Seq(Int) /\ Len(metric[b]) = Len(Points)
    BY ReportAssumption
  <2>2. DOMAIN Points = 1 .. Len(Points)
    BY ReportAssumption
  <2>3. n \in 1 .. Len(metric[b])
    BY <2>1, <2>2
  <2> QED
    BY <2>1, <2>3
<1> QED
  BY <1>2, <1>3, <1>4

LEMMA AreaThere ==
  ASSUME NEW metric \in [Branches -> Curves], NEW b \in Branches
  PROVE  LET curve == Curve(RowsOf(metric), b)
             values == {curve[n] : n \in DOMAIN Points}
             there == \A n \in DOMAIN Points : <<b, n>> \in available
         IN /\ (Auc(curve) # NoNumber) = there
            /\ there => (\A n \in DOMAIN Points : curve[n] \in Int) /\ Auc(curve) \in Int
            /\ Auc(curve) # NoNumber => 2 * Interval * Min(values) <= Auc(curve) /\ Auc(curve) <= 2 * Interval * Max(values)
<1> DEFINE curve == Curve(RowsOf(metric), b)
           values == {curve[n] : n \in DOMAIN Points}
           there == \A n \in DOMAIN Points : <<b, n>> \in available
<1>1. CASE there
  <2>1. \A n \in DOMAIN Points : curve[n] \in Int
    BY <1>1, CurveIs
  <2>2. Auc(curve) \in Int /\ 2 * Interval * Min(values) <= Auc(curve) /\ Auc(curve) <= 2 * Interval * Max(values)
    <3> HIDE DEF curve
    <3> QED
      BY <2>1, AreaFits
  <2>3. Auc(curve) # NoNumber
    BY <2>2, PointsFacts
  <2> QED
    BY <1>1, <2>1, <2>2, <2>3
<1>2. CASE ~there
  <2>1. \E n \in DOMAIN Points : curve[n] = NoNumber
    BY <1>2, CurveIs
  <2>2. Auc(curve) = NoNumber
    BY <2>1 DEF Auc
  <2> QED
    BY <1>2, <2>2
<1> QED
  BY <1>1, <1>2

LEMMA ComparisonsSound ==
  ASSUME NEW metric \in [Branches -> Curves], comparisons = MadeOf(metric)
  PROVE  /\ \A b \in Branches :
              LET curve == Curve(comparisons.rows, b)
                  area == comparisons.auc[b]
              IN /\ (area # NoNumber) = (\A n \in DOMAIN Points : <<b, n>> \in available)
                 /\ area # NoNumber => LET values == {curve[n] : n \in DOMAIN Points}
                                       IN 2 * Interval * Min(values) <= area /\ area <= 2 * Interval * Max(values)
         /\ comparisons.auc_delta # NoNumber => comparisons.auc_delta = Auc(comparisons.pointwise)
<1> DEFINE table == RowsOf(metric)
<1>1. /\ comparisons.rows = table
      /\ \A b \in Branches : comparisons.auc[b] = Auc(Curve(table, b))
      /\ comparisons.auc_delta = Delta(Auc(Curve(table, "r1")), Auc(Curve(table, "r2")))
      /\ comparisons.pointwise = [n \in DOMAIN Points |-> Delta(table[<<"r1", n>>], table[<<"r2", n>>])]
  BY DEF MadeOf, Branches
<1>2. "r1" \in Branches /\ "r2" \in Branches
  BY DEF Branches
<1>3. ASSUME NEW b \in Branches
      PROVE  LET curve == Curve(comparisons.rows, b)
                 area == comparisons.auc[b]
             IN /\ (area # NoNumber) = (\A n \in DOMAIN Points : <<b, n>> \in available)
                /\ area # NoNumber => LET values == {curve[n] : n \in DOMAIN Points}
                                      IN 2 * Interval * Min(values) <= area /\ area <= 2 * Interval * Max(values)
  <2>1. Curve(comparisons.rows, b) = Curve(table, b) /\ comparisons.auc[b] = Auc(Curve(table, b))
    BY <1>1
  <2>2. LET curve == Curve(table, b)
            area == Auc(Curve(table, b))
        IN /\ (area # NoNumber) = (\A n \in DOMAIN Points : <<b, n>> \in available)
           /\ area # NoNumber => LET values == {curve[n] : n \in DOMAIN Points}
                                 IN 2 * Interval * Min(values) <= area /\ area <= 2 * Interval * Max(values)
    BY AreaThere, Zenon
  <2> HIDE DEF table
  <2> QED
    BY <2>1, <2>2, Zenon
<1>4. ASSUME comparisons.auc_delta # NoNumber PROVE comparisons.auc_delta = Auc(comparisons.pointwise)
  <2> DEFINE c1 == Curve(table, "r1")
             c2 == Curve(table, "r2")
  <2>1. Auc(c1) # NoNumber /\ Auc(c2) # NoNumber /\ comparisons.auc_delta = Auc(c1) - Auc(c2)
    BY <1>1, <1>4 DEF Delta
  <2>2. \A n \in DOMAIN Points : c1[n] \in Int /\ c2[n] \in Int
    BY <1>2, <2>1, AreaThere
  <2>3. \A n \in DOMAIN Points : comparisons.pointwise[n] = Delta(c1[n], c2[n])
    BY <1>1, <1>2, CurveIs
  <2>4. \A n \in DOMAIN Points : comparisons.pointwise[n] = c1[n] - c2[n]
    BY <2>2, <2>3, PointsFacts DEF Delta
  <2> HIDE DEF c1, c2
  <2>5. Auc(comparisons.pointwise) = Auc(c1) - Auc(c2)
    BY <2>2, <2>4, AreasDiffer
  <2> QED
    BY <2>1, <2>5
<1> QED
  BY <1>3, <1>4
-----------------------------------------------------------------------------
(* The directories while they are read.                                    *)

\* What is about to be moved aside is not complete, unless a stray completed it.
QuarantinedIsIncomplete ==
  orchestrator = "quarantine" => (Dev(current) => Dir.done = 0) /\ (strays = {} => ~Dir.whole)

LEMMA NoStrays ==
  ASSUME JobsInv, strays = {}
  PROVE  stray = {} /\ \A j \in Plan : directory[j].whole => directory[j].writers = {directory[j].launch}
<1>1. stray = {}
  BY DEF JobsInv, CommandsKnown
<1>2. \A j \in Plan : directory[j].writers \subseteq {directory[j].launch} /\ (directory[j].whole => directory[j].writers # {})
  BY DEF JobsInv, RecordsAgree
<1> QED
  BY <1>1, <1>2

\* Whoever has outlived an orchestrator stays on record.
LEMMA StraysStay ==
  ASSUME JobsNext
  PROVE  strays \subseteq strays'
<1>1. CASE Kill
  BY <1>1 DEF Kill
<1>2. CASE ~Kill
  BY <1>2
  DEF JobsNext, Same, Invoke, Skip, Adopt, Refuse, Incomplete, Quarantine, ValidateInputs, WriteLaunch, ChildWrites,
      ChildEnds, Finish, Exit, StrayWrites, StrayEnds
<1> QED
  BY <1>1, <1>2

LEMMA QuarantineStep ==
  ASSUME JobsInv, QuarantinedIsIncomplete, JobsNext
  PROVE  QuarantinedIsIncomplete'
<1> SUFFICES ASSUME orchestrator' = "quarantine"
             PROVE  (Dev(current)' => Dir'.done = 0) /\ (strays' = {} => ~Dir'.whole)
  BY DEF QuarantinedIsIncomplete
<1> USE DEF JobsInv
<1>1. current \in Plan /\ current' = current /\ Dev(current)' = Dev(current)
  <2>1. ~Advance /\ current' = current
    BY DEF Advance, JobsNext, Invoke, Skip, Adopt, Refuse, Incomplete, Quarantine, ValidateInputs, WriteLaunch,
           ChildWrites, ChildEnds, Finish, Exit, Kill, StrayWrites, StrayEnds, Orchestrate
  <2> QED
    BY <2>1 DEF JobsTypeOK, Dev
<1>2. CASE Incomplete
  <2>1. directory' = directory /\ strays' = strays /\ ~Valid(current) /\ (Dir = Absent \/ Launched)
    BY <1>2 DEF Incomplete, Same
  <2>2. Dir' = Dir
    BY <1>1, <2>1 DEF Dir
  <2>3. Dev(current) => ~Dir.whole
    BY <2>1 DEF Valid, Dir
  <2>4. Dir.done # 0 => Dir.whole
    BY <1>1 DEF RecordsAgree, Dir
  <2>5. ASSUME strays = {}, Dir.whole PROVE FALSE
    <3>1. Dir # Absent /\ Dir.launch = settings
      BY <2>1, <2>5 DEF Absent, Launched
    <3>2. Dir.writers = {Dir.launch}
      BY <1>1, <2>5, NoStrays DEF Dir
    <3> QED
      BY <2>1, <2>5, <3>1, <3>2 DEF Valid, Like, Dir
  <2> QED
    BY <1>1, <2>1, <2>2, <2>3, <2>4, <2>5
<1>3. CASE StrayWrites
  <2>1. PICK j \in Plan, c \in Commands :
              /\ c \in strays
              /\ directory'[j].done = directory[j].done
              /\ \A k \in Plan \ {j} : directory'[k] = directory[k]
    BY <1>3, StrayFacts
  <2>2. Dir'.done = Dir.done
    BY <1>1, <2>1 DEF Dir
  <2>3. strays' # {} /\ orchestrator = "quarantine"
    BY <1>3, <2>1 DEF StrayWrites
  <2> QED
    BY <1>1, <2>2, <2>3 DEF QuarantinedIsIncomplete
<1>4. CASE StrayEnds
  <2>1. directory' = directory /\ orchestrator = "quarantine" /\ strays' = strays
    BY <1>4 DEF StrayEnds
  <2>2. Dir' = Dir
    BY <1>1, <2>1 DEF Dir
  <2> QED
    BY <1>1, <2>1, <2>2 DEF QuarantinedIsIncomplete
<1>5. CASE ~(Incomplete \/ StrayWrites \/ StrayEnds)
  BY <1>5
  DEF JobsNext, Invoke, Skip, Adopt, Refuse, Quarantine, ValidateInputs, WriteLaunch, ChildWrites, ChildEnds, Finish,
      Exit, Kill, Advance, Orchestrate
<1> QED
  BY <1>2, <1>3, <1>4, <1>5

\* What is whole stays as it is while no command outlives its orchestrator.
LEMMA WholeStays ==
  ASSUME JobsInv, QuarantinedIsIncomplete, JobsNext, strays' = {}, NEW j \in Plan, directory[j].whole
  PROVE  directory'[j].whole /\ directory'[j].launch = directory[j].launch
<1> USE DEF JobsInv
<1>1. strays = {} /\ stray = {} /\ directory[j].writers = {directory[j].launch} /\ current \in Plan
  BY StraysStay, NoStrays DEF JobsTypeOK
<1>2. ~StrayWrites
  BY <1>1 DEF StrayWrites
<1>3. CASE UNCHANGED directory
  BY <1>3
<1>4. CASE Adopt
  <2>1. Put([Dir EXCEPT !.done = settings])
    BY <1>4 DEF Adopt
  <2> QED
    BY <1>1, <2>1, DirFacts, PutFacts DEF Directory, Dir
<1>5. CASE Finish
  <2>1. CASE Put([Dir EXCEPT !.done = settings])
    BY <1>1, <2>1, DirFacts, PutFacts DEF Directory, Dir
  <2>2. CASE UNCHANGED directory
    BY <1>3, <2>2
  <2> QED
    BY <1>5, <2>1, <2>2 DEF Finish
<1>6. CASE Quarantine
  <2>1. j # current /\ Put(Absent)
    BY <1>1, <1>6 DEF Quarantine, Orchestrate, QuarantinedIsIncomplete, Dir
  <2> QED
    BY <1>1, <2>1, DirFacts, PutFacts
<1>7. CASE WriteLaunch
  <2>1. Put([Dir EXCEPT !.launch = settings]) /\ Dir.writers \subseteq strays
    BY <1>7 DEF WriteLaunch, Orchestrate, LaunchIsClean
  <2>2. j # current
    BY <1>1, <2>1 DEF Dir
  <2> QED
    BY <1>1, <2>1, <2>2, DirFacts, PutFacts
<1>8. CASE ChildWrites
  BY <1>1, <1>8, ChildFacts DEF Dir
<1>9. CASE Invoke \/ Skip \/ Refuse \/ Incomplete \/ ValidateInputs \/ ChildEnds \/ Exit \/ Kill \/ StrayEnds
  BY <1>3, <1>9
  DEF Invoke, Skip, Refuse, Incomplete, ValidateInputs, ChildEnds, Exit, Kill, StrayEnds
<1> QED
  BY <1>2, <1>4, <1>5, <1>6, <1>7, <1>8, <1>9 DEF JobsNext

\* The completion of a dev evaluation stays, whoever writes there.
LEMMA DevDoneStays ==
  ASSUME JobsInv, QuarantinedIsIncomplete, JobsNext, NEW j \in Plan, Dev(j), directory[j].done # 0
  PROVE  directory'[j].done = directory[j].done
<1> USE DEF JobsInv
<1>1. current \in Plan /\ directory[j].done = directory[j].launch
  BY DEF JobsTypeOK, RecordsAgree
<1>3. CASE UNCHANGED directory
  BY <1>3
<1>4. CASE Adopt
  <2>1. Put([Dir EXCEPT !.done = settings]) /\ (j = current => directory[j].done = settings)
    BY <1>1, <1>4 DEF Adopt, Launched, Dir
  <2> QED
    BY <1>1, <2>1, DirFacts, PutFacts DEF Directory, Dir
<1>5. CASE Finish
  <2>1. CASE Put([Dir EXCEPT !.done = settings])
    <3>1. j = current => directory[j].done = settings
      BY <1>1, <1>5 DEF Finish, Orchestrate, LaunchIsClean, Dir
    <3> QED
      BY <1>1, <2>1, <3>1, DirFacts, PutFacts DEF Directory, Dir
  <2>2. CASE UNCHANGED directory
    BY <1>3, <2>2
  <2> QED
    BY <1>5, <2>1, <2>2 DEF Finish
<1>6. CASE Quarantine
  <2>1. j # current /\ Put(Absent)
    BY <1>6 DEF Quarantine, Orchestrate, QuarantinedIsIncomplete, Dir
  <2> QED
    BY <1>1, <2>1, DirFacts, PutFacts
<1>7. CASE WriteLaunch
  <2>1. Put([Dir EXCEPT !.launch = settings])
    BY <1>7 DEF WriteLaunch
  <2> QED
    BY <1>1, <2>1, DirFacts, PutFacts DEF Directory, Dir
<1>8. CASE ChildWrites
  BY <1>1, <1>8, ChildFacts DEF Dir
<1>9. CASE StrayWrites
  BY <1>1, <1>9, StrayFacts
<1>10. CASE Invoke \/ Skip \/ Refuse \/ Incomplete \/ ValidateInputs \/ ChildEnds \/ Exit \/ Kill \/ StrayEnds
  BY <1>3, <1>10
  DEF Invoke, Skip, Refuse, Incomplete, ValidateInputs, ChildEnds, Exit, Kill, StrayEnds
<1> QED
  BY <1>4, <1>5, <1>6, <1>7, <1>8, <1>9, <1>10 DEF JobsNext

-----------------------------------------------------------------------------
(* The report.                                                             *)

ReportSites == {"start", "summary", "launch", "completion", "manifest", "diagnostic", "resolved_config",
                "diagnostic_launch", "diagnostic_completion", "training", "compare", "done"}
AfterDiagnostic == {"resolved_config", "diagnostic_launch", "diagnostic_completion", "training", "compare", "done"}

ReportTypeOK ==
  /\ report \in ReportSites
  /\ read_writers \in [Plan -> SUBSET Commands]
  /\ available \in SUBSET ReportStates
  /\ diagnosed \in BOOLEAN

Erred == "error" \in issues

DevRow ==
  DevState \in available /\ ~Erred =>
    /\ report \notin {"start", "summary"}
    /\ report = "completion" => launch \in Contract
    /\ report \notin {"launch", "completion"} => directory[1].done \in Contract
    /\ strays = {} => /\ read_writers[1] = {directory[1].launch} /\ directory[1].whole
                      /\ report # "launch" => directory[1].launch \in Contract

Diagnosis == directory[DiagnosticJob]
DiagnosticRow ==
  /\ diagnosed => report \in AfterDiagnostic
  /\ diagnosed /\ ~Erred =>
    /\ read_writers[DiagnosticJob] \cap Contract # {}
    /\ strays = {} => /\ read_writers[DiagnosticJob] = {Diagnosis.launch} /\ Diagnosis.whole
                      /\ report \in {"training", "compare", "done"} => Diagnosis.done \in Contract

\* Without an issue nothing is absent.
RowsThere ==
  ~Erred /\ "missing" \notin issues =>
    /\ report # "start" => ReportStates \ {DevState} \subseteq available
    /\ report \notin {"start", "summary"} => DevState \in available
    /\ report \in AfterDiagnostic => diagnosed

Compared ==
  report = "done" =>
    /\ \E metric \in [Branches -> Curves] : comparisons = MadeOf(metric)
    /\ exit_code = 0 => ~Erred /\ "missing" \notin issues

RInv == /\ JobsInv /\ QuarantinedIsIncomplete
        /\ ReportTypeOK /\ DevRow /\ DiagnosticRow /\ RowsThere /\ Compared

LEMMA JobsFacts ==
  /\ 1 \in Plan /\ DiagnosticJob \in Plan /\ DiagnosticJob # 1
  /\ Dev(1) /\ DevState \in ReportStates
<1>1. 1 <= DevJobs /\ DevJobs < AllJobs /\ DevJobs \in Nat /\ AllJobs \in Nat
  BY ReportAssumption, JobsAssumption
<1>2. "r1" \in Branches /\ Len(Points) \in DOMAIN Points
  BY ReportAssumption DEF Branches
<1> QED
  BY <1>1, <1>2 DEF Plan, DiagnosticJob, Dev, DevState, ReportStates

LEMMA ContractFacts == 1 \in Contract /\ 0 \notin Contract
BY JobsAssumption DEF Contract, Commands, Like

LEMMA ReportInitInv == JobsInit /\ ReportInit => RInv
<1> SUFFICES ASSUME JobsInit, ReportInit PROVE RInv
  OBVIOUS
<1>1. JobsInv
  BY JobsInitInv
<1>2. QuarantinedIsIncomplete
  BY DEF JobsInit, QuarantinedIsIncomplete
<1>3. ReportTypeOK
  BY DEF ReportInit, ReportTypeOK, ReportSites
<1>4. DevRow /\ DiagnosticRow /\ RowsThere /\ Compared
  BY DEF ReportInit, DevRow, DiagnosticRow, RowsThere, Compared, AfterDiagnostic
<1> QED
  BY <1>1, <1>2, <1>3, <1>4 DEF RInv

\* The jobs go on.
LEMMA JobsGoOn ==
  ASSUME RInv, JobsNext, UNCHANGED reportVars, report # "done"
  PROVE  RInv'
<1> USE DEF RInv
<1>1. JobsInv' /\ QuarantinedIsIncomplete'
  BY JobsStepInv, QuarantineStep
<1>2. /\ report' = report /\ issues' = issues /\ available' = available /\ diagnosed' = diagnosed
      /\ launch' = launch /\ read_writers' = read_writers /\ (Erred' <=> Erred)
  BY DEF reportVars, Erred
<1>3. ReportTypeOK' /\ RowsThere' /\ Compared'
  <2>1. DevState' = DevState /\ ReportStates' = ReportStates
    BY DEF DevState, ReportStates, Branches
  <2> QED
    BY <1>2, <2>1 DEF ReportTypeOK, RowsThere, Compared
<1>4. strays' = {} => strays = {}
  BY StraysStay
<1>5. \A j \in Plan : strays' = {} /\ directory[j].whole =>
        directory'[j].whole /\ directory'[j].launch = directory[j].launch
  BY WholeStays
<1>6. DevRow'
  <2>1. SUFFICES ASSUME DevState \in available, ~Erred
                 PROVE  /\ report \notin {"start", "summary"}
                        /\ report = "completion" => launch \in Contract
                        /\ report \notin {"launch", "completion"} => directory'[1].done \in Contract
                        /\ strays' = {} => /\ read_writers[1] = {directory'[1].launch} /\ directory'[1].whole
                                           /\ report # "launch" => directory'[1].launch \in Contract
    BY <1>2 DEF DevRow, DevState
  <2>2. directory[1].done \in Contract => directory'[1].done \in Contract
    BY JobsFacts, DevDoneStays, ContractFacts
  <2> QED
    BY <1>4, <1>5, <2>1, <2>2, JobsFacts DEF DevRow
<1>7. DiagnosticRow'
  <2> DEFINE j == DiagnosticJob
  <2>1. SUFFICES ASSUME diagnosed, ~Erred
                 PROVE  /\ read_writers[j] \cap Contract # {}
                        /\ strays' = {} => /\ read_writers[j] = {directory'[j].launch} /\ directory'[j].whole
                                           /\ report \in {"training", "compare", "done"} => directory'[j].done \in Contract
    BY <1>2 DEF DiagnosticRow, Diagnosis, AfterDiagnostic, DiagnosticJob
  <2>2. read_writers[j] \cap Contract # {}
    BY <2>1 DEF DiagnosticRow
  <2>3. ASSUME strays' = {}
        PROVE  /\ read_writers[j] = {directory'[j].launch} /\ directory'[j].whole
               /\ report \in {"training", "compare", "done"} => directory'[j].done \in Contract
    <3>1. /\ strays = {} /\ read_writers[j] = {directory[j].launch} /\ directory[j].whole
          /\ report \in {"training", "compare", "done"} => directory[j].done \in Contract
      BY <1>4, <2>1, <2>3 DEF DiagnosticRow, Diagnosis
    <3>2. directory'[j].launch = directory[j].launch /\ directory'[j].whole
      BY <1>5, <2>3, <3>1, JobsFacts
    <3>3. directory[j].writers = {directory[j].launch}
      BY <3>1, NoStrays, JobsFacts
    <3>4. directory[j].done # 0 => directory[j].done = directory[j].launch
      BY JobsFacts DEF JobsInv, RecordsAgree
    <3>5. directory[j].done \in Contract => directory'[j].done \in Contract
      <4>1. SUFFICES ASSUME directory[j].done \in Contract PROVE directory'[j].done \in Contract
        OBVIOUS
      <4>2. directory[j].done # 0 /\ directory[j].writers = {directory[j].done}
        BY <3>3, <3>4, <4>1, ContractFacts
      <4> HIDE DEF j
      <4> QED
        BY <4>1, <4>2, CompletedStep, JobsFacts DEF j
    <3> QED
      BY <3>1, <3>2, <3>5
  <2> QED
    BY <2>2, <2>3
<1> QED
  BY <1>1, <1>3, <1>6, <1>7

-----------------------------------------------------------------------------
(* The steps of the report: the directories stay as they are in each.      *)

LEMMA Starts ==
  ASSUME RInv, ReportStarts, UNCHANGED jobsVars
  PROVE  ReportTypeOK' /\ DevRow' /\ DiagnosticRow' /\ RowsThere' /\ Compared'
<1> USE DEF RInv, jobsVars
<1>1. PICK missing \in {{}} \cup {{s} : s \in Gaps}, wrong \in BOOLEAN :
        /\ available' = ReportStates \ ({DevState} \cup missing)
        /\ issues' = (IF missing = {} THEN {} ELSE {"missing"})
                     \cup (IF wrong THEN {"error"} ELSE {})
                     \cup (IF R0 \in missing THEN {} ELSE {"warning"})
  BY DEF ReportStarts
<1>2. report = "start" /\ report' = "summary" /\ diagnosed' = diagnosed /\ read_writers' = read_writers
  BY DEF ReportStarts, ReportGoes
<1>3. ReportTypeOK'
  BY <1>1, <1>2 DEF ReportTypeOK, ReportSites
<1>4. DevState \notin available'
  BY <1>1
<1>5. DevRow'
  BY <1>4 DEF DevRow, DevState
<1>6. diagnosed' = FALSE
  BY <1>2 DEF DiagnosticRow, ReportTypeOK, AfterDiagnostic
<1>8. DiagnosticRow'
  BY <1>2, <1>6 DEF DiagnosticRow
<1>9. RowsThere'
  BY <1>1, <1>2 DEF RowsThere, AfterDiagnostic
<1>10. Compared'
  BY <1>2 DEF Compared
<1> QED
  BY <1>3, <1>5, <1>8, <1>9, <1>10

\* What no step of the report does: change a directory, or take back an issue.
Kept ==
  /\ directory' = directory /\ strays' = strays
  /\ issues \subseteq issues' /\ (~Erred' => ~Erred)

LEMMA NothingTakenBack ==
  ASSUME UNCHANGED jobsVars, issues \subseteq issues'
  PROVE  Kept
BY DEF Kept, jobsVars, Erred

LEMMA ReadsSummary ==
  ASSUME RInv, ReadSummary, UNCHANGED jobsVars
  PROVE  ReportTypeOK' /\ DevRow' /\ DiagnosticRow' /\ RowsThere' /\ Compared'
<1> USE DEF RInv
<1>1. Kept
  BY NothingTakenBack DEF ReadSummary, Issue
<1>2. report = "summary" /\ report' \in {"launch", "manifest"} /\ diagnosed' = diagnosed /\ diagnosed = FALSE
  BY DEF ReadSummary, DiagnosticRow, ReportTypeOK, AfterDiagnostic
<1>3. CASE directory[1].whole
  <2>1. /\ report' = "launch" /\ available' = available \cup {DevState} /\ issues' = issues
        /\ read_writers' = [read_writers EXCEPT ![1] = directory[1].writers]
    BY <1>3 DEF ReadSummary
  <2>2. directory[1].writers \in SUBSET Commands
    BY JobsFacts DEF JobsInv, JobsTypeOK, Directory
  <2>3. ReportTypeOK'
    BY <1>2, <2>1, <2>2, JobsFacts DEF ReportTypeOK, ReportSites, ReportStates
  <2>4. DevRow'
    <3>1. strays = {} => directory[1].writers = {directory[1].launch}
      BY <1>3, NoStrays, JobsFacts
    <3>2. read_writers'[1] = directory[1].writers
      BY <2>1, JobsFacts DEF ReportTypeOK
    <3> QED
      BY <1>1, <1>3, <2>1, <3>1, <3>2 DEF Kept, DevRow
  <2>5. DiagnosticRow'
    BY <1>2 DEF DiagnosticRow
  <2>6. RowsThere' /\ Compared'
    BY <1>2, <2>1 DEF RowsThere, Compared, AfterDiagnostic, ReportStates, DevState, Erred
  <2> QED
    BY <2>3, <2>4, <2>5, <2>6
<1>4. CASE ~directory[1].whole
  <2>1. report' = "manifest" /\ available' = available /\ read_writers' = read_writers
    BY <1>4 DEF ReadSummary
  <2>2. Erred' \/ "missing" \in issues'
    BY <1>4 DEF ReadSummary, Issue, Erred
  <2>3. ReportTypeOK'
    BY <1>2, <2>1 DEF ReportTypeOK, ReportSites, ReportStates
  <2>4. ~Erred => DevState \notin available
    BY <1>2 DEF DevRow
  <2>5. DevRow' /\ DiagnosticRow' /\ RowsThere' /\ Compared'
    BY <1>1, <1>2, <2>1, <2>2, <2>4 DEF Kept, DevRow, DevState, DiagnosticRow, RowsThere, Compared
  <2> QED
    BY <2>3, <2>5
<1> QED
  BY <1>3, <1>4

\* The steps that read no row.
LEMMA RowsKept ==
  ASSUME RInv, Kept, report \notin {"start", "summary", "diagnostic"},
         report' \in {"completion", "manifest", "diagnostic", "diagnostic_launch", "diagnostic_completion",
                      "training", "compare"},
         report' \in AfterDiagnostic => report \in AfterDiagnostic,
         report \in AfterDiagnostic => report' \in AfterDiagnostic,
         UNCHANGED <<available, diagnosed, read_writers>>
  PROVE  ReportTypeOK' /\ RowsThere' /\ Compared' /\ (diagnosed' => report' \in AfterDiagnostic)
<1> USE DEF RInv
<1>1. ReportTypeOK'
  BY DEF ReportTypeOK, ReportSites, ReportStates
<1>2. RowsThere' /\ Compared'
  BY DEF RowsThere, Compared, Kept, ReportStates, DevState, AfterDiagnostic
<1>3. diagnosed' => report' \in AfterDiagnostic
  BY DEF DiagnosticRow
<1> QED
  BY <1>1, <1>2, <1>3

LEMMA ReadsLaunch ==
  ASSUME RInv, ReadLaunch("launch", "completion", 1), UNCHANGED jobsVars
  PROVE  ReportTypeOK' /\ DevRow' /\ DiagnosticRow' /\ RowsThere' /\ Compared'
<1> USE DEF RInv
<1>1. Kept
  BY NothingTakenBack DEF ReadLaunch, Issue
<1>2. /\ report = "launch" /\ report' = "completion" /\ UNCHANGED <<available, diagnosed, read_writers>>
      /\ launch' = directory[1].launch
  BY DEF ReadLaunch, ReportGoes
<1>3. ReportTypeOK' /\ RowsThere' /\ Compared' /\ (diagnosed' => report' \in AfterDiagnostic)
  BY <1>1, <1>2, RowsKept DEF AfterDiagnostic
<1>4. ~Erred' => launch' \in Contract
  BY JobsFacts DEF ReadLaunch, Issue, Erred, Contract
<1>5. DevRow'
  BY <1>1, <1>2, <1>4 DEF Kept, DevRow, DevState
<1>6. DiagnosticRow'
  BY <1>2, <1>3 DEF DiagnosticRow, AfterDiagnostic
<1> QED
  BY <1>3, <1>5, <1>6

LEMMA ReadsCompletion ==
  ASSUME RInv, ReadCompletion("completion", "manifest", 1), UNCHANGED jobsVars
  PROVE  ReportTypeOK' /\ DevRow' /\ DiagnosticRow' /\ RowsThere' /\ Compared'
<1> USE DEF RInv
<1>1. Kept
  BY NothingTakenBack DEF ReadCompletion, Issue
<1>2. report = "completion" /\ report' = "manifest" /\ UNCHANGED <<available, diagnosed, read_writers>>
  BY DEF ReadCompletion, ReportGoes
<1>3. ReportTypeOK' /\ RowsThere' /\ Compared' /\ (diagnosed' => report' \in AfterDiagnostic)
  BY <1>1, <1>2, RowsKept DEF AfterDiagnostic
<1>4. ~Erred' => directory[1].done # 0 /\ (launch = 0 \/ directory[1].done = launch)
  BY DEF ReadCompletion, Issue, Erred
<1>5. DevRow'
  <2>1. DevState \in available /\ ~Erred' => launch \in Contract /\ ~Erred
    BY <1>1, <1>2 DEF Kept, DevRow
  <2>2. DevState \in available /\ ~Erred' => directory[1].done \in Contract
    BY <1>4, <2>1, ContractFacts
  <2>3. Contract' = Contract /\ DevState' = DevState
    BY DEF DevState, Contract, Commands, Like
  <2> QED
    BY <1>1, <1>2, <2>1, <2>2, <2>3 DEF Kept, DevRow
<1>6. DiagnosticRow'
  BY <1>2, <1>3 DEF DiagnosticRow, AfterDiagnostic
<1> QED
  BY <1>3, <1>5, <1>6

LEMMA ReadsManifest ==
  ASSUME RInv, ReadScenarioManifest, UNCHANGED jobsVars
  PROVE  ReportTypeOK' /\ DevRow' /\ DiagnosticRow' /\ RowsThere' /\ Compared'
<1> USE DEF RInv
<1>1. Kept
  BY NothingTakenBack DEF ReadScenarioManifest, Issue
<1>2. report = "manifest" /\ report' = "diagnostic" /\ UNCHANGED <<available, diagnosed, read_writers>>
  BY DEF ReadScenarioManifest, ReportGoes
<1>3. ReportTypeOK' /\ RowsThere' /\ Compared' /\ (diagnosed' => report' \in AfterDiagnostic)
  BY <1>1, <1>2, RowsKept DEF AfterDiagnostic
<1>5. DevRow'
  BY <1>1, <1>2 DEF Kept, DevRow, DevState
<1>6. DiagnosticRow'
  BY <1>2, <1>3 DEF DiagnosticRow, AfterDiagnostic
<1> QED
  BY <1>3, <1>5, <1>6

LEMMA ReadsDiagnostic ==
  ASSUME RInv, ReadDiagnostic, UNCHANGED jobsVars
  PROVE  ReportTypeOK' /\ DevRow' /\ DiagnosticRow' /\ RowsThere' /\ Compared'
<1> USE DEF RInv
<1> DEFINE j == DiagnosticJob
<1>1. Kept
  BY NothingTakenBack DEF ReadDiagnostic, Issue, Judge
<1>2. report = "diagnostic" /\ report' \in {"resolved_config", "training"} /\ available' = available
  BY DEF ReadDiagnostic
<1>3. DevState' = DevState /\ ReportStates' = ReportStates
  BY DEF DevState, ReportStates, Branches
<1>4. CASE directory[j].whole
  <2>1. /\ report' = "resolved_config" /\ diagnosed' = TRUE
        /\ read_writers' = [read_writers EXCEPT ![j] = directory[j].writers]
        /\ Judge(directory[j].writers)
    BY <1>4 DEF ReadDiagnostic
  <2>2. directory[j].writers \in SUBSET Commands
    BY JobsFacts DEF JobsInv, JobsTypeOK, Directory
  <2>3. read_writers' \in [Plan -> SUBSET Commands] /\ read_writers'[j] = directory[j].writers
        /\ read_writers'[1] = read_writers[1]
    BY <2>1, <2>2, JobsFacts DEF ReportTypeOK
  <2>4. ReportTypeOK'
    BY <1>2, <1>3, <2>1, <2>3 DEF ReportTypeOK, ReportSites
  <2>5. DevRow'
    BY <1>1, <1>2, <1>3, <2>1, <2>3 DEF Kept, DevRow
  <2>6. ~Erred' => directory[j].writers \cap Contract # {}
    BY <2>1 DEF Judge, Issue, Erred
  <2>7. strays = {} => directory[j].writers = {directory[j].launch}
    BY <1>4, NoStrays, JobsFacts
  <2>8. DiagnosticRow'
    <3>1. Diagnosis' = directory[j] /\ strays' = strays /\ DiagnosticJob' = j
      BY <1>1 DEF Kept, Diagnosis, DiagnosticJob
    <3>2. report' \in AfterDiagnostic /\ report' \notin {"training", "compare", "done"}
      BY <2>1 DEF AfterDiagnostic
    <3> QED
      BY <1>4, <2>3, <2>6, <2>7, <3>1, <3>2 DEF DiagnosticRow
  <2>9. RowsThere' /\ Compared'
    BY <1>1, <1>2, <1>3, <2>1 DEF Kept, RowsThere, Compared
  <2> QED
    BY <2>4, <2>5, <2>8, <2>9
<1>5. CASE ~directory[j].whole
  <2>1. report' = "training" /\ diagnosed' = diagnosed /\ read_writers' = read_writers
    BY <1>5 DEF ReadDiagnostic
  <2>2. Erred' \/ "missing" \in issues'
    BY <1>5 DEF ReadDiagnostic, Issue, Erred
  <2>3. diagnosed = FALSE
    BY <1>2 DEF DiagnosticRow, ReportTypeOK, AfterDiagnostic
  <2>4. ReportTypeOK'
    BY <1>2, <1>3, <2>1 DEF ReportTypeOK, ReportSites
  <2>5. DevRow'
    BY <1>1, <1>2, <1>3, <2>1 DEF Kept, DevRow
  <2>6. DiagnosticRow' /\ RowsThere' /\ Compared'
    BY <1>2, <2>1, <2>2, <2>3 DEF DiagnosticRow, RowsThere, Compared
  <2> QED
    BY <2>4, <2>5, <2>6
<1> QED
  BY <1>4, <1>5

\* The steps after the diagnostic that leave its completion aside.
LEMMA DiagnosticKept ==
  ASSUME RInv, Kept, report \notin {"start", "summary", "launch", "completion"},
         report' \notin {"start", "summary", "launch", "completion"},
         report' \in AfterDiagnostic, report' \in {"training", "compare", "done"} => report \in {"training", "compare"},
         UNCHANGED <<available, diagnosed, read_writers>>
  PROVE  DevRow' /\ DiagnosticRow'
<1> USE DEF RInv
<1>1. Diagnosis' = Diagnosis /\ DevState' = DevState /\ DiagnosticJob' = DiagnosticJob /\ strays' = strays
  BY DEF Kept, Diagnosis, DevState, DiagnosticJob
<1>2. DevRow'
  BY <1>1 DEF Kept, DevRow
<1>3. DiagnosticRow'
  BY <1>1 DEF Kept, DiagnosticRow
<1> QED
  BY <1>2, <1>3

LEMMA ReadsConfig ==
  ASSUME RInv, ReadResolvedConfig, UNCHANGED jobsVars
  PROVE  ReportTypeOK' /\ DevRow' /\ DiagnosticRow' /\ RowsThere' /\ Compared'
<1>1. Kept
  BY NothingTakenBack DEF ReadResolvedConfig, Issue, Judge
<1>2. /\ report = "resolved_config" /\ report' = "diagnostic_launch"
      /\ UNCHANGED <<available, diagnosed, read_writers>>
  BY DEF ReadResolvedConfig, ReportGoes
<1>3. ReportTypeOK' /\ RowsThere' /\ Compared'
  BY <1>1, <1>2, RowsKept DEF AfterDiagnostic
<1>4. DevRow' /\ DiagnosticRow'
  BY <1>1, <1>2, DiagnosticKept DEF AfterDiagnostic
<1> QED
  BY <1>3, <1>4

LEMMA ReadsDiagnosticLaunch ==
  ASSUME RInv, ReadLaunch("diagnostic_launch", "diagnostic_completion", DiagnosticJob), UNCHANGED jobsVars
  PROVE  ReportTypeOK' /\ DevRow' /\ DiagnosticRow' /\ RowsThere' /\ Compared'
<1>1. Kept
  BY NothingTakenBack DEF ReadLaunch, Issue
<1>2. /\ report = "diagnostic_launch" /\ report' = "diagnostic_completion"
      /\ UNCHANGED <<available, diagnosed, read_writers>>
  BY DEF ReadLaunch, ReportGoes
<1>3. ReportTypeOK' /\ RowsThere' /\ Compared'
  BY <1>1, <1>2, RowsKept DEF AfterDiagnostic
<1>4. DevRow' /\ DiagnosticRow'
  BY <1>1, <1>2, DiagnosticKept DEF AfterDiagnostic
<1> QED
  BY <1>3, <1>4

LEMMA ReadsDiagnosticCompletion ==
  ASSUME RInv, ReadCompletion("diagnostic_completion", "training", DiagnosticJob), UNCHANGED jobsVars
  PROVE  ReportTypeOK' /\ DevRow' /\ DiagnosticRow' /\ RowsThere' /\ Compared'
<1> USE DEF RInv
<1> DEFINE j == DiagnosticJob
<1>1. Kept
  BY NothingTakenBack DEF ReadCompletion, Issue
<1>2. /\ report = "diagnostic_completion" /\ report' = "training"
      /\ UNCHANGED <<available, diagnosed, read_writers>>
  BY DEF ReadCompletion, ReportGoes
<1>3. ReportTypeOK' /\ RowsThere' /\ Compared'
  BY <1>1, <1>2, RowsKept DEF AfterDiagnostic
<1>4. ~Erred' => directory[j].done # 0
  BY DEF ReadCompletion, Issue, Erred
<1>5. directory[j].done # 0 => directory[j].done = directory[j].launch
  BY JobsFacts DEF JobsInv, RecordsAgree
<1>6. DevRow'
  BY <1>1, <1>2 DEF Kept, DevRow, DevState
<1>7. DiagnosticRow'
  <2>1. Diagnosis' = directory[j] /\ Diagnosis = directory[j] /\ DiagnosticJob' = j /\ strays' = strays
    BY <1>1 DEF Kept, Diagnosis, DiagnosticJob
  <2>2. diagnosed /\ ~Erred' /\ strays = {} =>
          read_writers[j] = {directory[j].launch} /\ directory[j].whole /\ read_writers[j] \cap Contract # {}
    BY <1>1, <2>1 DEF Kept, DiagnosticRow
  <2>3. diagnosed /\ ~Erred' /\ strays = {} => directory[j].done \in Contract
    BY <1>4, <1>5, <2>2
  <2>4. diagnosed /\ ~Erred' => read_writers[j] \cap Contract # {}
    BY <1>1 DEF Kept, DiagnosticRow
  <2>5. report' \in AfterDiagnostic
    BY <1>2 DEF AfterDiagnostic
  <2> QED
    BY <1>2, <2>1, <2>2, <2>3, <2>4, <2>5 DEF DiagnosticRow
<1> QED
  BY <1>3, <1>6, <1>7

LEMMA ReadsTraining ==
  ASSUME RInv, ReadTrainingMetrics, UNCHANGED jobsVars
  PROVE  ReportTypeOK' /\ DevRow' /\ DiagnosticRow' /\ RowsThere' /\ Compared'
<1>1. Kept
  BY NothingTakenBack DEF ReadTrainingMetrics, Issue
<1>2. report = "training" /\ report' = "compare" /\ UNCHANGED <<available, diagnosed, read_writers>>
  BY DEF ReadTrainingMetrics, ReportGoes
<1>3. ReportTypeOK' /\ RowsThere' /\ Compared'
  BY <1>1, <1>2, RowsKept DEF AfterDiagnostic
<1>4. DevRow' /\ DiagnosticRow'
  BY <1>1, <1>2, DiagnosticKept DEF AfterDiagnostic
<1> QED
  BY <1>3, <1>4

LEMMA Compares ==
  ASSUME RInv, Compare, UNCHANGED jobsVars
  PROVE  ReportTypeOK' /\ DevRow' /\ DiagnosticRow' /\ RowsThere' /\ Compared'
<1> USE DEF RInv
<1>1. issues' = issues /\ Kept
  BY NothingTakenBack DEF Compare
<1>2. report = "compare" /\ report' = "done" /\ UNCHANGED <<available, diagnosed, read_writers>>
  BY DEF Compare, ReportGoes
<1>3. ReportTypeOK'
  BY <1>2 DEF ReportTypeOK, ReportSites, ReportStates
<1>4. RowsThere'
  BY <1>1, <1>2 DEF Kept, RowsThere, ReportStates, DevState, AfterDiagnostic
<1>5. DevRow' /\ DiagnosticRow'
  BY <1>1, <1>2, DiagnosticKept DEF AfterDiagnostic
<1>6. PICK metric \in [Branches -> Curves] : comparisons' = MadeOf(metric)
  BY DEF Compare, MadeOf, RowsOf
<1>7. MadeOf(metric)' = MadeOf(metric)
  BY <1>2 DEF MadeOf, RowsOf, Curve, ReportStates, Branches
<1>8. exit_code' = 0 => ~Erred' /\ "missing" \notin issues'
  BY <1>1 DEF Compare, Erred
<1>9. Compared'
  BY <1>6, <1>7, <1>8 DEF Compared, Branches
<1> QED
  BY <1>3, <1>4, <1>5, <1>9

LEMMA ReportStepInv ==
  ASSUME RInv, [ReportNext]_<<jobsVars, reportVars>>
  PROVE  RInv'
<1>1. CASE UNCHANGED <<jobsVars, reportVars>>
  <2>1. JobsInv'
    BY <1>1, JobsStepInv DEF RInv
  <2>2. QuarantinedIsIncomplete'
    BY <1>1 DEF RInv, QuarantinedIsIncomplete, jobsVars, Dir
  <2>3. /\ DevState' = DevState /\ ReportStates' = ReportStates /\ DiagnosticJob' = DiagnosticJob
        /\ (Erred' <=> Erred) /\ Diagnosis' = Diagnosis /\ strays' = strays /\ directory' = directory
    BY <1>1 DEF DevState, ReportStates, Branches, DiagnosticJob, Erred, Diagnosis, jobsVars, reportVars
  <2>4. ReportTypeOK' /\ DevRow' /\ DiagnosticRow' /\ RowsThere'
    BY <1>1, <2>3, Zenon DEF RInv, ReportTypeOK, DevRow, DiagnosticRow, RowsThere, reportVars
  <2>5. Compared'
    <3>1. ASSUME NEW metric \in [Branches -> Curves] PROVE MadeOf(metric)' = MadeOf(metric)
      BY <1>1 DEF MadeOf, RowsOf, Curve, ReportStates, Branches, reportVars
    <3> QED
      BY <1>1, <2>3, <3>1 DEF RInv, Compared, reportVars, Branches
  <2> QED
    BY <2>1, <2>2, <2>4, <2>5 DEF RInv
<1>2. CASE report # "done" /\ JobsNext /\ UNCHANGED reportVars
  BY <1>2, JobsGoOn
<1>3. CASE ReportStep /\ UNCHANGED jobsVars
  <2>1. JobsInv'
    BY <1>3, JobsStepInv DEF RInv
  <2>2. QuarantinedIsIncomplete'
    BY <1>3 DEF RInv, QuarantinedIsIncomplete, jobsVars, Dir
  <2>3. ReportTypeOK' /\ DevRow' /\ DiagnosticRow' /\ RowsThere' /\ Compared'
    BY <1>3, Starts, ReadsSummary, ReadsLaunch, ReadsCompletion, ReadsManifest, ReadsDiagnostic, ReadsConfig,
       ReadsDiagnosticLaunch, ReadsDiagnosticCompletion, ReadsTraining, Compares, Zenon DEF ReportStep
  <2> QED
    BY <2>1, <2>2, <2>3 DEF RInv
<1> QED
  BY <1>1, <1>2, <1>3 DEF ReportNext

LEMMA ReportIsVouched == RInv => ReportVouches
<1> SUFFICES ASSUME RInv, report = "done" PROVE ReportVouches
  BY DEF ReportVouches
<1> USE DEF RInv
<1>1. Status # "fail" => ~Erred
  BY DEF Status, Erred
<1>2. ~Erred /\ DevState \in available =>
        /\ directory[1].done \in Contract
        /\ strays = {} => read_writers[1] = {directory[1].done}
  BY JobsFacts, ContractFacts DEF DevRow, JobsInv, RecordsAgree
<1>3. ~Erred /\ diagnosed =>
        /\ read_writers[DiagnosticJob] \cap Contract # {}
        /\ strays = {} => /\ directory[DiagnosticJob].done \in Contract
                         /\ read_writers[DiagnosticJob] = {directory[DiagnosticJob].done}
  <2>1. SUFFICES ASSUME ~Erred, diagnosed
                 PROVE  /\ read_writers[DiagnosticJob] \cap Contract # {}
                        /\ strays = {} => /\ directory[DiagnosticJob].done \in Contract
                                         /\ read_writers[DiagnosticJob] = {directory[DiagnosticJob].done}
    OBVIOUS
  <2>2. /\ read_writers[DiagnosticJob] \cap Contract # {}
        /\ strays = {} => read_writers[DiagnosticJob] = {Diagnosis.launch} /\ Diagnosis.done \in Contract
    BY <2>1 DEF DiagnosticRow, Diagnosis
  <2>3. Diagnosis.done \in Contract => Diagnosis.done = Diagnosis.launch
    BY JobsFacts, ContractFacts DEF JobsInv, RecordsAgree, Diagnosis
  <2> QED
    BY <2>2, <2>3 DEF Diagnosis
<1>4. exit_code = 0 => available = ReportStates /\ diagnosed
  BY DEF Compared, RowsThere, ReportTypeOK, AfterDiagnostic
<1>5. PICK metric \in [Branches -> Curves] : comparisons = MadeOf(metric)
  BY DEF Compared
<1>6. /\ \A b \in Branches :
           LET curve == Curve(comparisons.rows, b)
               area == comparisons.auc[b]
           IN /\ (area # NoNumber) = (\A n \in DOMAIN Points : <<b, n>> \in available)
              /\ area # NoNumber => LET values == {curve[n] : n \in DOMAIN Points}
                                    IN 2 * Interval * Min(values) <= area /\ area <= 2 * Interval * Max(values)
      /\ comparisons.auc_delta # NoNumber => comparisons.auc_delta = Auc(comparisons.pointwise)
  BY <1>5, ComparisonsSound, Zenon
<1> QED
  BY <1>1, <1>2, <1>3, <1>4, <1>6, Zenon DEF ReportVouches

(***************************************************************************)
(* The comparison report of build_sft_loop15_report.py vouches for what it *)
(* says, however many points, jobs, commands and invocations there are and *)
(* whatever the orchestrator does between two readings: ReportVouches.     *)
(***************************************************************************)
THEOREM ReportsVouch == ReportSpec => []ReportVouches
<1>1. JobsInit /\ ReportInit => RInv
  BY ReportInitInv
<1>2. RInv /\ [ReportNext]_<<jobsVars, reportVars>> => RInv'
  BY ReportStepInv
<1>3. RInv => ReportVouches
  BY ReportIsVouched
<1> QED
  BY <1>1, <1>2, <1>3, PTL DEF ReportSpec
================================================================================
