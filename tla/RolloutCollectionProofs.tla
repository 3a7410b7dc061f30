------------------------ MODULE RolloutCollectionProofs ------------------------
(***************************************************************************)
(* Proofs about RolloutCollection, for every number of ranks, scenarios,   *)
(* rollouts, runners, retries and iterations, with and without async       *)
(* rollouts: what get_rollouts returns is the whole of its own request and *)
(* nothing else, no cancellation of one batch reaches into the next, and   *)
(* nobody generates with an adapter that is not on the servers.            *)
(***************************************************************************)
EXTENDS RolloutCollection, TLAPS, FiniteSetTheorems

InCall == {"poll", "reduce", "collected"}

\* The request of rank r that get_rollouts has not accepted yet.  With async
\* rollouts it is made before the gradient steps, except in the last iteration.
Open(r) ==
  \/ trainer[r] \in InCall
  \/ trainer[r] = "learn" /\ Async /\ accepted < TotalIterations

Closed(r) == trainer[r] \notin Stopping /\ ~Open(r)

\* The ranks exchange the adapter together, and are on one side or the other of a
\* batch together.
LockStep ==
  /\ \/ \A r \in Ranks : trainer[r] \in {"start", "request"}
     \/ \A r \in Ranks : trainer[r] \in {"swap", "swapped"}
     \/ \A r \in Ranks : trainer[r] \notin {"start", "request", "swap", "swapped"}
  /\ accepted \in {completed, completed + 1}
  /\ \A r \in Ranks :
       /\ trainer[r] = "start" => accepted = completed
       /\ trainer[r] \in {"request", "swap", "swapped", "ask"} =>
            accepted = completed \/ (Async /\ accepted < TotalIterations)
       /\ trainer[r] = "learn" => accepted = completed + 1
       /\ trainer[r] \in InCall => accepted = completed /\ completed < TotalIterations

\* Outside the exchange every rank knows the adapter that is on the servers, and
\* it is that of the completed iterations or one behind.
Adapters ==
  /\ \A r \in Ranks :
       /\ trainer[r] \notin {"swap", "swapped"} => adapter[r] = loaded
       /\ trainer[r] = "swapped" => adapter[r] = completed
       /\ trainer[r] = "ask" => loaded = completed
       /\ trainer[r] = "learn" /\ accepted < TotalIterations => loaded = completed
       /\ trainer[r] \in InCall => loaded = completed \/ (Async /\ loaded = completed - 1)
  /\ trainer[Lead] = "swapped" => loaded = completed

\* The generation thread of rank r has not submitted the request yet.
NotSubmitted(r) ==
  \/ wanted[r] /\ worker[r] \in {"head", "waiting", "generating"}
  \/ ~wanted[r] /\ worker[r] \in {"clear", "next", "get"}

Done(r) == {k \in Tasks : task[r][k] = "done"}

\* Every finished rollout is in exactly one place.
Conserved(r) ==
  /\ collected[r] + cancelled[r] + Len(queue[r]) = Cardinality(Done(r))
  /\ collected[r] = Cardinality(rollouts[r])
  /\ rollouts[r] \subseteq Done(r)
  /\ \A i \in 1 .. Len(queue[r]) : queue[r][i].task \in Done(r) \ rollouts[r]
  /\ \A i, j \in 1 .. Len(queue[r]) : queue[r][i].task = queue[r][j].task => i = j

\* Nothing of a request has come yet.
Untouched(r) ==
  /\ InFlight(r) = {}
  /\ queue[r] = <<>>
  /\ rollouts[r] = {}
  /\ collected[r] = 0
  /\ cancelled[r] = 0
  /\ ~sufficient[r]

\* The request is submitted and its generation thread lives.
Served(r) ==
  /\ ~wanted[r]
  /\ worker[r] \in {"head", "waiting", "generating"}
  /\ worker[r] # "generating" => InFlight(r) = {}
  /\ Conserved(r)

\* The generation thread died of it.
Failed(r) ==
  /\ ~wanted[r]
  /\ worker[r] = "exited"
  /\ InFlight(r) = {}
  /\ queue[r] # <<>>
  /\ queue[r][Len(queue[r])] = Failure
  /\ trainer[r] # "collected"

Requests(r) ==
  /\ Closed(r) => ~wanted[r] /\ worker[r] \in {"head", "waiting", "generating"} /\ Untouched(r)
  /\ Open(r) => \/ NotSubmitted(r) /\ Untouched(r) /\ trainer[r] # "collected"
                \/ Served(r)
                \/ Failed(r)
  /\ trainer[r] = "collected" => collected[r] + cancelled[r] >= Total
  /\ stopEvent[r] => trainer[r] \in {"join_worker", "stopped"}

\* Cancellation is on only once the batch is sufficient, or before the generation
\* thread has cleared it.
Cancellations(r) ==
  Open(r) /\ ~sufficient[r] /\ ~wanted[r] /\ worker[r] # "clear" =>
    /\ ~cancel[r]
    /\ \A k \in Tasks : task[r][k] # "doomed"
    /\ cancelled[r] = 0
    /\ \A i \in 1 .. Len(queue[r]) : ~queue[r][i].cancelled

Decisions ==
  \A r \in Ranks :
    /\ \A s \in Ranks : sufficient[r] = sufficient[s]
    /\ trainer[r] = "reduce" => ~sufficient[r]
    /\ trainer[r] = "collected" => sufficient[r]

Generating(r) ==
  /\ worker[r] \in {"next", "get"} \/ InFlight(r) # {} => llm[r] = loaded
  /\ Open(r) /\ ~wanted[r] /\ worker[r] # "clear" => llm[r] = loaded

Sampling(r) == {t \in SamplerThreads : thread[r][t] = "sampling"}

Counters(r) ==
  /\ inProgress[r] = Cardinality(Sampling(r))
  /\ InFlight(r) # {} => softDead[r] <= MaxSoftDead
  /\ worker[r] = "get" => Outstanding(r) > 0 /\ fetched[r] < ScenariosPerRank
  /\ \A i \in 1 .. Len(queue[r]) : queue[r][i].task \in Tasks \/ queue[r][i] = Failure

RankInv(r) == Requests(r) /\ Cancellations(r) /\ Generating(r) /\ Counters(r)

IInv ==
  /\ TypeOK
  /\ LockStep
  /\ Adapters
  /\ Decisions
  /\ \A r \in Ranks : RankInv(r)

-----------------------------------------------------------------------------
\* A request has finitely many rollouts, at least one.
LEMMA TasksFinite ==
  /\ Total \in Nat \ {0}
  /\ IsFiniteSet(Tasks)
  /\ Cardinality(Tasks) = Total
<1>1. Total \in Nat \ {0}
  BY WorkerAssumption DEF Total
<1> QED
  BY <1>1, FS_Interval DEF Tasks

\* The rollouts that are done are finitely many, all of them when they are Total.
LEMMA DoneFinite ==
  ASSUME NEW r \in Ranks
  PROVE  /\ IsFiniteSet(Done(r))
         /\ Cardinality(Done(r)) \in Nat
         /\ Cardinality(Done(r)) <= Total
         /\ Cardinality(Done(r)) = Total => Done(r) = Tasks
<1>1. Done(r) \in SUBSET Tasks
  BY DEF Done
<1> QED
  BY <1>1, TasksFinite, FS_Subset, FS_CardinalityType

\* The sampler threads that prepare a scenario are finitely many.
LEMMA SamplingFinite ==
  ASSUME NEW r \in Ranks
  PROVE  IsFiniteSet(Sampling(r)) /\ Cardinality(Sampling(r)) \in Nat
<1>1. Sampling(r) \in SUBSET SamplerThreads
  BY DEF Sampling
<1> QED
  BY <1>1, SamplerAssumption, FS_Subset, FS_CardinalityType

\* What a rank that has collected its batch knows of it.
LEMMA CollectedIsComplete ==
  ASSUME IInv, NEW r \in Ranks, trainer[r] = "collected"
  PROVE  /\ Served(r)
         /\ collected[r] + cancelled[r] = Total
         /\ queue[r] = <<>>
         /\ InFlight(r) = {}
<1>1. Served(r) /\ collected[r] + cancelled[r] >= Total
  BY DEF IInv, RankInv, Requests, Open, InCall, Failed, Closed
<1>2. collected[r] \in Nat /\ cancelled[r] \in Nat /\ queue[r] \in Seq(Message)
  BY DEF IInv, TypeOK, WorkerTypeOK
<1>3. Len(queue[r]) = 0 /\ Cardinality(Done(r)) = Total /\ collected[r] + cancelled[r] = Total
  BY <1>1, <1>2, DoneFinite, TasksFinite DEF Served, Conserved
<1>4. Done(r) = Tasks
  BY <1>3, DoneFinite
<1> QED
  BY <1>1, <1>2, <1>3, <1>4 DEF Done, InFlight

\* A run starts with every counter at zero and every set empty.
LEMMA InitIInv == Init => IInv
<1> SUFFICES ASSUME Init PROVE IInv
  OBVIOUS
<1> USE DEF Init, SamplerInit, WorkerInit
<1>1. TypeOK
  <2>1. SamplerTypeOK
    BY DEF SamplerTypeOK
  <2>2. 0 \in 0 .. MaxRolloutRetries /\ 0 \in 0 .. MaxSoftDead + 1 /\ 0 \in 0 .. ScenariosPerRank
    BY WorkerAssumption
  <2>3. WorkerTypeOK
    BY <2>2 DEF WorkerTypeOK, Workers, TaskStates
  <2>4. 0 \in 0 .. TotalIterations /\ 0 \in 0 .. Interrupts
    BY CollectionAssumption
  <2> QED
    BY <2>1, <2>3, <2>4 DEF TypeOK, Trainers
<1>2. LockStep /\ Adapters /\ Decisions
  BY CollectionAssumption DEF LockStep, Adapters, Decisions, InCall
<1>3. ASSUME NEW r \in Ranks
      PROVE  RankInv(r)
  <2>1. InFlight(r) = {} /\ Sampling(r) = {} /\ ~Open(r)
    BY DEF InFlight, Sampling, Open, InCall
  <2>2. Cardinality(Sampling(r)) = 0
    BY <2>1, FS_EmptySet
  <2> QED
    BY <2>1, <2>2 DEF RankInv, Requests, Cancellations, Generating, Counters, Untouched
<1> QED
  BY <1>1, <1>2, <1>3 DEF IInv

-----------------------------------------------------------------------------
(* A step of one rank leaves what the others have as it was.               *)

SameFor(r) ==
  /\ requested'[r] = requested[r] /\ inProgress'[r] = inProgress[r]
  /\ available'[r] = available[r] /\ thread'[r] = thread[r]
  /\ wanted'[r] = wanted[r] /\ cancel'[r] = cancel[r] /\ stopEvent'[r] = stopEvent[r]
  /\ worker'[r] = worker[r] /\ llm'[r] = llm[r] /\ task'[r] = task[r]
  /\ softDead'[r] = softDead[r] /\ queue'[r] = queue[r] /\ fetched'[r] = fetched[r]
  /\ trainer'[r] = trainer[r]
  /\ rollouts'[r] = rollouts[r] /\ collected'[r] = collected[r]
  /\ cancelled'[r] = cancelled[r] /\ sufficient'[r] = sufficient[r]

\* The adapter on the servers may change for a rank that generates nothing.
LEMMA Frame ==
  ASSUME NEW r \in Ranks, RankInv(r), SameFor(r), accepted' = accepted,
         loaded' = loaded \/ (Closed(r) /\ worker[r] \notin {"next", "get"} /\ InFlight(r) = {})
  PROVE  RankInv(r)'
<1> USE DEF SameFor
<1>1. Open(r)' = Open(r) /\ Closed(r)' = Closed(r) /\ InFlight(r)' = InFlight(r)
      /\ Done(r)' = Done(r) /\ Sampling(r)' = Sampling(r) /\ Outstanding(r)' = Outstanding(r)
  BY DEF Open, Closed, InFlight, Done, Sampling, Outstanding
<1>2. Requests(r)'
  <2>1. Untouched(r)' = Untouched(r) /\ NotSubmitted(r)' = NotSubmitted(r) /\ Failed(r)' = Failed(r)
    BY <1>1 DEF Untouched, NotSubmitted, Failed
  <2>2. Served(r) => Served(r)'
    BY <1>1 DEF Served, Conserved
  <2> QED
    BY <1>1, <2>1, <2>2 DEF RankInv, Requests
<1>3. Cancellations(r)'
  BY <1>1 DEF RankInv, Cancellations
<1>4. Generating(r)'
  BY <1>1 DEF RankInv, Generating, Closed
<1>5. Counters(r)'
  BY <1>1 DEF RankInv, Counters
<1> QED
  BY <1>2, <1>3, <1>4, <1>5 DEF RankInv

-----------------------------------------------------------------------------
(* The sampler threads.                                                    *)

ThreadStates == {"head", "waiting", "sampling", "exited"}

\* What ThreadAt does to the threads.
LEMMA ThreadMoves ==
  ASSUME NEW r \in Ranks, NEW t \in SamplerThreads, NEW from, NEW to \in ThreadStates,
         thread \in [Ranks -> [SamplerThreads -> ThreadStates]], ThreadAt(r, t, from, to)
  PROVE  /\ thread' \in [Ranks -> [SamplerThreads -> ThreadStates]]
         /\ thread[r][t] = from
         /\ thread'[r] = [thread[r] EXCEPT ![t] = to]
         /\ \A q \in Ranks \ {r} : thread'[q] = thread[q]
BY DEF ThreadAt

\* A scenario moves between the three counters and none is lost.
LEMMA SamplersPreserve ==
  ASSUME IInv, NEW r \in Ranks, Samplers(r)
  PROVE  /\ TypeOK'
         /\ RankInv(r)'
         /\ \A q \in Ranks \ {r} : SameFor(q)
<1> USE DEF Samplers, workerVars, progressVars, adapterVars, callVars
<1>1. PICK t \in SamplerThreads :
        ThreadHead(r, t) \/ ThreadTake(r, t) \/ ThreadWakes(r, t) \/ ThreadPut(r, t)
  BY DEF SamplerStep
<1>2. TypeOK /\ SamplerTypeOK /\ WorkerTypeOK /\ RankInv(r)
  BY DEF IInv, TypeOK
<1>3. IsFiniteSet(Sampling(r)) /\ inProgress[r] = Cardinality(Sampling(r))
  BY <1>2, SamplingFinite DEF RankInv, Counters
<1>4. /\ SamplerTypeOK'
      /\ Outstanding(r)' = Outstanding(r)
      /\ inProgress'[r] = Cardinality(Sampling(r)')
      /\ \A q \in Ranks \ {r} : /\ requested'[q] = requested[q] /\ inProgress'[q] = inProgress[q]
                                /\ available'[q] = available[q] /\ thread'[q] = thread[q]
  <2>0. thread \in [Ranks -> [SamplerThreads -> ThreadStates]]
    BY <1>2 DEF SamplerTypeOK, ThreadStates
  <2>1. CASE ThreadHead(r, t) \/ ThreadWakes(r, t)
    <3>1. PICK from \in ThreadStates \ {"sampling"}, to \in ThreadStates \ {"sampling"} :
            ThreadAt(r, t, from, to)
      BY <2>1 DEF ThreadHead, ThreadWakes, ThreadStates
    <3>2. /\ thread' \in [Ranks -> [SamplerThreads -> ThreadStates]]
          /\ thread[r][t] = from
          /\ thread'[r] = [thread[r] EXCEPT ![t] = to]
          /\ \A q \in Ranks \ {r} : thread'[q] = thread[q]
      BY <2>0, <3>1, ThreadMoves
    <3>3. Sampling(r)' = Sampling(r)
      BY <2>0, <3>2 DEF Sampling
    <3>4. UNCHANGED <<requested, inProgress, available, samplerStopped>>
      BY <2>1 DEF ThreadHead, ThreadWakes
    <3>5. SamplerTypeOK'
      BY <1>2, <3>2, <3>4 DEF SamplerTypeOK, ThreadStates
    <3> QED
      BY <3>2, <3>3, <3>4, <3>5, <1>3 DEF Outstanding
  <2>2. CASE ThreadTake(r, t)
    <3>1. /\ thread' \in [Ranks -> [SamplerThreads -> ThreadStates]]
          /\ thread[r][t] = "waiting"
          /\ thread'[r] = [thread[r] EXCEPT ![t] = "sampling"]
          /\ \A q \in Ranks \ {r} : thread'[q] = thread[q]
      BY <2>0, <2>2, ThreadMoves DEF ThreadTake, ThreadStates
    <3>2. Sampling(r)' = Sampling(r) \cup {t} /\ t \notin Sampling(r)
      BY <2>0, <3>1 DEF Sampling
    <3>3. Cardinality(Sampling(r)') = Cardinality(Sampling(r)) + 1
      BY <1>3, <3>2, FS_AddElement
    <3>4. /\ requested' = [requested EXCEPT ![r] = requested[r] - 1]
          /\ inProgress' = [inProgress EXCEPT ![r] = inProgress[r] + 1]
          /\ requested[r] > 0
          /\ UNCHANGED <<available, samplerStopped>>
      BY <2>2 DEF ThreadTake
    <3>5. SamplerTypeOK'
      BY <1>2, <3>1, <3>4 DEF SamplerTypeOK, ThreadStates
    <3>6. Outstanding(r)' = Outstanding(r)
      BY <1>2, <3>4 DEF SamplerTypeOK, Outstanding
    <3>7. inProgress'[r] = Cardinality(Sampling(r)')
      BY <1>2, <1>3, <3>3, <3>4 DEF SamplerTypeOK
    <3> QED
      BY <1>2, <3>1, <3>4, <3>5, <3>6, <3>7 DEF SamplerTypeOK
  <2>3. CASE ThreadPut(r, t)
    <3>1. /\ thread' \in [Ranks -> [SamplerThreads -> ThreadStates]]
          /\ thread[r][t] = "sampling"
          /\ thread'[r] = [thread[r] EXCEPT ![t] = "head"]
          /\ \A q \in Ranks \ {r} : thread'[q] = thread[q]
      BY <2>0, <2>3, ThreadMoves DEF ThreadPut, ThreadStates
    <3>2. Sampling(r)' = Sampling(r) \ {t} /\ t \in Sampling(r)
      BY <2>0, <3>1 DEF Sampling
    <3>3. Cardinality(Sampling(r)') = Cardinality(Sampling(r)) - 1
      BY <1>3, <3>2, FS_RemoveElement
    <3>4. /\ inProgress' = [inProgress EXCEPT ![r] = inProgress[r] - 1]
          /\ available' = [available EXCEPT ![r] = available[r] + 1]
          /\ UNCHANGED <<requested, samplerStopped>>
      BY <2>3 DEF ThreadPut
    <3>5. inProgress[r] > 0
      BY <1>3, <3>2, FS_EmptySet, SamplingFinite
    <3>6. SamplerTypeOK'
      BY <1>2, <3>1, <3>4, <3>5 DEF SamplerTypeOK, ThreadStates
    <3>7. Outstanding(r)' = Outstanding(r)
      BY <1>2, <3>4 DEF SamplerTypeOK, Outstanding
    <3>8. inProgress'[r] = Cardinality(Sampling(r)')
      BY <1>2, <1>3, <3>3, <3>4 DEF SamplerTypeOK
    <3> QED
      BY <1>2, <3>1, <3>4, <3>6, <3>7, <3>8 DEF SamplerTypeOK
  <2> QED
    BY <1>1, <2>1, <2>2, <2>3
<1>5. TypeOK'
  BY <1>2, <1>4 DEF TypeOK, WorkerTypeOK
<1>6. RankInv(r)'
  <2>1. Open(r)' = Open(r) /\ Closed(r)' = Closed(r) /\ InFlight(r)' = InFlight(r)
        /\ Done(r)' = Done(r)
    BY DEF Open, Closed, InFlight, Done
  <2>2. Requests(r)' = Requests(r) /\ Cancellations(r)' = Cancellations(r)
        /\ Generating(r)' = Generating(r)
    BY <2>1 DEF Requests, Cancellations, Generating, Untouched, NotSubmitted, Served, Failed,
                Conserved
  <2>3. Counters(r)'
    BY <1>2, <1>4, <2>1 DEF RankInv, Counters
  <2> QED
    BY <1>2, <2>2, <2>3 DEF RankInv
<1> QED
  BY <1>4, <1>5, <1>6 DEF SameFor

-----------------------------------------------------------------------------
(* The generation thread.                                                  *)

\* The generation thread touches nothing of the trainer's thread.
LEMMA GenerationKeeps ==
  ASSUME NEW r \in Ranks, Generation(r)
  PROVE  /\ Open(r)' = Open(r) /\ Closed(r)' = Closed(r)
         /\ UNCHANGED <<trainer, completed, accepted, adapter, loaded, rollouts, collected,
                        cancelled, sufficient, interrupts>>
<1>1. UNCHANGED <<trainer, completed, accepted, adapter, loaded, rollouts, collected,
                  cancelled, sufficient, interrupts>>
  BY DEF Generation, progressVars, adapterVars, callVars
<1> QED
  BY <1>1 DEF Open, Closed

\* A step that only moves the thread on, or takes the request.
LEMMA RequestSteps ==
  ASSUME IInv, NEW r \in Ranks, Generation(r), WorkerHead(r) \/ WorkerWakes(r) \/ TakeRequest(r)
  PROVE  /\ TypeOK'
         /\ RankInv(r)'
         /\ \A q \in Ranks \ {r} : SameFor(q)
<1>1. TypeOK /\ WorkerTypeOK /\ RankInv(r)
  BY DEF IInv, TypeOK
<1>2. /\ UNCHANGED <<trainer, completed, accepted, adapter, loaded, rollouts, collected,
                     cancelled, sufficient, interrupts>>
      /\ Open(r)' = Open(r) /\ Closed(r)' = Closed(r)
  BY GenerationKeeps
<1>3. /\ UNCHANGED <<requested, inProgress, available, thread, samplerStopped, cancel, stopEvent,
                     fetched, llm, task, retries, softDead, queue>>
      /\ \/ /\ worker[r] = "head"
            /\ worker' = [worker EXCEPT ![r] = IF stopEvent[r] THEN "exited" ELSE "waiting"]
            /\ UNCHANGED wanted
         \/ worker[r] = "waiting" /\ worker' = [worker EXCEPT ![r] = "head"] /\ UNCHANGED wanted
         \/ /\ worker[r] = "waiting" /\ worker' = [worker EXCEPT ![r] = "clear"]
            /\ wanted[r] /\ wanted' = [wanted EXCEPT ![r] = FALSE]
  BY DEF WorkerHead, WorkerWakes, TakeRequest, samplerVars
<1>4. TypeOK'
  <2>1. SamplerTypeOK'
    BY <1>1, <1>3 DEF TypeOK, SamplerTypeOK
  <2>2. worker' \in [Ranks -> Workers] /\ wanted' \in [Ranks -> BOOLEAN]
    BY <1>1, <1>3 DEF WorkerTypeOK, Workers
  <2>3. WorkerTypeOK'
    BY <1>1, <1>3, <2>2 DEF WorkerTypeOK
  <2> QED
    BY <1>1, <1>2, <2>1, <2>3 DEF TypeOK
<1>5. /\ InFlight(r)' = InFlight(r) /\ Done(r)' = Done(r) /\ Untouched(r)' = Untouched(r)
      /\ Conserved(r)' = Conserved(r) /\ Sampling(r)' = Sampling(r)
      /\ Outstanding(r)' = Outstanding(r)
  BY <1>2, <1>3 DEF InFlight, Done, Untouched, Conserved, Sampling, Outstanding
<1>6. Requests(r)'
  <2>1. stopEvent[r] => Open(r) = FALSE /\ Closed(r) = FALSE
    BY <1>1 DEF RankInv, Requests, Open, Closed, InCall, Stopping
  <2> QED
    BY <1>1, <1>2, <1>3, <1>5, <2>1
    DEF RankInv, Requests, WorkerTypeOK, NotSubmitted, Served, Failed, Untouched
<1>7. Cancellations(r)' /\ Generating(r)' /\ Counters(r)'
  <2>1. Cancellations(r)'
    BY <1>1, <1>2, <1>3 DEF RankInv, WorkerTypeOK, Cancellations
  <2>2. Generating(r)'
    BY <1>1, <1>2, <1>3, <1>5 DEF RankInv, WorkerTypeOK, Generating
  <2>3. Counters(r)'
    BY <1>1, <1>2, <1>3, <1>5 DEF RankInv, WorkerTypeOK, Counters
  <2> QED
    BY <2>1, <2>2, <2>3
<1>8. \A q \in Ranks \ {r} : SameFor(q)
  BY <1>1, <1>2, <1>3 DEF SameFor, WorkerTypeOK
<1> QED
  BY <1>4, <1>6, <1>7, <1>8 DEF RankInv

\* The event of the last batch is cleared before a rollout can see it, and the LLM
\* objects name the adapter that is on the servers.
LEMMA ClearStep ==
  ASSUME IInv, NEW r \in Ranks, Generation(r), ClearCancellation(r, adapter[r])
  PROVE  /\ TypeOK'
         /\ RankInv(r)'
         /\ \A q \in Ranks \ {r} : SameFor(q)
<1>1. TypeOK /\ WorkerTypeOK /\ RankInv(r)
  BY DEF IInv, TypeOK
<1>2. /\ UNCHANGED <<trainer, completed, accepted, adapter, loaded, rollouts, collected,
                     cancelled, sufficient, interrupts>>
      /\ Open(r)' = Open(r) /\ Closed(r)' = Closed(r)
  BY GenerationKeeps
<1>3. /\ UNCHANGED <<requested, inProgress, available, thread, samplerStopped, wanted, stopEvent,
                     task, retries, softDead, queue>>
      /\ worker[r] = "clear"
      /\ cancel' = [cancel EXCEPT ![r] = FALSE]
      /\ llm' = [llm EXCEPT ![r] = adapter[r]]
      /\ worker' = [worker EXCEPT ![r] = "next"]
      /\ fetched' = [fetched EXCEPT ![r] = 0]
  BY DEF ClearCancellation, samplerVars
<1>4. TypeOK'
  <2>1. SamplerTypeOK'
    BY <1>1, <1>3 DEF TypeOK, SamplerTypeOK
  <2>2. adapter[r] \in Nat /\ 0 \in 0 .. ScenariosPerRank /\ "next" \in Workers
    BY <1>1, WorkerAssumption, CollectionAssumption DEF TypeOK, Workers
  <2>3. WorkerTypeOK'
    BY <1>1, <1>3, <2>2 DEF WorkerTypeOK
  <2> QED
    BY <1>1, <1>2, <2>1, <2>3 DEF TypeOK
<1>5. /\ InFlight(r)' = InFlight(r) /\ Done(r)' = Done(r) /\ Untouched(r)' = Untouched(r)
      /\ Sampling(r)' = Sampling(r) /\ Outstanding(r)' = Outstanding(r)
  BY <1>2, <1>3 DEF InFlight, Done, Untouched, Sampling, Outstanding
<1>6. ~Closed(r) /\ (Open(r) => NotSubmitted(r) /\ Untouched(r) /\ trainer[r] # "collected")
  BY <1>1, <1>3 DEF RankInv, Requests, Served, Failed
<1>7. adapter[r] = loaded
  BY <1>6 DEF IInv, Adapters, Closed, Open, InCall, Stopping
<1>8. Requests(r)'
  BY <1>1, <1>2, <1>3, <1>5, <1>6
  DEF RankInv, Requests, WorkerTypeOK, NotSubmitted, Served, Failed, Untouched
<1>9. Cancellations(r)'
  BY <1>1, <1>2, <1>3, <1>5, <1>6 DEF Cancellations, WorkerTypeOK, Untouched, InFlight
<1>10. Generating(r)' /\ Counters(r)'
  BY <1>1, <1>2, <1>3, <1>5, <1>7 DEF RankInv, WorkerTypeOK, Generating, Counters
<1>11. \A q \in Ranks \ {r} : SameFor(q)
  BY <1>1, <1>2, <1>3 DEF SameFor, WorkerTypeOK
<1> QED
  BY <1>4, <1>8, <1>9, <1>10, <1>11 DEF RankInv

\* Fetching the scenarios of a request.
LEMMA FetchSteps ==
  ASSUME IInv, NEW r \in Ranks, Generation(r), AskForScenario(r) \/ FetchScenario(r)
  PROVE  /\ TypeOK'
         /\ RankInv(r)'
         /\ \A q \in Ranks \ {r} : SameFor(q)
<1>1. TypeOK /\ SamplerTypeOK /\ WorkerTypeOK /\ RankInv(r)
  BY DEF IInv, TypeOK
<1>2. /\ UNCHANGED <<trainer, completed, accepted, adapter, loaded, rollouts, collected,
                     cancelled, sufficient, interrupts>>
      /\ Open(r)' = Open(r) /\ Closed(r)' = Closed(r)
  BY GenerationKeeps
<1>3. /\ UNCHANGED <<inProgress, thread, samplerStopped, wanted, cancel, stopEvent, llm, task,
                     retries, softDead, queue>>
      /\ worker[r] \in {"next", "get"}
      /\ \/ worker' = [worker EXCEPT ![r] = "get"]
         \/ worker' = [worker EXCEPT ![r] = "next"]
  BY DEF AskForScenario, FetchScenario, EnsureRequested, GetScenario
<1>4. SamplerTypeOK' /\ \A q \in Ranks \ {r} : requested'[q] = requested[q]
                                               /\ available'[q] = available[q]
  <2>1. CASE AskForScenario(r)
    <3>1. requested' \in [Ranks -> Nat] /\ available' = available
          /\ \A q \in Ranks \ {r} : requested'[q] = requested[q]
      BY <1>1, <2>1 DEF AskForScenario, EnsureRequested, SamplerTypeOK, Outstanding
    <3> QED
      BY <1>1, <1>3, <3>1 DEF SamplerTypeOK
  <2>2. CASE FetchScenario(r)
    BY <1>1, <2>2 DEF FetchScenario, GetScenario, SamplerTypeOK
  <2> QED
    BY <2>1, <2>2
<1>5. worker'[r] = "get" => Outstanding(r)' > 0 /\ fetched'[r] < ScenariosPerRank
  <2>1. CASE AskForScenario(r)
    BY <1>1, <2>1 DEF AskForScenario, EnsureRequested, SamplerTypeOK, Outstanding
  <2>2. CASE FetchScenario(r)
    BY <1>1, <2>2 DEF FetchScenario, WorkerTypeOK
  <2> QED
    BY <2>1, <2>2
<1>6. TypeOK'
  <2>1. fetched' \in [Ranks -> 0 .. ScenariosPerRank]
    <3>1. CASE AskForScenario(r)
      BY <1>1, <3>1 DEF AskForScenario, WorkerTypeOK
    <3>2. CASE FetchScenario(r)
      BY <1>1, <3>2, WorkerAssumption DEF FetchScenario, WorkerTypeOK, RankInv, Counters
    <3> QED
      BY <3>1, <3>2
  <2>2. worker' \in [Ranks -> Workers]
    BY <1>1, <1>3 DEF WorkerTypeOK, Workers
  <2>3. WorkerTypeOK'
    BY <1>1, <1>3, <2>1, <2>2 DEF WorkerTypeOK
  <2> QED
    BY <1>1, <1>2, <1>4, <2>3 DEF TypeOK
<1>7. /\ InFlight(r)' = InFlight(r) /\ Done(r)' = Done(r) /\ Untouched(r)' = Untouched(r)
      /\ Sampling(r)' = Sampling(r)
  BY <1>2, <1>3 DEF InFlight, Done, Untouched, Sampling
<1>8. worker'[r] \in {"next", "get"}
  BY <1>1, <1>3 DEF WorkerTypeOK
<1>9. Requests(r)'
  BY <1>1, <1>2, <1>3, <1>7, <1>8 DEF RankInv, Requests, NotSubmitted, Served, Failed
<1>10. Cancellations(r)' /\ Generating(r)'
  BY <1>1, <1>2, <1>3, <1>7, <1>8 DEF RankInv, Cancellations, Generating
<1>11. Counters(r)'
  BY <1>1, <1>3, <1>5, <1>7 DEF RankInv, Counters
<1>12. \A q \in Ranks \ {r} : SameFor(q)
  <2>1. \A q \in Ranks \ {r} : fetched'[q] = fetched[q]
    BY <1>1 DEF AskForScenario, FetchScenario, WorkerTypeOK
  <2> QED
    BY <1>1, <1>2, <1>3, <1>4, <2>1 DEF SameFor, WorkerTypeOK
<1> QED
  BY <1>6, <1>9, <1>10, <1>11, <1>12 DEF RankInv

\* The rollouts enter task_queue, as many as there are runners start.
LEMMA SubmitStep ==
  ASSUME IInv, NEW r \in Ranks, Generation(r), SubmitFirst(r)
  PROVE  /\ TypeOK'
         /\ RankInv(r)'
         /\ \A q \in Ranks \ {r} : SameFor(q)
<1>1. TypeOK /\ SamplerTypeOK /\ WorkerTypeOK /\ RankInv(r)
  BY DEF IInv, TypeOK
<1>2. /\ UNCHANGED <<trainer, completed, accepted, adapter, loaded, rollouts, collected,
                     cancelled, sufficient, interrupts>>
      /\ Open(r)' = Open(r) /\ Closed(r)' = Closed(r)
  BY GenerationKeeps
<1>3. /\ UNCHANGED <<requested, inProgress, available, thread, samplerStopped, wanted, cancel,
                     stopEvent, fetched, llm, queue>>
      /\ worker[r] = "next"
      /\ worker' = [worker EXCEPT ![r] = "generating"]
      /\ retries' = [retries EXCEPT ![r] = [k \in Tasks |-> 0]]
      /\ softDead' = [softDead EXCEPT ![r] = 0]
      /\ task' = [task EXCEPT ![r] = [k \in Tasks |-> IF k <= Runners THEN Submitted(r)
                                                                      ELSE "queued"]]
  BY DEF SubmitFirst, samplerVars
<1>4. /\ task'[r] \in [Tasks -> {"running", "doomed", "queued"}]
      /\ ~cancel[r] => \A k \in Tasks : task'[r][k] # "doomed"
  BY <1>1, <1>3 DEF WorkerTypeOK, Submitted
<1>5. TypeOK'
  <2>1. SamplerTypeOK'
    BY <1>1, <1>3 DEF SamplerTypeOK
  <2>2. worker' \in [Ranks -> Workers]
    BY <1>1, <1>3 DEF WorkerTypeOK, Workers
  <2>3. retries' \in [Ranks -> [Tasks -> 0 .. MaxRolloutRetries]]
        /\ softDead' \in [Ranks -> 0 .. MaxSoftDead + 1]
    BY <1>1, <1>3, WorkerAssumption DEF WorkerTypeOK
  <2>4. task' \in [Ranks -> [Tasks -> TaskStates]]
    BY <1>1, <1>3, <1>4 DEF WorkerTypeOK, TaskStates
  <2>5. WorkerTypeOK'
    BY <1>1, <1>3, <2>2, <2>3, <2>4 DEF WorkerTypeOK
  <2> QED
    BY <1>1, <1>2, <2>1, <2>5 DEF TypeOK
<1>6. Done(r)' = {} /\ Cardinality(Done(r)') = 0
  <2>1. Done(r)' = {}
    BY <1>4 DEF Done
  <2> QED
    BY <2>1, FS_EmptySet
<1>7. worker'[r] = "generating" /\ wanted'[r] = wanted[r] /\ softDead'[r] = 0
  BY <1>1, <1>3 DEF WorkerTypeOK
<1>8. ~Closed(r) /\ (Open(r) => NotSubmitted(r) /\ Untouched(r) /\ trainer[r] # "collected")
  BY <1>1, <1>3 DEF RankInv, Requests, Served, Failed
<1>9. Requests(r)'
  <2>1. ASSUME Open(r) PROVE Served(r)'
    <3>1. /\ queue'[r] = <<>> /\ rollouts'[r] = {} /\ collected'[r] = 0 /\ cancelled'[r] = 0
          /\ ~wanted'[r]
      BY <1>2, <1>3, <1>7, <1>8, <2>1 DEF NotSubmitted, Untouched
    <3>2. Cardinality(rollouts'[r]) = 0 /\ Len(queue'[r]) = 0
      BY <3>1, FS_EmptySet
    <3>3. Conserved(r)'
      BY <1>6, <3>1, <3>2 DEF Conserved
    <3> QED
      BY <1>7, <3>1, <3>3 DEF Served
  <2> QED
    BY <1>1, <1>2, <1>3, <1>8, <2>1 DEF RankInv, Requests
<1>10. Cancellations(r)'
  BY <1>1, <1>2, <1>3, <1>4, <1>7 DEF RankInv, Cancellations
<1>11. Generating(r)'
  BY <1>1, <1>2, <1>3, <1>7 DEF RankInv, Generating
<1>12. Counters(r)'
  <2>1. Sampling(r)' = Sampling(r)
    BY <1>3 DEF Sampling
  <2> QED
    BY <1>1, <1>3, <1>7, <2>1, WorkerAssumption DEF RankInv, Counters
<1>13. \A q \in Ranks \ {r} : SameFor(q)
  BY <1>1, <1>2, <1>3 DEF SameFor, WorkerTypeOK
<1> QED
  BY <1>5, <1>9, <1>10, <1>11, <1>12, <1>13 DEF RankInv

\* A rollout that ends moves from the runners to the queue.
LEMMA EndStep ==
  ASSUME IInv, NEW r \in Ranks, Generation(r), NEW k \in Tasks, NEW c \in BOOLEAN,
         RolloutEnds(r, k, c)
  PROVE  /\ TypeOK'
         /\ RankInv(r)'
         /\ \A q \in Ranks \ {r} : SameFor(q)
<1>1. TypeOK /\ SamplerTypeOK /\ WorkerTypeOK /\ RankInv(r)
  BY DEF IInv, TypeOK
<1>2. /\ UNCHANGED <<trainer, completed, accepted, adapter, loaded, rollouts, collected,
                     cancelled, sufficient, interrupts>>
      /\ Open(r)' = Open(r) /\ Closed(r)' = Closed(r)
  BY GenerationKeeps
<1>3. /\ UNCHANGED <<requested, inProgress, available, thread, samplerStopped, wanted, cancel,
                     stopEvent, worker, fetched, llm, retries, softDead>>
      /\ worker[r] = "generating"
      /\ task[r][k] \in {"running", "doomed"}
      /\ c => cancel[r]
      /\ task[r][k] = "doomed" => c
      /\ queue' = [queue EXCEPT ![r] = Append(queue[r], Result(k, c))]
      /\ Advance(r, k)
  BY DEF RolloutEnds, samplerVars
<1>4. /\ task' \in [Ranks -> [Tasks -> TaskStates]]
      /\ \A q \in Ranks \ {r} : task'[q] = task[q]
      /\ \A j \in Tasks : \/ task'[r][j] = task[r][j] /\ j # k
                          \/ j = k /\ task'[r][j] = "done"
                          \/ j # k /\ task[r][j] = "queued" /\ task'[r][j] = Submitted(r)
  <2>1. task'[r] = [j \in Tasks |-> IF j = k THEN "done"
                                    ELSE IF j \in Queued(r) /\ \A i \in Queued(r) : j <= i
                                         THEN Submitted(r) ELSE task[r][j]]
        /\ task' = [task EXCEPT ![r] = task'[r]]
    BY <1>1, <1>3 DEF Advance, WorkerTypeOK
  <2>2. task'[r] \in [Tasks -> TaskStates]
    BY <1>1, <2>1 DEF WorkerTypeOK, TaskStates, Submitted
  <2> QED
    BY <1>1, <2>1, <2>2 DEF WorkerTypeOK, Queued
<1>5. Result(k, c) \in Message /\ Result(k, c).task = k /\ Result(k, c).cancelled = c
      /\ queue[r] \in Seq(Message)
  BY <1>1 DEF Result, Message, WorkerTypeOK
<1>6. /\ queue' \in [Ranks -> Seq(Message)]
      /\ Len(queue'[r]) = Len(queue[r]) + 1
      /\ \A i \in 1 .. Len(queue[r]) : queue'[r][i] = queue[r][i]
      /\ queue'[r][Len(queue[r]) + 1] = Result(k, c)
      /\ \A q \in Ranks \ {r} : queue'[q] = queue[q]
  BY <1>1, <1>3, <1>5 DEF WorkerTypeOK
<1>7. TypeOK'
  <2>1. SamplerTypeOK'
    BY <1>1, <1>3 DEF SamplerTypeOK
  <2>2. WorkerTypeOK'
    BY <1>1, <1>3, <1>4, <1>6 DEF WorkerTypeOK
  <2> QED
    BY <1>1, <1>2, <2>1, <2>2 DEF TypeOK
<1>8. Done(r)' = Done(r) \cup {k} /\ k \notin Done(r) /\ k \in InFlight(r)
  BY <1>3, <1>4 DEF Done, InFlight, Submitted
<1>9. Cardinality(Done(r)') = Cardinality(Done(r)) + 1 /\ Cardinality(Done(r)) \in Nat
  BY <1>8, DoneFinite, FS_AddElement
<1>10. ~Closed(r) /\ (Open(r) => Served(r) /\ trainer[r] # "collected")
  BY <1>1, <1>3, <1>8, CollectedIsComplete
  DEF RankInv, Requests, Failed, Untouched
<1>11. Requests(r)'
  <2>1. ASSUME Open(r) PROVE Served(r)'
    <3>1. Conserved(r)
      BY <1>10, <2>1 DEF Served
    <3>2. collected'[r] + cancelled'[r] + Len(queue'[r]) = Cardinality(Done(r)')
          /\ collected'[r] = Cardinality(rollouts'[r])
      BY <1>1, <1>2, <1>5, <1>6, <1>9, <3>1, SMTT(30) DEF Conserved, TypeOK
    <3>3. k \notin rollouts[r]
      BY <1>8, <3>1 DEF Conserved
    <3>4. rollouts'[r] \subseteq Done(r)'
      BY <1>2, <1>8, <3>1 DEF Conserved
    <3>5. \A i \in 1 .. Len(queue'[r]) :
            \/ i \in 1 .. Len(queue[r]) /\ queue'[r][i] = queue[r][i]
            \/ i = Len(queue[r]) + 1 /\ queue'[r][i].task = k
      BY <1>5, <1>6
    <3>6. \A i \in 1 .. Len(queue[r]) : queue[r][i].task \in Done(r) \ rollouts[r]
      BY <3>1 DEF Conserved
    <3>7. \A i \in 1 .. Len(queue'[r]) : queue'[r][i].task \in Done(r)' \ rollouts'[r]
      BY <1>2, <1>8, <3>3, <3>5, <3>6
    <3>8. \A i, j \in 1 .. Len(queue[r]) : queue[r][i].task = queue[r][j].task => i = j
      BY <3>1 DEF Conserved
    <3>9. \A i, j \in 1 .. Len(queue'[r]) : queue'[r][i].task = queue'[r][j].task => i = j
      BY <1>8, <3>5, <3>6, <3>8
    <3>10. Conserved(r)'
      BY <3>2, <3>4, <3>7, <3>9 DEF Conserved
    <3> QED
      BY <1>2, <1>3, <1>10, <2>1, <3>10 DEF Served
  <2> QED
    BY <1>1, <1>2, <1>3, <1>10, <2>1 DEF RankInv, Requests
<1>12. Cancellations(r)'
  <2>1. SUFFICES ASSUME Open(r), ~sufficient[r], ~wanted[r], worker[r] # "clear"
                 PROVE  /\ ~cancel[r]
                        /\ \A j \in Tasks : task'[r][j] # "doomed"
                        /\ cancelled[r] = 0
                        /\ \A i \in 1 .. Len(queue'[r]) : ~queue'[r][i].cancelled
    BY <1>2, <1>3 DEF Cancellations
  <2>2. /\ ~cancel[r]
        /\ \A j \in Tasks : task[r][j] # "doomed"
        /\ cancelled[r] = 0
        /\ \A i \in 1 .. Len(queue[r]) : ~queue[r][i].cancelled
    BY <1>1, <2>1 DEF RankInv, Cancellations
  <2>3. \A j \in Tasks : task'[r][j] # "doomed"
    BY <1>4, <2>2 DEF Submitted
  <2>4. \A i \in 1 .. Len(queue'[r]) : ~queue'[r][i].cancelled
    BY <1>3, <1>5, <1>6, <2>2
  <2> QED
    BY <2>2, <2>3, <2>4
<1>13. Generating(r)' /\ Counters(r)'
  <2>1. Sampling(r)' = Sampling(r) /\ InFlight(r) # {} /\ Outstanding(r)' = Outstanding(r)
    BY <1>3, <1>8 DEF Sampling, Outstanding
  <2>2. Generating(r)'
    BY <1>1, <1>2, <1>3, <2>1 DEF RankInv, Generating
  <2>3. Counters(r)'
    BY <1>1, <1>3, <1>5, <1>6, <2>1 DEF RankInv, Counters
  <2> QED
    BY <2>2, <2>3
<1>14. \A q \in Ranks \ {r} : SameFor(q)
  BY <1>1, <1>2, <1>3, <1>4, <1>6 DEF SameFor, WorkerTypeOK
<1> QED
  BY <1>7, <1>11, <1>12, <1>13, <1>14 DEF RankInv

\* A rollout that is retried stays with its runner.
LEMMA RetryStep ==
  ASSUME IInv, NEW r \in Ranks, Generation(r), NEW k \in Tasks, RolloutRetried(r, k)
  PROVE  /\ TypeOK'
         /\ RankInv(r)'
         /\ \A q \in Ranks \ {r} : SameFor(q)
<1>1. TypeOK /\ SamplerTypeOK /\ WorkerTypeOK /\ RankInv(r)
  BY DEF IInv, TypeOK
<1>2. /\ UNCHANGED <<trainer, completed, accepted, adapter, loaded, rollouts, collected,
                     cancelled, sufficient, interrupts>>
      /\ Open(r)' = Open(r) /\ Closed(r)' = Closed(r)
  BY GenerationKeeps
<1>3. /\ UNCHANGED <<requested, inProgress, available, thread, samplerStopped, wanted, cancel,
                     stopEvent, worker, fetched, llm, queue>>
      /\ worker[r] = "generating"
      /\ k \in InFlight(r)
      /\ retries[r][k] < MaxRolloutRetries
      /\ softDead[r] + 1 <= MaxSoftDead
      /\ softDead' = [softDead EXCEPT ![r] = softDead[r] + 1]
      /\ retries' = [retries EXCEPT ![r][k] = retries[r][k] + 1]
      /\ task' = [task EXCEPT ![r][k] = Submitted(r)]
  BY DEF RolloutRetried, samplerVars
<1>4. /\ task' \in [Ranks -> [Tasks -> TaskStates]]
      /\ \A q \in Ranks \ {r} : task'[q] = task[q]
      /\ \A j \in Tasks \ {k} : task'[r][j] = task[r][j]
      /\ task'[r][k] = Submitted(r)
  BY <1>1, <1>3 DEF WorkerTypeOK, TaskStates, Submitted
<1>5. /\ softDead' \in [Ranks -> 0 .. MaxSoftDead + 1]
      /\ softDead'[r] <= MaxSoftDead
      /\ \A q \in Ranks \ {r} : softDead'[q] = softDead[q]
  BY <1>1, <1>3, WorkerAssumption DEF WorkerTypeOK
<1>6. retries' \in [Ranks -> [Tasks -> 0 .. MaxRolloutRetries]]
  BY <1>1, <1>3, WorkerAssumption, SMTT(30) DEF WorkerTypeOK
<1>7. TypeOK'
  <2>1. SamplerTypeOK'
    BY <1>1, <1>3 DEF SamplerTypeOK
  <2>2. WorkerTypeOK'
    BY <1>1, <1>3, <1>4, <1>5, <1>6 DEF WorkerTypeOK
  <2> QED
    BY <1>1, <1>2, <2>1, <2>2 DEF TypeOK
<1>8. Done(r)' = Done(r) /\ InFlight(r)' = InFlight(r)
  BY <1>3, <1>4 DEF Done, InFlight, Submitted
<1>9. Requests(r)'
  <2>1. Served(r)' = Served(r) /\ Untouched(r)' = Untouched(r) /\ Failed(r)' = Failed(r)
        /\ NotSubmitted(r)' = NotSubmitted(r)
    BY <1>2, <1>3, <1>8 DEF Served, Conserved, Untouched, Failed, NotSubmitted
  <2> QED
    BY <1>1, <1>2, <1>3, <2>1 DEF RankInv, Requests
<1>10. Cancellations(r)'
  BY <1>1, <1>2, <1>3, <1>4 DEF RankInv, Cancellations, Submitted
<1>11. Generating(r)' /\ Counters(r)'
  <2>1. Sampling(r)' = Sampling(r) /\ Outstanding(r)' = Outstanding(r)
    BY <1>3 DEF Sampling, Outstanding
  <2> QED
    BY <1>1, <1>2, <1>3, <1>5, <1>8, <2>1 DEF RankInv, Generating, Counters
<1>12. \A q \in Ranks \ {r} : SameFor(q)
  BY <1>1, <1>2, <1>3, <1>4, <1>5 DEF SameFor, WorkerTypeOK
<1> QED
  BY <1>7, <1>9, <1>10, <1>11, <1>12 DEF RankInv

\* The generation thread hands its exception over as the last message.
LEMMA DeathStep ==
  ASSUME IInv, NEW r \in Ranks, Generation(r), NEW k \in Tasks,
         RetryLimitExceeded(r, k) \/ RolloutFails(r, k)
  PROVE  /\ TypeOK'
         /\ RankInv(r)'
         /\ \A q \in Ranks \ {r} : SameFor(q)
<1>1. TypeOK /\ SamplerTypeOK /\ WorkerTypeOK /\ RankInv(r)
  BY DEF IInv, TypeOK
<1>2. /\ UNCHANGED <<trainer, completed, accepted, adapter, loaded, rollouts, collected,
                     cancelled, sufficient, interrupts>>
      /\ Open(r)' = Open(r) /\ Closed(r)' = Closed(r)
  BY GenerationKeeps
<1>3. /\ UNCHANGED <<requested, inProgress, available, thread, samplerStopped, wanted, cancel,
                     stopEvent, fetched, llm, retries>>
      /\ worker[r] = "generating"
      /\ k \in InFlight(r)
      /\ queue' = [queue EXCEPT ![r] = Append(queue[r], Failure)]
      /\ task' = [task EXCEPT ![r] = [j \in Tasks |-> "none"]]
      /\ worker' = [worker EXCEPT ![r] = "exited"]
  BY DEF RetryLimitExceeded, RolloutFails, WorkerDies, samplerVars
<1>4. /\ task' \in [Ranks -> [Tasks -> TaskStates]]
      /\ \A q \in Ranks \ {r} : task'[q] = task[q]
      /\ \A j \in Tasks : task'[r][j] = "none"
  BY <1>1, <1>3 DEF WorkerTypeOK, TaskStates
<1>5. /\ softDead' \in [Ranks -> 0 .. MaxSoftDead + 1]
      /\ \A q \in Ranks \ {r} : softDead'[q] = softDead[q]
  <2>1. softDead[r] <= MaxSoftDead
    BY <1>1, <1>3 DEF RankInv, Counters
  <2>2. softDead' = softDead \/ softDead' = [softDead EXCEPT ![r] = softDead[r] + 1]
    BY DEF RetryLimitExceeded, RolloutFails
  <2>3. softDead \in [Ranks -> 0 .. MaxSoftDead + 1] /\ MaxSoftDead \in Nat
    BY <1>1, WorkerAssumption DEF WorkerTypeOK
  <2>4. softDead[r] + 1 \in 0 .. MaxSoftDead + 1
    BY <2>1, <2>3
  <2> QED
    BY <2>2, <2>3, <2>4
<1>6. Failure \in Message /\ Failure.cancelled = FALSE /\ queue[r] \in Seq(Message)
  BY <1>1 DEF Failure, Message, WorkerTypeOK
<1>7. /\ queue' \in [Ranks -> Seq(Message)]
      /\ Len(queue'[r]) = Len(queue[r]) + 1
      /\ \A i \in 1 .. Len(queue[r]) : queue'[r][i] = queue[r][i]
      /\ queue'[r][Len(queue[r]) + 1] = Failure
      /\ \A q \in Ranks \ {r} : queue'[q] = queue[q]
  BY <1>1, <1>3, <1>6 DEF WorkerTypeOK
<1>8. TypeOK'
  <2>1. SamplerTypeOK'
    BY <1>1, <1>3 DEF SamplerTypeOK
  <2>2. worker' \in [Ranks -> Workers]
    BY <1>1, <1>3 DEF WorkerTypeOK, Workers
  <2>3. WorkerTypeOK'
    BY <1>1, <1>3, <1>4, <1>5, <1>7, <2>2 DEF WorkerTypeOK
  <2> QED
    BY <1>1, <1>2, <2>1, <2>3 DEF TypeOK
<1>9. InFlight(r)' = {} /\ worker'[r] = "exited"
  BY <1>1, <1>3, <1>4 DEF InFlight, WorkerTypeOK
<1>10. ~Closed(r) /\ (Open(r) => ~wanted[r] /\ trainer[r] # "collected")
  BY <1>1, <1>3, CollectedIsComplete DEF RankInv, Requests, Served, Failed, Untouched
<1>11. Requests(r)'
  <2>1. ASSUME Open(r) PROVE Failed(r)'
    <3>1. queue'[r] # <<>>
      BY <1>6, <1>7
    <3> QED
      BY <1>2, <1>3, <1>6, <1>7, <1>9, <1>10, <2>1, <3>1 DEF Failed
  <2> QED
    BY <1>1, <1>2, <1>3, <1>10, <2>1 DEF RankInv, Requests
<1>12. Cancellations(r)'
  <2>1. ASSUME Open(r), ~sufficient[r]
        PROVE  ~cancel[r] /\ cancelled[r] = 0
               /\ \A i \in 1 .. Len(queue[r]) : ~queue[r][i].cancelled
    BY <1>1, <1>3, <1>10, <2>1 DEF RankInv, Cancellations
  <2>2. ASSUME Open(r), ~sufficient[r]
        PROVE  \A i \in 1 .. Len(queue'[r]) : ~queue'[r][i].cancelled
    BY <1>6, <1>7, <2>1, <2>2
  <2> QED
    BY <1>2, <1>3, <1>4, <2>1, <2>2 DEF Cancellations
<1>13. Generating(r)' /\ Counters(r)'
  <2>1. Sampling(r)' = Sampling(r)
    BY <1>3 DEF Sampling
  <2>2. Generating(r)'
    BY <1>1, <1>2, <1>3, <1>9 DEF RankInv, Generating
  <2>3. \A i \in 1 .. Len(queue'[r]) : queue'[r][i].task \in Tasks \/ queue'[r][i] = Failure
    BY <1>1, <1>6, <1>7 DEF RankInv, Counters
  <2>4. Counters(r)'
    BY <1>1, <1>3, <1>9, <2>1, <2>3 DEF RankInv, Counters
  <2> QED
    BY <2>2, <2>4
<1>14. \A q \in Ranks \ {r} : SameFor(q)
  BY <1>1, <1>2, <1>3, <1>4, <1>5, <1>7 DEF SameFor, WorkerTypeOK
<1> QED
  BY <1>8, <1>11, <1>12, <1>13, <1>14 DEF RankInv

\* When every rollout is delivered, scenarios are asked for ahead.
LEMMA BatchEndStep ==
  ASSUME IInv, NEW r \in Ranks, Generation(r), BatchEnds(r)
  PROVE  /\ TypeOK'
         /\ RankInv(r)'
         /\ \A q \in Ranks \ {r} : SameFor(q)
<1>1. TypeOK /\ SamplerTypeOK /\ WorkerTypeOK /\ RankInv(r)
  BY DEF IInv, TypeOK
<1>2. /\ UNCHANGED <<trainer, completed, accepted, adapter, loaded, rollouts, collected,
                     cancelled, sufficient, interrupts>>
      /\ Open(r)' = Open(r) /\ Closed(r)' = Closed(r)
  BY GenerationKeeps
<1>3. /\ UNCHANGED <<inProgress, available, thread, samplerStopped, wanted, cancel, stopEvent,
                     fetched, llm, task, retries, softDead, queue>>
      /\ worker[r] = "generating"
      /\ InFlight(r) = {}
      /\ worker' = [worker EXCEPT ![r] = "head"]
  BY DEF BatchEnds, EnsureRequested
<1>4. requested' \in [Ranks -> Nat] /\ \A q \in Ranks \ {r} : requested'[q] = requested[q]
  BY <1>1, WorkerAssumption DEF BatchEnds, EnsureRequested, SamplerTypeOK, Outstanding
<1>5. TypeOK'
  <2>1. SamplerTypeOK'
    BY <1>1, <1>3, <1>4 DEF SamplerTypeOK
  <2>2. worker' \in [Ranks -> Workers]
    BY <1>1, <1>3 DEF WorkerTypeOK, Workers
  <2>3. WorkerTypeOK'
    BY <1>1, <1>3, <2>2 DEF WorkerTypeOK
  <2> QED
    BY <1>1, <1>2, <2>1, <2>3 DEF TypeOK
<1>6. Done(r)' = Done(r) /\ InFlight(r)' = InFlight(r) /\ worker'[r] = "head"
      /\ Conserved(r)' = Conserved(r) /\ Untouched(r)' = Untouched(r)
  BY <1>1, <1>2, <1>3 DEF Done, InFlight, WorkerTypeOK, Conserved, Untouched
<1>7. Requests(r)'
  BY <1>1, <1>2, <1>3, <1>6 DEF RankInv, Requests, Served, NotSubmitted, Failed
<1>8. Cancellations(r)' /\ Generating(r)' /\ Counters(r)'
  <2>1. Sampling(r)' = Sampling(r)
    BY <1>3 DEF Sampling
  <2> QED
    BY <1>1, <1>2, <1>3, <1>6, <2>1 DEF RankInv, Cancellations, Generating, Counters
<1>9. \A q \in Ranks \ {r} : SameFor(q)
  BY <1>1, <1>2, <1>3, <1>4 DEF SameFor, WorkerTypeOK
<1> QED
  BY <1>5, <1>7, <1>8, <1>9 DEF RankInv

\* Whatever the generation thread of a rank does, its invariant holds again.
LEMMA GenerationPreserves ==
  ASSUME IInv, NEW r \in Ranks, Generation(r)
  PROVE  /\ TypeOK'
         /\ RankInv(r)'
         /\ \A q \in Ranks \ {r} : SameFor(q)
<1>1. CASE WorkerHead(r) \/ WorkerWakes(r) \/ TakeRequest(r)
  BY <1>1, RequestSteps
<1>2. CASE ClearCancellation(r, adapter[r])
  BY <1>2, ClearStep
<1>3. CASE AskForScenario(r) \/ FetchScenario(r)
  BY <1>3, FetchSteps
<1>4. CASE SubmitFirst(r)
  BY <1>4, SubmitStep
<1>5. ASSUME NEW k \in Tasks, NEW c \in BOOLEAN, RolloutEnds(r, k, c)
      PROVE  TypeOK' /\ RankInv(r)' /\ \A q \in Ranks \ {r} : SameFor(q)
  BY <1>5, EndStep
<1>6. ASSUME NEW k \in Tasks, RolloutRetried(r, k)
      PROVE  TypeOK' /\ RankInv(r)' /\ \A q \in Ranks \ {r} : SameFor(q)
  BY <1>6, RetryStep
<1>7. ASSUME NEW k \in Tasks, RetryLimitExceeded(r, k) \/ RolloutFails(r, k)
      PROVE  TypeOK' /\ RankInv(r)' /\ \A q \in Ranks \ {r} : SameFor(q)
  BY <1>7, DeathStep
<1>8. CASE BatchEnds(r)
  BY <1>8, BatchEndStep
<1> QED
  BY <1>1, <1>2, <1>3, <1>4, <1>5, <1>6, <1>7, <1>8 DEF Generation, WorkerStep

-----------------------------------------------------------------------------
(* The trainer's threads, one at a time.                                   *)

\* Whichever way a rank stops, nothing is asked of its batch any more.
Halts(r) ==
  \/ RunStops(r) \/ JoinSampler(r) \/ CancelGeneration(r) \/ StopWorker(r) \/ JoinWorker(r)
  \/ ReceiveFailure(r) \/ Interrupt(r)

\* Stopping sets events and drops messages; the invariant asks little of a rank that
\* stops.
LEMMA HaltsPreserve ==
  ASSUME IInv, NEW r \in Ranks, Halts(r)
  PROVE  IInv'
<1>1. TypeOK /\ SamplerTypeOK /\ WorkerTypeOK /\ LockStep /\ Adapters /\ Decisions
      /\ \A q \in Ranks : RankInv(q)
  BY DEF IInv, TypeOK
<1>2. /\ UNCHANGED <<completed, accepted, adapter, loaded, rollouts, collected, cancelled,
                     sufficient, requested, inProgress, available, thread, wanted, worker,
                     fetched, llm, task, retries, softDead>>
      /\ trainer[r] \in {"poll", "learn"} \cup Stopping
      /\ \E place \in Stopping : trainer' = [trainer EXCEPT ![r] = place]
  BY DEF Halts, RunStops, JoinSampler, CancelGeneration, StopWorker, JoinWorker, ReceiveFailure,
         Interrupt, At, Goto, Stopping, samplerVars, workerVars, progressVars, adapterVars,
         callVars, StopSampler
<1>3. /\ samplerStopped' \in [Ranks -> BOOLEAN]
      /\ cancel' \in [Ranks -> BOOLEAN]
      /\ \A q \in Ranks \ {r} : cancel'[q] = cancel[q]
  BY <1>1 DEF Halts, RunStops, JoinSampler, CancelGeneration, StopWorker, JoinWorker,
              ReceiveFailure, Interrupt, samplerVars, workerVars, StopSampler, WorkerTypeOK,
              SamplerTypeOK
<1>4. /\ stopEvent' \in [Ranks -> BOOLEAN]
      /\ \A q \in Ranks \ {r} : stopEvent'[q] = stopEvent[q]
      /\ stopEvent'[r] => trainer'[r] \in {"join_worker", "stopped"}
  <2>1. CASE StopWorker(r)
    BY <1>1, <2>1 DEF StopWorker, Goto, WorkerTypeOK, TypeOK
  <2>2. CASE JoinWorker(r)
    BY <1>1, <2>2 DEF JoinWorker, Goto, WorkerTypeOK, TypeOK, workerVars
  <2>3. CASE ~StopWorker(r) /\ ~JoinWorker(r)
    <3>1. stopEvent' = stopEvent /\ trainer[r] \notin {"join_worker", "stopped"}
      BY <2>3 DEF Halts, RunStops, JoinSampler, CancelGeneration, ReceiveFailure, Interrupt, At,
                  workerVars
    <3> QED
      BY <1>1, <3>1 DEF RankInv, Requests, WorkerTypeOK
  <2> QED
    BY <2>1, <2>2, <2>3
<1>5. /\ queue' \in [Ranks -> Seq(Message)]
      /\ \A q \in Ranks \ {r} : queue'[q] = queue[q]
      /\ \A i \in 1 .. Len(queue'[r]) : queue'[r][i].task \in Tasks \/ queue'[r][i] = Failure
  <2>1. queue[r] \in Seq(Message)
        /\ \A i \in 1 .. Len(queue[r]) : queue[r][i].task \in Tasks \/ queue[r][i] = Failure
    BY <1>1 DEF WorkerTypeOK, RankInv, Counters
  <2>2. CASE ReceiveFailure(r)
    <3>1. queue[r] # <<>> /\ queue' = [queue EXCEPT ![r] = Tail(queue[r])]
      BY <2>2 DEF ReceiveFailure
    <3>2. /\ Tail(queue[r]) \in Seq(Message)
          /\ Len(Tail(queue[r])) = Len(queue[r]) - 1
          /\ \A i \in 1 .. Len(Tail(queue[r])) : Tail(queue[r])[i] = queue[r][i + 1]
      BY <2>1, <3>1
    <3> QED
      BY <1>1, <2>1, <3>1, <3>2 DEF WorkerTypeOK
  <2>3. CASE queue' = queue
    BY <1>1, <2>1, <2>3 DEF WorkerTypeOK
  <2> QED
    BY <2>2, <2>3 DEF Halts, RunStops, JoinSampler, CancelGeneration, StopWorker, JoinWorker,
                      Interrupt, workerVars
<1>6. interrupts' \in 0 .. Interrupts
  <2>1. \/ interrupts' = interrupts
        \/ interrupts < Interrupts /\ interrupts' = interrupts + 1
    BY DEF Halts, RunStops, JoinSampler, CancelGeneration, StopWorker, JoinWorker, ReceiveFailure,
           Interrupt
  <2> QED
    BY <1>1, <2>1, CollectionAssumption DEF TypeOK
<1>7. trainer' \in [Ranks -> Trainers] /\ trainer'[r] \in Stopping
      /\ \A q \in Ranks \ {r} : trainer'[q] = trainer[q]
  BY <1>1, <1>2 DEF TypeOK, Trainers, Stopping
<1>8. TypeOK'
  <2>1. SamplerTypeOK'
    BY <1>1, <1>2, <1>3 DEF SamplerTypeOK
  <2>2. WorkerTypeOK'
    BY <1>1, <1>2, <1>3, <1>4, <1>5 DEF WorkerTypeOK
  <2> QED
    BY <1>1, <1>2, <1>6, <1>7, <2>1, <2>2 DEF TypeOK
<1>9. LockStep'
  BY <1>1, <1>2, <1>7 DEF LockStep, Stopping, InCall
<1>10. Adapters' /\ Decisions'
  BY <1>1, <1>2, <1>7 DEF Adapters, Decisions, Stopping, InCall
<1>11. RankInv(r)'
  <2>1. ~Open(r)' /\ ~Closed(r)' /\ InFlight(r)' = InFlight(r) /\ Sampling(r)' = Sampling(r)
        /\ Outstanding(r)' = Outstanding(r) /\ trainer'[r] # "collected"
    BY <1>2, <1>7 DEF Open, Closed, InCall, Stopping, InFlight, Sampling, Outstanding
  <2>2. Requests(r)' /\ Cancellations(r)'
    BY <1>4, <2>1 DEF Requests, Cancellations
  <2>3. Generating(r)' /\ Counters(r)'
    BY <1>1, <1>2, <1>5, <2>1 DEF RankInv, Generating, Counters
  <2> QED
    BY <2>2, <2>3 DEF RankInv
<1>12. ASSUME NEW q \in Ranks \ {r} PROVE RankInv(q)'
  <2>1. SameFor(q)
    BY <1>2, <1>3, <1>4, <1>5, <1>7 DEF SameFor
  <2> QED
    BY <1>1, <1>2, <2>1, Frame
<1> QED
  BY <1>8, <1>9, <1>10, <1>11, <1>12 DEF IInv

\* The first scenarios are asked for.
LEMMA StartPreserves ==
  ASSUME IInv, NEW r \in Ranks, StartRun(r)
  PROVE  IInv'
<1>1. TypeOK /\ SamplerTypeOK /\ WorkerTypeOK /\ LockStep /\ Adapters /\ Decisions
      /\ \A q \in Ranks : RankInv(q)
  BY DEF IInv, TypeOK
<1>2. /\ UNCHANGED <<completed, accepted, adapter, loaded, rollouts, collected, cancelled,
                     sufficient, inProgress, available, thread, samplerStopped, wanted, cancel,
                     stopEvent, worker, fetched, llm, task, retries, softDead, queue, interrupts>>
      /\ trainer[r] = "start"
      /\ trainer' = [trainer EXCEPT ![r] = "request"]
  BY DEF StartRun, At, Goto, workerVars, progressVars, adapterVars, callVars, EnsureRequested
<1>3. trainer' \in [Ranks -> Trainers] /\ trainer'[r] = "request"
      /\ \A q \in Ranks \ {r} : trainer'[q] = trainer[q]
  BY <1>1, <1>2 DEF TypeOK, Trainers
<1>4. requested' \in [Ranks -> Nat] /\ \A q \in Ranks \ {r} : requested'[q] = requested[q]
      /\ requested'[r] >= requested[r]
  BY <1>1, WorkerAssumption DEF StartRun, EnsureRequested, SamplerTypeOK, Outstanding
<1>5. TypeOK'
  <2>1. SamplerTypeOK' /\ WorkerTypeOK'
    BY <1>1, <1>2, <1>4 DEF SamplerTypeOK, WorkerTypeOK
  <2> QED
    BY <1>1, <1>2, <1>3, <2>1 DEF TypeOK
<1>6. LockStep' /\ Adapters' /\ Decisions'
  BY <1>1, <1>2, <1>3 DEF LockStep, InCall, Adapters, Decisions
<1>7. RankInv(r)'
  <2>1. ~Open(r) /\ Closed(r) /\ ~Open(r)' /\ Closed(r)' /\ InFlight(r)' = InFlight(r)
        /\ Sampling(r)' = Sampling(r)
    BY <1>2, <1>3 DEF Open, Closed, InCall, Stopping, InFlight, Sampling
  <2>2. Requests(r)' /\ Cancellations(r)'
    BY <1>1, <1>2, <1>3, <2>1 DEF RankInv, Requests, Cancellations, Untouched
  <2>3. Generating(r)'
    BY <1>1, <1>2, <2>1 DEF RankInv, Generating
  <2>4. worker[r] # "get"
    BY <1>1, <2>1 DEF RankInv, Requests
  <2>5. Counters(r)'
    BY <1>1, <1>2, <2>1, <2>4 DEF RankInv, Counters
  <2> QED
    BY <2>2, <2>3, <2>5 DEF RankInv
<1>8. ASSUME NEW q \in Ranks \ {r} PROVE RankInv(q)'
  <2>1. SameFor(q)
    BY <1>2, <1>3, <1>4 DEF SameFor
  <2> QED
    BY <1>1, <1>2, <2>1, Frame
<1> QED
  BY <1>5, <1>6, <1>7, <1>8 DEF IInv

\* Local rank 0 exchanges the adapter while no rank generates, because none is
\* past the barrier and the last batch left nothing behind.
LEMMA ReloadPreserves ==
  ASSUME IInv, NEW r \in Ranks, ReloadAdapter(r)
  PROVE  IInv'
<1>1. TypeOK /\ SamplerTypeOK /\ WorkerTypeOK /\ LockStep /\ Adapters /\ Decisions
      /\ \A q \in Ranks : RankInv(q)
  BY DEF IInv, TypeOK
<1>2. /\ UNCHANGED <<completed, accepted, rollouts, collected, cancelled, sufficient, requested,
                     inProgress, available, thread, samplerStopped, wanted, cancel, stopEvent,
                     worker, fetched, llm, task, retries, softDead, queue, interrupts>>
      /\ trainer[r] = "swap"
      /\ trainer' = [trainer EXCEPT ![r] = "swapped"]
      /\ adapter' = [adapter EXCEPT ![r] = completed]
      /\ loaded' = IF r = Lead THEN completed ELSE loaded
  BY DEF ReloadAdapter, At, Goto, samplerVars, workerVars, progressVars, callVars
<1>3. trainer' \in [Ranks -> Trainers] /\ trainer'[r] = "swapped"
      /\ \A q \in Ranks \ {r} : trainer'[q] = trainer[q]
  BY <1>1, <1>2 DEF TypeOK, Trainers
<1>4. /\ adapter' \in [Ranks -> 0 .. TotalIterations] /\ adapter'[r] = completed
      /\ loaded' \in 0 .. TotalIterations
      /\ \A q \in Ranks \ {r} : adapter'[q] = adapter[q]
  BY <1>1, <1>2 DEF TypeOK
<1>5. TypeOK'
  <2>1. SamplerTypeOK' /\ WorkerTypeOK'
    BY <1>1, <1>2 DEF SamplerTypeOK, WorkerTypeOK
  <2> QED
    BY <1>1, <1>2, <1>3, <1>4, <2>1 DEF TypeOK
<1>6. \A q \in Ranks : trainer[q] \in {"swap", "swapped"}
  BY <1>1, <1>2 DEF LockStep
<1>7. LockStep' /\ Decisions'
  BY <1>1, <1>2, <1>3, <1>6 DEF LockStep, InCall, Decisions
<1>8. Adapters'
  <2>1. \A q \in Ranks : trainer'[q] \in {"swap", "swapped"}
    BY <1>3, <1>6
  <2>2. \A q \in Ranks : trainer'[q] = "swapped" => adapter'[q] = completed'
    BY <1>1, <1>2, <1>3, <1>4 DEF Adapters
  <2>3. trainer'[Lead] = "swapped" => loaded' = completed'
    BY <1>1, <1>2, <1>3, CollectionAssumption DEF Adapters
  <2> QED
    BY <2>1, <2>2, <2>3 DEF Adapters, InCall
<1>9. \A q \in Ranks : /\ ~Open(q) /\ Closed(q) /\ ~Open(q)' /\ Closed(q)'
                       /\ InFlight(q) = {} /\ worker[q] \notin {"next", "get"}
  <2>1. \A q \in Ranks : ~Open(q) /\ Closed(q) /\ ~Open(q)' /\ Closed(q)'
    BY <1>3, <1>6 DEF Open, Closed, InCall, Stopping
  <2> QED
    BY <1>1, <2>1 DEF RankInv, Requests, Untouched
<1>10. RankInv(r)'
  <2>1. InFlight(r)' = InFlight(r) /\ Sampling(r)' = Sampling(r)
        /\ Outstanding(r)' = Outstanding(r)
    BY <1>2 DEF InFlight, Sampling, Outstanding
  <2>2. Requests(r)' /\ Cancellations(r)'
    BY <1>1, <1>2, <1>3, <1>9, <2>1 DEF RankInv, Requests, Cancellations, Untouched
  <2>3. Generating(r)' /\ Counters(r)'
    BY <1>1, <1>2, <1>9, <2>1 DEF RankInv, Generating, Counters
  <2> QED
    BY <2>2, <2>3 DEF RankInv
<1>11. ASSUME NEW q \in Ranks \ {r} PROVE RankInv(q)'
  <2>1. SameFor(q)
    BY <1>2, <1>3 DEF SameFor
  <2> QED
    BY <1>1, <1>2, <1>9, <2>1, Frame
<1> QED
  BY <1>5, <1>7, <1>8, <1>10, <1>11 DEF IInv

\* The request opens: nothing of an earlier one is left.
LEMMA AskPreserves ==
  ASSUME IInv, NEW r \in Ranks, AskForRollouts(r)
  PROVE  IInv'
<1>1. TypeOK /\ SamplerTypeOK /\ WorkerTypeOK /\ LockStep /\ Adapters /\ Decisions
      /\ \A q \in Ranks : RankInv(q)
  BY DEF IInv, TypeOK
<1>2. /\ UNCHANGED <<completed, accepted, adapter, loaded, rollouts, collected, cancelled,
                     sufficient, requested, inProgress, available, thread, samplerStopped, cancel,
                     stopEvent, worker, fetched, llm, task, retries, softDead, queue, interrupts>>
      /\ trainer[r] = "ask"
      /\ wanted' = [wanted EXCEPT ![r] = TRUE]
      /\ trainer' = [trainer EXCEPT ![r] = IF accepted > completed THEN "learn"
                                           ELSE IF completed < TotalIterations THEN "poll"
                                           ELSE "stop"]
  BY DEF AskForRollouts, At, Goto, samplerVars, progressVars, adapterVars, callVars
<1>3. /\ trainer' \in [Ranks -> Trainers]
      /\ trainer'[r] = IF accepted > completed THEN "learn"
                       ELSE IF completed < TotalIterations THEN "poll" ELSE "stop"
      /\ \A q \in Ranks \ {r} : trainer'[q] = trainer[q]
  BY <1>1, <1>2 DEF TypeOK, Trainers
<1>4. wanted' \in [Ranks -> BOOLEAN] /\ wanted'[r] = TRUE
      /\ \A q \in Ranks \ {r} : wanted'[q] = wanted[q]
  BY <1>1, <1>2 DEF WorkerTypeOK
<1>5. TypeOK'
  <2>1. SamplerTypeOK' /\ WorkerTypeOK'
    BY <1>1, <1>2, <1>4 DEF SamplerTypeOK, WorkerTypeOK
  <2> QED
    BY <1>1, <1>2, <1>3, <2>1 DEF TypeOK
<1>6. \A q \in Ranks : trainer[q] \notin {"start", "request", "swap", "swapped"}
  BY <1>1, <1>2 DEF LockStep
<1>7. completed \in Nat /\ accepted \in Nat /\ accepted \in {completed, completed + 1}
      /\ (accepted = completed \/ (Async /\ accepted < TotalIterations)) /\ loaded = completed
  BY <1>1, <1>2 DEF TypeOK, LockStep, Adapters
<1>8. LockStep'
  <2>1. \A q \in Ranks : trainer'[q] \notin {"start", "request", "swap", "swapped"}
    BY <1>3, <1>6
  <2>2. /\ trainer'[r] = "learn" => accepted = completed + 1
        /\ trainer'[r] \in InCall => accepted = completed /\ completed < TotalIterations
        /\ trainer'[r] # "ask"
    BY <1>3, <1>7 DEF InCall
  <2> QED
    BY <1>1, <1>2, <1>3, <2>1, <2>2 DEF LockStep
<1>9. Adapters' /\ Decisions'
  BY <1>1, <1>2, <1>3, <1>6, <1>7 DEF Adapters, Decisions, InCall
<1>10. RankInv(r)'
  <2>1. /\ ~Open(r) /\ Closed(r) /\ ~Closed(r)'
        /\ trainer'[r] \notin {"collected", "join_worker", "stopped"}
    BY <1>2, <1>3, <1>7 DEF Open, Closed, InCall, Stopping
  <2>2. InFlight(r)' = InFlight(r) /\ Sampling(r)' = Sampling(r)
        /\ Outstanding(r)' = Outstanding(r)
    BY <1>2 DEF InFlight, Sampling, Outstanding
  <2>3. /\ ~stopEvent[r] /\ Untouched(r) /\ Untouched(r)'
        /\ worker[r] \in {"head", "waiting", "generating"}
    BY <1>1, <1>2, <2>1, <2>2 DEF RankInv, Requests, Untouched, Closed
  <2>4. Requests(r)' /\ Cancellations(r)'
    BY <1>2, <1>4, <2>1, <2>3 DEF Requests, Cancellations, NotSubmitted
  <2>5. Generating(r)' /\ Counters(r)'
    BY <1>1, <1>2, <1>4, <2>2 DEF RankInv, Generating, Counters
  <2> QED
    BY <2>4, <2>5 DEF RankInv
<1>11. ASSUME NEW q \in Ranks \ {r} PROVE RankInv(q)'
  <2>1. SameFor(q)
    BY <1>2, <1>3, <1>4 DEF SameFor
  <2> QED
    BY <1>1, <1>2, <2>1, Frame
<1> QED
  BY <1>5, <1>8, <1>9, <1>10, <1>11 DEF IInv

-----------------------------------------------------------------------------
(* get_rollouts.                                                           *)

\* A message moves from the queue to what get_rollouts has counted.
LEMMA ReceivePreserves ==
  ASSUME IInv, NEW r \in Ranks, Receive(r)
  PROVE  IInv'
<1>1. TypeOK /\ SamplerTypeOK /\ WorkerTypeOK /\ LockStep /\ Adapters /\ Decisions
      /\ \A q \in Ranks : RankInv(q)
  BY DEF IInv, TypeOK
<1> DEFINE message == queue[r][1]
<1>2. /\ UNCHANGED <<completed, accepted, adapter, loaded, sufficient, requested, inProgress,
                     available, thread, samplerStopped, wanted, cancel, stopEvent, worker, fetched,
                     llm, task, retries, softDead, trainer, interrupts>>
      /\ trainer[r] = "poll"
      /\ queue[r] # <<>>
      /\ Head(queue[r]) # Failure
      /\ queue' = [queue EXCEPT ![r] = Tail(queue[r])]
  BY DEF Receive, At, samplerVars, progressVars, adapterVars
<1>3. /\ queue[r] \in Seq(Message) /\ Len(queue[r]) \in Nat \ {0} /\ Head(queue[r]) = message
      /\ message \in Message /\ message # Failure
  BY <1>1, <1>2 DEF WorkerTypeOK
<1>4. /\ queue' \in [Ranks -> Seq(Message)]
      /\ Len(queue'[r]) = Len(queue[r]) - 1
      /\ \A i \in 1 .. Len(queue'[r]) : i + 1 \in 1 .. Len(queue[r])
                                       /\ queue'[r][i] = queue[r][i + 1]
      /\ \A q \in Ranks \ {r} : queue'[q] = queue[q]
  <2>1. /\ Tail(queue[r]) \in Seq(Message)
        /\ Len(Tail(queue[r])) = Len(queue[r]) - 1
        /\ \A i \in 1 .. Len(Tail(queue[r])) : i + 1 \in 1 .. Len(queue[r])
                                              /\ Tail(queue[r])[i] = queue[r][i + 1]
    BY <1>2, <1>3
  <2> QED
    BY <1>1, <1>2, <2>1 DEF WorkerTypeOK
<1>5. message.task \in Tasks
  BY <1>1, <1>3 DEF RankInv, Counters
<1>6. \/ /\ message.cancelled
         /\ cancelled' = [cancelled EXCEPT ![r] = cancelled[r] + 1]
         /\ UNCHANGED <<rollouts, collected>>
      \/ /\ ~message.cancelled
         /\ rollouts' = [rollouts EXCEPT ![r] = rollouts[r] \cup {message.task}]
         /\ collected' = [collected EXCEPT ![r] = collected[r] + 1]
         /\ UNCHANGED cancelled
  BY <1>3 DEF Receive
<1>7. /\ rollouts' \in [Ranks -> SUBSET Tasks]
      /\ collected' \in [Ranks -> Nat]
      /\ cancelled' \in [Ranks -> Nat]
      /\ collected'[r] + cancelled'[r] = collected[r] + cancelled[r] + 1
      /\ \A q \in Ranks \ {r} : /\ rollouts'[q] = rollouts[q]
                                /\ collected'[q] = collected[q]
                                /\ cancelled'[q] = cancelled[q]
  <2>1. CASE message.cancelled
    BY <1>1, <1>6, <2>1 DEF TypeOK
  <2>2. CASE ~message.cancelled
    BY <1>1, <1>5, <1>6, <2>2 DEF TypeOK
  <2> QED
    BY <2>1, <2>2
<1>8. TypeOK'
  <2>1. SamplerTypeOK' /\ WorkerTypeOK'
    BY <1>1, <1>2, <1>4 DEF SamplerTypeOK, WorkerTypeOK
  <2> QED
    BY <1>1, <1>2, <1>7, <2>1 DEF TypeOK
<1>9. LockStep' /\ Adapters' /\ Decisions'
  BY <1>1, <1>2 DEF LockStep, Adapters, Decisions
<1>10. /\ Open(r) /\ Open(r)' /\ ~Closed(r)' /\ trainer[r] \notin {"join_worker", "stopped"}
       /\ InFlight(r)' = InFlight(r) /\ Done(r)' = Done(r) /\ Sampling(r)' = Sampling(r)
       /\ Outstanding(r)' = Outstanding(r)
  BY <1>2 DEF Open, Closed, InCall, InFlight, Done, Sampling, Outstanding
<1>11. Served(r) \/ Failed(r)
  BY <1>1, <1>2, <1>10 DEF RankInv, Requests, Untouched
<1>12. ASSUME Served(r) PROVE Served(r)'
  <2>1. Conserved(r)
    BY <1>12 DEF Served
  <2>2. message.task \in Done(r) \ rollouts[r]
        /\ \A i \in 2 .. Len(queue[r]) : queue[r][i].task # message.task
    BY <1>3, <2>1 DEF Conserved
  <2>3. IsFiniteSet(rollouts[r])
    BY <1>1, TasksFinite, FS_Subset DEF TypeOK
  <2>4. collected'[r] = Cardinality(rollouts'[r])
    <3>1. CASE message.cancelled
      BY <1>6, <2>1, <3>1 DEF Conserved
    <3>2. CASE ~message.cancelled
      <4>1. Cardinality(rollouts[r] \cup {message.task}) = Cardinality(rollouts[r]) + 1
        BY <2>2, <2>3, FS_AddElement
      <4> QED
        BY <1>1, <1>6, <2>1, <3>2, <4>1 DEF Conserved, TypeOK
    <3> QED
      BY <3>1, <3>2
  <2>5. rollouts'[r] \in {rollouts[r], rollouts[r] \cup {message.task}}
    BY <1>1, <1>6 DEF TypeOK
  <2>6. \A i \in 1 .. Len(queue'[r]) : queue'[r][i].task \in Done(r) \ rollouts'[r]
    <3>1. \A i \in 1 .. Len(queue[r]) : queue[r][i].task \in Done(r) \ rollouts[r]
      BY <2>1 DEF Conserved
    <3> QED
      BY <1>3, <1>4, <2>2, <2>5, <3>1
  <2>7. \A i, j \in 1 .. Len(queue'[r]) : queue'[r][i].task = queue'[r][j].task => i = j
    <3>1. \A i, j \in 1 .. Len(queue[r]) : queue[r][i].task = queue[r][j].task => i = j
      BY <2>1 DEF Conserved
    <3> QED
      BY <1>3, <1>4, <3>1, SMTT(30)
  <2>8. collected'[r] + cancelled'[r] + Len(queue'[r]) = Cardinality(Done(r))
    BY <1>1, <1>3, <1>4, <1>7, <2>1, SMTT(30) DEF Conserved, TypeOK
  <2>9. Conserved(r)'
    BY <1>10, <2>1, <2>2, <2>4, <2>5, <2>6, <2>7, <2>8 DEF Conserved
  <2>10. Served(r)'
    BY <1>2, <1>10, <1>12, <2>9 DEF Served
  <2> QED
    BY <2>10
<1>13. ASSUME Failed(r) PROVE Failed(r)'
  <2>1. Len(queue[r]) # 1
    BY <1>3, <1>13 DEF Failed
  <2>2. Len(queue'[r]) \in Nat \ {0} /\ queue'[r][Len(queue'[r])] = queue[r][Len(queue[r])]
    <3>0. Len(queue[r]) \in Nat \ {0} /\ Len(queue'[r]) = Len(queue[r]) - 1
      BY <1>3, <1>4
    <3>a. \A n \in Nat \ {0} : n # 1 => n - 1 \in 1 .. n - 1 /\ (n - 1) + 1 = n
      OBVIOUS
    <3>1. Len(queue'[r]) \in 1 .. Len(queue'[r]) /\ Len(queue'[r]) + 1 = Len(queue[r])
      BY <3>0, <3>a, <2>1
    <3>2. queue'[r][Len(queue'[r])] = queue[r][Len(queue'[r]) + 1]
      BY <1>4, <3>1
    <3> QED
      BY <3>1, <3>2
  <2>3. queue'[r] # <<>>
    BY <2>2
  <2> QED
    BY <1>2, <1>10, <1>13, <2>2, <2>3 DEF Failed
<1>14. RankInv(r)'
  <2>1. Requests(r)'
    BY <1>1, <1>2, <1>10, <1>11, <1>12, <1>13 DEF RankInv, Requests, Served, Failed
  <2>2. Cancellations(r)'
    <3>1. SUFFICES ASSUME ~sufficient[r], ~wanted[r], worker[r] # "clear"
                   PROVE  /\ ~cancel[r]
                          /\ \A k \in Tasks : task[r][k] # "doomed"
                          /\ cancelled'[r] = 0
                          /\ \A i \in 1 .. Len(queue'[r]) : ~queue'[r][i].cancelled
      BY <1>2 DEF Cancellations
    <3>2. /\ ~cancel[r]
          /\ \A k \in Tasks : task[r][k] # "doomed"
          /\ cancelled[r] = 0
          /\ \A i \in 1 .. Len(queue[r]) : ~queue[r][i].cancelled
      BY <1>1, <1>10, <3>1 DEF RankInv, Cancellations
    <3>3. ~message.cancelled
      BY <1>3, <3>2
    <3> QED
      BY <1>4, <1>6, <3>2, <3>3
  <2>3. Generating(r)'
    BY <1>1, <1>2, <1>10 DEF RankInv, Generating
  <2>4. \A i \in 1 .. Len(queue'[r]) : queue'[r][i].task \in Tasks \/ queue'[r][i] = Failure
    BY <1>1, <1>4 DEF RankInv, Counters
  <2>5. Counters(r)'
    BY <1>1, <1>2, <1>10, <2>4 DEF RankInv, Counters
  <2> QED
    BY <2>1, <2>2, <2>3, <2>5 DEF RankInv
<1>15. ASSUME NEW q \in Ranks \ {r} PROVE RankInv(q)'
  <2>1. SameFor(q)
    BY <1>2, <1>4, <1>7 DEF SameFor
  <2> QED
    BY <1>1, <1>2, <2>1, Frame
<1> QED
  BY <1>8, <1>9, <1>14, <1>15 DEF IInv

\* Nothing more came for a while: the rank goes to the all-reduces, or cancels the
\* rest and, if all of it is in, leaves.
LEMMA IdlePreserves ==
  ASSUME IInv, NEW r \in Ranks, CheckSufficient(r) \/ CancelRest(r)
  PROVE  IInv'
<1>1. TypeOK /\ SamplerTypeOK /\ WorkerTypeOK /\ LockStep /\ Adapters /\ Decisions
      /\ \A q \in Ranks : RankInv(q)
  BY DEF IInv, TypeOK
<1>2. /\ UNCHANGED <<completed, accepted, adapter, loaded, rollouts, collected, cancelled,
                     sufficient, requested, inProgress, available, thread, samplerStopped, wanted,
                     stopEvent, worker, fetched, llm, task, retries, softDead, queue, interrupts>>
      /\ trainer[r] = "poll"
      /\ queue[r] = <<>>
  BY DEF CheckSufficient, CancelRest, QueueEmpty, At, samplerVars, workerVars, progressVars,
         adapterVars, callVars
<1>3. \/ /\ ~sufficient[r]
         /\ trainer' = [trainer EXCEPT ![r] = "reduce"]
         /\ UNCHANGED cancel
      \/ /\ sufficient[r]
         /\ cancel' = [cancel EXCEPT ![r] = TRUE]
         /\ \/ trainer' = [trainer EXCEPT ![r] = "poll"]
            \/ /\ trainer' = [trainer EXCEPT ![r] = "collected"]
               /\ collected[r] + cancelled[r] >= Total
  BY DEF CheckSufficient, CancelRest, Goto, workerVars
<1>4. /\ trainer' \in [Ranks -> Trainers]
      /\ \/ trainer'[r] = "reduce" /\ ~sufficient[r] /\ UNCHANGED cancel
         \/ trainer'[r] = "poll" /\ sufficient[r]
         \/ trainer'[r] = "collected" /\ sufficient[r] /\ collected[r] + cancelled[r] >= Total
      /\ \A q \in Ranks \ {r} : trainer'[q] = trainer[q]
  BY <1>1, <1>3 DEF TypeOK, Trainers
<1>5. cancel' \in [Ranks -> BOOLEAN] /\ \A q \in Ranks \ {r} : cancel'[q] = cancel[q]
  BY <1>1, <1>3 DEF WorkerTypeOK
<1>6. TypeOK'
  <2>1. SamplerTypeOK' /\ WorkerTypeOK'
    BY <1>1, <1>2, <1>5 DEF SamplerTypeOK, WorkerTypeOK
  <2> QED
    BY <1>1, <1>2, <1>4, <2>1 DEF TypeOK
<1>7. LockStep'
  BY <1>1, <1>2, <1>4 DEF LockStep, InCall
<1>8. Adapters' /\ Decisions'
  <2>1. Adapters'
    BY <1>1, <1>2, <1>4, CollectionAssumption DEF Adapters, InCall
  <2>2. Decisions'
    BY <1>1, <1>2, <1>4 DEF Decisions
  <2> QED
    BY <2>1, <2>2
<1>9. RankInv(r)'
  <2>1. /\ Open(r) /\ Open(r)' /\ ~Closed(r) /\ ~Closed(r)' /\ ~stopEvent[r]
        /\ InFlight(r)' = InFlight(r) /\ Done(r)' = Done(r) /\ Sampling(r)' = Sampling(r)
        /\ Outstanding(r)' = Outstanding(r)
    BY <1>1, <1>2, <1>4
    DEF Open, Closed, InCall, InFlight, Done, Sampling, Outstanding, RankInv, Requests
  <2>2. /\ Untouched(r)' = Untouched(r) /\ NotSubmitted(r)' = NotSubmitted(r)
        /\ Served(r)' = Served(r) /\ ~Failed(r)
    BY <1>2, <2>1 DEF Untouched, NotSubmitted, Served, Conserved, Failed
  <2>3. Requests(r)'
    BY <1>1, <1>2, <1>4, <2>1, <2>2 DEF RankInv, Requests, Untouched
  <2>4. Cancellations(r)'
    BY <1>1, <1>2, <1>4, <2>1 DEF RankInv, Cancellations
  <2>5. Generating(r)' /\ Counters(r)'
    BY <1>1, <1>2, <2>1 DEF RankInv, Generating, Counters
  <2> QED
    BY <2>3, <2>4, <2>5 DEF RankInv
<1>10. ASSUME NEW q \in Ranks \ {r} PROVE RankInv(q)'
  <2>1. SameFor(q)
    BY <1>2, <1>4, <1>5 DEF SameFor
  <2> QED
    BY <1>1, <1>2, <2>1, Frame
<1> QED
  BY <1>6, <1>7, <1>8, <1>9, <1>10 DEF IInv

-----------------------------------------------------------------------------
(* What the ranks do together.                                             *)

\* A batch of which nothing came is not sufficient.
LEMMA UntouchedIsNotEnough ==
  ASSUME NEW r \in Ranks, Untouched(r)
  PROVE  ~EnoughCollected
<1>1. 1 \in ScenarioIdx /\ RequiredPerScenario >= 1
  BY WorkerAssumption, CollectionAssumption DEF ScenarioIdx
<1>2. RolloutsOf(r, 1) = {}
  BY DEF RolloutsOf, Untouched
<1>3. Cardinality(RolloutsOf(r, 1)) = 0
  BY <1>2, FS_EmptySet
<1>4. ~(Cardinality(RolloutsOf(r, 1)) >= RequiredPerScenario)
  BY <1>1, <1>3, CollectionAssumption
<1> QED
  BY <1>1, <1>4 DEF EnoughCollected

\* The barriers around the exchange of the adapter.
LEMMA SwapBarriers ==
  ASSUME IInv, EnterSwap \/ LeaveSwap
  PROVE  IInv'
<1>1. TypeOK /\ SamplerTypeOK /\ WorkerTypeOK /\ LockStep /\ Adapters /\ Decisions
      /\ \A q \in Ranks : RankInv(q)
  BY DEF IInv, TypeOK
<1>2. /\ UNCHANGED <<completed, accepted, adapter, loaded, rollouts, collected, cancelled,
                     sufficient, requested, inProgress, available, thread, samplerStopped, wanted,
                     cancel, stopEvent, worker, fetched, llm, task, retries, softDead, queue,
                     interrupts>>
      /\ \/ /\ \A q \in Ranks : trainer[q] = "request"
            /\ trainer' = [q \in Ranks |-> "swap"]
         \/ /\ \A q \in Ranks : trainer[q] = "swapped"
            /\ trainer' = [q \in Ranks |-> "ask"]
  BY DEF EnterSwap, LeaveSwap, At, All, AllGoto, samplerVars, workerVars, progressVars, adapterVars,
         callVars
<1>3. TypeOK'
  <2>1. SamplerTypeOK' /\ WorkerTypeOK'
    BY <1>1, <1>2 DEF SamplerTypeOK, WorkerTypeOK
  <2>2. trainer' \in [Ranks -> Trainers]
    BY <1>2 DEF Trainers
  <2> QED
    BY <1>1, <1>2, <2>1, <2>2 DEF TypeOK
<1>4. LockStep' /\ Decisions'
  BY <1>1, <1>2 DEF LockStep, InCall, Decisions
<1>5. Adapters'
  <2>1. CASE trainer' = [q \in Ranks |-> "swap"]
    BY <1>1, <1>2, <2>1, CollectionAssumption DEF Adapters, InCall
  <2>2. CASE trainer' = [q \in Ranks |-> "ask"] /\ \A q \in Ranks : trainer[q] = "swapped"
    BY <1>1, <1>2, <2>2, CollectionAssumption DEF Adapters, InCall
  <2> QED
    BY <1>2, <2>1, <2>2
<1>6. ASSUME NEW r \in Ranks PROVE RankInv(r)'
  <2>1. /\ ~Open(r) /\ ~Open(r)' /\ Closed(r) /\ Closed(r)' /\ InFlight(r)' = InFlight(r)
        /\ Sampling(r)' = Sampling(r) /\ Outstanding(r)' = Outstanding(r)
        /\ trainer[r] \notin Stopping /\ trainer'[r] # "collected"
    BY <1>2 DEF Open, Closed, InCall, Stopping, InFlight, Sampling, Outstanding
  <2>2. ~stopEvent[r]
    BY <1>1, <2>1 DEF RankInv, Requests, Stopping
  <2>3. Requests(r)' /\ Cancellations(r)'
    BY <1>1, <1>2, <2>1, <2>2 DEF RankInv, Requests, Cancellations, Untouched
  <2>4. Generating(r)' /\ Counters(r)'
    BY <1>1, <1>2, <2>1 DEF RankInv, Generating, Counters
  <2> QED
    BY <2>3, <2>4 DEF RankInv
<1> QED
  BY <1>3, <1>4, <1>5, <1>6 DEF IInv

\* The all-reduces: every rank decides alike, and a rank for which nothing came
\* makes the batch insufficient for all.
LEMMA ReducePreserves ==
  ASSUME IInv, Reduce
  PROVE  IInv'
<1>1. TypeOK /\ SamplerTypeOK /\ WorkerTypeOK /\ LockStep /\ Adapters /\ Decisions
      /\ \A q \in Ranks : RankInv(q)
  BY DEF IInv, TypeOK
<1>2. /\ UNCHANGED <<completed, accepted, adapter, loaded, rollouts, collected, cancelled,
                     requested, inProgress, available, thread, samplerStopped, wanted, cancel,
                     stopEvent, worker, fetched, llm, task, retries, softDead, queue, interrupts>>
      /\ \A q \in Ranks : trainer[q] = "reduce"
      /\ trainer' = [q \in Ranks |-> "poll"]
      /\ sufficient' = [q \in Ranks |-> EnoughCollected]
  BY DEF Reduce, At, All, AllGoto, samplerVars, workerVars, progressVars, adapterVars
<1>3. EnoughCollected \in BOOLEAN
  BY DEF EnoughCollected
<1>4. TypeOK'
  <2>1. SamplerTypeOK' /\ WorkerTypeOK'
    BY <1>1, <1>2 DEF SamplerTypeOK, WorkerTypeOK
  <2>2. trainer' \in [Ranks -> Trainers]
    BY <1>2 DEF Trainers
  <2>3. sufficient' \in [Ranks -> BOOLEAN]
    BY <1>2, <1>3
  <2> QED
    BY <1>1, <1>2, <2>1, <2>2, <2>3 DEF TypeOK
<1>5. LockStep' /\ Adapters'
  BY <1>1, <1>2, CollectionAssumption DEF LockStep, InCall, Adapters
<1>6. Decisions'
  BY <1>2 DEF Decisions
<1>7. ASSUME NEW r \in Ranks PROVE RankInv(r)'
  <2>1. /\ Open(r) /\ Open(r)' /\ ~Closed(r) /\ ~Closed(r)' /\ ~sufficient[r] /\ ~stopEvent[r]
        /\ InFlight(r)' = InFlight(r) /\ Sampling(r)' = Sampling(r) /\ Done(r)' = Done(r)
        /\ Outstanding(r)' = Outstanding(r) /\ trainer'[r] = "poll"
    BY <1>1, <1>2
    DEF Open, Closed, InCall, Stopping, InFlight, Sampling, Done, Outstanding, Decisions, RankInv,
        Requests
  <2>2. Untouched(r) => Untouched(r)'
    BY <1>2, <2>1, UntouchedIsNotEnough DEF Untouched
  <2>3. /\ NotSubmitted(r)' = NotSubmitted(r) /\ Served(r)' = Served(r)
        /\ Failed(r) => Failed(r)'
    BY <1>2, <2>1 DEF NotSubmitted, Served, Conserved, Failed
  <2>4. Requests(r)'
    BY <1>1, <1>2, <2>1, <2>2, <2>3 DEF RankInv, Requests
  <2>5. Cancellations(r)'
    BY <1>1, <1>2, <2>1 DEF RankInv, Cancellations
  <2>6. Generating(r)' /\ Counters(r)'
    BY <1>1, <1>2, <2>1 DEF RankInv, Generating, Counters
  <2> QED
    BY <2>4, <2>5, <2>6 DEF RankInv
<1> QED
  BY <1>4, <1>5, <1>6, <1>7 DEF IInv

\* A batch is accepted: its requests are closed, and nothing of them is left.
LEMMA AcceptPreserves ==
  ASSUME IInv, Accept
  PROVE  IInv'
<1>1. TypeOK /\ SamplerTypeOK /\ WorkerTypeOK /\ LockStep /\ Adapters /\ Decisions
      /\ \A q \in Ranks : RankInv(q)
  BY DEF IInv, TypeOK
<1>2. /\ UNCHANGED <<completed, adapter, loaded, requested, inProgress, available, thread,
                     samplerStopped, wanted, cancel, stopEvent, worker, fetched, llm, task, retries,
                     softDead, queue, interrupts>>
      /\ \A q \in Ranks : trainer[q] = "collected"
      /\ accepted' = accepted + 1
      /\ trainer' = [q \in Ranks |-> IF Async /\ completed + 1 < TotalIterations THEN "request"
                                                                                ELSE "learn"]
      /\ rollouts' = [q \in Ranks |-> {}]
      /\ collected' = [q \in Ranks |-> 0]
      /\ cancelled' = [q \in Ranks |-> 0]
      /\ sufficient' = [q \in Ranks |-> FALSE]
  BY DEF Accept, At, All, AllGoto, ResetCall, samplerVars, workerVars, adapterVars
<1>3. /\ completed \in Nat /\ accepted = completed /\ completed < TotalIterations
      /\ TotalIterations \in Nat
  BY <1>1, <1>2, CollectionAssumption DEF LockStep, InCall, TypeOK
<1>4. TypeOK'
  <2>1. SamplerTypeOK' /\ WorkerTypeOK'
    BY <1>1, <1>2 DEF SamplerTypeOK, WorkerTypeOK
  <2>2. trainer' \in [Ranks -> Trainers]
    BY <1>2 DEF Trainers
  <2>3. accepted' \in 0 .. TotalIterations
    BY <1>2, <1>3
  <2>4. /\ rollouts' \in [Ranks -> SUBSET Tasks] /\ collected' \in [Ranks -> Nat]
        /\ cancelled' \in [Ranks -> Nat] /\ sufficient' \in [Ranks -> BOOLEAN]
    BY <1>2
  <2> QED
    BY <1>1, <1>2, <2>1, <2>2, <2>3, <2>4 DEF TypeOK
<1>5. \A q \in Ranks : \/ trainer'[q] = "request" /\ Async /\ accepted' < TotalIterations
                       \/ trainer'[q] = "learn" /\ ~(Async /\ accepted' < TotalIterations)
  BY <1>2, <1>3
<1>6. LockStep'
  <2>1. \/ \A q \in Ranks : trainer'[q] \in {"start", "request"}
        \/ \A q \in Ranks : trainer'[q] \notin {"start", "request", "swap", "swapped"}
    BY <1>2
  <2> QED
    BY <1>2, <1>3, <1>5, <2>1 DEF LockStep, InCall
<1>7. Adapters' /\ Decisions'
  <2>1. Adapters'
    BY <1>1, <1>2, <1>5, CollectionAssumption DEF Adapters, InCall
  <2>2. Decisions'
    BY <1>2, <1>5 DEF Decisions
  <2> QED
    BY <2>1, <2>2
<1>8. ASSUME NEW r \in Ranks PROVE RankInv(r)'
  <2>1. Served(r) /\ queue[r] = <<>> /\ InFlight(r) = {} /\ ~stopEvent[r]
    BY <1>1, <1>2, CollectedIsComplete DEF RankInv, Requests
  <2>2. /\ ~Open(r)' /\ Closed(r)' /\ trainer'[r] # "collected" /\ InFlight(r)' = InFlight(r)
        /\ Sampling(r)' = Sampling(r) /\ Outstanding(r)' = Outstanding(r)
    BY <1>2, <1>5 DEF Open, Closed, InCall, Stopping, InFlight, Sampling, Outstanding
  <2>3. Requests(r)' /\ Cancellations(r)'
    BY <1>2, <2>1, <2>2 DEF Requests, Cancellations, Untouched, Served
  <2>4. Generating(r)' /\ Counters(r)'
    BY <1>1, <1>2, <2>1, <2>2 DEF RankInv, Generating, Counters, Served
  <2> QED
    BY <2>3, <2>4 DEF RankInv
<1> QED
  BY <1>4, <1>6, <1>7, <1>8 DEF IInv

\* Every rank refuses an incomplete batch and stops.
LEMMA RefusePreserves ==
  ASSUME IInv, Refuse
  PROVE  IInv'
<1>1. TypeOK /\ SamplerTypeOK /\ WorkerTypeOK /\ LockStep /\ Adapters /\ Decisions
      /\ \A q \in Ranks : RankInv(q)
  BY DEF IInv, TypeOK
<1>2. /\ UNCHANGED <<completed, accepted, adapter, loaded, rollouts, collected, cancelled,
                     sufficient, requested, inProgress, available, thread, samplerStopped, wanted,
                     cancel, stopEvent, worker, fetched, llm, task, retries, softDead, queue,
                     interrupts>>
      /\ \A q \in Ranks : trainer[q] = "collected"
      /\ trainer' = [q \in Ranks |-> "stop"]
  BY DEF Refuse, At, All, AllGoto, samplerVars, workerVars, progressVars, adapterVars, callVars
<1>3. TypeOK'
  <2>1. SamplerTypeOK' /\ WorkerTypeOK'
    BY <1>1, <1>2 DEF SamplerTypeOK, WorkerTypeOK
  <2>2. trainer' \in [Ranks -> Trainers]
    BY <1>2 DEF Trainers
  <2> QED
    BY <1>1, <1>2, <2>1, <2>2 DEF TypeOK
<1>4. LockStep' /\ Adapters' /\ Decisions'
  BY <1>1, <1>2, CollectionAssumption DEF LockStep, InCall, Adapters, Decisions
<1>5. ASSUME NEW r \in Ranks PROVE RankInv(r)'
  <2>1. /\ ~Open(r)' /\ ~Closed(r)' /\ trainer'[r] # "collected" /\ InFlight(r)' = InFlight(r)
        /\ Sampling(r)' = Sampling(r) /\ Outstanding(r)' = Outstanding(r) /\ ~stopEvent[r]
    BY <1>1, <1>2
    DEF Open, Closed, InCall, Stopping, InFlight, Sampling, Outstanding, RankInv, Requests
  <2>2. Requests(r)' /\ Cancellations(r)'
    BY <1>2, <2>1 DEF Requests, Cancellations
  <2>3. Generating(r)' /\ Counters(r)'
    BY <1>1, <1>2, <2>1 DEF RankInv, Generating, Counters
  <2> QED
    BY <2>2, <2>3 DEF RankInv
<1> QED
  BY <1>3, <1>4, <1>5 DEF IInv

\* With async rollouts the request that was made before learning stays open, and
\* the adapter it is served with is one behind from here.
LEMMA LearnPreserves ==
  ASSUME IInv, Learn
  PROVE  IInv'
<1>1. TypeOK /\ SamplerTypeOK /\ WorkerTypeOK /\ LockStep /\ Adapters /\ Decisions
      /\ \A q \in Ranks : RankInv(q)
  BY DEF IInv, TypeOK
<1>2. /\ UNCHANGED <<accepted, adapter, loaded, rollouts, collected, cancelled, sufficient,
                     requested, inProgress, available, thread, samplerStopped, wanted, cancel,
                     stopEvent, worker, fetched, llm, task, retries, softDead, queue, interrupts>>
      /\ \A q \in Ranks : trainer[q] = "learn"
      /\ completed' = completed + 1
      /\ trainer' = [q \in Ranks |-> IF ~Async THEN "request"
                                     ELSE IF completed' < TotalIterations THEN "poll" ELSE "stop"]
  BY DEF Learn, At, All, AllGoto, samplerVars, workerVars, adapterVars, callVars
<1>3. completed \in Nat /\ accepted = completed' /\ accepted \in 0 .. TotalIterations
      /\ TotalIterations \in Nat /\ Async \in BOOLEAN
  BY <1>1, <1>2, CollectionAssumption DEF LockStep, TypeOK
<1>4. TypeOK'
  <2>1. SamplerTypeOK' /\ WorkerTypeOK'
    BY <1>1, <1>2 DEF SamplerTypeOK, WorkerTypeOK
  <2>2. trainer' \in [Ranks -> Trainers]
    BY <1>2 DEF Trainers
  <2> QED
    BY <1>1, <1>2, <1>3, <2>1, <2>2 DEF TypeOK
<1>5. \/ ~Async /\ \A q \in Ranks : trainer'[q] = "request"
      \/ Async /\ accepted < TotalIterations /\ \A q \in Ranks : trainer'[q] = "poll"
      \/ Async /\ ~(accepted < TotalIterations) /\ \A q \in Ranks : trainer'[q] = "stop"
  BY <1>2, <1>3
<1>6. LockStep' /\ Decisions'
  BY <1>1, <1>2, <1>3, <1>5 DEF LockStep, InCall, Decisions
<1>7. Adapters'
  BY <1>1, <1>2, <1>3, <1>5, CollectionAssumption DEF Adapters, InCall
<1>8. ASSUME NEW r \in Ranks PROVE RankInv(r)'
  <2>1. /\ InFlight(r)' = InFlight(r) /\ Sampling(r)' = Sampling(r) /\ Done(r)' = Done(r)
        /\ Outstanding(r)' = Outstanding(r) /\ ~stopEvent[r] /\ trainer'[r] # "collected"
        /\ trainer[r] # "collected"
    BY <1>1, <1>2, <1>5 DEF InFlight, Sampling, Done, Outstanding, RankInv, Requests
  <2>2. /\ Open(r)' => Open(r)
        /\ Closed(r)' => Closed(r)
    BY <1>2, <1>3, <1>5 DEF Open, Closed, InCall, Stopping
  <2>3. /\ Untouched(r)' = Untouched(r) /\ NotSubmitted(r)' = NotSubmitted(r)
        /\ Served(r)' = Served(r) /\ Failed(r)' = Failed(r)
    BY <1>2, <2>1 DEF Untouched, NotSubmitted, Served, Conserved, Failed
  <2>4. Requests(r)'
    BY <1>1, <1>2, <2>1, <2>2, <2>3 DEF RankInv, Requests
  <2>5. Cancellations(r)'
    BY <1>1, <1>2, <2>1, <2>2 DEF RankInv, Cancellations
  <2>6. Generating(r)' /\ Counters(r)'
    BY <1>1, <1>2, <2>1, <2>2 DEF RankInv, Generating, Counters
  <2> QED
    BY <2>4, <2>5, <2>6 DEF RankInv
<1> QED
  BY <1>4, <1>6, <1>7, <1>8 DEF IInv

-----------------------------------------------------------------------------
\* A step of the threads of one rank leaves the rest of the invariant alone.
LEMMA ThreadsPreserve ==
  ASSUME IInv, NEW r \in Ranks, Samplers(r) \/ Generation(r)
  PROVE  IInv'
<1>1. TypeOK' /\ RankInv(r)' /\ \A q \in Ranks \ {r} : SameFor(q)
  BY SamplersPreserve, GenerationPreserves
<1>2. UNCHANGED <<trainer, completed, accepted, adapter, loaded, sufficient>>
  BY DEF Samplers, Generation, progressVars, adapterVars, callVars
<1>3. LockStep' /\ Adapters' /\ Decisions'
  BY <1>2 DEF IInv, LockStep, Adapters, Decisions
<1>4. \A q \in Ranks \ {r} : RankInv(q)'
  BY <1>1, <1>2, Frame DEF IInv
<1> QED
  BY <1>1, <1>3, <1>4 DEF IInv

\* The invariant is inductive.
LEMMA NextPreserves == IInv /\ [Next]_vars => IInv'
<1> SUFFICES ASSUME IInv, [Next]_vars PROVE IInv'
  OBVIOUS
<1>1. CASE EnterSwap \/ LeaveSwap
  BY <1>1, SwapBarriers
<1>2. CASE Reduce
  BY <1>2, ReducePreserves
<1>3. CASE Accept
  BY <1>3, AcceptPreserves
<1>4. CASE Refuse
  BY <1>4, RefusePreserves
<1>5. CASE Learn
  BY <1>5, LearnPreserves
<1>6. ASSUME NEW r \in Ranks, Samplers(r) \/ Generation(r) PROVE IInv'
  BY <1>6, ThreadsPreserve
<1>7. ASSUME NEW r \in Ranks, Trainer(r) \/ Interrupt(r) PROVE IInv'
  BY <1>7, StartPreserves, ReloadPreserves, AskPreserves, ReceivePreserves, IdlePreserves,
     HaltsPreserve DEF Trainer, Halts
<1>8. CASE UNCHANGED vars
  <2>1. ASSUME NEW q \in Ranks PROVE SameFor(q)
    BY <1>8 DEF vars, samplerVars, workerVars, callVars, SameFor
  <2>2. accepted' = accepted /\ loaded' = loaded
    BY <1>8 DEF vars, progressVars, adapterVars
  <2>3. \A q \in Ranks : RankInv(q)'
    BY <2>1, <2>2, Frame DEF IInv
  <2>4. TypeOK'
    BY <1>8 DEF IInv, vars, samplerVars, workerVars, progressVars, adapterVars, callVars, TypeOK,
                SamplerTypeOK, WorkerTypeOK
  <2>5. LockStep' /\ Adapters' /\ Decisions'
    BY <1>8 DEF IInv, vars, progressVars, adapterVars, callVars, LockStep, Adapters, Decisions
  <2> QED
    BY <2>3, <2>4, <2>5 DEF IInv
<1> QED
  BY <1>1, <1>2, <1>3, <1>4, <1>5, <1>6, <1>7, <1>8 DEF Next, Together

\* The invariant holds in every state of every run.
THEOREM CollectionInvariant == Safety => []IInv
<1> QED
  BY InitIInv, NextPreserves, PTL DEF Safety

\* The types of every variable, in every state of every run.
THEOREM CollectionTypes == Safety => []TypeOK
<1>1. IInv => TypeOK
  BY DEF IInv
<1> QED
  BY <1>1, CollectionInvariant, PTL

\* get_rollouts' own assertion, n_rollouts_cancelled == 0 before the batch is
\* sufficient (vllm_rollout_worker.py), never fails: no cancellation of one batch
\* reaches the rollouts of the next.
THEOREM CancellationStaysInItsBatch == Safety => []NoEarlyCancellation
<1>1. IInv => NoEarlyCancellation
  <2> SUFFICES ASSUME IInv, NEW r \in Ranks, trainer[r] \in {"poll", "reduce"}, ~sufficient[r]
               PROVE  /\ cancelled[r] = 0
                      /\ \A i \in 1 .. Len(queue[r]) : ~queue[r][i].cancelled
    BY DEF NoEarlyCancellation
  <2>1. RankInv(r) /\ Open(r) /\ cancelled[r] \in Nat
    BY DEF IInv, Open, InCall, TypeOK
  <2>2. CASE Untouched(r)
    BY <2>2 DEF Untouched
  <2>3. CASE Served(r) \/ Failed(r)
    BY <2>1, <2>3 DEF RankInv, Cancellations, Served, Failed
  <2> QED
    BY <2>1, <2>2, <2>3 DEF RankInv, Requests
<1> QED
  BY <1>1, CollectionInvariant, PTL

\* What get_rollouts returns is all of its request, each rollout once, and nothing is
\* left running or queued for the next call, whatever was retried or cancelled.
THEOREM CallsAreComplete == Safety => []NothingLeftBehind
<1>1. IInv => NothingLeftBehind
  BY CollectedIsComplete DEF NothingLeftBehind, At, Served, Conserved
<1> QED
  BY <1>1, CollectionInvariant, PTL

\* Whatever a rank generates, it names the adapter that is on the servers.
THEOREM NoStragglers == Safety => []NoStraggler
<1>1. IInv => NoStraggler
  BY DEF IInv, RankInv, Generating, NoStraggler
<1> QED
  BY <1>1, CollectionInvariant, PTL

\* A batch comes from the policy it updates, or with async rollouts from the one
\* before.
THEOREM StalenessIsBounded == Safety => []BoundedStaleness
<1>1. IInv => BoundedStaleness
  <2> SUFFICES ASSUME IInv, NEW r \in Ranks, trainer[r] = "collected"
               PROVE  llm[r] = completed \/ (Async /\ llm[r] = completed - 1)
    BY DEF BoundedStaleness, At
  <2>1. Open(r) /\ RankInv(r) /\ ~wanted[r] /\ worker[r] # "clear"
    BY CollectedIsComplete DEF IInv, Open, InCall, Served
  <2>2. llm[r] = loaded
    BY <2>1 DEF RankInv, Generating
  <2> QED
    BY <2>2 DEF IInv, Adapters, InCall
<1> QED
  BY <1>1, CollectionInvariant, PTL

\* The ranks enter the all-reduces of get_rollouts the same number of times.
THEOREM ReductionsInLockstep == Safety => []LockstepReductions
<1>1. IInv => LockstepReductions
  <2> SUFFICES ASSUME IInv, NEW r \in Ranks, NEW s \in Ranks, trainer[s] = "reduce"
               PROVE  trainer[r] \in {"ask", "poll", "reduce"} \cup Stopping
    BY DEF LockstepReductions, At
  <2>1. trainer[r] # "collected"
    BY DEF IInv, Decisions
  <2>2. trainer[r] \notin {"start", "request", "swap", "swapped"}
    BY DEF IInv, LockStep
  <2>3. trainer[r] # "learn"
    BY DEF IInv, LockStep, InCall, TypeOK
  <2>4. trainer[r] \in Trainers
    BY DEF IInv, TypeOK
  <2> QED
    BY <2>1, <2>2, <2>3, <2>4 DEF Trainers, Stopping
<1> QED
  BY <1>1, CollectionInvariant, PTL

\* A generation thread that waits for a scenario has one coming.
THEOREM WaitersAreSupplied == Safety => []WaitingIsSupplied
<1>1. IInv => WaitingIsSupplied
  BY DEF IInv, RankInv, Counters, WaitingIsSupplied
<1> QED
  BY <1>1, CollectionInvariant, PTL

-----------------------------------------------------------------------------
(* A sufficient batch stays sufficient while the rest is waited for.       *)

Sufficiency ==
  /\ IsFiniteSet(Counted)
  /\ \A r \in Ranks : sufficient[r] => EnoughCollected

\* One rollout more counts one more.
LEMMA CountedGrows ==
  ASSUME collected \in [Ranks -> Nat], NEW r \in Ranks, IsFiniteSet(Counted),
         collected' = [collected EXCEPT ![r] = @ + 1]
  PROVE  IsFiniteSet(Counted)' /\ Finished' >= Finished
<1>1. Counted' = Counted \cup {<<r, collected[r] + 1>>}
  <2>1. \A q \in Ranks : collected'[q] = IF q = r THEN collected[r] + 1 ELSE collected[q]
    OBVIOUS
  <2>2. 1 .. collected[r] + 1 = (1 .. collected[r]) \cup {collected[r] + 1}
    OBVIOUS
  <2>3. \A p : p \in Counted <=> \E q \in Ranks : p \in {q} \X (1 .. collected[q])
    BY DEF Counted
  <2>4. \A p : p \in Counted' <=> \E q \in Ranks : p \in {q} \X (1 .. collected'[q])
    BY DEF Counted
  <2>5. {r} \X (1 .. collected'[r]) = {r} \X (1 .. collected[r]) \cup {<<r, collected[r] + 1>>}
    BY <2>1, <2>2
  <2>6. \A q \in Ranks : q # r => {q} \X (1 .. collected'[q]) = {q} \X (1 .. collected[q])
    BY <2>1
  <2> QED
    BY <2>3, <2>4, <2>5, <2>6, Zenon
<1>2. IsFiniteSet(Counted')
  BY <1>1, FS_AddElement
<1>3. Cardinality(Counted) <= Cardinality(Counted')
  BY <1>1, <1>2, FS_Subset
<1>4. Cardinality(Counted) \in Nat /\ Cardinality(Counted') \in Nat
  BY <1>2, FS_CardinalityType
<1> QED
  BY <1>2, <1>3, <1>4 DEF Finished

\* The batch of get_rollouts changes with a rollout that is received, with the
\* decision of the ranks, and with the next call.
LEMMA CallSteps ==
  ASSUME [Next]_vars
  PROVE  \/ UNCHANGED <<rollouts, collected, sufficient>>
         \/ \E r \in Ranks : Receive(r)
         \/ Reduce
         \/ Accept
<1> USE DEF callVars
<1>1. CASE EnterSwap \/ LeaveSwap \/ Refuse \/ Learn
  BY <1>1 DEF EnterSwap, LeaveSwap, Refuse, Learn
<1>2. ASSUME NEW r \in Ranks, Samplers(r) \/ Generation(r) \/ Interrupt(r)
      PROVE  UNCHANGED <<rollouts, collected, sufficient>>
  BY <1>2 DEF Samplers, Generation, Interrupt
<1>3. ASSUME NEW r \in Ranks, Trainer(r), ~Receive(r)
      PROVE  UNCHANGED <<rollouts, collected, sufficient>>
  BY <1>3 DEF Trainer, StartRun, ReloadAdapter, AskForRollouts, ReceiveFailure, CheckSufficient,
              CancelRest, RunStops, JoinSampler, CancelGeneration, StopWorker, JoinWorker
<1> QED
  BY <1>1, <1>2, <1>3 DEF Next, Together, vars

LEMMA SufficiencyInit == Init => Sufficiency
<1> SUFFICES ASSUME Init PROVE Sufficiency
  OBVIOUS
<1>1. \A r \in Ranks : {r} \X (1 .. collected[r]) = {}
  BY DEF Init
<1>2. Counted = {}
  BY <1>1 DEF Counted
<1> QED
  BY <1>2, FS_EmptySet DEF Init, Sufficiency

LEMMA SufficiencyPreserved == IInv /\ Sufficiency /\ [Next]_vars => Sufficiency'
<1> SUFFICES ASSUME IInv, Sufficiency, [Next]_vars PROVE Sufficiency'
  OBVIOUS
<1>1. /\ TypeOK /\ collected \in [Ranks -> Nat] /\ rollouts \in [Ranks -> SUBSET Tasks]
      /\ RequiredPerRank * Cardinality(Ranks) \in Nat /\ RequiredPerScenario \in Nat
  <2>1. Cardinality(Ranks) \in Nat
    BY SamplerAssumption, FS_CardinalityType
  <2>2. RequiredPerRank \in Nat /\ RequiredPerScenario \in Nat
    BY CollectionAssumption, WorkerAssumption
  <2> QED
    BY <2>1, <2>2 DEF IInv, TypeOK
<1>2. CASE UNCHANGED <<rollouts, collected, sufficient>>
  BY <1>2 DEF Sufficiency, EnoughCollected, Finished, Counted, RolloutsOf
<1>3. CASE \E r \in Ranks : Receive(r)
  <2>1. PICK r \in Ranks : Receive(r)
    BY <1>3
  <2>2. /\ UNCHANGED sufficient
        /\ \/ UNCHANGED <<rollouts, collected>>
           \/ /\ rollouts' = [rollouts EXCEPT ![r] = @ \cup {Head(queue[r]).task}]
              /\ collected' = [collected EXCEPT ![r] = @ + 1]
    BY <2>1 DEF Receive
  <2>3. CASE UNCHANGED <<rollouts, collected>>
    BY <2>2, <2>3 DEF Sufficiency, EnoughCollected, Finished, Counted, RolloutsOf
  <2>4. CASE /\ rollouts' = [rollouts EXCEPT ![r] = @ \cup {Head(queue[r]).task}]
             /\ collected' = [collected EXCEPT ![r] = @ + 1]
    <3>1. IsFiniteSet(Counted)' /\ Finished' >= Finished
      BY <1>1, <2>4, CountedGrows DEF Sufficiency
    <3>2. Finished \in Nat /\ Finished' \in Nat
      BY <3>1, FS_CardinalityType DEF Finished, Sufficiency
    <3>3. ASSUME NEW q \in Ranks, NEW s \in ScenarioIdx
          PROVE  Cardinality(RolloutsOf(q, s)') >= Cardinality(RolloutsOf(q, s))
      <4>1. RolloutsOf(q, s) \subseteq RolloutsOf(q, s)' /\ RolloutsOf(q, s)' \subseteq Tasks
        <5>1. rollouts[q] \subseteq rollouts'[q] /\ rollouts'[q] \subseteq Tasks
          <6>1. rollouts' \in [Ranks -> SUBSET Tasks]
            BY NextPreserves DEF IInv, TypeOK
          <6> QED
            BY <1>1, <2>4, <6>1
        <5> QED
          BY <5>1 DEF RolloutsOf
      <4>2. IsFiniteSet(RolloutsOf(q, s)')
        BY <4>1, TasksFinite, FS_Subset
      <4> QED
        BY <4>1, <4>2, FS_Subset, FS_CardinalityType
    <3>4. ASSUME NEW q \in Ranks, NEW s \in ScenarioIdx
          PROVE  Cardinality(RolloutsOf(q, s)) \in Nat /\ Cardinality(RolloutsOf(q, s)') \in Nat
      <4>1. rollouts' \in [Ranks -> SUBSET Tasks]
        BY NextPreserves DEF IInv, TypeOK
      <4>2. RolloutsOf(q, s) \subseteq Tasks /\ RolloutsOf(q, s)' \subseteq Tasks
        BY <1>1, <4>1 DEF RolloutsOf
      <4> QED
        BY <4>2, TasksFinite, FS_Subset, FS_CardinalityType
    <3>5. EnoughCollected => EnoughCollected'
      BY <1>1, <3>1, <3>2, <3>3, <3>4 DEF EnoughCollected
    <3> QED
      BY <2>2, <3>1, <3>5 DEF Sufficiency
  <2> QED
    BY <2>2, <2>3, <2>4
<1>4. CASE Reduce
  <2>1. UNCHANGED <<rollouts, collected>> /\ sufficient' = [r \in Ranks |-> EnoughCollected]
    BY <1>4 DEF Reduce
  <2> QED
    BY <2>1 DEF Sufficiency, EnoughCollected, Finished, Counted, RolloutsOf
<1>5. CASE Accept
  <2>1. collected' = [r \in Ranks |-> 0] /\ sufficient' = [r \in Ranks |-> FALSE]
    BY <1>5 DEF Accept, ResetCall
  <2>2. \A r \in Ranks : {r} \X (1 .. collected'[r]) = {}
    BY <2>1
  <2>3. Counted' = {}
    BY <2>2 DEF Counted
  <2> QED
    BY <2>1, <2>3, FS_EmptySet DEF Sufficiency
<1> QED
  BY <1>2, <1>3, <1>4, <1>5, CallSteps

\* The batch that leaves get_rollouts has the required rollouts in all and of every
\* scenario, however long ago the ranks agreed on it and however the rest of its
\* rollouts ended (vllm_rollout_worker.py, get_rollouts).
THEOREM BatchesAreSufficient == Safety => []BatchIsSufficient
<1>1. Init => IInv /\ Sufficiency
  BY InitIInv, SufficiencyInit
<1>2. IInv /\ Sufficiency /\ [Next]_vars => (IInv /\ Sufficiency)'
  BY NextPreserves, SufficiencyPreserved
<1>3. IInv /\ Sufficiency => BatchIsSufficient
  BY SamplerAssumption DEF IInv, Decisions, Sufficiency, EnoughCollected, BatchIsSufficient, All, At
<1> QED
  BY <1>1, <1>2, <1>3, PTL DEF Safety
================================================================================
