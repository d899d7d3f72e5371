-------------------------- MODULE EventLoopProofs ---------------------------
(***************************************************************************)
(* Proofs of the safety properties of EventLoop, for every set of jobs,    *)
(* every mix of calls, all durations, every clock resolution and every     *)
(* bound of the clock: where jobs are, what jobCount says of them, the     *)
(* order and punctuality of timers, and the refinement of AsyncJobs.       *)
(***************************************************************************)
EXTENDS MCEventLoop, QueueLemmas, FiniteSetTheorems

\* While a callback executes, its job is still at the front of the queue it
\* was taken from, so that the pop of removeJob removes that very job; and
\* message::build works on a job.
RunningIsFront ==
  /\ pc = "timerJob" => timersQueue # <<>> /\ current = Head(timersQueue)
  /\ pc = "callbackJob" => callbackQueue # <<>> /\ current = Head(callbackQueue)
  /\ pc = "build" => current \in Jobs

-----------------------------------------------------------------------------
(* Type correctness.                                                       *)

\* The loop time is a natural number that does not exceed the clock.
LEMMA LoopTimeType ==
  ASSUME clock \in Nat
  PROVE  clock \div Second \in Nat /\ LoopTime \in Nat
<1>1. Second \in Nat /\ Second > 0
  BY ConstantsAssumption
<1>2. clock \div Second \in Nat
  BY <1>1
<1> QED BY <1>1, <1>2 DEF LoopTime

LEMMA TypeInit == Init => TypeOK /\ RunningIsFront
<1> SUFFICES ASSUME Init PROVE TypeOK /\ RunningIsFront
  OBVIOUS
<1>1. LoopTime \in Nat
  BY LoopTimeType DEF Init
<1>2. TypeOK
  BY <1>1, ConstantsAssumption DEF Init, TypeOK, Stages, ControlPoints
<1>3. RunningIsFront
  BY DEF Init, RunningIsFront
<1> QED BY <1>2, <1>3

\* The two places that count jobs.
LEMMA TypeCount ==
  ASSUME TypeOK, RegisterJob \/ DeleteCurrent
  PROVE  jobCount' \in Int /\ shouldStop' \in BOOLEAN
<1>1. CASE RegisterJob
  <2>1. jobCount' \in Int
    BY <1>1 DEF RegisterJob, TypeOK
  <2>2. shouldStop' \in BOOLEAN
    BY <1>1 DEF RegisterJob
  <2> QED BY <2>1, <2>2
<1>2. CASE DeleteCurrent
  <2>1. jobCount' \in Int
    BY <1>2 DEF DeleteCurrent, TypeOK
  <2>2. shouldStop' \in BOOLEAN
    BY <1>2 DEF DeleteCurrent, TypeOK
  <2> QED BY <2>1, <2>2
<1> QED BY <1>1, <1>2

\* Deleting a job changes functions on Jobs to functions on Jobs.
LEMMA TypeDelete ==
  ASSUME TypeOK, DeleteCurrent
  PROVE  /\ kind' \in [Jobs -> Kinds \cup {"free"}]
         /\ timeOut' \in [Jobs -> Int]
         /\ startTime' \in [Jobs -> Nat]
         /\ duration' \in [Jobs -> Int]
<1> DEFINE Reset(f, v) == [f EXCEPT ![current] = v]
<1>1. ASSUME NEW S, NEW f \in [Jobs -> S], NEW v \in S
      PROVE  Reset(f, v) \in [Jobs -> S]
  OBVIOUS
<1>2. /\ kind \in [Jobs -> Kinds \cup {"free"}]
      /\ timeOut \in [Jobs -> Int]
      /\ startTime \in [Jobs -> Nat]
      /\ duration \in [Jobs -> Int]
  BY DEF TypeOK
<1>3. /\ kind' = Reset(kind, "free")
      /\ timeOut' = Reset(timeOut, 0)
      /\ startTime' = Reset(startTime, 0)
      /\ duration' = Reset(duration, 0)
  BY DEF DeleteCurrent
<1> HIDE DEF Reset
<1>4. 0 \in Int /\ 0 \in Nat /\ "free" \in Kinds \cup {"free"}
  OBVIOUS
<1> QED BY <1>1, <1>2, <1>3, <1>4, Zenon

\* Calls from scripts and callbacks.
LEMMA TypeCall ==
  ASSUME TypeOK, CallRuntime
  PROVE  TypeOK'
<1>1. ASSUME NEW j \in Jobs, NEW k, NEW stage \in Stages,
             StartWorker(j, k, stage)
      PROVE  TypeOK'
  <2>1. jobCount' \in Int /\ shouldStop' \in BOOLEAN
    BY <1>1, TypeCount DEF StartWorker
  <2>2. /\ kind' \in [Jobs -> Kinds \cup {"free"}]
        /\ worker' \in [Jobs -> Stages]
    BY <1>1 DEF StartWorker, TypeOK
  <2>3. UNCHANGED <<clock, currentTime, callbackQueue, mQu, heap, timersQueue,
                    timeOut, startTime, duration, pc, current, scripts>>
    BY <1>1 DEF StartWorker, timerVars
  <2> QED BY <2>1, <2>2, <2>3 DEF TypeOK
<1>2. ASSUME NEW j \in Jobs, NEW k, NEW d \in Durations, StartTimer(j, k, d)
      PROVE  TypeOK'
  <2>1. LoopTime \in Nat /\ clock \div Second \in Nat /\ d \in Int
    BY LoopTimeType, ConstantsAssumption DEF TypeOK
  <2>2. jobCount' \in Int /\ shouldStop' \in BOOLEAN
    BY <1>2, TypeCount DEF StartTimer
  <2>3. /\ kind' \in [Jobs -> Kinds \cup {"free"}]
        /\ startTime' \in [Jobs -> Nat]
        /\ duration' \in [Jobs -> Int]
        /\ heap' \subseteq Jobs
    BY <1>2, <2>1 DEF StartTimer, TypeOK
  <2>4. currentTime' \in Nat /\ timeOut' \in [Jobs -> Int]
    BY <1>2, <2>1 DEF StartTimer, TypeOK
  <2>5. UNCHANGED <<clock, timersQueue, callbackQueue, mQu, worker, pc,
                    current, scripts>>
    BY <1>2 DEF StartTimer
  <2> QED BY <2>2, <2>3, <2>4, <2>5 DEF TypeOK
<1> QED
  BY <1>1, <1>2 DEF CallRuntime, ReadFileAsync, WriteFileAsync,
     GetStatsAsync, SetTimeOut, SetInterval, Stages

\* Steps of a worker thread.
LEMMA TypeWorker ==
  ASSUME TypeOK, NEW j \in Jobs, WorkerStep(j)
  PROVE  TypeOK'
<1>1. ASSUME NEW from, NEW to \in Stages, SetStage(j, from, to)
      PROVE  TypeOK'
  BY <1>1 DEF SetStage, loopVars, timerVars, TypeOK
<1>2. CASE PostResult(j)
  <2>1. Append(mQu, j) \in Seq(Jobs) /\ Append(callbackQueue, j) \in Seq(Jobs)
    BY Push DEF TypeOK
  <2> QED BY <1>2, <2>1 DEF PostResult, timerVars, Stages, TypeOK
<1> QED
  BY <1>1, <1>2 DEF WorkerStep, ReadArguments, FileIO, Stat, StoreResult,
     Stages

\* Steps of the loop thread; a job that is deleted or put back into the heap
\* is one at the front of its queue.
LEMMA TypeLoop ==
  ASSUME TypeOK, RunningIsFront, LoopStep
  PROVE  TypeOK'
<1>1. ASSUME NEW from, NEW condition, NEW to \in ControlPoints,
             Jump(from, condition, to)
      PROVE  TypeOK'
  BY <1>1 DEF Jump, Goto, loopVars, timerVars, TypeOK
<1>2. CASE StartScript \/ Shutdown
  BY <1>2, ConstantsAssumption
  DEF StartScript, Shutdown, Goto, loopVars, timerVars, ControlPoints, TypeOK
<1>3. CASE EndScript \/ RunAgain \/ RunReturns \/ DrainDone \/ TimersDone
           \/ CallbacksDone \/ PromoteDone
  BY <1>1, <1>3 DEF EndScript, RunAgain, RunReturns, DrainDone, TimersDone,
     CallbacksDone, PromoteDone, ControlPoints
<1>4. CASE FetchMessage
  <2>1. Head(mQu) \in Jobs /\ Tail(mQu) \in Seq(Jobs)
    BY <1>4, HeadTailProperties DEF FetchMessage, TypeOK
  <2> QED
    BY <1>4, <2>1 DEF FetchMessage, Goto, timerVars, ControlPoints, TypeOK
<1>5. CASE BuildMessage
  <2>1. Append(callbackQueue, current) \in Seq(Jobs)
    BY <1>5, Push DEF BuildMessage, RunningIsFront, TypeOK
  <2> QED
    BY <1>5, <2>1 DEF BuildMessage, Goto, timerVars, ControlPoints, TypeOK
<1>6. ASSUME NEW queue \in Seq(Jobs), NEW from, NEW to \in ControlPoints,
             RunJob(queue, from, to)
      PROVE  TypeOK'
  <2>1. Head(queue) \in Jobs
    BY <1>6, HeadTailProperties DEF RunJob
  <2> QED BY <1>6, <2>1 DEF RunJob, Goto, loopVars, timerVars, TypeOK
<1>7. CASE RunTimer \/ RunCallback
  BY <1>6, <1>7 DEF RunTimer, RunCallback, ControlPoints, TypeOK
<1>8. CASE FinishTimer
  <2>1. current \in Jobs /\ Tail(timersQueue) \in Seq(Jobs)
    BY <1>8, HeadTailProperties DEF FinishTimer, RunningIsFront, TypeOK
  <2>2. CASE kind[current] = "interval"
    <3>1. Rearm
      BY <1>8, <2>2 DEF FinishTimer
    <3>2. /\ timeOut' \in [Jobs -> Int] /\ heap' \subseteq Jobs
          /\ startTime' \in [Jobs -> Nat] /\ duration' \in [Jobs -> Int]
          /\ kind' \in [Jobs -> Kinds \cup {"free"}]
          /\ jobCount' \in Int /\ shouldStop' \in BOOLEAN
      BY <2>1, <3>1 DEF Rearm, TypeOK
    <3> QED
      BY <1>8, <2>1, <3>2 DEF FinishTimer, Goto, ControlPoints, TypeOK
  <2>3. CASE kind[current] # "interval"
    <3>1. DeleteCurrent /\ UNCHANGED heap
      BY <1>8, <2>3 DEF FinishTimer
    <3> QED
      BY <1>8, <2>1, <3>1, TypeCount, TypeDelete
      DEF FinishTimer, Goto, ControlPoints, TypeOK
  <2> QED BY <2>2, <2>3
<1>9. CASE FinishCallback
  <2>1. current \in Jobs /\ Tail(callbackQueue) \in Seq(Jobs)
    BY <1>9, HeadTailProperties DEF FinishCallback, RunningIsFront, TypeOK
  <2>2. DeleteCurrent
    BY <1>9 DEF FinishCallback
  <2> QED
    BY <1>9, <2>1, <2>2, TypeCount, TypeDelete
    DEF FinishCallback, Goto, ControlPoints, TypeOK
<1>10. CASE UpdateTime
  <2>1. LoopTime \in Nat
    BY LoopTimeType DEF TypeOK
  <2> QED
    BY <1>10, <2>1 DEF UpdateTime, Goto, timerVars, ControlPoints, TypeOK
<1>11. CASE PromoteTimer
  <2>1. \A j \in heap : Append(timersQueue, j) \in Seq(Jobs)
    BY Push DEF TypeOK
  <2> QED BY <1>11, <2>1 DEF PromoteTimer, loopVars, TypeOK
<1> QED
  BY <1>2, <1>3, <1>4, <1>5, <1>7, <1>8, <1>9, <1>10, <1>11 DEF LoopStep

LEMMA TypeNext ==
  ASSUME TypeOK, RunningIsFront, [Next]_vars
  PROVE  TypeOK'
<1>1. CASE Tick
  BY <1>1 DEF Tick, loopVars, timerVars, TypeOK
<1>2. CASE UNCHANGED vars
  BY <1>2 DEF vars, loopVars, timerVars, TypeOK
<1> QED
  BY <1>1, <1>2, TypeCall, TypeWorker, TypeLoop DEF Next, Exited

\* The queue that a callback's job came from is only pushed to while the
\* callback executes, so that the job stays at its front.
LEMMA FrontNext ==
  ASSUME TypeOK, RunningIsFront, [Next]_vars
  PROVE  RunningIsFront'
<1> USE DEF RunningIsFront
<1>1. CASE Tick \/ UNCHANGED vars
  BY <1>1 DEF Tick, vars, loopVars, timerVars
<1>2. CASE CallRuntime
  BY <1>2 DEF CallRuntime, ReadFileAsync, WriteFileAsync, GetStatsAsync,
     SetTimeOut, SetInterval, StartWorker, StartTimer, timerVars, InJS
<1>3. ASSUME NEW j \in Jobs, WorkerStep(j)
      PROVE  RunningIsFront'
  <2>1. CASE PostResult(j)
    <3>1. /\ Append(callbackQueue, j) # <<>>
          /\ callbackQueue # <<>>
               => Head(Append(callbackQueue, j)) = Head(callbackQueue)
      BY Push DEF TypeOK
    <3> QED BY <2>1, <3>1 DEF PostResult, timerVars
  <2> QED
    BY <1>3, <2>1 DEF WorkerStep, ReadArguments, FileIO, Stat, StoreResult,
       SetStage, loopVars, timerVars
<1>4. CASE LoopStep
  <2>1. CASE pc' \notin {"timerJob", "callbackJob", "build"}
    BY <2>1
  <2>2. CASE FetchMessage
    BY <2>2, HeadTailProperties DEF FetchMessage, Goto, TypeOK
  <2>3. CASE RunTimer \/ RunCallback
    BY <2>3 DEF RunTimer, RunCallback, RunJob, Goto, loopVars, timerVars
  <2>4. CASE PromoteTimer
    BY <2>4 DEF PromoteTimer
  <2> QED
    BY <1>4, <2>1, <2>2, <2>3, <2>4
    DEF LoopStep, StartScript, EndScript, Shutdown, RunAgain, RunReturns,
        BuildMessage, DrainDone, FinishTimer, TimersDone, FinishCallback,
        CallbacksDone, UpdateTime, PromoteDone, Jump, Goto
<1> QED
  BY <1>1, <1>2, <1>3, <1>4 DEF Next, Exited

\* TypeOK holds in every reachable state, for all values of the constants.
THEOREM TypeCorrect == Spec => []TypeOK
BY TypeInit, TypeNext, FrontNext, PTL DEF Spec

-----------------------------------------------------------------------------
(* Job conservation and the job count.                                     *)

\* Whenever the loop thread is between two scripts or the process has ended,
\* no job is on its way.
IdleOutside == pc \in {"start", "exited"} => InFlight = {}

\* The inductive invariant.  JobCountExact and ExitOnlyWhenIdle are not
\* inductive alone: removeJob counts down for the job at the front of a
\* queue, which is right only if that job is nowhere else (JobsConserved)
\* and still at the front when its callback returns (RunningIsFront).
IInv ==
  /\ TypeOK
  /\ RunningIsFront
  /\ JobsConserved
  /\ JobCountExact
  /\ IdleOutside

LEMMA InFlightFinite ==
  ASSUME TypeOK, RunningIsFront
  PROVE  InFlight \subseteq Jobs /\ IsFiniteSet(InFlight)
<1>1. /\ Range(mQu) \subseteq Jobs
      /\ Range(callbackQueue) \subseteq Jobs
      /\ Range(timersQueue) \subseteq Jobs
  BY QueueRange DEF TypeOK
<1>2. Working \subseteq Jobs /\ Building \subseteq Jobs /\ heap \subseteq Jobs
  BY DEF Working, Building, TypeOK, RunningIsFront
<1>3. InFlight \subseteq Jobs
  BY <1>1, <1>2 DEF InFlight
<1> QED BY <1>3, ConstantsAssumption, FS_Subset

\* The count stays exact when a job is registered ...
LEMMA CountEnter ==
  ASSUME TypeOK, RunningIsFront, JobCountExact, RegisterJob,
         NEW j \in Jobs, j \notin InFlight, InFlight' = InFlight \cup {j}
  PROVE  JobCountExact'
<1>1. Cardinality(InFlight') = Cardinality(InFlight) + 1
  BY InFlightFinite, FS_AddElement
<1>2. jobCount' = Cardinality(InFlight')
  BY <1>1 DEF JobCountExact, RegisterJob
<1>3. InFlight' # {} /\ ~shouldStop'
  BY DEF RegisterJob
<1> QED BY <1>2, <1>3 DEF JobCountExact

\* ... and when it is removed.
LEMMA CountLeave ==
  ASSUME TypeOK, RunningIsFront, JobCountExact, DeleteCurrent,
         current \in InFlight, InFlight' = InFlight \ {current}
  PROVE  JobCountExact'
<1>1. /\ IsFiniteSet(InFlight')
      /\ Cardinality(InFlight') = Cardinality(InFlight) - 1
  BY InFlightFinite, FS_RemoveElement
<1>2. jobCount' = Cardinality(InFlight')
  BY <1>1 DEF JobCountExact, DeleteCurrent
<1>3. jobCount' = 0 <=> InFlight' = {}
  BY <1>1, <1>2, FS_EmptySet
<1>4. ~shouldStop
  BY DEF JobCountExact
<1>5. shouldStop' <=> InFlight' = {}
  BY <1>3, <1>4 DEF DeleteCurrent
<1> QED BY <1>2, <1>5 DEF JobCountExact

\* The places of the jobs as six disjoint sets.
Apart(W, M, B, C, T, H) ==
  /\ W \cap (M \cup B \cup C) = {}
  /\ B \cap (M \cup C) = {}
  /\ M \cap C = {}
  /\ (T \cup H) \cap (W \cup M \cup B \cup C) = {}
  /\ T \cap H = {}

\* JobsConserved in these terms, in a state and in its successor.
LEMMA Conserved ==
  ASSUME JobsConserved
  PROVE  /\ Allocated = InFlight
         /\ IsInjective(mQu) /\ IsInjective(callbackQueue)
         /\ IsInjective(timersQueue)
         /\ Apart(Working, Range(mQu), Building, Range(callbackQueue),
                  Range(timersQueue), heap)
BY DEF JobsConserved, Apart

LEMMA ConservedNext ==
  ASSUME Allocated' = InFlight',
         IsInjective(mQu'), IsInjective(callbackQueue'),
         IsInjective(timersQueue'),
         Apart(Working', Range(mQu'), Building', Range(callbackQueue'),
               Range(timersQueue'), heap')
  PROVE  JobsConserved'
BY DEF JobsConserved, Apart

\* Moving or removing an element keeps disjoint sets disjoint.
LEMMA ApartMoves ==
  ASSUME NEW W, NEW M, NEW B, NEW C, NEW T, NEW H, NEW j,
         Apart(W, M, B, C, T, H)
  PROVE  /\ j \in W => /\ Apart(W \ {j}, M \cup {j}, B, C, T, H)
                       /\ Apart(W \ {j}, M, B, C \cup {j}, T, H)
         /\ j \in M /\ B = {} => Apart(W, M \ {j}, {j}, C, T, H)
         /\ B = {j} => Apart(W, M, {}, C \cup {j}, T, H)
         /\ j \in H => Apart(W, M, B, C, T \cup {j}, H \ {j})
         /\ j \in T => Apart(W, M, B, C, T \ {j}, H \cup {j})
         /\ Apart(W, M, B, C, T \ {j}, H)
         /\ Apart(W, M, B, C \ {j}, T, H)
BY DEF Apart

\* A step that neither moves nor allocates a job.
LEMMA SamePlaces ==
  ASSUME JobsConserved,
         Working' = Working, Building' = Building,
         UNCHANGED <<mQu, callbackQueue, timersQueue, heap, kind>>
  PROVE  JobsConserved' /\ InFlight' = InFlight
<1>1. InFlight' = InFlight /\ Allocated' = Allocated
  BY DEF InFlight, Allocated
<1> QED BY <1>1 DEF JobsConserved

\* A call allocates a job object that is nowhere yet.
LEMMA CallPlaces ==
  ASSUME IInv, CallRuntime
  PROVE  JobsConserved' /\ \E j \in Jobs : /\ RegisterJob
                                           /\ j \notin InFlight
                                           /\ InFlight' = InFlight \cup {j}
<1>1. ASSUME NEW j \in Jobs, NEW k \in Kinds, NEW stage \in Stages \ {"idle"},
             StartWorker(j, k, stage)
      PROVE  /\ JobsConserved' /\ RegisterJob
             /\ j \notin InFlight /\ InFlight' = InFlight \cup {j}
  <2>1. j \notin Allocated /\ Allocated' = Allocated \cup {j}
    BY <1>1, ConstantsAssumption
    DEF StartWorker, Allocated, IInv, TypeOK, IOKinds, TimerKinds
  <2>2. Working' = Working \cup {j}
    BY <1>1 DEF StartWorker, Working, IInv, TypeOK
  <2>3. /\ Building' = {} /\ Building = {}
        /\ UNCHANGED <<mQu, callbackQueue, timersQueue, heap>>
    BY <1>1 DEF StartWorker, Building, InJS, timerVars
  <2>4. j \notin InFlight
    BY <2>1 DEF IInv, JobsConserved
  <2>5. InFlight' = InFlight \cup {j}
    BY <2>2, <2>3 DEF InFlight
  <2>6. JobsConserved'
    BY <2>1, <2>2, <2>3, <2>4, <2>5 DEF IInv, JobsConserved, InFlight
  <2> QED BY <1>1, <2>4, <2>5, <2>6 DEF StartWorker
<1>2. ASSUME NEW j \in Jobs, NEW k \in Kinds, NEW d \in Durations,
             StartTimer(j, k, d)
      PROVE  /\ JobsConserved' /\ RegisterJob
             /\ j \notin InFlight /\ InFlight' = InFlight \cup {j}
  <2>1. j \notin Allocated /\ Allocated' = Allocated \cup {j}
    BY <1>2, ConstantsAssumption
    DEF StartTimer, Allocated, IInv, TypeOK, IOKinds, TimerKinds
  <2>2. heap' = heap \cup {j} /\ Working' = Working
    BY <1>2 DEF StartTimer, Working
  <2>3. /\ Building' = {} /\ Building = {}
        /\ UNCHANGED <<mQu, callbackQueue, timersQueue>>
    BY <1>2 DEF StartTimer, Building, InJS
  <2>4. j \notin InFlight
    BY <2>1 DEF IInv, JobsConserved
  <2>5. InFlight' = InFlight \cup {j}
    BY <2>2, <2>3 DEF InFlight
  <2>6. JobsConserved'
    BY <2>1, <2>2, <2>3, <2>4, <2>5 DEF IInv, JobsConserved, InFlight
  <2> QED BY <1>2, <2>4, <2>5, <2>6 DEF StartTimer
<1> QED
  BY <1>1, <1>2 DEF CallRuntime, ReadFileAsync, WriteFileAsync,
     GetStatsAsync, SetTimeOut, SetInterval, StartWorker, StartTimer, Stages

\* A worker keeps its job until it hands it over.
LEMMA WorkerPlaces ==
  ASSUME IInv, NEW j \in Jobs, WorkerStep(j)
  PROVE  /\ JobsConserved'
         /\ InFlight' = InFlight
         /\ UNCHANGED <<jobCount, shouldStop>>
<1>1. ASSUME NEW from \in Stages \ {"idle"}, NEW to \in Stages \ {"idle"},
             SetStage(j, from, to)
      PROVE  JobsConserved' /\ InFlight' = InFlight
  <2>1. Working' = Working
    BY <1>1 DEF SetStage, Working, IInv, TypeOK
  <2>2. /\ Building' = Building
        /\ UNCHANGED <<mQu, callbackQueue, timersQueue, heap, kind>>
    BY <1>1 DEF SetStage, Building, loopVars, timerVars
  <2> QED BY <2>1, <2>2, SamePlaces DEF IInv
<1>2. CASE PostResult(j)
  <2> SUFFICES JobsConserved' /\ InFlight' = InFlight
    BY <1>2 DEF PostResult
  <2>1. j \in Working /\ Working' = Working \ {j}
    BY <1>2 DEF PostResult, Working, IInv, TypeOK
  <2>2. /\ Building' = Building /\ Allocated' = Allocated
        /\ UNCHANGED <<timersQueue, heap>>
    BY <1>2 DEF PostResult, Building, Allocated, timerVars
  <2>3. ASSUME NEW q \in Seq(Jobs), IsInjective(q), j \notin Range(q)
        PROVE  /\ Range(Append(q, j)) = Range(q) \cup {j}
               /\ IsInjective(Append(q, j))
    BY <2>3, Push
  <2>4. j \notin Range(mQu) /\ j \notin Range(callbackQueue)
    BY <2>1 DEF IInv, JobsConserved
  <2>5. mQu \in Seq(Jobs) /\ callbackQueue \in Seq(Jobs)
    BY DEF IInv, TypeOK
  <2>6. CASE kind[j] = "stats"
    <3>1. /\ Range(mQu') = Range(mQu) \cup {j} /\ IsInjective(mQu')
          /\ callbackQueue' = callbackQueue
      BY <1>2, <2>3, <2>4, <2>5, <2>6 DEF PostResult, IInv, JobsConserved
    <3>2. InFlight' = InFlight
      BY <2>1, <2>2, <3>1 DEF InFlight
    <3>3. Apart(Working \ {j}, Range(mQu) \cup {j}, Building,
                Range(callbackQueue), Range(timersQueue), heap)
      BY <2>1, Conserved, ApartMoves DEF IInv
    <3> QED
      BY <2>1, <2>2, <3>1, <3>2, <3>3, Conserved, ConservedNext DEF IInv
  <2>7. CASE kind[j] # "stats"
    <3>1. /\ Range(callbackQueue') = Range(callbackQueue) \cup {j}
          /\ IsInjective(callbackQueue')
          /\ mQu' = mQu
      BY <1>2, <2>3, <2>4, <2>5, <2>7 DEF PostResult, IInv, JobsConserved
    <3>2. InFlight' = InFlight
      BY <2>1, <2>2, <3>1 DEF InFlight
    <3>3. Apart(Working \ {j}, Range(mQu), Building,
                Range(callbackQueue) \cup {j}, Range(timersQueue), heap)
      BY <2>1, Conserved, ApartMoves DEF IInv
    <3> QED
      BY <2>1, <2>2, <3>1, <3>2, <3>3, Conserved, ConservedNext DEF IInv
  <2> QED BY <1>2, <2>6, <2>7 DEF PostResult
<1> QED
  BY <1>1, <1>2 DEF WorkerStep, ReadArguments, FileIO, Stat, StoreResult,
     Stages, SetStage, PostResult, loopVars

\* getFront takes a job out of mQu and build puts it into callbackQueue.
LEMMA MessagePlaces ==
  ASSUME IInv, FetchMessage \/ BuildMessage
  PROVE  JobsConserved' /\ InFlight' = InFlight
<1>1. CASE FetchMessage
  <2>1. Building = {} /\ Building' = {Head(mQu)}
    BY <1>1 DEF FetchMessage, Goto, Building
  <2>2. /\ Head(mQu) \in Range(mQu)
        /\ Range(mQu') = Range(mQu) \ {Head(mQu)}
        /\ IsInjective(mQu')
    BY <1>1, Front, Pop DEF FetchMessage, IInv, TypeOK, JobsConserved
  <2>3. /\ Working' = Working /\ Allocated' = Allocated
        /\ UNCHANGED <<callbackQueue, timersQueue, heap>>
    BY <1>1 DEF FetchMessage, Working, Allocated, timerVars
  <2>4. InFlight' = InFlight
    BY <2>1, <2>2, <2>3 DEF InFlight
  <2>5. Apart(Working, Range(mQu) \ {Head(mQu)}, {Head(mQu)},
              Range(callbackQueue), Range(timersQueue), heap)
    BY <2>1, <2>2, Conserved, ApartMoves DEF IInv
  <2> QED
    BY <2>1, <2>2, <2>3, <2>4, <2>5, Conserved, ConservedNext DEF IInv
<1>2. CASE BuildMessage
  <2>1. Building = {current} /\ Building' = {} /\ current \in Jobs
    BY <1>2 DEF BuildMessage, Goto, Building, IInv, RunningIsFront
  <2>2. current \notin Range(callbackQueue)
    BY <2>1 DEF IInv, JobsConserved
  <2>3. /\ Range(callbackQueue') = Range(callbackQueue) \cup {current}
        /\ IsInjective(callbackQueue')
    BY <1>2, <2>1, <2>2, Push DEF BuildMessage, IInv, TypeOK, JobsConserved
  <2>4. /\ Working' = Working /\ Allocated' = Allocated
        /\ UNCHANGED <<mQu, timersQueue, heap>>
    BY <1>2 DEF BuildMessage, Working, Allocated, timerVars
  <2>5. InFlight' = InFlight
    BY <2>1, <2>3, <2>4 DEF InFlight
  <2>6. Apart(Working, Range(mQu), {}, Range(callbackQueue) \cup {current},
              Range(timersQueue), heap)
    BY <2>1, Conserved, ApartMoves DEF IInv
  <2> QED
    BY <2>1, <2>3, <2>4, <2>5, <2>6, Conserved, ConservedNext DEF IInv
<1> QED BY <1>1, <1>2

\* updateTimers moves a timer from the heap to timersQueue.
LEMMA PromotePlaces ==
  ASSUME IInv, PromoteTimer
  PROVE  JobsConserved' /\ InFlight' = InFlight
<1>1. PICK j \in heap : /\ timersQueue' = Append(timersQueue, j)
                        /\ heap' = heap \ {j}
  BY DEF PromoteTimer
<1>2. j \in Jobs /\ j \notin Range(timersQueue)
  BY DEF IInv, TypeOK, JobsConserved
<1>3. Range(timersQueue') = Range(timersQueue) \cup {j} /\ IsInjective(timersQueue')
  BY <1>1, <1>2, Push DEF IInv, TypeOK, JobsConserved
<1>4. /\ Working' = Working /\ Allocated' = Allocated /\ Building' = Building
      /\ UNCHANGED <<mQu, callbackQueue>>
  BY DEF PromoteTimer, Working, Allocated, Building, loopVars
<1>5. InFlight' = InFlight
  BY <1>1, <1>3, <1>4 DEF InFlight
<1>6. Apart(Working, Range(mQu), Building, Range(callbackQueue),
            Range(timersQueue) \cup {j}, heap \ {j})
  BY Conserved, ApartMoves DEF IInv
<1> QED
  BY <1>1, <1>3, <1>4, <1>5, <1>6, Conserved, ConservedNext DEF IInv

\* An interval whose callback has returned goes back into the heap.
LEMMA RearmPlaces ==
  ASSUME IInv, FinishTimer, kind[current] = "interval"
  PROVE  /\ JobsConserved' /\ InFlight' = InFlight
         /\ UNCHANGED <<jobCount, shouldStop>>
<1>1. timersQueue # <<>> /\ current = Head(timersQueue)
  BY DEF FinishTimer, IInv, RunningIsFront
<1>2. /\ current \in Range(timersQueue)
      /\ Range(timersQueue') = Range(timersQueue) \ {current}
      /\ IsInjective(timersQueue')
  BY <1>1, Front, Pop DEF FinishTimer, IInv, TypeOK, JobsConserved
<1>3. /\ heap' = heap \cup {current} /\ Allocated' = Allocated
      /\ UNCHANGED <<jobCount, shouldStop>>
  BY DEF FinishTimer, Rearm, Allocated
<1>4. /\ Working' = Working /\ Building' = {} /\ Building = {}
      /\ UNCHANGED <<mQu, callbackQueue>>
  BY DEF FinishTimer, Goto, Working, Building
<1>5. InFlight' = InFlight
  BY <1>2, <1>3, <1>4 DEF InFlight
<1>6. Apart(Working, Range(mQu), Building, Range(callbackQueue),
            Range(timersQueue) \ {current}, heap \cup {current})
  BY <1>2, Conserved, ApartMoves DEF IInv
<1> QED
  BY <1>2, <1>3, <1>4, <1>5, <1>6, Conserved, ConservedNext DEF IInv

\* Any other job whose callback has returned is nowhere any more.
LEMMA RemovePlaces ==
  ASSUME IInv,
         \/ FinishTimer /\ kind[current] # "interval"
         \/ FinishCallback
  PROVE  /\ JobsConserved' /\ DeleteCurrent
         /\ current \in InFlight /\ InFlight' = InFlight \ {current}
<1>1. CASE FinishTimer /\ kind[current] # "interval"
  <2>1. timersQueue # <<>> /\ current = Head(timersQueue)
    BY <1>1 DEF FinishTimer, IInv, RunningIsFront
  <2>2. /\ current \in Range(timersQueue) /\ current \in Jobs
        /\ Range(timersQueue') = Range(timersQueue) \ {current}
        /\ IsInjective(timersQueue')
    BY <1>1, <2>1, Front, Pop DEF FinishTimer, IInv, TypeOK, JobsConserved
  <2>3. DeleteCurrent /\ heap' = heap
    BY <1>1 DEF FinishTimer
  <2>4. Allocated' = Allocated \ {current}
    BY <2>2, <2>3 DEF DeleteCurrent, Allocated, IInv, TypeOK
  <2>5. /\ Working' = Working /\ Building' = {} /\ Building = {}
        /\ UNCHANGED <<mQu, callbackQueue>>
    BY <1>1 DEF FinishTimer, Goto, Working, Building
  <2>6. current \in InFlight /\ InFlight' = InFlight \ {current}
    BY <2>2, <2>3, <2>5 DEF InFlight, IInv, JobsConserved
  <2>7. Apart(Working, Range(mQu), Building, Range(callbackQueue),
              Range(timersQueue) \ {current}, heap)
    BY Conserved, ApartMoves DEF IInv
  <2> QED
    BY <2>2, <2>3, <2>4, <2>5, <2>6, <2>7, Conserved, ConservedNext DEF IInv
<1>2. CASE FinishCallback
  <2>1. callbackQueue # <<>> /\ current = Head(callbackQueue)
    BY <1>2 DEF FinishCallback, IInv, RunningIsFront
  <2>2. /\ current \in Range(callbackQueue) /\ current \in Jobs
        /\ Range(callbackQueue') = Range(callbackQueue) \ {current}
        /\ IsInjective(callbackQueue')
    BY <1>2, <2>1, Front, Pop DEF FinishCallback, IInv, TypeOK, JobsConserved
  <2>3. DeleteCurrent
    BY <1>2 DEF FinishCallback
  <2>4. Allocated' = Allocated \ {current}
    BY <2>2, <2>3 DEF DeleteCurrent, Allocated, IInv, TypeOK
  <2>5. /\ Working' = Working /\ Building' = {} /\ Building = {}
        /\ UNCHANGED <<mQu, timersQueue, heap>>
    BY <1>2 DEF FinishCallback, Goto, Working, Building
  <2>6. current \in InFlight /\ InFlight' = InFlight \ {current}
    BY <2>2, <2>5 DEF InFlight, IInv, JobsConserved
  <2>7. Apart(Working, Range(mQu), Building, Range(callbackQueue) \ {current},
              Range(timersQueue), heap)
    BY Conserved, ApartMoves DEF IInv
  <2> QED
    BY <2>2, <2>3, <2>4, <2>5, <2>6, <2>7, Conserved, ConservedNext DEF IInv
<1> QED BY <1>1, <1>2

\* The other steps leave every job where it is.
LEMMA QuietPlaces ==
  ASSUME IInv,
         \/ Tick \/ UNCHANGED vars
         \/ StartScript \/ EndScript \/ Shutdown \/ RunAgain \/ RunReturns
         \/ DrainDone \/ RunTimer \/ TimersDone \/ RunCallback
         \/ CallbacksDone \/ UpdateTime \/ PromoteDone
  PROVE  /\ JobsConserved' /\ InFlight' = InFlight
         /\ UNCHANGED <<jobCount, shouldStop>>
<1>1. /\ Working' = Working
      /\ UNCHANGED <<mQu, callbackQueue, timersQueue, heap, kind>>
      /\ UNCHANGED <<jobCount, shouldStop>>
  BY DEF Tick, StartScript, EndScript, Shutdown, RunAgain, RunReturns,
     DrainDone, RunTimer, TimersDone, RunCallback, CallbacksDone, UpdateTime,
     PromoteDone, Jump, RunJob, Goto, vars, loopVars, timerVars, Working
<1>2. Building' = Building
  BY DEF Tick, StartScript, EndScript, Shutdown, RunAgain, RunReturns,
     DrainDone, RunTimer, TimersDone, RunCallback, CallbacksDone, UpdateTime,
     PromoteDone, Jump, RunJob, Goto, vars, Building
<1> QED BY <1>1, <1>2, SamePlaces DEF IInv

LEMMA IInvInit == Init => IInv
<1> SUFFICES ASSUME Init PROVE IInv
  OBVIOUS
<1>1. InFlight = {} /\ Allocated = {}
  BY EmptyQueue DEF Init, InFlight, Working, Building, Allocated
<1>2. JobsConserved
  BY <1>1, EmptyQueue DEF Init, JobsConserved, InFlight
<1>3. JobCountExact
  BY <1>1, FS_EmptySet DEF Init, JobCountExact
<1> QED
  BY <1>1, <1>2, <1>3, TypeInit DEF IInv, IdleOutside

LEMMA IInvNext == IInv /\ [Next]_vars => IInv'
<1> SUFFICES ASSUME IInv, [Next]_vars PROVE IInv'
  OBVIOUS
<1>1. TypeOK' /\ RunningIsFront'
  BY TypeNext, FrontNext DEF IInv
<1>2. ASSUME InFlight' = InFlight, UNCHANGED <<jobCount, shouldStop>>
      PROVE  JobCountExact'
  BY <1>2 DEF IInv, JobCountExact
\* One step per action, or group of actions with the same effect.
<1>3. CASE CallRuntime
  <2>1. JobCountExact'
    BY <1>3, CallPlaces, CountEnter DEF IInv
  <2>2. pc' \notin {"start", "exited"}
    BY <1>3 DEF CallRuntime, ReadFileAsync, WriteFileAsync, GetStatsAsync,
       SetTimeOut, SetInterval, StartWorker, StartTimer, InJS
  <2> QED BY <1>1, <1>3, <2>1, <2>2, CallPlaces DEF IInv, IdleOutside
<1>4. ASSUME NEW j \in Jobs, WorkerStep(j)
      PROVE  IInv'
  <2>1. pc' = pc
    BY <1>4 DEF WorkerStep, ReadArguments, FileIO, Stat, StoreResult,
       SetStage, PostResult
  <2> QED BY <1>1, <1>2, <1>4, <2>1, WorkerPlaces DEF IInv, IdleOutside
<1>5. CASE FetchMessage \/ BuildMessage
  <2>1. UNCHANGED <<jobCount, shouldStop>> /\ pc' \notin {"start", "exited"}
    BY <1>5 DEF FetchMessage, BuildMessage, Goto
  <2> QED BY <1>1, <1>2, <1>5, <2>1, MessagePlaces DEF IInv, IdleOutside
<1>6. CASE PromoteTimer
  <2>1. UNCHANGED <<jobCount, shouldStop>> /\ pc' \notin {"start", "exited"}
    BY <1>6 DEF PromoteTimer, loopVars
  <2> QED BY <1>1, <1>2, <1>6, <2>1, PromotePlaces DEF IInv, IdleOutside
<1>7. CASE FinishTimer \/ FinishCallback
  <2>1. pc' \notin {"start", "exited"}
    BY <1>7 DEF FinishTimer, FinishCallback, Goto
  <2>2. CASE FinishTimer /\ kind[current] = "interval"
    BY <1>1, <1>2, <2>1, <2>2, RearmPlaces DEF IInv, IdleOutside
  <2>3. CASE (FinishTimer /\ kind[current] # "interval") \/ FinishCallback
    <3>1. JobCountExact'
      BY <2>3, RemovePlaces, CountLeave DEF IInv
    <3> QED BY <1>1, <2>1, <2>3, <3>1, RemovePlaces DEF IInv, IdleOutside
  <2> QED BY <1>7, <2>2, <2>3
<1>8. CASE RunReturns
  <2>1. InFlight = {}
    BY <1>8 DEF RunReturns, Jump, IInv, JobCountExact
  <2> QED BY <1>1, <1>2, <1>8, <2>1, QuietPlaces DEF IInv, IdleOutside
<1>9. CASE \/ Tick \/ UNCHANGED vars
           \/ StartScript \/ EndScript \/ Shutdown \/ RunAgain
           \/ DrainDone \/ RunTimer \/ TimersDone \/ RunCallback
           \/ CallbacksDone \/ UpdateTime \/ PromoteDone
  <2>1. pc' \in {"start", "exited"} => pc \in {"start", "exited"}
    BY <1>9 DEF Tick, StartScript, EndScript, Shutdown, RunAgain, DrainDone,
       RunTimer, TimersDone, RunCallback, CallbacksDone, UpdateTime,
       PromoteDone, Jump, RunJob, Goto, vars
  <2> QED BY <1>1, <1>2, <1>9, <2>1, QuietPlaces DEF IInv, IdleOutside
<1> QED
  BY <1>3, <1>4, <1>5, <1>6, <1>7, <1>8, <1>9 DEF Next, LoopStep, Exited

LEMMA Invariance == Spec => []IInv
BY IInvInit, IInvNext, PTL DEF Spec

\* No interleaving of the loop thread with the workers loses a job or holds
\* one twice.
THEOREM Conservation == Spec => []JobsConserved
<1>1. IInv => JobsConserved
  BY DEF IInv
<1> QED BY Invariance, <1>1, PTL

\* jobCount is exact although only the loop thread writes it, and shouldStop
\* is set exactly when no job is left.
THEOREM CountIsExact == Spec => []JobCountExact
<1>1. IInv => JobCountExact
  BY DEF IInv
<1> QED BY Invariance, <1>1, PTL

\* main disposes of the isolate only when no job is left.
THEOREM ExitIsSafe == Spec => []ExitOnlyWhenIdle
<1>1. IInv => ExitOnlyWhenIdle
  BY DEF IInv, IdleOutside, ExitOnlyWhenIdle
<1> QED BY Invariance, <1>1, PTL

-----------------------------------------------------------------------------
(* Timers.                                                                 *)

Timers == Range(timersQueue) \cup heap

\* The loop time is behind the clock and ahead of the time at which any
\* timer was created; no deadline is too early; what waits in timersQueue is
\* due.
TimesInOrder ==
  /\ currentTime <= LoopTime
  /\ \A j \in Timers : /\ startTime[j] * Second <= currentTime
                       /\ startTime[j] * Second + duration[j] <= timeOut[j]
  /\ \A j \in Range(timersQueue) : timeOut[j] <= currentTime

\* updateTimers starts with an empty timersQueue and takes from the heap what
\* none that waits there precedes.
PromotedInOrder ==
  /\ pc \in {"callbacks", "callbackJob", "update"} => timersQueue = <<>>
  /\ pc = "promote" =>
       \A j \in Range(timersQueue), h \in heap : ~LowerPriority(j, h)

\* The inductive invariant.  DeadlineOrder compares timers that were made or
\* put back at different times, which takes TimesInOrder; the order among
\* those of one updateTimers, equal deadlines included, PromotedInOrder.
TInv == IInv /\ TimesInOrder /\ PromotedInOrder /\ DeadlineOrder

(* The loop time.                                                          *)

\* Cutting a time to full seconds makes it no later and keeps the order.
LEMMA FullSeconds ==
  ASSUME NEW c \in Nat, NEW s \in Nat \ {0}
  PROVE  /\ (c \div s) * s <= c
         /\ (c \div s) * s <= ((c + 1) \div s) * s
         /\ c \div s \in Nat /\ (c \div s) * s \in Nat
<1>1. s > 0
  OBVIOUS
<1>2. c \div s \in Nat /\ (c + 1) \div s \in Nat
  BY <1>1
<1>3. (c \div s) * s <= c
  BY <1>1, Z3
<1>4. c \div s <= (c + 1) \div s
  BY <1>1, SMTT(30)
<1>5. (c \div s) * s <= ((c + 1) \div s) * s
  BY <1>1, <1>2, <1>4, SMTT(30)
<1> QED BY <1>1, <1>2, <1>3, <1>5, SMT

LEMMA LoopTimeBound ==
  ASSUME TypeOK
  PROVE  LoopTime <= clock /\ LoopTime \in Nat
BY FullSeconds, ConstantsAssumption DEF LoopTime, TypeOK

LEMMA TimerTypes ==
  ASSUME IInv, NEW j \in Timers
  PROVE  /\ j \in Jobs /\ kind[j] # "free"
         /\ timeOut[j] \in Int /\ startTime[j] \in Nat /\ duration[j] \in Int
         /\ startTime[j] * Second \in Nat
<1>1. j \in Jobs
  BY QueueRange DEF IInv, TypeOK, Timers
<1>2. kind[j] # "free"
  BY DEF IInv, JobsConserved, InFlight, Allocated, Timers
<1>3. startTime[j] \in Nat /\ Second \in Nat
  BY <1>1, ConstantsAssumption DEF IInv, TypeOK
<1>4. startTime[j] * Second \in Nat
  BY <1>3
<1> QED BY <1>1, <1>2, <1>3, <1>4 DEF IInv, TypeOK

-----------------------------------------------------------------------------
LEMMA TInvInit == Init => TInv
<1> SUFFICES ASSUME Init PROVE TInv
  OBVIOUS
<1>1. timersQueue = <<>> /\ heap = {} /\ Range(timersQueue) = {}
  BY EmptyQueue DEF Init
<1>2. currentTime = LoopTime /\ LoopTime \in Nat
  BY LoopTimeType DEF Init
<1>3. TimesInOrder
  BY <1>1, <1>2 DEF TimesInOrder, Timers
<1>4. PromotedInOrder
  BY <1>1 DEF PromotedInOrder
<1>5. DeadlineOrder
  <2>1. Len(timersQueue) = 0
    BY <1>1
  <2> QED BY <1>1, <2>1 DEF DeadlineOrder
<1> QED BY <1>3, <1>4, <1>5, IInvInit DEF TInv

\* Steps that leave the timers and both clocks alone.
LEMMA TimersRest ==
  ASSUME TInv, UNCHANGED <<clock, currentTime, timerVars>>
  PROVE  TimesInOrder' /\ DeadlineOrder'
<1>1. LoopTime' = LoopTime /\ Timers' = Timers
  BY DEF LoopTime, Timers, timerVars
<1>2. TimesInOrder'
  BY <1>1 DEF TInv, TimesInOrder, timerVars
<1>3. DeadlineOrder'
  BY DEF TInv, DeadlineOrder, LowerPriority, timerVars
<1> QED BY <1>2, <1>3

LEMMA ClockMoves ==
  ASSUME TInv, Tick \/ UpdateTime
  PROVE  TimesInOrder' /\ DeadlineOrder'
<1>1. /\ UNCHANGED timerVars /\ Timers' = Timers
      /\ currentTime \in Nat /\ clock \in Nat
  BY DEF Tick, UpdateTime, timerVars, Timers, TInv, IInv, TypeOK
<1>2. LoopTime <= LoopTime' /\ LoopTime \in Nat /\ LoopTime' \in Nat
  <2>1. clock' = clock \/ clock' = clock + 1
    BY DEF Tick, UpdateTime
  <2>2. Second \in Nat \ {0}
    BY ConstantsAssumption
  <2>3. LoopTime \in Nat
    BY <1>1, <2>2, FullSeconds DEF LoopTime
  <2>4. CASE clock' = clock
    BY <2>3, <2>4 DEF LoopTime
  <2>5. CASE clock' = clock + 1
    <3>1. /\ LoopTime <= ((clock + 1) \div Second) * Second
          /\ ((clock + 1) \div Second) * Second \in Nat
      BY <1>1, <2>2, FullSeconds DEF LoopTime
    <3> QED BY <2>3, <2>5, <3>1 DEF LoopTime
  <2> QED BY <2>1, <2>4, <2>5
<1>3. /\ currentTime' \in Nat /\ currentTime <= currentTime'
      /\ currentTime' <= LoopTime'
  <2>1. CASE Tick
    BY <1>1, <1>2, <2>1 DEF Tick, loopVars, TInv, TimesInOrder
  <2>2. CASE UpdateTime
    BY <1>1, <1>2, <2>2 DEF UpdateTime, TInv, TimesInOrder, LoopTime
  <2> QED BY <2>1, <2>2
<1>4. TimesInOrder'
  <2>1. ASSUME NEW j \in Timers
        PROVE  /\ startTime'[j] * Second <= currentTime'
               /\ startTime'[j] * Second + duration'[j] <= timeOut'[j]
               /\ timeOut[j] <= currentTime => timeOut'[j] <= currentTime'
    <3>1. UNCHANGED <<timeOut, startTime, duration>>
      BY <1>1 DEF timerVars
    <3>2. /\ timeOut[j] \in Int /\ startTime[j] * Second \in Nat
      BY TimerTypes DEF TInv
    <3>3. /\ startTime[j] * Second <= currentTime
          /\ startTime[j] * Second + duration[j] <= timeOut[j]
      BY DEF TInv, TimesInOrder
    <3> QED BY <1>1, <1>3, <3>1, <3>2, <3>3
  <2>2. Range(timersQueue) \subseteq Timers /\ timersQueue' = timersQueue
    BY <1>1 DEF Timers, timerVars
  <2> QED BY <1>1, <1>3, <2>1, <2>2 DEF TInv, TimesInOrder
<1>5. DeadlineOrder'
  BY <1>1 DEF TInv, DeadlineOrder, LowerPriority, timerVars
<1> QED BY <1>4, <1>5

\* A new timer's deadline counts from a loop time that none of the due
\* timers is later than.
LEMMA TimerStarts ==
  ASSUME TInv, NEW j \in Jobs, NEW k, NEW d \in Int, StartTimer(j, k, d)
  PROVE  TimesInOrder' /\ DeadlineOrder'
<1>1. j \notin Timers
  BY TimerTypes DEF StartTimer, TInv
<1>2. /\ timersQueue' = timersQueue /\ heap' = heap \cup {j}
      /\ Timers' = Timers \cup {j}
  BY DEF StartTimer, Timers
<1>3. /\ LoopTime \in Nat /\ LoopTime' = LoopTime /\ currentTime' = LoopTime
      /\ currentTime \in Nat /\ currentTime <= LoopTime
  BY LoopTimeBound DEF StartTimer, LoopTime, TInv, IInv, TypeOK, TimesInOrder
<1>4. /\ timeOut'[j] = LoopTime + d /\ duration'[j] = d
      /\ startTime'[j] * Second = LoopTime
  BY DEF StartTimer, LoopTime, TInv, IInv, TypeOK
<1>5. ASSUME NEW i \in Timers
      PROVE  /\ timeOut'[i] = timeOut[i] /\ duration'[i] = duration[i]
             /\ startTime'[i] = startTime[i]
             /\ timeOut[i] \in Int /\ startTime[i] * Second \in Nat
  BY <1>1, TimerTypes DEF StartTimer, TInv, IInv, TypeOK
<1>6. Range(timersQueue) \subseteq Timers /\ heap \subseteq Timers
  BY DEF Timers
<1>7. TimesInOrder'
  <2>1. ASSUME NEW i \in Timers
        PROVE  /\ startTime'[i] * Second <= currentTime'
               /\ startTime'[i] * Second + duration'[i] <= timeOut'[i]
               /\ timeOut[i] <= currentTime => timeOut'[i] <= currentTime'
    <3>1. /\ startTime[i] * Second <= currentTime
          /\ startTime[i] * Second + duration[i] <= timeOut[i]
      BY DEF TInv, TimesInOrder
    <3> QED BY <1>3, <1>5, <3>1
  <2>2. /\ startTime'[j] * Second <= currentTime'
        /\ startTime'[j] * Second + duration'[j] <= timeOut'[j]
    BY <1>3, <1>4
  <2> QED BY <1>2, <1>3, <1>6, <2>1, <2>2 DEF TInv, TimesInOrder
<1>8. DeadlineOrder'
  <2>1. ASSUME NEW a \in 1 .. Len(timersQueue), NEW b \in 1 .. Len(timersQueue),
               a < b
        PROVE  ~LowerPriority(timersQueue[a], timersQueue[b])'
    <3>1. timersQueue[a] \in Timers /\ timersQueue[b] \in Timers
      BY LenProperties DEF Timers, Range, TInv, IInv, TypeOK
    <3> QED BY <1>2, <1>5, <2>1, <3>1 DEF TInv, DeadlineOrder, LowerPriority
  <2>2. ASSUME NEW i \in Range(timersQueue), NEW h \in heap', duration'[h] >= 0
        PROVE  timeOut'[i] <= timeOut'[h]
    <3>1. CASE h \in heap
      BY <1>5, <1>6, <2>2, <3>1 DEF TInv, DeadlineOrder
    <3>2. CASE h = j
      <4>1. timeOut[i] <= currentTime
        BY DEF TInv, TimesInOrder
      <4> QED BY <1>3, <1>4, <1>5, <1>6, <2>2, <3>2, <4>1
    <3> QED BY <1>2, <3>1, <3>2
  <2> QED BY <1>2, <2>1, <2>2 DEF DeadlineOrder
<1> QED BY <1>7, <1>8

\* An interval goes back into the heap with a deadline that counts from the
\* loop time; any other timer is gone.  The rest of timersQueue stays.
LEMMA TimerFinishes ==
  ASSUME TInv, FinishTimer
  PROVE  TimesInOrder' /\ DeadlineOrder'
<1>1. timersQueue # <<>> /\ current = Head(timersQueue)
  BY DEF FinishTimer, TInv, IInv, RunningIsFront
<1>2. /\ current \in Range(timersQueue) /\ current \in Jobs
      /\ Range(timersQueue') = Range(timersQueue) \ {current}
  BY <1>1, Front, Pop DEF FinishTimer, TInv, IInv, TypeOK, JobsConserved
<1>3. /\ LoopTime' = LoopTime /\ currentTime' = currentTime
      /\ currentTime \in Nat
  BY DEF FinishTimer, LoopTime, TInv, IInv, TypeOK
<1>4. /\ heap' \subseteq heap \cup {current}
      /\ current \in heap' => Rearm
  <2>1. current \notin heap
    BY <1>2 DEF TInv, IInv, JobsConserved
  <2> QED BY <2>1 DEF FinishTimer, Rearm
<1>5. ASSUME NEW i \in Timers, i # current
      PROVE  /\ timeOut'[i] = timeOut[i] /\ duration'[i] = duration[i]
             /\ startTime'[i] = startTime[i]
  <2>1. i \in Jobs
    BY TimerTypes DEF TInv
  <2> QED
    BY <1>5, <2>1 DEF FinishTimer, Rearm, DeleteCurrent, TInv, IInv, TypeOK
<1>6. Rearm => /\ timeOut'[current] = duration[current] + currentTime
               /\ duration'[current] = duration[current]
               /\ startTime'[current] = startTime[current]
  BY <1>2 DEF Rearm, TInv, IInv, TypeOK
<1>7. /\ current \in Timers /\ timeOut[current] \in Int
      /\ duration[current] \in Int /\ startTime[current] * Second \in Nat
  BY <1>2, TimerTypes DEF Timers, TInv
<1>8. TimesInOrder'
  <2>1. ASSUME NEW i \in Timers, i # current
        PROVE  /\ startTime'[i] * Second <= currentTime'
               /\ startTime'[i] * Second + duration'[i] <= timeOut'[i]
               /\ i \in Range(timersQueue) => timeOut'[i] <= currentTime'
    BY <1>3, <1>5, <2>1 DEF TInv, TimesInOrder
  <2>2. Rearm => /\ startTime'[current] * Second <= currentTime'
                 /\ startTime'[current] * Second + duration'[current]
                      <= timeOut'[current]
    <3>1. startTime[current] * Second <= currentTime
      BY <1>7 DEF TInv, TimesInOrder
    <3> QED BY <1>3, <1>6, <1>7, <3>1
  <2>3. \A i \in Timers' : i = current \/ i \in Timers
    BY <1>2, <1>4 DEF Timers
  <2>4. current \in Timers' => Rearm
    BY <1>2, <1>4 DEF Timers
  <2>5. currentTime' <= LoopTime'
    BY <1>3 DEF TInv, TimesInOrder
  <2>6. \A i \in Range(timersQueue)' : i \in Range(timersQueue) /\ i # current
    BY <1>2
  <2> QED BY <2>1, <2>2, <2>3, <2>4, <2>5, <2>6 DEF TimesInOrder, Timers
<1>9. DeadlineOrder'
  <2>1. ASSUME NEW a \in 1 .. Len(timersQueue'), NEW b \in 1 .. Len(timersQueue'),
               a < b
        PROVE  ~LowerPriority(timersQueue[a], timersQueue[b])'
    <3>1. /\ a + 1 \in 1 .. Len(timersQueue) /\ b + 1 \in 1 .. Len(timersQueue)
          /\ timersQueue'[a] = timersQueue[a + 1]
          /\ timersQueue'[b] = timersQueue[b + 1]
      BY <1>1, HeadTailProperties, LenProperties, EmptySeq
      DEF FinishTimer, TInv, IInv, TypeOK
    <3>2. /\ timersQueue'[a] \in Range(timersQueue')
          /\ timersQueue'[b] \in Range(timersQueue')
      <4>1. timersQueue' \in Seq(Jobs)
        BY TypeNext DEF TInv, IInv, Next, LoopStep, TypeOK
      <4> QED BY <4>1, LenProperties DEF Range
    <3>3. /\ timersQueue[a + 1] \in Timers /\ timersQueue[a + 1] # current
          /\ timersQueue[b + 1] \in Timers /\ timersQueue[b + 1] # current
      BY <1>2, <3>1, <3>2 DEF Timers
    <3>4. ~LowerPriority(timersQueue[a + 1], timersQueue[b + 1])
      BY <2>1, <3>1 DEF TInv, DeadlineOrder
    <3> QED BY <1>5, <3>1, <3>3, <3>4 DEF LowerPriority
  <2>2. ASSUME NEW i \in Range(timersQueue'), NEW h \in heap', duration'[h] >= 0
        PROVE  timeOut'[i] <= timeOut'[h]
    <3>1. i \in Timers /\ i # current /\ i \in Range(timersQueue)
      BY <1>2 DEF Timers
    <3>2. CASE h = current
      <4>1. timeOut[i] <= currentTime /\ timeOut[i] \in Int
        BY <3>1, TimerTypes DEF TInv, TimesInOrder
      <4> QED BY <1>3, <1>4, <1>5, <1>6, <1>7, <2>2, <3>1, <3>2, <4>1
    <3>3. CASE h # current
      <4>1. h \in heap /\ h \in Timers
        BY <1>4, <3>3 DEF Timers
      <4> QED BY <1>5, <2>2, <3>1, <3>3, <4>1 DEF TInv, DeadlineOrder
    <3> QED BY <3>2, <3>3
  <2> QED BY <2>1, <2>2 DEF DeadlineOrder
<1> QED BY <1>8, <1>9

\* The end of another callback touches no timer.
LEMMA CallbackFinishes ==
  ASSUME TInv, FinishCallback
  PROVE  TimesInOrder' /\ DeadlineOrder'
<1>1. current \notin Timers /\ Timers' = Timers
  <2>1. current \in Range(callbackQueue)
    BY Front DEF FinishCallback, TInv, IInv, RunningIsFront, TypeOK
  <2> QED BY <2>1 DEF FinishCallback, Timers, TInv, IInv, JobsConserved
<1>2. UNCHANGED <<clock, currentTime, heap, timersQueue>> /\ LoopTime' = LoopTime
  BY DEF FinishCallback, LoopTime
<1>3. ASSUME NEW i \in Timers
      PROVE  /\ timeOut'[i] = timeOut[i] /\ duration'[i] = duration[i]
             /\ startTime'[i] = startTime[i]
  <2>1. i \in Jobs /\ i # current
    BY <1>1, TimerTypes DEF TInv
  <2> QED BY <2>1 DEF FinishCallback, DeleteCurrent, TInv, IInv, TypeOK
<1>4. Range(timersQueue) \subseteq Timers /\ heap \subseteq Timers
  BY DEF Timers
<1>5. TimesInOrder'
  BY <1>1, <1>2, <1>3, <1>4 DEF TInv, TimesInOrder
<1>6. DeadlineOrder'
  <2>1. \A a \in 1 .. Len(timersQueue) : timersQueue[a] \in Timers
    BY LenProperties DEF Timers, Range, TInv, IInv, TypeOK
  <2> QED
    BY <1>2, <1>3, <1>4, <2>1 DEF TInv, DeadlineOrder, LowerPriority
<1> QED BY <1>5, <1>6

\* updateTimers appends the due timer that none in the heap precedes.
LEMMA TimerPromoted ==
  ASSUME TInv, PromoteTimer
  PROVE  TimesInOrder' /\ DeadlineOrder' /\ PromotedInOrder'
<1>1. PICK j \in heap : /\ IsTop(j) /\ Due(j)
                        /\ timersQueue' = Append(timersQueue, j)
                        /\ heap' = heap \ {j}
  BY DEF PromoteTimer
<1>2. /\ UNCHANGED <<clock, currentTime, timeOut, startTime, duration, pc>>
      /\ LoopTime' = LoopTime
  BY DEF PromoteTimer, loopVars, LoopTime
<1>3. Range(timersQueue') = Range(timersQueue) \cup {j} /\ Timers' = Timers
  <2>1. Range(timersQueue') = Range(timersQueue) \cup {j}
    BY <1>1, Push DEF TInv, IInv, TypeOK
  <2> QED BY <1>1, <2>1 DEF Timers
<1>4. TimesInOrder'
  BY <1>1, <1>2, <1>3 DEF TInv, TimesInOrder, Due
<1>5. \A i \in Range(timersQueue'), h \in heap' : ~LowerPriority(i, h)
  <2>1. \A h \in heap : ~LowerPriority(j, h)
    BY <1>1 DEF IsTop
  <2>2. \A i \in Range(timersQueue), h \in heap : ~LowerPriority(i, h)
    BY DEF PromoteTimer, TInv, PromotedInOrder
  <2> QED BY <1>1, <1>3, <2>1, <2>2
<1>6. PromotedInOrder'
  <2>1. pc' = "promote"
    BY <1>2 DEF PromoteTimer
  <2> QED BY <1>2, <1>5, <2>1 DEF PromotedInOrder, LowerPriority
<1>7. DeadlineOrder'
  <2>1. ASSUME NEW a \in 1 .. Len(timersQueue'), NEW b \in 1 .. Len(timersQueue'),
               a < b
        PROVE  ~LowerPriority(timersQueue'[a], timersQueue'[b])
    <3>1. /\ Len(timersQueue') = Len(timersQueue) + 1 /\ Len(timersQueue) \in Nat
          /\ timersQueue'[Len(timersQueue) + 1] = j
          /\ \A i \in 1 .. Len(timersQueue) : timersQueue'[i] = timersQueue[i]
      BY <1>1, AppendProperties, LenProperties DEF TInv, IInv, TypeOK
    <3>2. a \in 1 .. Len(timersQueue) /\ timersQueue[a] \in Range(timersQueue)
      <4>1. a \in 1 .. Len(timersQueue)
        BY <2>1, <3>1
      <4> QED BY <4>1, LenProperties DEF Range, TInv, IInv, TypeOK
    <3>3. CASE b = Len(timersQueue) + 1
      BY <1>1, <3>1, <3>2, <3>3 DEF PromoteTimer, TInv, PromotedInOrder
    <3>4. CASE b # Len(timersQueue) + 1
      BY <2>1, <3>1, <3>2, <3>4 DEF TInv, DeadlineOrder
    <3> QED BY <3>3, <3>4
  <2>2. ASSUME NEW i \in Range(timersQueue'), NEW h \in heap'
        PROVE  timeOut[i] <= timeOut[h]
    <3>1. i \in Timers /\ h \in Timers
      BY <1>1, <1>3 DEF Timers
    <3>2. timeOut[i] \in Int /\ timeOut[h] \in Int
      BY <3>1, TimerTypes DEF TInv
    <3> QED BY <1>5, <3>2 DEF LowerPriority
  <2> QED BY <1>2, <2>1, <2>2 DEF DeadlineOrder, LowerPriority
<1> QED BY <1>4, <1>6, <1>7

-----------------------------------------------------------------------------
\* timersQueue is empty from the end of runTimers to the first promotion.
LEMMA PromotedNext ==
  ASSUME TInv, [Next]_vars, ~PromoteTimer
  PROVE  PromotedInOrder'
<1>1. CASE pc' \notin {"callbacks", "callbackJob", "update", "promote"}
  BY <1>1 DEF PromotedInOrder
<1>2. CASE Tick \/ UNCHANGED vars
  BY <1>2 DEF Tick, vars, loopVars, timerVars, TInv, PromotedInOrder,
     LowerPriority
<1>3. CASE CallRuntime
  BY <1>3 DEF CallRuntime, ReadFileAsync, WriteFileAsync, GetStatsAsync,
     SetTimeOut, SetInterval, StartWorker, StartTimer, timerVars, InJS, TInv,
     PromotedInOrder
<1>4. ASSUME NEW j \in Jobs, WorkerStep(j)
      PROVE  PromotedInOrder'
  <2>1. UNCHANGED <<timerVars, pc>>
    BY <1>4 DEF WorkerStep, ReadArguments, FileIO, Stat, StoreResult,
       SetStage, PostResult
  <2> QED BY <2>1 DEF timerVars, TInv, PromotedInOrder, LowerPriority
<1>5. CASE TimersDone \/ RunCallback \/ FinishCallback \/ CallbacksDone
  BY <1>5 DEF TimersDone, RunCallback, FinishCallback, CallbacksDone, Jump,
     RunJob, Goto, timerVars, TInv, PromotedInOrder
<1>6. CASE UpdateTime
  BY <1>6, EmptyQueue
  DEF UpdateTime, Goto, timerVars, TInv, PromotedInOrder
<1>7. CASE \/ StartScript \/ EndScript \/ Shutdown \/ RunAgain \/ RunReturns
           \/ FetchMessage \/ BuildMessage \/ DrainDone \/ RunTimer
           \/ FinishTimer \/ PromoteDone
  BY <1>1, <1>7 DEF StartScript, EndScript, Shutdown, RunAgain, RunReturns,
     FetchMessage, BuildMessage, DrainDone, RunTimer, FinishTimer, PromoteDone,
     Jump, RunJob, Goto
<1> QED
  BY <1>2, <1>3, <1>4, <1>5, <1>6, <1>7 DEF Next, LoopStep, Exited

LEMMA TInvNext == TInv /\ [Next]_vars => TInv'
<1> SUFFICES ASSUME TInv, [Next]_vars PROVE TInv'
  OBVIOUS
<1>1. IInv'
  BY IInvNext DEF TInv
<1>2. PromotedInOrder'
  BY PromotedNext, TimerPromoted
<1>3. CASE CallRuntime
  <2>1. CASE \E j \in Jobs : ReadFileAsync(j) \/ WriteFileAsync(j) \/ GetStatsAsync(j)
    <3>1. UNCHANGED <<clock, currentTime, timerVars>>
      BY <2>1 DEF ReadFileAsync, WriteFileAsync, GetStatsAsync, StartWorker
    <3> QED BY <1>1, <1>2, <3>1, TimersRest DEF TInv
  <2>2. ASSUME NEW j \in Jobs, NEW d \in Durations, SetTimeOut(j, d) \/ SetInterval(j, d)
        PROVE  TInv'
    BY <1>1, <1>2, <2>2, TimerStarts, ConstantsAssumption
    DEF SetTimeOut, SetInterval, TInv
  <2> QED BY <1>3, <2>1, <2>2 DEF CallRuntime
<1>4. ASSUME NEW j \in Jobs, WorkerStep(j)
      PROVE  TInv'
  <2>1. UNCHANGED <<clock, currentTime, timerVars>>
    BY <1>4 DEF WorkerStep, ReadArguments, FileIO, Stat, StoreResult,
       SetStage, PostResult, loopVars
  <2> QED BY <1>1, <1>2, <2>1, TimersRest DEF TInv
<1>5. CASE Tick \/ UpdateTime
  BY <1>1, <1>2, <1>5, ClockMoves DEF TInv
<1>6. CASE FinishTimer \/ FinishCallback
  BY <1>1, <1>2, <1>6, TimerFinishes, CallbackFinishes DEF TInv
<1>7. CASE PromoteTimer
  BY <1>1, <1>7, TimerPromoted DEF TInv
<1>8. CASE \/ UNCHANGED vars
           \/ StartScript \/ EndScript \/ Shutdown \/ RunAgain \/ RunReturns
           \/ FetchMessage \/ BuildMessage \/ DrainDone \/ RunTimer
           \/ TimersDone \/ RunCallback \/ CallbacksDone \/ PromoteDone
  <2>1. UNCHANGED <<clock, currentTime, timerVars>>
    BY <1>8 DEF StartScript, EndScript, Shutdown, RunAgain, RunReturns,
       FetchMessage, BuildMessage, DrainDone, RunTimer, TimersDone,
       RunCallback, CallbacksDone, PromoteDone, Jump, RunJob, vars, loopVars
  <2> QED BY <1>1, <1>2, <2>1, TimersRest DEF TInv
<1> QED
  BY <1>3, <1>4, <1>5, <1>6, <1>7, <1>8 DEF Next, LoopStep, Exited

LEMMA TInvariance == Spec => []TInv
BY TInvInit, TInvNext, PTL DEF Spec

\* Timers that are due wait in the order of TimedJobComparator, and none that
\* waits in the heap with an earlier deadline is behind them.
THEOREM TimersOrdered == Spec => []DeadlineOrder
<1>1. TInv => DeadlineOrder
  BY DEF TInv
<1> QED BY TInvariance, <1>1, PTL

\* Although deadlines and the loop time are cut to full seconds, no callback
\* of a timer begins early.
THEOREM NeverEarly == Spec => []TimerNotEarly
<1>1. TInv => TimerNotEarly
  <2> SUFFICES ASSUME TInv, pc = "timerJob"
               PROVE  clock >= startTime[current] * Second + duration[current]
    BY DEF TimerNotEarly
  <2>1. current \in Range(timersQueue) /\ current \in Timers
    BY Front DEF TInv, IInv, RunningIsFront, TypeOK, Timers
  <2>2. /\ startTime[current] * Second + duration[current] <= timeOut[current]
        /\ timeOut[current] <= currentTime /\ currentTime <= LoopTime
    BY <2>1 DEF TInv, TimesInOrder
  <2>3. LoopTime <= clock /\ LoopTime \in Nat
    BY LoopTimeBound DEF TInv, IInv
  <2>4. /\ startTime[current] * Second \in Nat /\ duration[current] \in Int
        /\ timeOut[current] \in Int /\ clock \in Nat /\ currentTime \in Nat
    BY <2>1, TimerTypes DEF TInv, IInv, TypeOK
  <2>5. startTime[current] * Second + duration[current] \in Int
    BY <2>4
  <2> QED BY <2>2, <2>3, <2>4, <2>5
<1> QED BY TInvariance, <1>1, PTL

-----------------------------------------------------------------------------
(* EventLoop implements AsyncJobs: the step simulation under the           *)
(* refinement mapping of MCEventLoop.                                      *)

\* An interval is in the heap or in timersQueue, so that none of the steps
\* that delete a job, rather than put it back, ever gets one.
RepeatersAreTimers ==
  \A j \in Jobs : kind[j] = "interval" => j \in Range(timersQueue) \cup heap

\* The invariant that the simulation needs.
SInv == IInv /\ RepeatersAreTimers

LEMMA RepeatersInit == Init => RepeatersAreTimers
BY DEF Init, RepeatersAreTimers

\* A new job of a file call is no interval, and a new timer is in the heap.
LEMMA RepeatersCall ==
  ASSUME SInv, CallRuntime
  PROVE  RepeatersAreTimers'
<1>1. ASSUME NEW j \in Jobs, NEW k \in IOKinds, NEW stage,
             StartWorker(j, k, stage)
      PROVE  RepeatersAreTimers'
  <2>1. /\ kind' = [kind EXCEPT ![j] = k] /\ k # "interval"
        /\ UNCHANGED <<timersQueue, heap>>
    BY <1>1 DEF StartWorker, timerVars, IOKinds
  <2> QED BY <2>1 DEF RepeatersAreTimers, SInv, IInv, TypeOK
<1>2. ASSUME NEW j \in Jobs, NEW k, NEW d, StartTimer(j, k, d)
      PROVE  RepeatersAreTimers'
  <2>1. /\ kind' = [kind EXCEPT ![j] = k] /\ heap' = heap \cup {j}
        /\ UNCHANGED timersQueue
    BY <1>2 DEF StartTimer
  <2> QED BY <2>1 DEF RepeatersAreTimers, SInv, IInv, TypeOK
<1> QED
  BY <1>1, <1>2 DEF CallRuntime, ReadFileAsync, WriteFileAsync,
     GetStatsAsync, SetTimeOut, SetInterval, IOKinds

\* A job leaves the timers only when it is deleted.
LEMMA RepeatersFinish ==
  ASSUME SInv, FinishTimer \/ FinishCallback
  PROVE  RepeatersAreTimers'
<1>1. CASE FinishTimer
  <2>1. timersQueue # <<>> /\ current = Head(timersQueue)
    BY <1>1 DEF FinishTimer, SInv, IInv, RunningIsFront
  <2>2. Range(timersQueue') = Range(timersQueue) \ {current} /\ current \in Jobs
    BY <1>1, <2>1, Front, Pop
    DEF FinishTimer, SInv, IInv, TypeOK, JobsConserved
  <2>3. CASE kind[current] = "interval"
    <3>1. heap' = heap \cup {current} /\ kind' = kind
      BY <1>1, <2>3 DEF FinishTimer, Rearm
    <3> QED BY <2>2, <3>1 DEF RepeatersAreTimers, SInv
  <2>4. CASE kind[current] # "interval"
    <3>1. heap' = heap /\ kind' = [kind EXCEPT ![current] = "free"]
      BY <1>1, <2>4 DEF FinishTimer, DeleteCurrent
    <3> QED BY <2>2, <3>1 DEF RepeatersAreTimers, SInv, IInv, TypeOK
  <2> QED BY <2>3, <2>4
<1>2. CASE FinishCallback
  <2>1. /\ kind' = [kind EXCEPT ![current] = "free"]
        /\ UNCHANGED <<timersQueue, heap>>
    BY <1>2 DEF FinishCallback, DeleteCurrent
  <2> QED BY <2>1 DEF RepeatersAreTimers, SInv, IInv, TypeOK
<1> QED BY <1>1, <1>2

LEMMA RepeatersPromote ==
  ASSUME SInv, PromoteTimer
  PROVE  RepeatersAreTimers'
<1>1. PICK j \in heap : /\ timersQueue' = Append(timersQueue, j)
                        /\ heap' = heap \ {j}
  BY DEF PromoteTimer
<1>2. Range(timersQueue') = Range(timersQueue) \cup {j}
  BY <1>1, Push DEF SInv, IInv, TypeOK
<1>3. kind' = kind
  BY DEF PromoteTimer
<1> QED BY <1>1, <1>2, <1>3 DEF RepeatersAreTimers, SInv

LEMMA RepeatersNext == SInv /\ [Next]_vars => RepeatersAreTimers'
<1> SUFFICES ASSUME SInv, [Next]_vars PROVE RepeatersAreTimers'
  OBVIOUS
<1>1. ASSUME UNCHANGED <<kind, timersQueue, heap>>
      PROVE  RepeatersAreTimers'
  BY <1>1 DEF RepeatersAreTimers, SInv
<1>2. CASE \/ Tick \/ UNCHANGED vars
           \/ StartScript \/ EndScript \/ Shutdown \/ RunAgain \/ RunReturns
           \/ FetchMessage \/ BuildMessage
           \/ DrainDone \/ RunTimer \/ TimersDone \/ RunCallback
           \/ CallbacksDone \/ UpdateTime \/ PromoteDone
  BY <1>1, <1>2 DEF Tick, StartScript, EndScript, Shutdown, RunAgain,
     RunReturns, FetchMessage, BuildMessage, DrainDone, RunTimer, TimersDone,
     RunCallback, CallbacksDone, UpdateTime, PromoteDone, Jump, RunJob, vars,
     loopVars, timerVars
<1>3. ASSUME NEW j \in Jobs, WorkerStep(j)
      PROVE  RepeatersAreTimers'
  BY <1>1, <1>3 DEF WorkerStep, ReadArguments, FileIO, Stat, StoreResult,
     SetStage, PostResult, timerVars
<1> QED
  BY <1>2, <1>3, RepeatersCall, RepeatersFinish, RepeatersPromote
  DEF Next, LoopStep, Exited

LEMMA SInvariance == Spec => []SInv
<1>1. Init => SInv
  BY IInvInit, RepeatersInit DEF SInv
<1>2. SInv /\ [Next]_vars => SInv'
  BY IInvNext, RepeatersNext DEF SInv
<1> QED BY <1>1, <1>2, PTL DEF Spec

-----------------------------------------------------------------------------
(* The simulation: what each step is for AsyncJobs.                        *)

\* Most steps move jobs between places that AsyncJobs does not tell apart.
LEMMA Stutters ==
  ASSUME InFlight' = InFlight, kind' = kind, Running' = Running,
         pc' = "exited" <=> pc = "exited"
  PROVE  UNCHANGED Promise!jobVars
BY DEF Promise!jobVars

\* No callback runs outside of timerJob and callbackJob; there the running
\* job is in flight.
LEMMA RunningType ==
  ASSUME IInv
  PROVE  /\ pc \notin {"timerJob", "callbackJob"} => Running = NoJob
         /\ pc \in {"timerJob", "callbackJob"} =>
              Running = current /\ current \in InFlight /\ current \in Jobs
         /\ NoJob \notin InFlight
<1>1. pc = "timerJob" => current \in Range(timersQueue)
  BY Front DEF IInv, TypeOK, RunningIsFront
<1>2. pc = "callbackJob" => current \in Range(callbackQueue)
  BY Front DEF IInv, TypeOK, RunningIsFront
<1>3. InFlight \subseteq Jobs
  BY InFlightFinite DEF IInv
<1> QED BY <1>1, <1>2, <1>3, ConstantsAssumption DEF Running, InFlight

\* A call is a submission; the job that is running is not the new one.
LEMMA CallSubmits ==
  ASSUME SInv, CallRuntime
  PROVE  \E j \in Jobs : Promise!Submit(j)
<1>1. PICK j \in Jobs :
        \/ \E k \in IOKinds, stage \in Stages \ {"idle"} : StartWorker(j, k, stage)
        \/ \E k \in TimerKinds, d \in Durations : StartTimer(j, k, d)
  BY DEF CallRuntime, ReadFileAsync, WriteFileAsync, GetStatsAsync,
     SetTimeOut, SetInterval, IOKinds, TimerKinds, Stages
<1>2. /\ pc \in {"script", "timerJob", "callbackJob"}
      /\ UNCHANGED <<pc, current>> /\ kind[j] = "free"
  BY <1>1 DEF StartWorker, StartTimer, InJS
<1>3. PICK k \in IOKinds \cup TimerKinds : kind' = [kind EXCEPT ![j] = k]
  BY <1>1 DEF StartWorker, StartTimer
<1>4. j \notin InFlight /\ InFlight' = InFlight \cup {j}
  <2>1. InFlight = Allocated /\ InFlight' = Allocated'
    BY CallPlaces DEF SInv, IInv, JobsConserved
  <2>2. k # "free"
    BY <1>3 DEF IOKinds, TimerKinds
  <2> QED BY <1>2, <1>3, <2>1, <2>2 DEF Allocated, SInv, IInv, TypeOK
<1>5. Running' = Running /\ Running # j
  <2>1. j # NoJob
    BY ConstantsAssumption
  <2> QED BY <1>2, <1>4, <2>1, RunningType DEF Running, SInv
<1>6. {i \in Jobs : kind'[i] = "interval"} =
        {i \in Jobs : kind[i] = "interval"} \cup (IF k = "interval" THEN {j} ELSE {})
  BY <1>2, <1>3 DEF SInv, IInv, TypeOK
<1>7. Promise!Submit(j)
  BY <1>2, <1>4, <1>5, <1>6 DEF Promise!Submit
<1> QED BY <1>7

\* runJob with the front of a queue is the beginning of a callback.
LEMMA RunBegins ==
  ASSUME SInv, RunTimer \/ RunCallback
  PROVE  \E j \in Jobs : Promise!Begin(j)
<1>1. /\ pc \in {"timers", "callbacks"} /\ pc' \in {"timerJob", "callbackJob"}
      /\ kind' = kind
  BY DEF RunTimer, RunCallback, RunJob, Goto
<1>2. current' \in InFlight
  <2>1. CASE RunTimer
    BY <2>1, Front DEF RunTimer, RunJob, InFlight, SInv, IInv, TypeOK
  <2>2. CASE RunCallback
    BY <2>2, Front DEF RunCallback, RunJob, InFlight, SInv, IInv, TypeOK
  <2> QED BY <2>1, <2>2
<1>3. current' \in Jobs
  BY <1>2, InFlightFinite DEF SInv, IInv
<1>4. InFlight' = InFlight
  BY QuietPlaces DEF SInv
<1>5. Running = NoJob /\ Running' = current'
  BY <1>1 DEF Running
<1>6. NoJob \notin InFlight
  BY RunningType DEF SInv
<1>7. Promise!Begin(current')
  BY <1>1, <1>2, <1>4, <1>5, <1>6 DEF Promise!Begin
<1> QED BY <1>3, <1>7

\* removeJob ends the callback: an interval is pending again, any other job
\* is gone.
LEMMA RemoveEnds ==
  ASSUME SInv, FinishTimer \/ FinishCallback
  PROVE  Promise!End
<1>1. /\ pc \in {"timerJob", "callbackJob"} /\ pc' \in {"timers", "callbacks"}
      /\ pc = "timerJob" <=> FinishTimer
      /\ pc = "callbackJob" <=> FinishCallback
  BY DEF FinishTimer, FinishCallback, Goto
<1>2. /\ Running = current /\ current \in InFlight /\ current \in Jobs
      /\ NoJob \notin InFlight
  BY <1>1, RunningType DEF SInv
<1>3. Running # NoJob /\ Running' = NoJob
  BY <1>1, <1>2 DEF Running
<1>4. CASE FinishTimer /\ kind[current] = "interval"
  <2>1. InFlight' = InFlight /\ kind' = kind
    BY <1>4, RearmPlaces DEF SInv, FinishTimer, Rearm
  <2> QED BY <1>1, <1>2, <1>3, <1>4, <2>1 DEF Promise!End
<1>5. CASE (FinishTimer /\ kind[current] # "interval") \/ FinishCallback
  <2>1. InFlight' = InFlight \ {current} /\ DeleteCurrent
    BY <1>5, RemovePlaces DEF SInv
  <2>2. kind[current] # "interval"
    <3>1. CASE FinishCallback
      <4>1. current \in Range(callbackQueue)
        BY <3>1, Front
        DEF FinishCallback, SInv, IInv, TypeOK, RunningIsFront
      <4> QED
        BY <1>2, <4>1 DEF SInv, IInv, JobsConserved, RepeatersAreTimers
    <3> QED BY <1>5, <3>1
  <2>3. {j \in Jobs : kind'[j] = "interval"} = {j \in Jobs : kind[j] = "interval"}
    BY <1>2, <2>1, <2>2 DEF DeleteCurrent, SInv, IInv, TypeOK
  <2> QED BY <1>1, <1>2, <1>3, <2>1, <2>2, <2>3 DEF Promise!End
<1> QED BY <1>4, <1>5

\* main returns after the last script's Run has returned.
LEMMA ShutdownExits ==
  ASSUME SInv, Shutdown
  PROVE  Promise!Exit
<1>1. pc = "start" /\ pc' = "exited" /\ kind' = kind
  BY DEF Shutdown, Goto
<1>2. InFlight = {} /\ InFlight' = InFlight
  BY <1>1, QuietPlaces DEF SInv, IInv, IdleOutside
<1>3. Running = NoJob /\ Running' = NoJob
  BY <1>1 DEF Running
<1> QED BY <1>1, <1>2, <1>3 DEF Promise!Exit

LEMMA StepSimulation == SInv /\ [Next]_vars => [Promise!Next]_Promise!jobVars
<1> SUFFICES ASSUME SInv, [Next]_vars
             PROVE  [Promise!Next]_Promise!jobVars
  OBVIOUS
<1>1. CASE CallRuntime
  BY <1>1, CallSubmits DEF Promise!Next
<1>2. CASE RunTimer \/ RunCallback
  BY <1>2, RunBegins DEF Promise!Next
<1>3. CASE FinishTimer \/ FinishCallback
  BY <1>3, RemoveEnds DEF Promise!Next
<1>4. CASE Shutdown
  BY <1>4, ShutdownExits DEF Promise!Next
<1>5. ASSUME NEW j \in Jobs, WorkerStep(j)
      PROVE  UNCHANGED Promise!jobVars
  <2>1. UNCHANGED <<kind, pc, current>>
    BY <1>5 DEF WorkerStep, ReadArguments, FileIO, Stat, StoreResult,
       SetStage, PostResult
  <2> QED BY <1>5, <2>1, WorkerPlaces, Stutters DEF SInv, Running
<1>6. CASE FetchMessage \/ BuildMessage
  <2>1. /\ kind' = kind /\ pc \in {"drain", "build"}
        /\ pc' \in {"drain", "build"}
    BY <1>6 DEF FetchMessage, BuildMessage, Goto
  <2> QED BY <1>6, <2>1, MessagePlaces, Stutters DEF SInv, Running
<1>7. CASE PromoteTimer
  <2>1. UNCHANGED <<kind, pc, current>>
    BY <1>7 DEF PromoteTimer
  <2> QED BY <1>7, <2>1, PromotePlaces, Stutters DEF SInv, Running
<1>8. CASE \/ Tick \/ UNCHANGED vars
           \/ StartScript \/ EndScript \/ RunAgain \/ RunReturns
           \/ DrainDone \/ TimersDone \/ CallbacksDone \/ UpdateTime
           \/ PromoteDone
  <2>1. UNCHANGED <<kind, current>>
    BY <1>8 DEF Tick, StartScript, EndScript, RunAgain, RunReturns, DrainDone,
       TimersDone, CallbacksDone, UpdateTime, PromoteDone, Jump, vars
  <2>2. \/ pc' = pc
        \/ {pc, pc'} \cap {"timerJob", "callbackJob", "exited"} = {}
    BY <1>8 DEF Tick, StartScript, EndScript, RunAgain, RunReturns, DrainDone,
       TimersDone, CallbacksDone, UpdateTime, PromoteDone, Jump, Goto, vars
  <2>3. Running' = Running /\ (pc' = "exited" <=> pc = "exited")
    BY <2>1, <2>2 DEF Running
  <2> QED BY <1>8, <2>1, <2>3, QuietPlaces, Stutters DEF SInv
<1> QED
  BY <1>1, <1>2, <1>3, <1>4, <1>5, <1>6, <1>7, <1>8
  DEF Next, LoopStep, Exited

LEMMA InitSimulation == Init => Promise!Init
<1> SUFFICES ASSUME Init PROVE Promise!Init
  OBVIOUS
<1>1. InFlight = {} /\ Running = NoJob
  BY EmptyQueue DEF Init, InFlight, Working, Building, Running
<1> QED BY <1>1 DEF Init, Promise!Init

\* The loop with its threads, queues, counter and clock keeps the promise of
\* AsyncJobs: every submitted callback runs once, an interval's again and
\* again, one at a time, and the process does not exit before.
THEOREM Refinement == Spec => ImplementsAsyncJobs
<1>1. Spec => []SInv
  BY SInvariance
<1> QED
  BY <1>1, InitSimulation, StepSimulation, PTL
  DEF Spec, ImplementsAsyncJobs, Promise!JobSpec
=============================================================================
