------------------------------ MODULE EventLoop ------------------------------
(***************************************************************************)
(* The event loop of the Lemon runtime: engine/EventLoop.cpp, with the     *)
(* calls that feed it jobs (engine/Timers.cpp, the asynchronous calls of   *)
(* engine/FileSystem.cpp) and the program that drives it (app/App.cpp,     *)
(* engine/Core.cpp).                                                       *)
(*                                                                         *)
(* One thread, the loop thread, executes scripts and callbacks and runs    *)
(* EventLoop::Run.  Every asynchronous file call detaches a worker thread  *)
(* that does the input/output and then hands its job back, either straight *)
(* into callbackQueue (reads and writes) or as a message in mQu (stats).   *)
(* Timers stay with the loop thread: heap holds them until they are due,   *)
(* timersQueue holds the due ones.                                         *)
(*                                                                         *)
(* The module covers every program that does not call watchFile; watcher   *)
(* threads also write jobCount, which no lock protects.                    *)
(***************************************************************************)
EXTENDS Integers, Sequences, FiniteSets, Functions

CONSTANTS
  Jobs,       \* the job objects (addresses) that can be allocated at once
  NoJob,      \* the null job pointer
  Kinds,      \* the runtime calls that the scripts make
  Scripts,    \* number of script files on the command line
  Second,     \* clock ticks in one second, the resolution of the loop time
  Durations,  \* durations, in ticks, that the scripts pass to the timers
  MaxClock    \* bound of the clock; only timers due by then are created

IOKinds == {"read", "write", "stats"}
TimerKinds == {"timeout", "interval"}

ASSUME ConstantsAssumption ==
  /\ IsFiniteSet(Jobs)
  /\ NoJob \notin Jobs
  /\ Kinds \subseteq IOKinds \cup TimerKinds
  /\ Scripts \in Nat
  /\ Second \in Nat \ {0}
  /\ Durations \subseteq Int
  /\ MaxClock \in Nat

VARIABLES
  clock,          \* std::chrono::system_clock, in ticks
  currentTime,    \* EventLoop::currentTime
  jobCount,       \* EventLoop::jobCount
  shouldStop,     \* EventLoop::shouldStop
  heap,           \* EventLoop::heap: timers that wait for their deadline
  timersQueue,    \* EventLoop::timersQueue: timers that are due
  callbackQueue,  \* EventLoop::callbackQueue: jobs whose callback can run
  mQu,            \* EventLoop::mQu: the jobs of the posted messages
  kind,           \* what each job object is used for, "free" if unallocated
  timeOut,        \* TimedJob::timeOut, the deadline
  startTime,      \* TimedJob::startTime, in seconds
  duration,       \* TimedJob::duration
  worker,         \* stage of the worker thread that serves each job
  pc,             \* control point of the loop thread
  current,        \* the job the loop thread works on
  scripts         \* script files not executed yet

timerVars == <<heap, timersQueue, timeOut, startTime, duration>>
loopVars == <<currentTime, jobCount, shouldStop, callbackQueue, mQu>>
vars == <<clock, loopVars, timerVars, kind, worker, pc, current, scripts>>

Stages == {"idle", "args", "io", "result", "post"}

\* Control points of the loop thread: between two scripts, executing a
\* script, testing shouldStop, draining mQu, inside message::build, in
\* runTimers and in a timer's callback, in runCallbacks and in a callback, at
\* updateTime and in the loop of updateTimers, and after main has returned.
ControlPoints == {"start", "script", "check", "drain", "build", "timers",
                  "timerJob", "callbacks", "callbackJob", "update",
                  "promote", "exited"}

TypeOK ==
  /\ clock \in Nat
  /\ currentTime \in Nat
  /\ jobCount \in Int
  /\ shouldStop \in BOOLEAN
  /\ heap \subseteq Jobs
  /\ timersQueue \in Seq(Jobs)
  /\ callbackQueue \in Seq(Jobs)
  /\ mQu \in Seq(Jobs)
  /\ kind \in [Jobs -> Kinds \cup {"free"}]
  /\ timeOut \in [Jobs -> Int]
  /\ startTime \in [Jobs -> Nat]
  /\ duration \in [Jobs -> Int]
  /\ worker \in [Jobs -> Stages]
  /\ pc \in ControlPoints
  /\ current \in Jobs \cup {NoJob}
  /\ scripts \in 0 .. Scripts

-----------------------------------------------------------------------------
(* Time.  The loop reads the clock with to_time_t, so that the time of day *)
(* it works with is the last full second.  The clock of the model does not *)
(* go back; system_clock does when the time of day is set.                 *)

LoopTime == (clock \div Second) * Second

\* TimedJobComparator: TRUE when job j1 has the lower priority.
LowerPriority(j1, j2) ==
  \/ timeOut[j1] > timeOut[j2]
  \/ timeOut[j1] = timeOut[j2] /\ startTime[j1] < startTime[j2]

\* Mutant of IsTop: an unordered container instead of the priority queue.
IsTopUnordered(j) == j \in heap

\* The job at the top of the heap; which of several equivalent ones it is
\* depends on the layout of the heap.
IsTop(j) == j \in heap /\ \A h \in heap : ~LowerPriority(j, h)

Due(j) == timeOut[j] <= currentTime

Tick ==
  /\ clock < MaxClock
  /\ clock' = clock + 1
  /\ UNCHANGED <<loopVars, timerVars, kind, worker, pc, current, scripts>>

-----------------------------------------------------------------------------
(* Calls from scripts and callbacks, executed on the loop thread.          *)

InJS == pc \in {"script", "timerJob", "callbackJob"}

\* EventLoop::registerJob.
RegisterJob ==
  /\ jobCount' = jobCount + 1
  /\ shouldStop' = FALSE

\* A fresh job object of kind k for a file call; its worker thread starts at
\* the given stage.
StartWorker(j, k, stage) ==
  /\ InJS
  /\ k \in Kinds
  /\ kind[j] = "free"
  /\ kind' = [kind EXCEPT ![j] = k]
  /\ RegisterJob
  /\ worker' = [worker EXCEPT ![j] = stage]
  /\ UNCHANGED <<clock, currentTime, callbackQueue, mQu, timerVars, pc,
                 current, scripts>>

ReadFileAsync(j) == StartWorker(j, "read", "args")
WriteFileAsync(j) == StartWorker(j, "write", "io")

\* Mutant of GetStatsAsync: the call to registerJob is missing.
GetStatsUnregistered(j) ==
  /\ InJS
  /\ "stats" \in Kinds
  /\ kind[j] = "free"
  /\ kind' = [kind EXCEPT ![j] = "stats"]
  /\ worker' = [worker EXCEPT ![j] = "io"]
  /\ UNCHANGED <<clock, loopVars, timerVars, pc, current, scripts>>

GetStatsAsync(j) == StartWorker(j, "stats", "io")

\* Mutant of StartTimer: the loop time is not updated first, so that the
\* deadline counts from a stale one.
StartTimerStale(j, k, d) ==
  /\ InJS
  /\ k \in Kinds
  /\ kind[j] = "free"
  /\ LoopTime + d <= MaxClock
  /\ kind' = [kind EXCEPT ![j] = k]
  /\ startTime' = [startTime EXCEPT ![j] = clock \div Second]
  /\ duration' = [duration EXCEPT ![j] = d]
  /\ timeOut' = [timeOut EXCEPT ![j] = currentTime + d]
  /\ RegisterJob
  /\ heap' = heap \cup {j}
  /\ UNCHANGED <<clock, currentTime, timersQueue, callbackQueue, mQu, worker,
                 pc, current, scripts>>

\* Timers::setTimeOut and Timers::setInterval differ in isInterval only.
StartTimer(j, k, d) ==
  /\ InJS
  /\ k \in Kinds
  /\ kind[j] = "free"
  /\ LoopTime + d <= MaxClock
  /\ kind' = [kind EXCEPT ![j] = k]
  /\ startTime' = [startTime EXCEPT ![j] = clock \div Second]
  /\ duration' = [duration EXCEPT ![j] = d]
  /\ currentTime' = LoopTime
  /\ timeOut' = [timeOut EXCEPT ![j] = LoopTime + d]
  /\ RegisterJob
  /\ heap' = heap \cup {j}
  /\ UNCHANGED <<clock, timersQueue, callbackQueue, mQu, worker, pc, current,
                 scripts>>

SetTimeOut(j, d) == StartTimer(j, "timeout", d)
SetInterval(j, d) == StartTimer(j, "interval", d)

-----------------------------------------------------------------------------
(* Worker threads.                                                         *)

SetStage(j, from, to) ==
  /\ worker[j] = from
  /\ worker' = [worker EXCEPT ![j] = to]
  /\ UNCHANGED <<clock, loopVars, timerVars, kind, pc, current, scripts>>

\* readAsync takes offset, length and position out of V8 handles.
ReadArguments(j) == SetStage(j, "args", "io")

\* The file is read or written; no state of the loop is involved.
FileIO(j) == kind[j] \in {"read", "write"} /\ SetStage(j, "io", "result")

\* statsAsync stores the result of stat in plain memory, without V8.
Stat(j) == kind[j] = "stats" /\ SetStage(j, "io", "post")

\* readAsync and writeAsync put their result into new V8 handles.
StoreResult(j) == SetStage(j, "result", "post")

\* The last step of a worker: EventLoop::addCallbackJob or
\* msgQueue::addMsgJob, both under their mutex.
PostResult(j) ==
  /\ worker[j] = "post"
  /\ worker' = [worker EXCEPT ![j] = "idle"]
  /\ IF kind[j] = "stats"
     THEN mQu' = Append(mQu, j) /\ UNCHANGED callbackQueue
     ELSE callbackQueue' = Append(callbackQueue, j) /\ UNCHANGED mQu
  /\ UNCHANGED <<clock, currentTime, jobCount, shouldStop, timerVars, kind,
                 pc, current, scripts>>

WorkerStep(j) ==
  \/ ReadArguments(j)
  \/ FileIO(j)
  \/ Stat(j)
  \/ StoreResult(j)
  \/ PostResult(j)

-----------------------------------------------------------------------------
(* The loop thread: App::Start and EventLoop::Run.                         *)

Goto(next) == pc' = next

\* Mutant of StartScript: the loop over argv goes one file too far.
StartScriptTooFar ==
  /\ pc = "start"
  /\ scripts' = scripts - 1
  /\ Goto("script")
  /\ UNCHANGED <<clock, loopVars, timerVars, kind, worker, current>>

\* App::Start takes the next file of the command line ...
StartScript ==
  /\ pc = "start" /\ scripts > 0
  /\ scripts' = scripts - 1
  /\ Goto("script")
  /\ UNCHANGED <<clock, loopVars, timerVars, kind, worker, current>>

\* ... and when there is none left, main disposes of the isolate and returns.
Shutdown ==
  /\ pc = "start" /\ scripts = 0
  /\ Goto("exited")
  /\ UNCHANGED <<clock, loopVars, timerVars, kind, worker, current, scripts>>

Jump(from, condition, to) ==
  /\ pc = from /\ condition
  /\ Goto(to)
  /\ UNCHANGED <<clock, loopVars, timerVars, kind, worker, current, scripts>>

\* The script ends or fails (or its file cannot be read): Run is called.
EndScript == Jump("script", TRUE, "check")

\* Mutant of RunAgain: messages are not fetched in the loop.
RunAgainWithoutDrain == Jump("check", ~shouldStop, "timers")

\* Mutant of RunReturns: the loop also ends when its queues are empty.
RunReturnsWhenEmpty ==
  Jump("check",
       shouldStop \/ (mQu = <<>> /\ callbackQueue = <<>> /\ heap = {}),
       "start")

\* The loop condition of Run.
RunAgain == Jump("check", ~shouldStop, "drain")
RunReturns == Jump("check", shouldStop, "start")

\* Mutant of FetchMessage: getFront does not pop.
FetchMessageNoPop ==
  /\ pc = "drain" /\ mQu # <<>>
  /\ current' = Head(mQu)
  /\ Goto("build")
  /\ UNCHANGED <<clock, loopVars, timerVars, kind, worker, scripts>>

FetchMessage ==
  /\ pc = "drain" /\ mQu # <<>>
  /\ current' = Head(mQu)
  /\ mQu' = Tail(mQu)
  /\ Goto("build")
  /\ UNCHANGED <<clock, currentTime, jobCount, shouldStop, callbackQueue,
                 timerVars, kind, worker, scripts>>

\* message::build makes the callback's arguments and enqueues its job; the
\* message is then deleted.
BuildMessage ==
  /\ pc = "build"
  /\ callbackQueue' = Append(callbackQueue, current)
  /\ current' = NoJob
  /\ Goto("drain")
  /\ UNCHANGED <<clock, currentTime, jobCount, shouldStop, mQu, timerVars,
                 kind, worker, scripts>>

DrainDone == Jump("drain", mQu = <<>>, "timers")

\* runTimers and runCallbacks call runJob with the front of their queue, and
\* the job stays at the front while its callback executes.
RunJob(queue, from, to) ==
  /\ pc = from /\ queue # <<>>
  /\ current' = Head(queue)
  /\ Goto(to)
  /\ UNCHANGED <<clock, loopVars, timerVars, kind, worker, scripts>>

RunTimer == RunJob(timersQueue, "timers", "timerJob")
RunCallback == RunJob(callbackQueue, "callbacks", "callbackJob")

\* Mutant of TimersDone: callbacks have to wait for the heap to be empty.
TimersDoneTimersFirst ==
  Jump("timers", timersQueue = <<>>,
       IF heap = {} THEN "callbacks" ELSE "update")

TimersDone == Jump("timers", timersQueue = <<>>, "callbacks")
CallbacksDone == Jump("callbacks", callbackQueue = <<>>, "update")

\* Mutant of DeleteCurrent: the last job leaves shouldStop as it is.
DeleteCurrentGoOn ==
  /\ kind' = [kind EXCEPT ![current] = "free"]
  /\ timeOut' = [timeOut EXCEPT ![current] = 0]
  /\ startTime' = [startTime EXCEPT ![current] = 0]
  /\ duration' = [duration EXCEPT ![current] = 0]
  /\ jobCount' = jobCount - 1
  /\ UNCHANGED shouldStop

\* The end of EventLoop::removeJob: delete the job and count it down.
DeleteCurrent ==
  /\ kind' = [kind EXCEPT ![current] = "free"]
  /\ timeOut' = [timeOut EXCEPT ![current] = 0]
  /\ startTime' = [startTime EXCEPT ![current] = 0]
  /\ duration' = [duration EXCEPT ![current] = 0]
  /\ jobCount' = jobCount - 1
  /\ shouldStop' = IF jobCount' = 0 THEN TRUE ELSE shouldStop

\* Mutant of Rearm: an interval is deleted like every other job.
RearmDeleted == DeleteCurrent /\ UNCHANGED heap

\* removeJob with an interval: pop, new deadline from the loop time, back
\* into the heap.
Rearm ==
  /\ timeOut' = [timeOut EXCEPT ![current] = duration[current] + currentTime]
  /\ heap' = heap \cup {current}
  /\ UNCHANGED <<startTime, duration, kind, jobCount, shouldStop>>

\* A timer's callback returns and removeJob pops timersQueue.
FinishTimer ==
  /\ pc = "timerJob"
  /\ timersQueue' = Tail(timersQueue)
  /\ IF kind[current] = "interval" THEN Rearm
                                   ELSE DeleteCurrent /\ UNCHANGED heap
  /\ current' = NoJob
  /\ Goto("timers")
  /\ UNCHANGED <<clock, currentTime, callbackQueue, mQu, worker, scripts>>

\* Any other callback returns and removeJob pops callbackQueue.
FinishCallback ==
  /\ pc = "callbackJob"
  /\ callbackQueue' = Tail(callbackQueue)
  /\ DeleteCurrent
  /\ current' = NoJob
  /\ Goto("callbacks")
  /\ UNCHANGED <<clock, currentTime, mQu, heap, timersQueue, worker, scripts>>

\* Mutant of UpdateTime: updateTimers works with the old loop time.
UpdateTimeForgotten == Jump("update", TRUE, "promote")

\* updateTimers reads the clock once ...
UpdateTime ==
  /\ pc = "update"
  /\ currentTime' = LoopTime
  /\ Goto("promote")
  /\ UNCHANGED <<clock, jobCount, shouldStop, callbackQueue, mQu, timerVars,
                 kind, worker, current, scripts>>

\* ... and moves the due timers, most urgent first, into timersQueue.
PromoteTimer ==
  /\ pc = "promote"
  /\ \E j \in heap : /\ IsTop(j) /\ Due(j)
                     /\ timersQueue' = Append(timersQueue, j)
                     /\ heap' = heap \ {j}
  /\ UNCHANGED <<clock, loopVars, timeOut, startTime, duration, kind, worker,
                 pc, current, scripts>>

PromoteDone == Jump("promote", ~\E j \in heap : IsTop(j) /\ Due(j), "check")

\* The process has ended; its detached threads are gone with it.
Exited == pc = "exited" /\ UNCHANGED vars

-----------------------------------------------------------------------------

Init ==
  /\ clock = 0
  /\ currentTime = LoopTime
  /\ jobCount = 0
  /\ shouldStop = TRUE
  /\ heap = {}
  /\ timersQueue = <<>>
  /\ callbackQueue = <<>>
  /\ mQu = <<>>
  /\ kind = [j \in Jobs |-> "free"]
  /\ timeOut = [j \in Jobs |-> 0]
  /\ startTime = [j \in Jobs |-> 0]
  /\ duration = [j \in Jobs |-> 0]
  /\ worker = [j \in Jobs |-> "idle"]
  /\ pc = "start"
  /\ current = NoJob
  /\ scripts = Scripts

\* What a script or a callback may call.
CallRuntime ==
  \E j \in Jobs :
    \/ ReadFileAsync(j)
    \/ WriteFileAsync(j)
    \/ GetStatsAsync(j)
    \/ \E d \in Durations : SetTimeOut(j, d) \/ SetInterval(j, d)

\* What the loop thread does by itself, callbacks returning included.
LoopStep ==
  \/ StartScript \/ EndScript \/ Shutdown
  \/ RunAgain \/ RunReturns
  \/ FetchMessage \/ BuildMessage \/ DrainDone
  \/ RunTimer \/ FinishTimer \/ TimersDone
  \/ RunCallback \/ FinishCallback \/ CallbacksDone
  \/ UpdateTime \/ PromoteTimer \/ PromoteDone

Next ==
  \/ Tick
  \/ CallRuntime
  \/ \E j \in Jobs : WorkerStep(j)
  \/ LoopStep
  \/ Exited

Spec == Init /\ [][Next]_vars

\* Time passes, the operating system schedules every thread and completes
\* every file operation, and scripts and callbacks return.
Fairness ==
  /\ WF_vars(Tick)
  /\ WF_vars(LoopStep)
  /\ \A j \in Jobs : WF_vars(WorkerStep(j))

FairSpec == Spec /\ Fairness

-----------------------------------------------------------------------------
(* Where a job can be.                                                     *)

Allocated == {j \in Jobs : kind[j] # "free"}
Working == {j \in Jobs : worker[j] # "idle"}
Building == IF pc = "build" THEN {current} ELSE {}

InFlight ==
  Working \cup Range(mQu) \cup Building \cup Range(callbackQueue)
    \cup Range(timersQueue) \cup heap

Running == IF pc \in {"timerJob", "callbackJob"} THEN current ELSE NoJob

(* Safety.                                                                 *)

\* Each allocated job object is in exactly one place: with its worker
\* thread, in a posted message, in the message being built, in one of the
\* queues or in the heap.  No step of any thread loses a job (its callback
\* would never run and the loop never end) or holds it twice (removeJob
\* would delete it and a queue still point to it).
JobsConserved ==
  /\ Allocated = InFlight
  /\ IsInjective(mQu) /\ IsInjective(callbackQueue) /\ IsInjective(timersQueue)
  /\ Working \cap (Range(mQu) \cup Building \cup Range(callbackQueue)) = {}
  /\ Building \cap (Range(mQu) \cup Range(callbackQueue)) = {}
  /\ Range(mQu) \cap Range(callbackQueue) = {}
  /\ (Range(timersQueue) \cup heap)
       \cap (Working \cup Range(mQu) \cup Building \cup Range(callbackQueue)) = {}
  /\ Range(timersQueue) \cap heap = {}

\* registerJob and removeJob keep jobCount equal to the number of jobs that
\* are anywhere on their way, in every interleaving with the workers, and
\* shouldStop is set exactly when there is none.
JobCountExact ==
  /\ jobCount = Cardinality(InFlight)
  /\ shouldStop <=> InFlight = {}

\* ShutdownVM disposes of the isolate only when no worker thread is left
\* that would touch it and no callback is still to be called.
ExitOnlyWhenIdle == pc = "exited" => InFlight = {}

\* updateTimers hands timers over in the order of TimedJobComparator, and a
\* timer with a later deadline is never ahead of one that still waits in the
\* heap, including timers that callbacks create or re-arm in the meantime;
\* provided that the time of day is not set back.
DeadlineOrder ==
  /\ \A i, k \in 1 .. Len(timersQueue) :
       i < k => ~LowerPriority(timersQueue[i], timersQueue[k])
  /\ \A j \in Range(timersQueue), h \in heap :
       duration[h] >= 0 => timeOut[j] <= timeOut[h]

\* Although all times are cut to full seconds and the loop time is stale
\* while callbacks run, no timer's callback begins before its duration has
\* passed, counted from the second in which it was created, as the clock of
\* the system tells it, if that is not set back.
TimerNotEarly ==
  pc = "timerJob" => clock >= startTime[current] * Second + duration[current]

\* The loop thread is at a step that executes JavaScript or handles V8 objects.
LoopUsesIsolate == pc \in {"script", "timerJob", "callbackJob", "build"}

\* A worker thread is at a step that reads or makes V8 handles.
WorkerUsesIsolate(j) == worker[j] \in {"args", "result"}

\* v8.h of the isolate: only one thread at a time is allowed to use it, and
\* accessing handles is a use.  readAsync and writeAsync do so without a
\* Locker (the one in message::build declares a function).
OneThreadPerIsolate ==
  \A j \in Jobs : WorkerUsesIsolate(j) =>
    ~LoopUsesIsolate /\ \A k \in Jobs \ {j} : ~WorkerUsesIsolate(k)

(* Liveness.                                                               *)

\* A file operation whose job a worker has handed back gets its callback:
\* runCallbacks drains the queue in order, whatever callbacks it runs submit.
PostedCallbackRuns ==
  \A j \in Jobs : j \in Range(callbackQueue)
                   ~> pc = "callbackJob" /\ current = j

\* A due timer and a posted stats message get their callback, provided that
\* runCallbacks always finds its queue empty at last; callbacks that keep
\* submitting file operations can hold the loop there for ever.
LoopTurns == []<>(pc \in {"update", "exited"})

DueTimerRuns ==
  LoopTurns => \A j \in Jobs :
    j \in heap /\ timeOut[j] <= LoopTime ~> pc = "timerJob" /\ current = j

MessageRuns ==
  LoopTurns => \A j \in Jobs :
    j \in Range(mQu) ~> pc = "callbackJob" /\ current = j

\* The process ends once the scripts stop making calls and no interval is left.
StopsCalling == <>[][jobCount' <= jobCount]_vars
NoIntervalLeft == <>[](\A j \in InFlight : kind[j] # "interval")
Terminates == StopsCalling /\ NoIntervalLeft => <>(pc = "exited")
=============================================================================
