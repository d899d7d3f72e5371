----------------------------- MODULE WatchLoop -----------------------------
(***************************************************************************)
(* Watched files: File::watchFile and the function watcher of              *)
(* engine/FileSystem.cpp, together with EventLoop::Run.                    *)
(*                                                                         *)
(* Each call of watchFile detaches a thread that polls a file until the    *)
(* script sets a flag.  For each change it copies the job of the call,     *)
(* registers the copy and posts it as a message; at its end it withdraws   *)
(* itself.  Thus several threads update jobCount (module JobCount) while   *)
(* the loop thread registers and removes jobs and tests shouldStop.        *)
(*                                                                         *)
(* What a poll sees is the subject of FileWatch: here a poll may find a    *)
(* change or not.  Besides the watchers there are calls of one kind, whose *)
(* worker threads post to callbackQueue; timers, which stay with the loop  *)
(* thread and use the counter in the same way, are left to EventLoop.      *)
(***************************************************************************)
EXTENDS JobCount, Sequences, FiniteSets, Functions

CONSTANTS
  Jobs,        \* the callbackJob objects that can be allocated at once
  Nothing,     \* the null pointer
  Scripts,     \* number of script files on the command line
  MaxOverlaps  \* bound: overlaps after which nothing new is registered

ASSUME ConstantsAssumption ==
  /\ IsFiniteSet(Jobs) /\ IsFiniteSet(Watchers)
  /\ Jobs \cap Threads = {}
  /\ Nothing \notin Jobs \cup Threads
  /\ Scripts \in Nat
  /\ MaxOverlaps \in Nat

VARIABLES
  kind,           \* "call", "change" or, if it is not allocated, "free"
  workers,        \* the calls that a worker thread has not finished
  mQu,            \* EventLoop::mQu
  callbackQueue,  \* EventLoop::callbackQueue
  pc,             \* control point of the loop thread
  current,        \* the job the loop thread works on
  starting,       \* the call or watcher whose thread is about to be created
  scripts,        \* script files not executed yet
  watch,          \* control point of each watcher thread
  draft,          \* localJob of each watcher thread
  stopFlag,       \* the integer that watchFile shares with the script
  late            \* history: changes posted since the flag was set

queueVars == <<kind, workers, mQu, callbackQueue>>
loopVars == <<pc, current, starting, scripts>>
watchVars == <<watch, draft, stopFlag, late>>
vars == <<countVars, step, queueVars, loopVars, watchVars>>

\* Control points of a watcher: no thread, at the loop condition, in the loop
\* body, registering the copied job, leaving.
WatchPoints == {"none", "poll", "body", "register", "withdraw"}

TypeOK ==
  /\ CountTypeOK
  /\ kind \in [Jobs -> {"free", "call", "change"}]
  /\ workers \subseteq Jobs
  /\ mQu \in Seq(Jobs)
  /\ callbackQueue \in Seq(Jobs)
  /\ pc \in {"start", "script", "check", "drain", "build", "callbacks",
             "callbackJob", "remove", "exited"}
  /\ current \in Jobs \cup {Nothing}
  /\ starting \in Jobs \cup Watchers \cup {Nothing}
  /\ scripts \in 0 .. Scripts
  /\ watch \in [Watchers -> WatchPoints]
  /\ draft \in [Watchers -> Jobs \cup {Nothing}]
  /\ stopFlag \in [Watchers -> BOOLEAN]
  /\ late \in [Watchers -> Nat]

-----------------------------------------------------------------------------
(* Calls from scripts and callbacks, executed on the loop thread.          *)

\* The loop thread executes JavaScript and is not inside a call.
InJS ==
  /\ pc \in {"script", "callbackJob"}
  /\ Outside(Loop)
  /\ starting = Nothing

\* The counter has not been disturbed so often that the bound is reached.
WithinBound == overlaps < MaxOverlaps

\* An asynchronous call registers its job ...
CallAsync(j) ==
  /\ InJS /\ WithinBound
  /\ kind[j] = "free"
  /\ kind' = [kind EXCEPT ![j] = "call"]
  /\ starting' = j
  /\ EnterRegister(Loop)
  /\ UNCHANGED <<countVars, workers, mQu, callbackQueue, pc, current, scripts,
                 watchVars>>

\* ... and then creates the worker thread.
LaunchWorker ==
  /\ starting \in Jobs /\ Outside(Loop)
  /\ workers' = workers \cup {starting}
  /\ starting' = Nothing
  /\ UNCHANGED <<countVars, step, kind, mQu, callbackQueue, pc, current,
                 scripts, watchVars>>

\* Mutant of WatchFile: the call to registerJob is missing.
WatchFileUnregistered(w) ==
  /\ InJS /\ WithinBound
  /\ watch[w] = "none"
  /\ starting' = w
  /\ stopFlag' = [stopFlag EXCEPT ![w] = FALSE]
  /\ late' = [late EXCEPT ![w] = 0]
  /\ UNCHANGED <<countVars, step, queueVars, pc, current, scripts, watch,
                 draft>>

\* watchFile allocates a flag and registers the watcher ...
WatchFile(w) ==
  /\ InJS /\ WithinBound
  /\ watch[w] = "none"
  /\ starting' = w
  /\ stopFlag' = [stopFlag EXCEPT ![w] = FALSE]
  /\ late' = [late EXCEPT ![w] = 0]
  /\ EnterRegister(Loop)
  /\ UNCHANGED <<countVars, queueVars, pc, current, scripts, watch, draft>>

\* ... and then creates its thread.
LaunchWatcher ==
  /\ starting \in Watchers /\ Outside(Loop)
  /\ watch' = [watch EXCEPT ![starting] = "poll"]
  /\ starting' = Nothing
  /\ UNCHANGED <<countVars, step, queueVars, pc, current, scripts, draft,
                 stopFlag, late>>

\* The script stores a nonzero value into the array that watchFile returned.
SetStopFlag(w) ==
  /\ InJS
  /\ watch[w] # "none" /\ ~stopFlag[w]
  /\ stopFlag' = [stopFlag EXCEPT ![w] = TRUE]
  /\ UNCHANGED <<countVars, step, queueVars, loopVars, watch, draft, late>>

-----------------------------------------------------------------------------
(* Worker threads of other calls: EventLoop::addCallbackJob ends them.     *)

PostCall(j) ==
  /\ pc # "exited"
  /\ j \in workers
  /\ workers' = workers \ {j}
  /\ callbackQueue' = Append(callbackQueue, j)
  /\ UNCHANGED <<countVars, step, kind, mQu, loopVars, watchVars>>

-----------------------------------------------------------------------------
(* Watcher threads: they live as long as the process.                      *)

MoveWatcher(w, from, to) ==
  /\ pc # "exited"
  /\ Outside(w)
  /\ watch[w] = from
  /\ watch' = [watch EXCEPT ![w] = to]

\* Mutant of Poll: the flag is read before the loop only.
PollHoisted(w) ==
  /\ MoveWatcher(w, "poll", "body")
  /\ UNCHANGED <<countVars, step, queueVars, loopVars, draft, stopFlag, late>>

\* The loop condition of watcher, when the flag is still 0.
Poll(w) ==
  /\ MoveWatcher(w, "poll", "body")
  /\ ~stopFlag[w]
  /\ UNCHANGED <<countVars, step, queueVars, loopVars, draft, stopFlag, late>>

\* Mutant of NoChange: an inner loop that waits for a change.
NoChangeWaits(w) ==
  /\ MoveWatcher(w, "body", "body")
  /\ UNCHANGED <<countVars, step, queueVars, loopVars, draft, stopFlag, late>>

\* The file reads as before; the thread sleeps until the next poll.
NoChange(w) ==
  /\ MoveWatcher(w, "body", "poll")
  /\ UNCHANGED <<countVars, step, queueVars, loopVars, draft, stopFlag, late>>

\* Mutant of FindChange: the call to registerJob is missing.
FindChangeUnregistered(w, j) ==
  /\ MoveWatcher(w, "body", "register") /\ WithinBound
  /\ kind[j] = "free"
  /\ kind' = [kind EXCEPT ![j] = "change"]
  /\ draft' = [draft EXCEPT ![w] = j]
  /\ UNCHANGED <<countVars, step, workers, mQu, callbackQueue, loopVars,
                 stopFlag, late>>

\* Mutant of FindChange: one job object serves all reports of a watcher.
FindChangeUncopied(w, j) ==
  /\ MoveWatcher(w, "body", "register") /\ WithinBound
  /\ kind[j] \in {"free", "change"}
  /\ kind' = [kind EXCEPT ![j] = "change"]
  /\ draft' = [draft EXCEPT ![w] = j]
  /\ EnterRegister(w)
  /\ UNCHANGED <<countVars, workers, mQu, callbackQueue, loopVars, stopFlag,
                 late>>

\* The file has changed: a copy of the job is made (cpyJob) and registered.
FindChange(w, j) ==
  /\ MoveWatcher(w, "body", "register") /\ WithinBound
  /\ kind[j] = "free"
  /\ kind' = [kind EXCEPT ![j] = "change"]
  /\ draft' = [draft EXCEPT ![w] = j]
  /\ EnterRegister(w)
  /\ UNCHANGED <<countVars, workers, mQu, callbackQueue, loopVars, stopFlag,
                 late>>

\* msgQueue::addMsgJob; the thread sleeps until the next poll.
PostChange(w) ==
  /\ MoveWatcher(w, "register", "poll")
  /\ mQu' = Append(mQu, draft[w])
  /\ draft' = [draft EXCEPT ![w] = Nothing]
  /\ late' = IF stopFlag[w] THEN [late EXCEPT ![w] = @ + 1] ELSE late
  /\ UNCHANGED <<countVars, step, kind, workers, callbackQueue, loopVars,
                 stopFlag>>

\* Mutant of SeeStopFlag: the call to withdrawJob is missing.
SeeStopFlagOnly(w) ==
  /\ MoveWatcher(w, "poll", "withdraw")
  /\ stopFlag[w]
  /\ UNCHANGED <<countVars, step, queueVars, loopVars, draft, stopFlag, late>>

\* The loop condition of watcher when the flag is set, and withdrawJob.
SeeStopFlag(w) ==
  /\ MoveWatcher(w, "poll", "withdraw")
  /\ stopFlag[w]
  /\ EnterWithdraw(w)
  /\ UNCHANGED <<countVars, queueVars, loopVars, draft, stopFlag, late>>

\* The thread ends.
EndWatcher(w) ==
  /\ MoveWatcher(w, "withdraw", "none")
  /\ UNCHANGED <<countVars, step, queueVars, loopVars, draft, stopFlag, late>>

\* A load or store of jobCount or shouldStop.
UpdateCount(t) ==
  /\ pc # "exited"
  /\ CountStep(t)
  /\ UNCHANGED <<queueVars, loopVars, watchVars>>

WatcherStep(w) ==
  \/ Poll(w) \/ NoChange(w)
  \/ \E j \in Jobs : FindChange(w, j)
  \/ PostChange(w)
  \/ SeeStopFlag(w) \/ EndWatcher(w)
  \/ UpdateCount(w)

-----------------------------------------------------------------------------
(* The loop thread.                                                        *)

Jump(from, condition, to) ==
  /\ pc = from /\ condition
  /\ pc' = to
  /\ UNCHANGED <<countVars, step, queueVars, current, starting, scripts,
                 watchVars>>

\* Mutant of StartScript: the loop over argv goes one file too far.
StartScriptTooFar ==
  /\ pc = "start"
  /\ pc' = "script"
  /\ scripts' = scripts - 1
  /\ UNCHANGED <<countVars, step, queueVars, current, starting, watchVars>>

StartScript ==
  /\ pc = "start" /\ scripts > 0
  /\ pc' = "script"
  /\ scripts' = scripts - 1
  /\ UNCHANGED <<countVars, step, queueVars, current, starting, watchVars>>

EndScript == Jump("script", InJS, "check")
Shutdown == Jump("start", scripts = 0, "exited")

\* The loop condition of Run loads shouldStop.
RunAgain == Jump("check", ~shouldStop, "drain")
RunReturns == Jump("check", shouldStop, "start")

FetchMessage ==
  /\ pc = "drain" /\ mQu # <<>>
  /\ pc' = "build"
  /\ current' = Head(mQu)
  /\ mQu' = Tail(mQu)
  /\ UNCHANGED <<countVars, step, kind, workers, callbackQueue, starting,
                 scripts, watchVars>>

BuildMessage ==
  /\ pc = "build"
  /\ pc' = "drain"
  /\ callbackQueue' = Append(callbackQueue, current)
  /\ current' = Nothing
  /\ UNCHANGED <<countVars, step, kind, workers, mQu, starting, scripts,
                 watchVars>>

DrainDone == Jump("drain", mQu = <<>>, "callbacks")

RunCallback ==
  /\ pc = "callbacks" /\ callbackQueue # <<>>
  /\ pc' = "callbackJob"
  /\ current' = Head(callbackQueue)
  /\ UNCHANGED <<countVars, step, queueVars, starting, scripts, watchVars>>

\* The callback returns; removeJob pops the queue and deletes the job ...
FinishCallback ==
  /\ pc = "callbackJob" /\ InJS
  /\ pc' = "remove"
  /\ callbackQueue' = Tail(callbackQueue)
  /\ kind' = [kind EXCEPT ![current] = "free"]
  /\ current' = Nothing
  /\ EnterWithdraw(Loop)
  /\ UNCHANGED <<countVars, workers, mQu, starting, scripts, watchVars>>

\* ... and counts it down before it returns to runCallbacks.
RemoveDone == Jump("remove", Outside(Loop), "callbacks")

CallbacksDone == Jump("callbacks", callbackQueue = <<>>, "check")

\* The process has ended and its threads with it.
Exited == pc = "exited" /\ UNCHANGED vars

-----------------------------------------------------------------------------

Init ==
  /\ CountInit
  /\ kind = [j \in Jobs |-> "free"]
  /\ workers = {}
  /\ mQu = <<>>
  /\ callbackQueue = <<>>
  /\ pc = "start"
  /\ current = Nothing
  /\ starting = Nothing
  /\ scripts = Scripts
  /\ watch = [w \in Watchers |-> "none"]
  /\ draft = [w \in Watchers |-> Nothing]
  /\ stopFlag = [w \in Watchers |-> FALSE]
  /\ late = [w \in Watchers |-> 0]

\* What a script or a callback may do.
CallRuntime ==
  \/ \E j \in Jobs : CallAsync(j)
  \/ \E w \in Watchers : WatchFile(w) \/ SetStopFlag(w)

LoopStep ==
  \/ StartScript \/ EndScript \/ Shutdown
  \/ LaunchWorker \/ LaunchWatcher
  \/ RunAgain \/ RunReturns
  \/ FetchMessage \/ BuildMessage \/ DrainDone
  \/ RunCallback \/ FinishCallback \/ RemoveDone \/ CallbacksDone
  \/ UpdateCount(Loop)

Next ==
  \/ CallRuntime
  \/ \E j \in Jobs : PostCall(j)
  \/ \E w \in Watchers : WatcherStep(w)
  \/ LoopStep
  \/ Exited

Spec == Init /\ [][Next]_vars

\* The operating system schedules every thread and completes every file
\* operation, and scripts and callbacks return.
Fairness ==
  /\ WF_vars(LoopStep)
  /\ \A j \in Jobs : WF_vars(PostCall(j))
  /\ \A w \in Watchers : WF_vars(WatcherStep(w))

FairSpec == Spec /\ Fairness

-----------------------------------------------------------------------------
(* What jobCount counts.                                                   *)

Entering(t) == step[t] \in {"incLoad", "incStore"}
Leaving(t) == step[t] \in {"decLoad", "decStore"}

\* The job or watcher that a thread registers while it is in registerJob.
Item(t) == IF t = Loop THEN starting ELSE draft[t]

Allocated == {j \in Jobs : kind[j] # "free"}
Watching ==
  {w \in Watchers : watch[w] \in {"poll", "body", "register"} \/ w = starting}
Registering == {Item(t) : t \in {u \in Threads : Entering(u)}}

\* What has been registered and not withdrawn: jobs, watchers, and a thread
\* for what it is just withdrawing.
Counted ==
  ((Allocated \cup Watching) \ Registering) \cup {t \in Threads : Leaving(t)}

(* Safety.                                                                 *)

\* As long as no update of jobCount begins within another thread's, the
\* unlocked counter is exact after every single load and store, and
\* shouldStop is set exactly when it is 0 and nobody is in an update.
JobCountExact ==
  ~Overlapped =>
    /\ jobCount = Cardinality(Counted)
    /\ (\A t \in Threads : ~Updating(t)) => (shouldStop <=> jobCount = 0)

\* As long as no two updates overlap, the process does not exit under a
\* watcher that polls, a worker, or a callback that is still to be called.
ExitOnlyWhenIdle ==
  ~Overlapped /\ pc = "exited" => Allocated = {} /\ Watching = {}

Starting == {starting} \cap Jobs
Drafted == {draft[w] : w \in Watchers} \cap Jobs
Building == IF pc = "build" THEN {current} ELSE {}

\* Whatever the counter does, each job object has one holder: the call that
\* starts its worker, the worker, the watcher that drafts it, mQu,
\* message::build or callbackQueue.  removeJob, which pops the front of
\* callbackQueue, thus never deletes a job that a watcher or a queue holds.
JobsConserved ==
  /\ Allocated = Starting \cup workers \cup Drafted \cup Range(mQu)
                   \cup Building \cup Range(callbackQueue)
  /\ IsInjective(mQu) /\ IsInjective(callbackQueue)
  /\ \A w, v \in Watchers : draft[w] = draft[v] => w = v \/ draft[w] = Nothing
  /\ Starting \cap (workers \cup Drafted \cup Range(mQu)) = {}
  /\ workers \cap (Drafted \cup Range(mQu)) = {}
  /\ Drafted \cap Range(mQu) = {}
  /\ Building \cap (Starting \cup workers \cup Drafted \cup Range(mQu)) = {}
  /\ Range(callbackQueue) \cap (Starting \cup workers \cup Drafted
                                \cup Range(mQu) \cup Building) = {}

\* After the script has set its flag a watcher posts at most the change that
\* it is just about to find.
AtMostOneLateChange == \A w \in Watchers : late[w] <= 1

(* Liveness.                                                               *)

\* A watcher whose flag is set leaves its loop, however often the file
\* changes, unless the process exits.
StoppedWatcherEnds ==
  \A w \in Watchers :
    watch[w] # "none" /\ stopFlag[w] ~> watch[w] = "none" \/ pc = "exited"

\* Once no call is made any more and every watcher has its flag set, the
\* process ends, provided that no two updates of jobCount overlapped: then
\* one of them may be lost, and shouldStop never be set.
CallsStop == <>[][starting' \in {starting, Nothing}]_vars
WatchesStop == <>[](\A w \in Watchers : watch[w] # "none" => stopFlag[w])
Terminates ==
  CallsStop /\ WatchesStop => <>(pc = "exited" \/ Overlapped)
=============================================================================
