-------------------------- MODULE WatchLoopProofs ---------------------------
(***************************************************************************)
(* Proofs about WatchLoop, for any number of watchers, jobs and scripts:   *)
(* job objects have one holder in every interleaving; a watcher posts at   *)
(* most one change after its flag was set; as long as no update of the     *)
(* unlocked counter begins within another, the counter is exact, and Run   *)
(* returns only when nothing is registered.                                *)
(***************************************************************************)
EXTENDS WatchLoop, QueueLemmas, FiniteSetTheorems

\* How the control points of the threads fit together.  A thread is inside
\* registerJob or withdrawJob only where its code calls them, a watcher has
\* a draft exactly while it registers it, and the job whose callback executes
\* is at the front of the queue.
Control ==
  /\ starting # Nothing => pc \in {"script", "callbackJob"}
  /\ step[Loop] \in IncSteps => starting # Nothing
  /\ step[Loop] \in DecSteps => pc = "remove"
  /\ \A w \in Watchers :
       /\ w = starting => watch[w] = "none"
       /\ step[w] \in IncSteps => watch[w] = "register"
       /\ step[w] \in DecSteps => watch[w] = "withdraw"
       /\ draft[w] # Nothing <=> watch[w] = "register"
  /\ pc = "callbackJob" => callbackQueue # <<>> /\ current = Head(callbackQueue)
  /\ pc = "build" => current \in Jobs

-----------------------------------------------------------------------------
(* Type correctness.                                                       *)

LEMMA TypeInit == Init => TypeOK /\ Control
BY ConstantsAssumption
DEF Init, CountInit, TypeOK, CountTypeOK, Control, Threads, IncSteps, DecSteps,
    WatchPoints

\* A load or store of jobCount or shouldStop.
LEMMA TypeCount ==
  ASSUME CountTypeOK, NEW t \in Threads, CountStep(t)
  PROVE  CountTypeOK'
<1> USE DEF CountTypeOK, IncSteps, DecSteps
<1>1. ASSUME NEW from, NEW to \in {"incStore", "decStore"}, Load(t, from, to)
      PROVE  CountTypeOK'
  <2>1. overlaps' \in Nat
    BY <1>1 DEF Load
  <2>2. loaded' \in [Threads -> Int]
    BY <1>1 DEF Load
  <2>3. step' \in [Threads -> {"outside"} \cup IncSteps \cup DecSteps]
    BY <1>1 DEF Load
  <2> QED BY <1>1, <2>1, <2>2, <2>3 DEF Load
<1>2. ASSUME NEW from, NEW to \in {"clear", "test"}, NEW change \in Int,
             Store(t, from, to, change)
      PROVE  CountTypeOK'
  <2>1. jobCount' \in Int
    BY <1>2 DEF Store
  <2>2. step' \in [Threads -> {"outside"} \cup IncSteps \cup DecSteps]
    BY <1>2 DEF Store
  <2> QED BY <1>2, <2>1, <2>2 DEF Store
<1>3. CASE TestCount(t)
  BY <1>3 DEF TestCount, countVars
<1>4. 1 \in Int /\ -1 \in Int
  OBVIOUS
<1> QED BY <1>1, <1>2, <1>3, <1>4 DEF CountStep, RegisterStep, WithdrawStep

LEMMA TypeNext ==
  ASSUME TypeOK, Control, [Next]_vars
  PROVE  TypeOK'
<1>1. ASSUME NEW t \in Threads, UpdateCount(t)
      PROVE  TypeOK'
  BY <1>1, TypeCount DEF UpdateCount, queueVars, loopVars, watchVars, TypeOK
<1>2. CASE UNCHANGED vars
  BY <1>2 DEF vars, countVars, queueVars, loopVars, watchVars, TypeOK,
     CountTypeOK
<1> USE DEF TypeOK, CountTypeOK, countVars, queueVars, loopVars, watchVars
<1>3. CASE \E j \in Jobs : CallAsync(j)
  BY <1>3 DEF CallAsync, EnterRegister, IncSteps
<1>4. ASSUME NEW w \in Watchers, WatchFile(w) \/ SetStopFlag(w)
      PROVE  TypeOK'
  <2>1. CASE WatchFile(w)
    <3>1. step' \in [Threads -> {"outside"} \cup IncSteps \cup DecSteps]
      BY <2>1 DEF WatchFile, EnterRegister, IncSteps
    <3>2. stopFlag' \in [Watchers -> BOOLEAN] /\ late' \in [Watchers -> Nat]
      BY <2>1 DEF WatchFile
    <3> QED BY <2>1, <3>1, <3>2 DEF WatchFile
  <2>2. CASE SetStopFlag(w)
    <3>1. stopFlag' \in [Watchers -> BOOLEAN]
      BY <2>2 DEF SetStopFlag
    <3> QED BY <2>2, <3>1 DEF SetStopFlag
  <2> QED BY <1>4, <2>1, <2>2
<1>5. ASSUME NEW j \in Jobs, PostCall(j)
      PROVE  TypeOK'
  <2>1. Append(callbackQueue, j) \in Seq(Jobs)
    BY Push
  <2> QED BY <1>5, <2>1 DEF PostCall
<1>6. ASSUME NEW w \in Watchers, WatcherStep(w)
      PROVE  TypeOK'
  <2>1. CASE Poll(w) \/ NoChange(w) \/ EndWatcher(w)
    BY <2>1 DEF Poll, NoChange, EndWatcher, MoveWatcher, WatchPoints
  <2>2. CASE \E j \in Jobs : FindChange(w, j)
    <3>1. PICK j \in Jobs : FindChange(w, j)
      BY <2>2
    <3>2. /\ kind' \in [Jobs -> {"free", "call", "change"}]
          /\ draft' \in [Watchers -> Jobs \cup {Nothing}]
          /\ watch' \in [Watchers -> WatchPoints]
      BY <3>1 DEF FindChange, MoveWatcher, WatchPoints
    <3>3. step' \in [Threads -> {"outside"} \cup IncSteps \cup DecSteps]
      BY <3>1 DEF FindChange, EnterRegister, IncSteps
    <3> QED BY <3>1, <3>2, <3>3 DEF FindChange
  <2>3. CASE PostChange(w)
    <3>1. draft[w] \in Jobs
      BY <2>3 DEF PostChange, MoveWatcher, Control
    <3>2. Append(mQu, draft[w]) \in Seq(Jobs)
      BY <3>1, Push
    <3>3. late' \in [Watchers -> Nat]
      BY <2>3 DEF PostChange
    <3>4. /\ draft' \in [Watchers -> Jobs \cup {Nothing}]
          /\ watch' \in [Watchers -> WatchPoints]
      BY <2>3 DEF PostChange, MoveWatcher, WatchPoints
    <3> QED BY <2>3, <3>2, <3>3, <3>4 DEF PostChange
  <2>4. CASE SeeStopFlag(w)
    <3>1. watch' \in [Watchers -> WatchPoints]
      BY <2>4 DEF SeeStopFlag, MoveWatcher, WatchPoints
    <3>2. step' \in [Threads -> {"outside"} \cup IncSteps \cup DecSteps]
      BY <2>4 DEF SeeStopFlag, EnterWithdraw, DecSteps
    <3> QED BY <2>4, <3>1, <3>2 DEF SeeStopFlag
  <2> QED BY <1>1, <1>6, <2>1, <2>2, <2>3, <2>4 DEF WatcherStep, Threads
<1>7. CASE LoopStep
  <2>1. CASE StartScript
    BY <2>1, ConstantsAssumption DEF StartScript
  <2>7. ASSUME NEW from, NEW condition,
               NEW to \in {"start", "script", "check", "drain", "callbacks",
                           "exited"},
               Jump(from, condition, to)
        PROVE  TypeOK'
    BY <2>7 DEF Jump
  <2>8. CASE EndScript \/ Shutdown \/ RunAgain \/ RunReturns
             \/ DrainDone \/ RemoveDone \/ CallbacksDone
    BY <2>7, <2>8 DEF EndScript, Shutdown, RunAgain, RunReturns, DrainDone,
       RemoveDone, CallbacksDone
  <2>2. CASE LaunchWorker \/ LaunchWatcher
    BY <2>2 DEF LaunchWorker, LaunchWatcher, WatchPoints
  <2>3. CASE FetchMessage
    <3>1. Head(mQu) \in Jobs /\ Tail(mQu) \in Seq(Jobs)
      BY <2>3, HeadTailProperties DEF FetchMessage
    <3> QED BY <2>3, <3>1 DEF FetchMessage
  <2>4. CASE BuildMessage
    <3>1. Append(callbackQueue, current) \in Seq(Jobs)
      BY <2>4, Push DEF BuildMessage, Control
    <3> QED BY <2>4, <3>1 DEF BuildMessage
  <2>5. CASE RunCallback
    <3>1. Head(callbackQueue) \in Jobs
      BY <2>5, HeadTailProperties DEF RunCallback
    <3> QED BY <2>5, <3>1 DEF RunCallback
  <2>6. CASE FinishCallback
    <3>1. Tail(callbackQueue) \in Seq(Jobs)
      BY <2>6, HeadTailProperties DEF FinishCallback, Control
    <3>2. step' \in [Threads -> {"outside"} \cup IncSteps \cup DecSteps]
      BY <2>6 DEF FinishCallback, EnterWithdraw, DecSteps
    <3> QED BY <2>6, <3>1, <3>2 DEF FinishCallback
  <2> QED
    BY <1>1, <1>7, <2>1, <2>2, <2>3, <2>4, <2>5, <2>6, <2>8
    DEF LoopStep, Threads
<1> QED
  BY <1>2, <1>3, <1>4, <1>5, <1>6, <1>7 DEF Next, Exited, CallRuntime

-----------------------------------------------------------------------------
(* Control.                                                                *)

\* A load or store moves one thread, within what it has called or out of it.
LEMMA CountMoves ==
  ASSUME CountTypeOK, NEW t \in Threads, CountStep(t)
  PROVE  /\ \A u \in Threads \ {t} : step'[u] = step[u]
         /\ \/ step[t] \in IncSteps /\ step'[t] \in IncSteps \cup {"outside"}
            \/ step[t] \in DecSteps /\ step'[t] \in DecSteps \cup {"outside"}
<1>1. ASSUME NEW from, NEW to, Load(t, from, to)
      PROVE  /\ \A u \in Threads \ {t} : step'[u] = step[u]
             /\ step[t] = from /\ step'[t] = to
  BY <1>1 DEF Load, CountTypeOK
<1>2. ASSUME NEW from, NEW to, NEW change, Store(t, from, to, change)
      PROVE  /\ \A u \in Threads \ {t} : step'[u] = step[u]
             /\ step[t] = from /\ step'[t] = to
  BY <1>2 DEF Store, CountTypeOK
<1>3. CASE RegisterStep(t)
  BY <1>1, <1>2, <1>3 DEF RegisterStep, CountTypeOK, IncSteps
<1>4. CASE WithdrawStep(t)
  BY <1>1, <1>2, <1>4 DEF WithdrawStep, TestCount, CountTypeOK, DecSteps
<1> QED BY <1>3, <1>4 DEF CountStep

LEMMA ControlNext ==
  ASSUME TypeOK, Control, [Next]_vars
  PROVE  Control'
<1> USE DEF Control
<1>1. ASSUME NEW t \in Threads, UpdateCount(t)
      PROVE  Control'
  <2>1. /\ \A u \in Threads \ {t} : step'[u] = step[u]
        /\ \/ step[t] \in IncSteps /\ step'[t] \in IncSteps \cup {"outside"}
           \/ step[t] \in DecSteps /\ step'[t] \in DecSteps \cup {"outside"}
    BY <1>1, CountMoves DEF UpdateCount, TypeOK
  <2>2. IncSteps \cap DecSteps = {} /\ "outside" \notin IncSteps \cup DecSteps
    BY DEF IncSteps, DecSteps
  <2>3. /\ step'[Loop] \in IncSteps => step[Loop] \in IncSteps
        /\ step'[Loop] \in DecSteps => step[Loop] \in DecSteps
        /\ \A w \in Watchers : /\ step'[w] \in IncSteps => step[w] \in IncSteps
                               /\ step'[w] \in DecSteps => step[w] \in DecSteps
    BY <2>1, <2>2 DEF Threads
  <2>4. UNCHANGED <<starting, pc, current, watch, draft, callbackQueue>>
    BY <1>1 DEF UpdateCount, queueVars, loopVars, watchVars
  <2> QED BY <2>3, <2>4
<1>2. CASE UNCHANGED vars
  BY <1>2 DEF vars, countVars, queueVars, loopVars, watchVars
<1> USE DEF TypeOK, CountTypeOK, countVars, queueVars, loopVars, watchVars,
            Threads, IncSteps, DecSteps
<1>3. CASE \E j \in Jobs : CallAsync(j)
  BY <1>3, ThreadsAssumption, ConstantsAssumption
  DEF CallAsync, EnterRegister, InJS, Outside
<1>4. ASSUME NEW w \in Watchers, WatchFile(w) \/ SetStopFlag(w)
      PROVE  Control'
  <2>1. CASE WatchFile(w)
    BY <2>1, ThreadsAssumption, ConstantsAssumption
    DEF WatchFile, EnterRegister, InJS, Outside
  <2>2. CASE SetStopFlag(w)
    BY <2>2 DEF SetStopFlag
  <2> QED BY <1>4, <2>1, <2>2
<1>5. ASSUME NEW j \in Jobs, PostCall(j)
      PROVE  Control'
  <2>1. /\ Append(callbackQueue, j) # <<>>
        /\ callbackQueue # <<>>
             => Head(Append(callbackQueue, j)) = Head(callbackQueue)
    BY Push
  <2>2. UNCHANGED <<starting, pc, current, watch, draft, step>>
        /\ callbackQueue' = Append(callbackQueue, j)
    BY <1>5 DEF PostCall
  <2> QED BY <2>1, <2>2
<1>6. ASSUME NEW w \in Watchers, WatcherStep(w)
      PROVE  Control'
  <2>1. CASE Poll(w) \/ NoChange(w) \/ EndWatcher(w)
    BY <2>1, ThreadsAssumption DEF Poll, NoChange, EndWatcher, MoveWatcher, Outside
  <2>2. CASE \E j \in Jobs : FindChange(w, j)
    BY <2>2, ThreadsAssumption, ConstantsAssumption
    DEF FindChange, MoveWatcher, Outside, EnterRegister
  <2>3. CASE PostChange(w)
    BY <2>3, ThreadsAssumption DEF PostChange, MoveWatcher, Outside
  <2>4. CASE SeeStopFlag(w)
    BY <2>4, ThreadsAssumption
    DEF SeeStopFlag, MoveWatcher, Outside, EnterWithdraw
  <2> QED BY <1>1, <1>6, <2>1, <2>2, <2>3, <2>4 DEF WatcherStep
<1>7. CASE LoopStep
  <2>1. CASE StartScript
    BY <2>1 DEF StartScript
  <2>2. CASE LaunchWorker \/ LaunchWatcher
    BY <2>2, ThreadsAssumption, ConstantsAssumption
    DEF LaunchWorker, LaunchWatcher, Outside
  <2>3. CASE FetchMessage
    BY <2>3, HeadTailProperties DEF FetchMessage
  <2>4. CASE BuildMessage
    BY <2>4 DEF BuildMessage
  <2>5. CASE RunCallback
    BY <2>5 DEF RunCallback
  <2>6. CASE FinishCallback
    BY <2>6, ThreadsAssumption
    DEF FinishCallback, EnterWithdraw, InJS, Outside
  <2>7. CASE EndScript \/ Shutdown \/ RunAgain \/ RunReturns
             \/ DrainDone \/ RemoveDone \/ CallbacksDone
    BY <2>7 DEF EndScript, Shutdown, RunAgain, RunReturns, DrainDone,
       RemoveDone, CallbacksDone, Jump, InJS, Outside
  <2> QED
    BY <1>1, <1>7, <2>1, <2>2, <2>3, <2>4, <2>5, <2>6, <2>7 DEF LoopStep
<1> QED
  BY <1>2, <1>3, <1>4, <1>5, <1>6, <1>7 DEF Next, Exited, CallRuntime

\* TypeOK holds in every reachable state, for all values of the constants.
THEOREM TypeCorrect == Spec => []TypeOK
BY TypeInit, TypeNext, ControlNext, PTL DEF Spec

-----------------------------------------------------------------------------
(* Job objects have one holder.                                            *)

\* The holders of jobs as six disjoint sets.
Apart(S, W, D, M, B, C) ==
  /\ S \cap (W \cup D \cup M) = {}
  /\ W \cap (D \cup M) = {}
  /\ D \cap M = {}
  /\ B \cap (S \cup W \cup D \cup M) = {}
  /\ C \cap (S \cup W \cup D \cup M \cup B) = {}

DraftsDistinct ==
  \A w, v \in Watchers : draft[w] = draft[v] => w = v \/ draft[w] = Nothing

Held == Starting \cup workers \cup Drafted \cup Range(mQu) \cup Building
          \cup Range(callbackQueue)

\* JobsConserved in these terms, in a state and in its successor.
LEMMA Conserved ==
  ASSUME JobsConserved
  PROVE  /\ Allocated = Held
         /\ IsInjective(mQu) /\ IsInjective(callbackQueue) /\ DraftsDistinct
         /\ Apart(Starting, workers, Drafted, Range(mQu), Building,
                  Range(callbackQueue))
BY DEF JobsConserved, Apart, Held, DraftsDistinct

LEMMA ConservedNext ==
  ASSUME Allocated' = Held',
         IsInjective(mQu'), IsInjective(callbackQueue'), DraftsDistinct',
         Apart(Starting', workers', Drafted', Range(mQu'), Building',
               Range(callbackQueue'))
  PROVE  JobsConserved'
BY DEF JobsConserved, Apart, Held, DraftsDistinct

\* Adding, moving or removing an element keeps disjoint sets disjoint.
LEMMA ApartMoves ==
  ASSUME NEW S, NEW W, NEW D, NEW M, NEW B, NEW C, NEW j,
         Apart(S, W, D, M, B, C)
  PROVE  /\ j \notin S \cup W \cup D \cup M \cup B \cup C =>
              /\ Apart(S \cup {j}, W, D, M, B, C)
              /\ Apart(S, W, D \cup {j}, M, B, C)
         /\ S = {j} => Apart({}, W \cup {j}, D, M, B, C)
         /\ j \in W => Apart(S, W \ {j}, D, M, B, C \cup {j})
         /\ j \in D => Apart(S, W, D \ {j}, M \cup {j}, B, C)
         /\ j \in M /\ B = {} => Apart(S, W, D, M \ {j}, {j}, C)
         /\ B = {j} => Apart(S, W, D, M, {}, C \cup {j})
         /\ Apart(S, W, D, M, B, C \ {j})
BY DEF Apart

\* A step that leaves every job with its holder.
LEMMA SameHolders ==
  ASSUME JobsConserved, UNCHANGED <<kind, workers, mQu, callbackQueue, draft>>,
         Starting' = Starting, Building' = Building
  PROVE  JobsConserved'
<1>1. Allocated' = Allocated /\ Drafted' = Drafted
  BY DEF Allocated, Drafted
<1> QED BY <1>1 DEF JobsConserved

\* The calls of scripts and callbacks.
LEMMA CallHolders ==
  ASSUME TypeOK, Control, JobsConserved, CallRuntime
  PROVE  JobsConserved'
<1>1. ASSUME NEW j \in Jobs, CallAsync(j)
      PROVE  JobsConserved'
  <2>1. j \notin Allocated /\ Allocated' = Allocated \cup {j}
    BY <1>1 DEF CallAsync, Allocated, TypeOK
  <2>2. Starting = {} /\ Starting' = {j}
    BY <1>1, ConstantsAssumption DEF CallAsync, InJS, Starting
  <2>3. /\ Drafted' = Drafted /\ Building' = Building /\ DraftsDistinct'
        /\ UNCHANGED <<workers, mQu, callbackQueue>>
    BY <1>1, Conserved
    DEF CallAsync, Drafted, Building, DraftsDistinct, watchVars
  <2>4. j \notin Held /\ Held' = Held \cup {j}
    BY <2>1, <2>2, <2>3, Conserved DEF Held
  <2>5. Apart({j}, workers, Drafted, Range(mQu), Building,
              Range(callbackQueue))
    <3>1. Apart(Starting \cup {j}, workers, Drafted, Range(mQu), Building,
                Range(callbackQueue))
      BY <2>4, Conserved, ApartMoves DEF Held
    <3>2. Starting \cup {j} = {j}
      BY <2>2
    <3> QED BY <3>1, <3>2
  <2> QED
    BY <2>1, <2>2, <2>3, <2>4, <2>5, Conserved, ConservedNext
<1>2. ASSUME NEW w \in Watchers, WatchFile(w) \/ SetStopFlag(w)
      PROVE  JobsConserved'
  <2>1. /\ UNCHANGED <<kind, workers, mQu, callbackQueue, draft>>
        /\ Building' = Building
    BY <1>2 DEF WatchFile, SetStopFlag, queueVars, loopVars, Building
  <2>2. Starting' = Starting
    BY <1>2, ConstantsAssumption
    DEF WatchFile, SetStopFlag, loopVars, Starting, InJS, Threads
  <2> QED BY <2>1, <2>2, SameHolders
<1> QED BY <1>1, <1>2 DEF CallRuntime

LEMMA PostCallHolders ==
  ASSUME TypeOK, Control, JobsConserved, NEW j \in Jobs, PostCall(j)
  PROVE  JobsConserved'
<1>1. j \in workers /\ workers' = workers \ {j}
  BY DEF PostCall
<1>2. j \notin Range(callbackQueue)
  BY <1>1, Conserved DEF Apart
<1>3. /\ Range(callbackQueue') = Range(callbackQueue) \cup {j}
      /\ IsInjective(callbackQueue')
  BY <1>2, Push, Conserved DEF PostCall, TypeOK
<1>4. /\ Allocated' = Allocated /\ Drafted' = Drafted
      /\ Building' = Building /\ Starting' = Starting /\ DraftsDistinct'
      /\ UNCHANGED mQu
  BY Conserved
  DEF PostCall, Allocated, Drafted, Building, Starting, DraftsDistinct,
      loopVars, watchVars
<1>5. Held' = Held
  BY <1>1, <1>3, <1>4 DEF Held
<1>6. Apart(Starting, workers \ {j}, Drafted, Range(mQu), Building,
            Range(callbackQueue) \cup {j})
  BY <1>1, Conserved, ApartMoves
<1> QED BY <1>1, <1>3, <1>4, <1>5, <1>6, Conserved, ConservedNext

\* A watcher holds its job from cpyJob until it posts the message.
LEMMA WatcherHolders ==
  ASSUME TypeOK, Control, JobsConserved, NEW w \in Watchers, WatcherStep(w)
  PROVE  JobsConserved'
<1>1. CASE Poll(w) \/ NoChange(w) \/ SeeStopFlag(w) \/ EndWatcher(w)
           \/ UpdateCount(w)
  <2>1. /\ UNCHANGED <<kind, workers, mQu, callbackQueue, draft>>
        /\ Building' = Building /\ Starting' = Starting
    BY <1>1 DEF Poll, NoChange, SeeStopFlag, EndWatcher, UpdateCount,
       queueVars, loopVars, watchVars, Building, Starting
  <2> QED BY <2>1, SameHolders
<1>2. ASSUME NEW j \in Jobs, FindChange(w, j)
      PROVE  JobsConserved'
  <2>1. j \notin Allocated /\ Allocated' = Allocated \cup {j}
    BY <1>2 DEF FindChange, Allocated, TypeOK
  <2>2. j \notin Held
    BY <2>1, Conserved
  <2>3. draft[w] = Nothing /\ draft' = [draft EXCEPT ![w] = j]
    BY <1>2 DEF FindChange, MoveWatcher, Control
  <2>4. Drafted' = Drafted \cup {j}
    BY <2>3, ConstantsAssumption DEF Drafted, TypeOK
  <2>5. DraftsDistinct'
    <3>1. \A v \in Watchers : draft[v] # j
      BY <2>2 DEF Held, Drafted
    <3> QED BY <2>3, <3>1, Conserved DEF DraftsDistinct, TypeOK
  <2>6. /\ Building' = Building /\ Starting' = Starting
        /\ UNCHANGED <<workers, mQu, callbackQueue>>
    BY <1>2 DEF FindChange, Building, Starting, loopVars
  <2>7. Held' = Held \cup {j}
    BY <2>4, <2>6 DEF Held
  <2>8. Apart(Starting, workers, Drafted \cup {j}, Range(mQu), Building,
              Range(callbackQueue))
    BY <2>2, Conserved, ApartMoves DEF Held
  <2> QED
    BY <2>1, <2>4, <2>5, <2>6, <2>7, <2>8, Conserved, ConservedNext
<1>3. CASE PostChange(w)
  <2> DEFINE j == draft[w]
  <2>1. j \in Jobs /\ j \in Drafted
    BY <1>3 DEF PostChange, MoveWatcher, Control, TypeOK, Drafted
  <2>2. draft' = [draft EXCEPT ![w] = Nothing]
    BY <1>3 DEF PostChange
  <2>3. Drafted' = Drafted \ {j}
    BY <2>1, <2>2, Conserved, ConstantsAssumption
    DEF Drafted, DraftsDistinct, TypeOK
  <2>4. DraftsDistinct'
    BY <2>2, Conserved DEF DraftsDistinct, TypeOK
  <2>5. j \notin Range(mQu)
    BY <2>1, Conserved DEF Apart
  <2>6. Range(mQu') = Range(mQu) \cup {j} /\ IsInjective(mQu')
    BY <1>3, <2>1, <2>5, Push, Conserved DEF PostChange, TypeOK
  <2>7. /\ Building' = Building /\ Starting' = Starting
        /\ Allocated' = Allocated
        /\ UNCHANGED <<workers, callbackQueue>>
    BY <1>3 DEF PostChange, Building, Starting, Allocated, loopVars
  <2> HIDE DEF j
  <2>8. Held' = Held
    BY <2>1, <2>3, <2>6, <2>7 DEF Held
  <2>9. Apart(Starting, workers, Drafted \ {j}, Range(mQu) \cup {j}, Building,
              Range(callbackQueue))
    BY <2>1, Conserved, ApartMoves
  <2> QED
    BY <2>3, <2>4, <2>6, <2>7, <2>8, <2>9, Conserved, ConservedNext
<1> QED BY <1>1, <1>2, <1>3 DEF WatcherStep

\* The loop thread passes jobs on, and deletes the one whose callback ran.
LEMMA LoopHolders ==
  ASSUME TypeOK, Control, JobsConserved, LoopStep
  PROVE  JobsConserved'
<1>1. CASE StartScript \/ EndScript \/ Shutdown \/ LaunchWatcher \/ RunAgain
           \/ RunReturns \/ DrainDone \/ RunCallback \/ RemoveDone
           \/ CallbacksDone \/ UpdateCount(Loop)
  <2>1. /\ UNCHANGED <<kind, workers, mQu, callbackQueue, draft>>
        /\ Building' = Building
    BY <1>1 DEF StartScript, EndScript, Shutdown, LaunchWatcher, RunAgain,
       RunReturns, DrainDone, RunCallback, RemoveDone, CallbacksDone,
       UpdateCount, Jump, queueVars, loopVars, watchVars, Building
  <2>2. Starting' = Starting
    BY <1>1, ConstantsAssumption
    DEF StartScript, EndScript, Shutdown, LaunchWatcher, RunAgain,
       RunReturns, DrainDone, RunCallback, RemoveDone, CallbacksDone,
       UpdateCount, Jump, loopVars, Starting, Threads
  <2> QED BY <2>1, <2>2, SameHolders
<1>2. CASE LaunchWorker
  <2>1. /\ Starting = {starting} /\ Starting' = {}
        /\ workers' = workers \cup {starting}
    BY <1>2, ConstantsAssumption DEF LaunchWorker, Starting
  <2>2. /\ Building' = Building /\ Drafted' = Drafted
        /\ Allocated' = Allocated /\ DraftsDistinct'
        /\ UNCHANGED <<mQu, callbackQueue>>
    BY <1>2, Conserved
    DEF LaunchWorker, Building, Drafted, Allocated, DraftsDistinct, watchVars
  <2>3. Held' = Held
    BY <2>1, <2>2 DEF Held
  <2>4. Apart({}, workers \cup {starting}, Drafted, Range(mQu), Building,
              Range(callbackQueue))
    BY <2>1, Conserved, ApartMoves
  <2> QED BY <2>1, <2>2, <2>3, <2>4, Conserved, ConservedNext
<1>3. CASE FetchMessage
  <2>1. Building = {} /\ Building' = {Head(mQu)}
    BY <1>3 DEF FetchMessage, Building
  <2>2. /\ Head(mQu) \in Range(mQu)
        /\ Range(mQu') = Range(mQu) \ {Head(mQu)}
        /\ IsInjective(mQu')
    BY <1>3, Front, Pop, Conserved DEF FetchMessage, TypeOK
  <2>3. /\ Starting' = Starting /\ Drafted' = Drafted
        /\ Allocated' = Allocated /\ DraftsDistinct'
        /\ UNCHANGED <<workers, callbackQueue>>
    BY <1>3, Conserved
    DEF FetchMessage, Starting, Drafted, Allocated, DraftsDistinct, watchVars
  <2>4. Held' = Held
    BY <2>1, <2>2, <2>3 DEF Held
  <2>5. Apart(Starting, workers, Drafted, Range(mQu) \ {Head(mQu)},
              {Head(mQu)}, Range(callbackQueue))
    BY <2>1, <2>2, Conserved, ApartMoves
  <2> QED BY <2>1, <2>2, <2>3, <2>4, <2>5, Conserved, ConservedNext
<1>4. CASE BuildMessage
  <2>1. Building = {current} /\ Building' = {} /\ current \in Jobs
    BY <1>4 DEF BuildMessage, Building, Control
  <2>2. current \notin Range(callbackQueue)
    BY <2>1, Conserved DEF Apart
  <2>3. /\ Range(callbackQueue') = Range(callbackQueue) \cup {current}
        /\ IsInjective(callbackQueue')
    BY <1>4, <2>1, <2>2, Push, Conserved DEF BuildMessage, TypeOK
  <2>4. /\ Starting' = Starting /\ Drafted' = Drafted
        /\ Allocated' = Allocated /\ DraftsDistinct'
        /\ UNCHANGED <<workers, mQu>>
    BY <1>4, Conserved
    DEF BuildMessage, Starting, Drafted, Allocated, DraftsDistinct, watchVars
  <2>5. Held' = Held
    BY <2>1, <2>3, <2>4 DEF Held
  <2>6. Apart(Starting, workers, Drafted, Range(mQu), {},
              Range(callbackQueue) \cup {current})
    BY <2>1, Conserved, ApartMoves
  <2> QED BY <2>1, <2>3, <2>4, <2>5, <2>6, Conserved, ConservedNext
<1>5. CASE FinishCallback
  <2>1. callbackQueue # <<>> /\ current = Head(callbackQueue)
    BY <1>5 DEF FinishCallback, Control
  <2>2. /\ current \in Range(callbackQueue) /\ current \in Jobs
        /\ Range(callbackQueue') = Range(callbackQueue) \ {current}
        /\ IsInjective(callbackQueue')
    BY <1>5, <2>1, Front, Pop, Conserved DEF FinishCallback, TypeOK
  <2>3. Allocated' = Allocated \ {current}
    BY <1>5, <2>2 DEF FinishCallback, Allocated, TypeOK
  <2>4. /\ Starting' = Starting /\ Drafted' = Drafted /\ DraftsDistinct'
        /\ Building' = {} /\ Building = {}
        /\ UNCHANGED <<workers, mQu>>
    BY <1>5, Conserved
    DEF FinishCallback, Starting, Drafted, Building, DraftsDistinct, watchVars
  <2>5. Held' = Held \ {current}
    BY <2>2, <2>4, Conserved DEF Held, Apart
  <2>6. Apart(Starting, workers, Drafted, Range(mQu), Building,
              Range(callbackQueue) \ {current})
    BY Conserved, ApartMoves
  <2> QED BY <2>2, <2>3, <2>4, <2>5, <2>6, Conserved, ConservedNext
<1> QED BY <1>1, <1>2, <1>3, <1>4, <1>5 DEF LoopStep

LEMMA HoldersInit == Init => JobsConserved
<1> SUFFICES ASSUME Init PROVE JobsConserved
  OBVIOUS
<1>1. Allocated = {} /\ Starting = {} /\ Drafted = {} /\ Building = {}
  BY ConstantsAssumption DEF Init, Allocated, Starting, Drafted, Building
<1> QED BY <1>1, EmptyQueue DEF Init, JobsConserved

LEMMA HoldersNext ==
  ASSUME TypeOK, Control, JobsConserved, [Next]_vars
  PROVE  JobsConserved'
<1>1. CASE UNCHANGED vars
  BY <1>1, SameHolders
  DEF vars, queueVars, loopVars, watchVars, Starting, Building
<1> QED
  BY <1>1, CallHolders, PostCallHolders, WatcherHolders, LoopHolders
  DEF Next, Exited

\* No interleaving of watchers, workers and the loop thread loses a job or
\* gives it two holders.
THEOREM Conservation == Spec => []JobsConserved
<1>1. Init => TypeOK /\ Control /\ JobsConserved
  BY TypeInit, HoldersInit
<1>2. TypeOK /\ Control /\ JobsConserved /\ [Next]_vars
        => (TypeOK /\ Control /\ JobsConserved)'
  BY TypeNext, ControlNext, HoldersNext
<1> QED BY <1>1, <1>2, PTL DEF Spec
-----------------------------------------------------------------------------
(* Late changes.                                                           *)

\* A watcher that has posted a change since its flag was set is past the loop
\* body, and cannot enter it again before watchFile starts a new watcher.
LateIsLast ==
  \A w \in Watchers :
    late[w] # 0 => /\ late[w] = 1 /\ stopFlag[w]
                   /\ watch[w] \in {"poll", "withdraw", "none"}

LEMMA LateNext ==
  ASSUME TypeOK, LateIsLast, [Next]_vars
  PROVE  LateIsLast'
<1> USE DEF LateIsLast, TypeOK
<1>1. CASE UNCHANGED <<watch, stopFlag, late>>
  BY <1>1
<1>2. ASSUME NEW w \in Watchers, WatchFile(w) \/ SetStopFlag(w)
      PROVE  LateIsLast'
  BY <1>2 DEF WatchFile, SetStopFlag
<1>3. CASE LaunchWatcher
  BY <1>3 DEF LaunchWatcher
<1>4. ASSUME NEW w \in Watchers, WatcherStep(w)
      PROVE  LateIsLast'
  <2>1. CASE Poll(w) \/ NoChange(w) \/ SeeStopFlag(w) \/ EndWatcher(w)
    BY <2>1 DEF Poll, NoChange, SeeStopFlag, EndWatcher, MoveWatcher
  <2>2. CASE \E j \in Jobs : FindChange(w, j)
    BY <2>2 DEF FindChange, MoveWatcher
  <2>3. CASE PostChange(w)
    <3>1. late[w] = 0
      BY <2>3 DEF PostChange, MoveWatcher
    <3> QED BY <2>3, <3>1 DEF PostChange, MoveWatcher
  <2>4. CASE UpdateCount(w)
    BY <2>4, <1>1 DEF UpdateCount, watchVars
  <2> QED BY <1>4, <2>1, <2>2, <2>3, <2>4 DEF WatcherStep
<1>5. CASE \E j \in Jobs : CallAsync(j) \/ PostCall(j)
  BY <1>5, <1>1 DEF CallAsync, PostCall, watchVars
<1>6. CASE LoopStep /\ ~LaunchWatcher
  BY <1>6, <1>1
  DEF LoopStep, StartScript, EndScript, Shutdown, LaunchWorker, RunAgain,
      RunReturns, FetchMessage, BuildMessage, DrainDone, RunCallback,
      FinishCallback, RemoveDone, CallbacksDone, UpdateCount, Jump, watchVars
<1> QED
  BY <1>1, <1>2, <1>3, <1>4, <1>5, <1>6
  DEF Next, CallRuntime, Exited, vars, watchVars

\* However often the file changes, and whatever else runs, a watcher posts at
\* most one change after the script has set its flag.
THEOREM LateChanges == Spec => []AtMostOneLateChange
<1>1. Init => LateIsLast
  BY DEF Init, LateIsLast
<1>2. LateIsLast => AtMostOneLateChange
  BY DEF LateIsLast, AtMostOneLateChange
<1>3. TypeOK /\ LateIsLast /\ [Next]_vars => LateIsLast'
  BY LateNext
<1> QED BY <1>1, <1>2, <1>3, TypeCorrect, PTL DEF Spec

-----------------------------------------------------------------------------
(* The counter.                                                            *)

\* At most one thread is in an update, ...
OneUpdate == \A t, u \in Threads : Updating(t) /\ Updating(u) => t = u

\* ... what it has loaded is what it will replace, ...
Fresh ==
  \A t \in Threads :
    step[t] \in {"incStore", "decStore"} => loaded[t] = jobCount

\* ... shouldStop follows jobCount when no thread is about to set it, ...
Settled ==
  (\A t \in Threads : step[t] \notin {"clear", "test", "set"})
    => (shouldStop <=> jobCount = 0)

\* ... and a thread that is about to set it acts on the present count.  Only
\* the loop thread can be about to clear shouldStop while it is set.
Pending ==
  \A t \in Threads :
    /\ step[t] = "clear" => jobCount > 0 /\ (t # Loop => ~shouldStop)
    /\ step[t] \in {"test", "set"} => ~shouldStop
    /\ step[t] = "set" => jobCount = 0

\* Outside Run nothing is registered.
Idle == pc \in {"start", "exited"} => Allocated = {} /\ Watching = {}

\* The inductive invariant.
CountInv ==
  ~Overlapped =>
    /\ OneUpdate /\ Fresh
    /\ jobCount = Cardinality(Counted)
    /\ Settled /\ Pending /\ Idle

Known == TypeOK /\ Control /\ JobsConserved

-----------------------------------------------------------------------------
(* What the steps do to Counted.                                           *)

\* The parts of Counted: which items are being registered, and by whom.
LEMMA CountedParts ==
  ASSUME Known
  PROVE  /\ Allocated \subseteq Jobs /\ Watching \subseteq Watchers
         /\ \A t \in Threads : Entering(t) => Item(t) \in Allocated \cup Watching
         /\ \A t, u \in Threads :
              Entering(t) /\ Entering(u) /\ Item(t) = Item(u) => t = u
         /\ \A t \in Threads : Leaving(t) => t \notin Watching
         /\ Registering \cap Jobs \subseteq Starting \cup Drafted
         /\ Registering \cap Watchers \subseteq {starting}
<1> USE DEF Known
<1>1. Allocated \subseteq Jobs /\ Watching \subseteq Watchers
  BY DEF Allocated, Watching
<1>2. ASSUME NEW w \in Watchers, Entering(w)
      PROVE  Item(w) = draft[w] /\ draft[w] \in Drafted
  BY <1>2, ThreadsAssumption
  DEF Entering, Item, Drafted, Control, IncSteps, TypeOK
<1>3. Entering(Loop) => Item(Loop) = starting /\ starting \in Starting \cup Watchers
  BY DEF Entering, Item, Starting, Control, IncSteps, TypeOK
<1>4. Starting \subseteq Allocated /\ Drafted \subseteq Allocated
  BY Conserved DEF Held
<1>5. starting \in Watchers => starting \in Watching
  BY DEF Watching
<1>6. Starting \cap Drafted = {} /\ Drafted \subseteq Jobs /\ Starting \subseteq Jobs
  BY Conserved DEF Apart, Drafted, Starting
<1>7. \A w \in Watchers : Leaving(w) => w \notin Watching
  BY DEF Leaving, Watching, Control, DecSteps
<1>8. Starting \subseteq {starting}
  BY DEF Starting
<1>9. Jobs \cap Watchers = {} /\ Loop \notin Watchers
  BY ConstantsAssumption, ThreadsAssumption DEF Threads
<1>10. \A w, v \in Watchers :
         Entering(w) /\ Entering(v) /\ Item(w) = Item(v) => w = v
  <2> SUFFICES ASSUME NEW w \in Watchers, NEW v \in Watchers,
                      Entering(w), Entering(v), Item(w) = Item(v)
               PROVE  w = v
    OBVIOUS
  <2>1. draft[w] = draft[v] /\ draft[w] \in Jobs
    BY <1>2, <1>6
  <2> QED BY <2>1, Conserved, ConstantsAssumption DEF DraftsDistinct
<1>11. \A w \in Watchers : Entering(w) /\ Entering(Loop) => Item(w) # Item(Loop)
  BY <1>2, <1>3, <1>6, <1>9
<1>12. \A t \in Threads : Entering(t) => Item(t) \in Allocated \cup Watching
  BY <1>2, <1>3, <1>4, <1>5, <1>6, <1>8 DEF Threads
<1>13. \A t, u \in Threads :
         Entering(t) /\ Entering(u) /\ Item(t) = Item(u) => t = u
  BY <1>10, <1>11 DEF Threads
<1>14. \A t \in Threads : Leaving(t) => t \notin Watching
  BY <1>7, <1>1, <1>9 DEF Threads
<1>15. \A x \in Registering : x \in Drafted \/ x = starting
  BY <1>2, <1>3 DEF Registering, Threads
<1>16. Registering \cap Jobs \subseteq Starting \cup Drafted
  BY <1>15 DEF Starting
<1>17. Registering \cap Watchers \subseteq {starting}
  BY <1>15, <1>6, <1>9
<1> QED BY <1>1, <1>12, <1>13, <1>14, <1>16, <1>17

\* Counted is finite, and its size changes by one with each element.
LEMMA CountedSize ==
  ASSUME TypeOK
  PROVE  /\ IsFiniteSet(Counted)
         /\ Cardinality(Counted) \in Nat
         /\ \A x : x \in Counted => Cardinality(Counted) > 0
         /\ \A x : x \notin Counted =>
              Cardinality(Counted \cup {x}) = Cardinality(Counted) + 1
         /\ \A x : x \in Counted =>
              Cardinality(Counted \ {x}) = Cardinality(Counted) - 1
<1>1. Counted \subseteq Jobs \cup (Watchers \cup {Loop})
  BY DEF Counted, Allocated, Watching, Threads
<1>2. IsFiniteSet(Jobs \cup (Watchers \cup {Loop}))
  BY ConstantsAssumption, FS_Singleton, FS_Union
<1>3. IsFiniteSet(Counted)
  BY <1>1, <1>2, FS_Subset
<1>4. Cardinality(Counted) \in Nat
  BY <1>3, FS_CardinalityType
<1>5. \A x : x \notin Counted =>
        Cardinality(Counted \cup {x}) = Cardinality(Counted) + 1
  BY <1>3, FS_AddElement
<1>6. \A x : x \in Counted =>
        Cardinality(Counted \ {x}) = Cardinality(Counted) - 1
  BY <1>3, FS_RemoveElement
<1>7. \A x : x \in Counted => Cardinality(Counted) > 0
  <2> SUFFICES ASSUME NEW x \in Counted
               PROVE  Cardinality(Counted) > 0
    OBVIOUS
  <2>1. Cardinality(Counted) # 0
    BY <1>3, FS_EmptySet
  <2> QED BY <2>1, <1>4
<1> QED BY <1>3, <1>4, <1>5, <1>6, <1>7

\* A step that moves nothing into or out of the three parts of Counted.
LEMMA CountedStays ==
  ASSUME Allocated' = Allocated, Watching' = Watching,
         \A t \in Threads : /\ Entering(t)' <=> Entering(t)
                            /\ Leaving(t)' <=> Leaving(t)
                            /\ Entering(t) => Item(t)' = Item(t)
  PROVE  Counted' = Counted
<1>1. Registering' = Registering
  BY DEF Registering
<1>2. {t \in Threads : Leaving(t)}' = {t \in Threads : Leaving(t)}
  OBVIOUS
<1> QED BY <1>1, <1>2 DEF Counted

\* A step that begins to register an item that was not there.
LEMMA CountedEnter ==
  ASSUME Known, NEW t \in Threads, NEW x,
         x \notin Allocated \cup Watching, \A u \in Threads : u = x => ~Leaving(u),
         Allocated' \cup Watching' = Allocated \cup Watching \cup {x},
         ~Entering(t), Entering(t)', Item(t)' = x,
         \A u \in Threads \ {t} : /\ Entering(u)' <=> Entering(u)
                                  /\ Item(u)' = Item(u),
         \A u \in Threads : Leaving(u)' <=> Leaving(u)
  PROVE  Counted' = Counted
<1>1. Registering' = Registering \cup {x}
  <2>1. Registering' \subseteq Registering \cup {x}
    BY DEF Registering
  <2>2. Registering \subseteq Registering'
    BY DEF Registering
  <2>3. x \in Registering'
    BY DEF Registering
  <2> QED BY <2>1, <2>2, <2>3
<1>2. {u \in Threads : Leaving(u)}' = {u \in Threads : Leaving(u)}
  OBVIOUS
<1> QED BY <1>1, <1>2 DEF Counted

\* The calls of scripts and callbacks.
LEMMA CountedCall ==
  ASSUME Known, CallRuntime
  PROVE  Counted' = Counted
<1> USE DEF Known
<1>1. ASSUME NEW j \in Jobs, CallAsync(j)
      PROVE  Counted' = Counted
  <2>1. /\ j \notin Allocated /\ Allocated' = Allocated \cup {j}
        /\ Watching' = Watching /\ j \notin Watching /\ j \notin Threads
    BY <1>1, ConstantsAssumption
    DEF CallAsync, Allocated, Watching, TypeOK, InJS, watchVars, Threads
  <2>2. /\ ~Entering(Loop) /\ Entering(Loop)' /\ Item(Loop)' = j
        /\ ~Leaving(Loop) /\ ~Leaving(Loop)'
    BY <1>1
    DEF CallAsync, EnterRegister, InJS, Outside, Entering, Leaving, Item,
        TypeOK, CountTypeOK, Threads
  <2>3. \A u \in Threads \ {Loop} : /\ Entering(u)' <=> Entering(u)
                                    /\ Leaving(u)' <=> Leaving(u)
                                    /\ Item(u)' = Item(u)
    BY <1>1
    DEF CallAsync, EnterRegister, Entering, Leaving, Item, TypeOK,
        CountTypeOK, watchVars
  <2>4. Loop \in Threads
    BY DEF Threads
  <2> QED BY <2>1, <2>2, <2>3, <2>4, CountedEnter
<1>2. ASSUME NEW w \in Watchers, WatchFile(w)
      PROVE  Counted' = Counted
  <2>1. /\ w \notin Allocated /\ w \notin Watching /\ ~Leaving(w)
        /\ Allocated' = Allocated /\ Watching' = Watching \cup {w}
    BY <1>2, ConstantsAssumption
    DEF WatchFile, Allocated, Watching, TypeOK, InJS, queueVars, Threads,
        Leaving, Control, DecSteps
  <2>2. /\ ~Entering(Loop) /\ Entering(Loop)' /\ Item(Loop)' = w
        /\ ~Leaving(Loop) /\ ~Leaving(Loop)'
    BY <1>2
    DEF WatchFile, EnterRegister, InJS, Outside, Entering, Leaving, Item,
        TypeOK, CountTypeOK, Threads
  <2>3. \A u \in Threads \ {Loop} : /\ Entering(u)' <=> Entering(u)
                                    /\ Leaving(u)' <=> Leaving(u)
                                    /\ Item(u)' = Item(u)
    BY <1>2
    DEF WatchFile, EnterRegister, Entering, Leaving, Item, TypeOK, CountTypeOK
  <2>4. Loop \in Threads
    BY DEF Threads
  <2> QED BY <2>1, <2>2, <2>3, <2>4, CountedEnter
<1>3. ASSUME NEW w \in Watchers, SetStopFlag(w)
      PROVE  Counted' = Counted
  <2> USE <1>3 DEF SetStopFlag, queueVars, loopVars
  <2>1. Allocated' = Allocated /\ Watching' = Watching
    BY DEF Allocated, Watching
  <2>2. \A t \in Threads : /\ Entering(t)' <=> Entering(t)
                           /\ Leaving(t)' <=> Leaving(t)
                           /\ Item(t)' = Item(t)
    BY DEF Entering, Leaving, Item
  <2> QED BY <2>1, <2>2, CountedStays
<1> QED BY <1>1, <1>2, <1>3 DEF CallRuntime

\* What a watcher does outside registerJob and withdrawJob.
LEMMA CountedWatcher ==
  ASSUME Known, NEW w \in Watchers, WatcherStep(w), ~UpdateCount(w)
  PROVE  Counted' = Counted
<1> USE DEF Known
<1>1. CASE Poll(w) \/ NoChange(w) \/ EndWatcher(w) \/ PostChange(w)
  <2>1. Outside(w) /\ UNCHANGED <<kind, starting, step>>
    BY <1>1
    DEF Poll, NoChange, EndWatcher, PostChange, MoveWatcher, queueVars, loopVars
  <2>2. /\ watch' = [watch EXCEPT ![w] = watch'[w]]
        /\ watch[w] \in {"poll", "body", "register"}
             <=> watch'[w] \in {"poll", "body", "register"}
    BY <1>1
    DEF Poll, NoChange, EndWatcher, PostChange, MoveWatcher, TypeOK
  <2>3. \A v \in Watchers \ {w} : draft'[v] = draft[v]
    BY <1>1
    DEF Poll, NoChange, EndWatcher, PostChange, TypeOK
  <2>4. Allocated' = Allocated /\ Watching' = Watching
    BY <2>1, <2>2 DEF Allocated, Watching, TypeOK
  <2>5. \A t \in Threads : /\ Entering(t)' <=> Entering(t)
                           /\ Leaving(t)' <=> Leaving(t)
    BY <2>1 DEF Entering, Leaving
  <2>6. \A t \in Threads : Entering(t) => Item(t)' = Item(t)
    BY <2>1, <2>3 DEF Entering, Item, Outside, Threads
  <2> QED BY <2>4, <2>5, <2>6, CountedStays
<1>2. ASSUME NEW j \in Jobs, FindChange(w, j)
      PROVE  Counted' = Counted
  <2>1. /\ j \notin Allocated /\ Allocated' = Allocated \cup {j}
        /\ j \notin Watching /\ j \notin Threads
    BY <1>2, ConstantsAssumption
    DEF FindChange, Allocated, Watching, TypeOK, Threads
  <2>2. Watching' = Watching
    BY <1>2 DEF FindChange, MoveWatcher, Watching, TypeOK, loopVars
  <2>3. /\ ~Entering(w) /\ Entering(w)' /\ Item(w)' = j
        /\ ~Leaving(w) /\ ~Leaving(w)'
    BY <1>2, ThreadsAssumption
    DEF FindChange, MoveWatcher, EnterRegister, Outside, Entering, Leaving,
        Item, TypeOK, CountTypeOK, Threads
  <2>4. \A u \in Threads \ {w} : /\ Entering(u)' <=> Entering(u)
                                 /\ Leaving(u)' <=> Leaving(u)
                                 /\ Item(u)' = Item(u)
    BY <1>2
    DEF FindChange, EnterRegister, Entering, Leaving, Item, TypeOK,
        CountTypeOK, loopVars, Threads
  <2>5. w \in Threads
    BY DEF Threads
  <2> QED BY <2>1, <2>2, <2>3, <2>4, <2>5, CountedEnter
<1>3. CASE SeeStopFlag(w)
  <2>1. Allocated' = Allocated /\ w \in Watching /\ Watching' = Watching \ {w}
    BY <1>3
    DEF SeeStopFlag, MoveWatcher, Allocated, Watching, TypeOK, queueVars,
        loopVars, Control
  <2>2. /\ \A t \in Threads : Entering(t)' <=> Entering(t)
        /\ \A t \in Threads : Item(t)' = Item(t)
        /\ \A t \in Threads : Leaving(t)' <=> Leaving(t) \/ t = w
    BY <1>3
    DEF SeeStopFlag, MoveWatcher, EnterWithdraw, Outside, Entering, Leaving,
        Item, TypeOK, CountTypeOK, loopVars, Threads
  <2>3. Registering' = Registering
    BY <2>2 DEF Registering
  <2>4. w \notin Registering /\ w \in Threads /\ w \notin Allocated
    BY <1>3, CountedParts, ConstantsAssumption
    DEF SeeStopFlag, MoveWatcher, Control, Threads
  <2>5. {t \in Threads : Leaving(t)}' = {t \in Threads : Leaving(t)} \cup {w}
    BY <2>2, <2>4
  <2> QED BY <2>1, <2>3, <2>4, <2>5 DEF Counted
<1> QED BY <1>1, <1>2, <1>3 DEF WatcherStep

\* What the loop thread does outside registerJob and withdrawJob.  removeJob
\* deletes a counted job and, for it, the loop thread begins to count down.
LEMMA CountedLoop ==
  ASSUME Known, LoopStep, ~UpdateCount(Loop)
  PROVE  Cardinality(Counted') = Cardinality(Counted)
<1> USE DEF Known
<1>1. CASE StartScript \/ EndScript \/ Shutdown \/ RunAgain \/ RunReturns
           \/ FetchMessage \/ BuildMessage \/ DrainDone \/ RunCallback
           \/ RemoveDone \/ CallbacksDone
  <2>1. UNCHANGED <<kind, starting, watch, draft, step>>
    BY <1>1
    DEF StartScript, EndScript, Shutdown, RunAgain, RunReturns, FetchMessage,
        BuildMessage, DrainDone, RunCallback, RemoveDone, CallbacksDone, Jump,
        queueVars, watchVars
  <2>2. Counted' = Counted
    BY <2>1, CountedStays
    DEF Allocated, Watching, Entering, Leaving, Item
  <2> QED BY <2>2
<1>2. CASE LaunchWorker \/ LaunchWatcher
  <2>1. Outside(Loop) /\ UNCHANGED <<kind, draft, step>>
    BY <1>2 DEF LaunchWorker, LaunchWatcher, queueVars, watchVars
  <2>2. Allocated' = Allocated
    BY <2>1 DEF Allocated
  <2>3. Watching' = Watching
    <3>1. CASE LaunchWorker
      BY <3>1, ConstantsAssumption
      DEF LaunchWorker, Watching, watchVars, Threads
    <3>2. CASE LaunchWatcher
      BY <3>2, ConstantsAssumption
      DEF LaunchWatcher, Watching, TypeOK, Threads
    <3> QED BY <1>2, <3>1, <3>2
  <2>4. \A t \in Threads : /\ Entering(t)' <=> Entering(t)
                           /\ Leaving(t)' <=> Leaving(t)
    BY <2>1 DEF Entering, Leaving
  <2>5. \A t \in Threads : Entering(t) => Item(t)' = Item(t)
    BY <2>1 DEF Entering, Item, Outside
  <2> QED BY <2>2, <2>3, <2>4, <2>5, CountedStays
<1>3. CASE FinishCallback
  <2>1. /\ current \in Range(callbackQueue) /\ current \in Jobs
        /\ callbackQueue # <<>>
    BY <1>3, Front DEF FinishCallback, Control, TypeOK
  <2>2. Allocated' = Allocated \ {current} /\ current \in Allocated
    BY <1>3, <2>1, Conserved DEF FinishCallback, Allocated, TypeOK, Held
  <2>3. /\ UNCHANGED <<starting, watch, draft>>
        /\ step' = [step EXCEPT ![Loop] = "decLoad"]
        /\ step[Loop] = "outside" /\ Loop \in Threads
    BY <1>3
    DEF FinishCallback, EnterWithdraw, InJS, Outside, watchVars, Threads
  <2>4. /\ \A t \in Threads : /\ Entering(t)' <=> Entering(t)
                              /\ Item(t)' = Item(t)
        /\ \A t \in Threads : Leaving(t)' <=> Leaving(t) \/ t = Loop
        /\ ~Leaving(Loop)
    BY <2>3 DEF Entering, Leaving, Item, TypeOK, CountTypeOK
  <2>5. Watching' = Watching /\ Registering' = Registering
    BY <2>3, <2>4 DEF Watching, Registering
  <2>6. {t \in Threads : Leaving(t)}' = {t \in Threads : Leaving(t)} \cup {Loop}
    BY <2>3, <2>4
  <2>7. /\ current \notin Registering /\ current \notin Watching
        /\ current \notin Threads
    BY <2>1, CountedParts, Conserved, ConstantsAssumption DEF Apart, Threads
  <2>8. Loop \notin Allocated /\ Loop \notin Watching /\ Loop \notin Registering
    <3>1. Loop \notin Allocated /\ Loop \notin Watching
      BY <2>3, CountedParts, ConstantsAssumption, ThreadsAssumption
    <3>2. \A t \in Threads : Entering(t) => Item(t) # Loop
      BY <3>1, CountedParts
    <3> QED BY <3>1, <3>2 DEF Registering
  <2>9. /\ current \in Counted /\ Loop \notin Counted
        /\ Counted' = (Counted \cup {Loop}) \ {current}
    BY <2>2, <2>4, <2>5, <2>6, <2>7, <2>8 DEF Counted
  <2> DEFINE C == Counted
  <2>10. IsFiniteSet(C) /\ Cardinality(C) \in Nat
    BY CountedSize
  <2>11. current \in C /\ Loop \notin C /\ Counted' = (C \cup {Loop}) \ {current}
    BY <2>9
  <2> HIDE DEF C
  <2>12. /\ IsFiniteSet(C \cup {Loop})
         /\ Cardinality(C \cup {Loop}) = Cardinality(C) + 1
    BY <2>10, <2>11, FS_AddElement
  <2>13. current \in C \cup {Loop}
    BY <2>11
  <2>14. Cardinality((C \cup {Loop}) \ {current})
           = Cardinality(C \cup {Loop}) - 1
    BY <2>12, <2>13, FS_RemoveElement
  <2>15. Cardinality((C \cup {Loop}) \ {current}) = Cardinality(C)
    BY <2>10, <2>12, <2>14
  <2> QED BY <2>11, <2>15 DEF C
<1> QED BY <1>1, <1>2, <1>3 DEF LoopStep

\* The store of jobCount++ counts the item that is registered.
LEMMA CountedIncrement ==
  ASSUME Known, NEW t \in Threads, step[t] = "incStore",
         step' = [step EXCEPT ![t] = "clear"],
         UNCHANGED <<queueVars, loopVars, watchVars>>
  PROVE  Cardinality(Counted') = Cardinality(Counted) + 1
<1> USE DEF Known
<1>1. /\ \A u \in Threads : Entering(u)' <=> Entering(u) /\ u # t
      /\ \A u \in Threads : Leaving(u)' <=> Leaving(u)
      /\ \A u \in Threads : Item(u)' = Item(u)
      /\ Entering(t)
  BY DEF Entering, Leaving, Item, TypeOK, CountTypeOK, loopVars, watchVars
<1>2. Allocated' = Allocated /\ Watching' = Watching
  BY DEF Allocated, Watching, queueVars, loopVars, watchVars
<1>3. Item(t) \in Allocated \cup Watching /\ Item(t) \in Registering
  BY <1>1, CountedParts DEF Registering
<1>4. Registering' = Registering \ {Item(t)}
  <2>1. \A u \in Threads : Entering(u) /\ u # t => Item(u) # Item(t)
    BY <1>1, CountedParts
  <2> QED BY <1>1, <2>1 DEF Registering
<1>5. \A u \in Threads : Leaving(u) => u # Item(t)
  BY <1>3, CountedParts, ConstantsAssumption
<1>6. {u \in Threads : Leaving(u)}' = {u \in Threads : Leaving(u)}
  BY <1>1
<1>7. Item(t) \notin Counted /\ Counted' = Counted \cup {Item(t)}
  BY <1>2, <1>3, <1>4, <1>5, <1>6 DEF Counted
<1> QED BY <1>7, CountedSize

\* The store of jobCount-- no longer counts the thread.
LEMMA CountedDecrement ==
  ASSUME Known, NEW t \in Threads, step[t] = "decStore",
         step' = [step EXCEPT ![t] = "test"],
         UNCHANGED <<queueVars, loopVars, watchVars>>
  PROVE  Cardinality(Counted') = Cardinality(Counted) - 1
<1> USE DEF Known
<1>1. /\ \A u \in Threads : Entering(u)' <=> Entering(u)
      /\ \A u \in Threads : Leaving(u)' <=> Leaving(u) /\ u # t
      /\ \A u \in Threads : Item(u)' = Item(u)
      /\ Leaving(t)
  BY DEF Entering, Leaving, Item, TypeOK, CountTypeOK, loopVars, watchVars
<1>2. Allocated' = Allocated /\ Watching' = Watching /\ Registering' = Registering
  BY <1>1
  DEF Allocated, Watching, Registering, queueVars, loopVars, watchVars
<1>3. t \notin Allocated \cup Watching
  BY <1>1, CountedParts, ConstantsAssumption
<1>4. {u \in Threads : Leaving(u)}' = {u \in Threads : Leaving(u)} \ {t}
  BY <1>1
<1>5. t \in Counted /\ Counted' = Counted \ {t}
  BY <1>1, <1>2, <1>3, <1>4 DEF Counted
<1> QED BY <1>5, CountedSize

\* The other loads and stores leave Counted alone.
LEMMA CountedOther ==
  ASSUME Known, NEW t \in Threads, NEW from, NEW to, step[t] = from,
         step' = [step EXCEPT ![t] = to],
         from \in {"incLoad", "incStore"} <=> to \in {"incLoad", "incStore"},
         from \in {"decLoad", "decStore"} <=> to \in {"decLoad", "decStore"},
         UNCHANGED <<queueVars, loopVars, watchVars>>
  PROVE  Counted' = Counted
<1>1. Allocated' = Allocated /\ Watching' = Watching
  BY DEF Allocated, Watching, queueVars, loopVars, watchVars
<1>2. \A u \in Threads : /\ Entering(u)' <=> Entering(u)
                         /\ Leaving(u)' <=> Leaving(u)
  BY DEF Entering, Leaving, Known, TypeOK, CountTypeOK
<1>3. \A u \in Threads : Item(u)' = Item(u)
  BY DEF Item, loopVars, watchVars
<1> QED BY <1>1, <1>2, <1>3, CountedStays

-----------------------------------------------------------------------------
(* The invariant.                                                          *)

\* No thread moves within registerJob or withdrawJob; it may call them.
Moves ==
  \A t \in Threads :
    \/ step'[t] = step[t]
    \/ step[t] = "outside" /\ step'[t] \in {"incLoad", "decLoad"}

\* A step outside registerJob and withdrawJob.
LEMMA Quiet ==
  ASSUME CountInv, UNCHANGED countVars,
         Cardinality(Counted') = Cardinality(Counted),
         Moves, ~Overlapped' => Idle'
  PROVE  CountInv'
<1> SUFFICES ASSUME ~Overlapped'
             PROVE  (OneUpdate /\ Fresh /\ jobCount = Cardinality(Counted)
                       /\ Settled /\ Pending /\ Idle)'
  BY DEF CountInv
<1>1. /\ OneUpdate /\ Fresh /\ jobCount = Cardinality(Counted)
      /\ Settled /\ Pending
  BY DEF CountInv, Overlapped, countVars
<1>2. \A t \in Threads :
        \A p \in {"incStore", "clear", "decStore", "test", "set"} :
          step'[t] = p <=> step[t] = p
  BY DEF Moves
<1>3. OneUpdate'
  BY <1>1, <1>2 DEF OneUpdate, Updating
<1>4. Fresh'
  BY <1>1, <1>2 DEF Fresh, countVars
<1>5. Settled'
  BY <1>1, <1>2 DEF Settled, countVars
<1>6. Pending'
  BY <1>1, <1>2 DEF Pending, countVars
<1> QED BY <1>1, <1>3, <1>4, <1>5, <1>6 DEF countVars

\* Nothing is registered when Run finds shouldStop set.
LEMMA ReturnsIdle ==
  ASSUME Known, CountInv, ~Overlapped, pc = "check", shouldStop
  PROVE  Allocated = {} /\ Watching = {}
<1> USE DEF Known
<1>1. starting = Nothing /\ ~Updating(Loop) /\ ~Entering(Loop)
  BY DEF Control, Updating, Entering, IncSteps, DecSteps
<1>2. \A t \in Threads : step[t] \notin {"clear", "test", "set"}
  BY <1>1 DEF CountInv, Pending, Updating
<1>3. Cardinality(Counted) = 0
  BY <1>2 DEF CountInv, Settled
<1>4. Counted = {}
  BY <1>3, CountedSize, FS_EmptySet
<1>5. Watching = {}
  <2>1. Registering \cap Watchers = {}
    BY <1>1, CountedParts, ConstantsAssumption DEF Threads
  <2> QED BY <1>4, <2>1, CountedParts DEF Counted
<1>6. \A w \in Watchers : ~Entering(w)
  BY <1>5 DEF Watching, Entering, Control, IncSteps
<1>7. Registering = {}
  BY <1>1, <1>6 DEF Registering, Threads
<1> QED BY <1>4, <1>5, <1>7 DEF Counted

\* Outside Run, no thread adds work.
LEMMA IdleNext ==
  ASSUME Known, CountInv, ~Overlapped, [Next]_vars
  PROVE  Idle'
<1> USE DEF Known
<1>1. CASE pc' \notin {"start", "exited"}
  BY <1>1 DEF Idle
<1>2. CASE pc \in {"start", "exited"}
  <2>1. Allocated = {} /\ Watching = {} /\ starting = Nothing
    BY <1>2 DEF CountInv, Idle, Control
  <2>2. \A w \in Watchers : watch[w] \in {"none", "withdraw"}
    BY <2>1 DEF Watching, TypeOK, WatchPoints
  <2> DEFINE NoWork ==
               /\ kind' = kind /\ starting' = starting
               /\ \A w \in Watchers : watch'[w] \in {"none", "withdraw"}
  <2>3. NoWork
    <3>1. CASE CallRuntime
      BY <1>2, <3>1 DEF CallRuntime, CallAsync, WatchFile, SetStopFlag, InJS
    <3>2. ASSUME NEW j \in Jobs, PostCall(j)
          PROVE  NoWork
      BY <2>2, <3>2 DEF PostCall, loopVars, watchVars
    <3>3. ASSUME NEW w \in Watchers, WatcherStep(w)
          PROVE  NoWork
      BY <2>2, <3>3
      DEF WatcherStep, Poll, NoChange, FindChange, PostChange, SeeStopFlag,
          EndWatcher, MoveWatcher, UpdateCount, queueVars, loopVars,
          watchVars, TypeOK
    <3>4. CASE LoopStep
      BY <1>2, <2>1, <2>2, <3>4, ConstantsAssumption
      DEF LoopStep, StartScript, EndScript, Shutdown, LaunchWorker,
          LaunchWatcher, RunAgain, RunReturns, FetchMessage, BuildMessage,
          DrainDone, RunCallback, FinishCallback, RemoveDone, CallbacksDone,
          UpdateCount, Jump, queueVars, loopVars, watchVars, Threads
    <3>5. CASE UNCHANGED vars
      BY <2>2, <3>5 DEF vars, queueVars, loopVars, watchVars
    <3> QED BY <3>1, <3>2, <3>3, <3>4, <3>5 DEF Next, Exited
  <2> QED
    BY <2>1, <2>3, ConstantsAssumption DEF Idle, Allocated, Watching, Threads
<1>3. CASE pc \notin {"start", "exited"} /\ pc' \in {"start", "exited"}
  <2>1. RunReturns
    BY <1>3
    DEF Next, CallRuntime, CallAsync, WatchFile, SetStopFlag, PostCall,
        WatcherStep, Poll, NoChange, FindChange, PostChange, SeeStopFlag,
        EndWatcher, UpdateCount, LoopStep, StartScript, EndScript, Shutdown,
        LaunchWorker, LaunchWatcher, RunAgain, FetchMessage, BuildMessage,
        DrainDone, RunCallback, FinishCallback, RemoveDone, CallbacksDone,
        Jump, Exited, vars, loopVars
  <2>2. Allocated = {} /\ Watching = {}
    BY <2>1, ReturnsIdle DEF RunReturns, Jump
  <2> QED
    BY <2>1, <2>2
    DEF RunReturns, Jump, Idle, Allocated, Watching, queueVars, watchVars
<1> QED BY <1>1, <1>2, <1>3

\* A load or store of jobCount or shouldStop.
LEMMA CountUpdate ==
  ASSUME Known, CountInv, NEW t \in Threads, UpdateCount(t)
  PROVE  CountInv'
<1> SUFFICES ASSUME ~Overlapped'
             PROVE  (OneUpdate /\ Fresh /\ jobCount = Cardinality(Counted)
                       /\ Settled /\ Pending /\ Idle)'
  BY DEF CountInv
<1>0. UNCHANGED <<queueVars, loopVars, watchVars>> /\ CountStep(t)
  BY DEF UpdateCount
<1>1. overlaps' >= overlaps /\ overlaps \in Nat /\ overlaps' \in Nat
  <2>1. overlaps \in Nat
    BY DEF Known, TypeOK, CountTypeOK
  <2>2. ASSUME NEW from, NEW to, Load(t, from, to)
        PROVE  overlaps' = overlaps \/ overlaps' = overlaps + 1
    BY <2>2 DEF Load
  <2>3. ASSUME NEW from, NEW to, NEW change, Store(t, from, to, change)
        PROVE  overlaps' = overlaps
    BY <2>3 DEF Store
  <2>4. overlaps' = overlaps \/ overlaps' = overlaps + 1
    BY <1>0, <2>2, <2>3
    DEF CountStep, RegisterStep, WithdrawStep, TestCount, countVars
  <2> QED BY <2>1, <2>4
<1>2. ~Overlapped
  BY <1>1 DEF Overlapped
<1>3. /\ OneUpdate /\ Fresh /\ jobCount = Cardinality(Counted)
      /\ Settled /\ Pending /\ Idle
  BY <1>2 DEF CountInv
<1>4. Idle'
  BY <1>0, <1>3
  DEF Idle, Allocated, Watching, queueVars, loopVars, watchVars
<1>5. step \in [Threads -> {"outside"} \cup IncSteps \cup DecSteps]
  BY DEF Known, TypeOK, CountTypeOK
<1>6. /\ jobCount \in Int /\ loaded \in [Threads -> Int]
      /\ Cardinality(Counted) \in Nat
  BY CountedSize DEF Known, TypeOK, CountTypeOK
<1>7. CASE \/ Load(t, "incLoad", "incStore")
           \/ Load(t, "decLoad", "decStore")
  <2>1. /\ step[t] \in {"incLoad", "decLoad"}
        /\ step'[t] \in {"incStore", "decStore"}
        /\ \A u \in Threads \ {t} : step'[u] = step[u]
        /\ loaded' = [loaded EXCEPT ![t] = jobCount]
        /\ UNCHANGED <<jobCount, shouldStop>>
    BY <1>5, <1>7 DEF Load
  <2>2. \A u \in Threads \ {t} : ~Updating(u)
    BY <1>1, <1>2, <1>7 DEF Load, Overlapped
  <2>3. \A u \in Threads \ {t} : ~Updating(u)'
    BY <2>1, <2>2 DEF Updating
  <2>4. OneUpdate'
    BY <2>3 DEF OneUpdate
  <2>5. Fresh'
    BY <1>6, <2>1, <2>2 DEF Fresh, Updating
  <2>6. Settled'
    BY <1>3, <2>1, <2>2 DEF Settled, Updating
  <2>7. Pending'
    BY <2>1, <2>3 DEF Pending, Updating
  <2>8. Counted' = Counted
    <3>1. CASE Load(t, "incLoad", "incStore")
      BY <1>0, <3>1, CountedOther DEF Load
    <3>2. CASE Load(t, "decLoad", "decStore")
      BY <1>0, <3>2, CountedOther DEF Load
    <3> QED BY <1>7, <3>1, <3>2
  <2> QED BY <1>3, <1>4, <2>1, <2>4, <2>5, <2>6, <2>7, <2>8
<1>8. ASSUME Updating(t)
      PROVE  \A u \in Threads \ {t} :
               step[u] \notin {"incStore", "clear", "decStore", "test", "set"}
  BY <1>3, <1>8 DEF OneUpdate, Updating
<1>9. CASE Store(t, "incStore", "clear", 1)
  <2>1. /\ step[t] = "incStore" /\ step' = [step EXCEPT ![t] = "clear"]
        /\ loaded[t] = jobCount /\ jobCount' = jobCount + 1
        /\ UNCHANGED <<shouldStop, loaded>>
    BY <1>3, <1>9 DEF Store, Fresh
  <2>2. \A u \in Threads \ {t} :
          step'[u] \notin {"incStore", "clear", "decStore", "test", "set"}
    BY <1>8, <2>1 DEF Updating
  <2>3. step'[t] = "clear"
    BY <1>5, <2>1
  <2>4. OneUpdate'
    BY <2>2 DEF OneUpdate, Updating
  <2>5. Fresh'
    BY <2>2, <2>3 DEF Fresh
  <2>6. Settled'
    BY <2>3 DEF Settled
  <2>7. jobCount' = Cardinality(Counted')
    BY <1>0, <1>3, <2>1, CountedIncrement
  <2>8. t # Loop => ~shouldStop
    <3> SUFFICES ASSUME t # Loop
                 PROVE  ~shouldStop
      OBVIOUS
    <3>1. t \in Watching
      BY <2>1 DEF Known, Control, IncSteps, Watching, Threads
    <3>2. t # starting
      BY <2>1 DEF Known, Control, IncSteps, Threads
    <3>3. t \in Counted
      BY <3>1, <3>2, CountedParts DEF Counted
    <3>4. jobCount # 0
      BY <1>3, <1>6, <3>3, CountedSize DEF Known
    <3>5. \A u \in Threads : step[u] \notin {"clear", "test", "set"}
      BY <1>8, <2>1 DEF Updating
    <3> QED BY <1>3, <3>4, <3>5 DEF Settled
  <2>9. jobCount' > 0
    BY <1>3, <1>6, <2>1
  <2>10. Pending'
    BY <2>1, <2>2, <2>3, <2>8, <2>9 DEF Pending
  <2> QED BY <1>4, <2>4, <2>5, <2>6, <2>7, <2>10
<1>10. CASE Store(t, "decStore", "test", -1)
  <2>1. /\ step[t] = "decStore" /\ step' = [step EXCEPT ![t] = "test"]
        /\ loaded[t] = jobCount /\ jobCount' = jobCount + (-1)
        /\ UNCHANGED <<shouldStop, loaded>>
    BY <1>3, <1>10 DEF Store, Fresh
  <2>2. \A u \in Threads \ {t} :
          step'[u] \notin {"incStore", "clear", "decStore", "test", "set"}
    BY <1>8, <2>1 DEF Updating
  <2>3. step'[t] = "test"
    BY <1>5, <2>1
  <2>4. OneUpdate'
    BY <2>2 DEF OneUpdate, Updating
  <2>5. Fresh'
    BY <2>2, <2>3 DEF Fresh
  <2>6. Settled'
    BY <2>3 DEF Settled
  <2>7. jobCount' = Cardinality(Counted')
    <3>1. Cardinality(Counted') = Cardinality(Counted) - 1
      BY <1>0, <2>1, CountedDecrement
    <3> QED BY <1>3, <1>6, <2>1, <3>1
  <2>8. ~shouldStop
    <3>1. t \in Counted
      BY <2>1 DEF Counted, Leaving
    <3>2. jobCount # 0
      BY <1>3, <1>6, <3>1, CountedSize DEF Known
    <3>3. \A u \in Threads : step[u] \notin {"clear", "test", "set"}
      BY <1>8, <2>1 DEF Updating
    <3> QED BY <1>3, <3>2, <3>3 DEF Settled
  <2>9. Pending'
    BY <2>1, <2>2, <2>3, <2>8 DEF Pending
  <2> QED BY <1>4, <2>4, <2>5, <2>6, <2>7, <2>9
<1>11. ASSUME step[t] \in {"clear", "test", "set"},
              NEW to \in {"outside", "set"},
              step' = [step EXCEPT ![t] = to],
              UNCHANGED <<jobCount, loaded>>
       PROVE  /\ OneUpdate' /\ Fresh' /\ jobCount' = Cardinality(Counted')
              /\ \A u \in Threads \ {t} :
                   step'[u] \notin {"incStore", "clear", "decStore", "test", "set"}
              /\ step'[t] = to
  <2>1. \A u \in Threads \ {t} :
          step'[u] \notin {"incStore", "clear", "decStore", "test", "set"}
    BY <1>8, <1>11 DEF Updating
  <2>2. step'[t] = to
    BY <1>5, <1>11
  <2>3. Counted' = Counted
    BY <1>0, <1>11, CountedOther
  <2>4. OneUpdate'
    BY <2>1 DEF OneUpdate, Updating
  <2>5. Fresh'
    BY <2>1, <2>2 DEF Fresh
  <2> QED BY <1>3, <1>11, <2>1, <2>2, <2>3, <2>4, <2>5
<1>12. CASE /\ step[t] = "clear"
            /\ shouldStop' = FALSE
            /\ step' = [step EXCEPT ![t] = "outside"]
            /\ UNCHANGED <<jobCount, loaded, overlaps>>
  <2>1. /\ OneUpdate' /\ Fresh' /\ jobCount' = Cardinality(Counted')
        /\ \A u \in Threads \ {t} :
             step'[u] \notin {"incStore", "clear", "decStore", "test", "set"}
        /\ step'[t] = "outside"
    BY <1>11, <1>12
  <2>2. jobCount > 0
    BY <1>3, <1>12 DEF Pending
  <2>3. Settled'
    BY <1>6, <1>12, <2>2 DEF Settled
  <2>4. Pending'
    BY <2>1 DEF Pending
  <2> QED BY <1>4, <2>1, <2>3, <2>4
<1>13. CASE TestCount(t)
  <2> DEFINE to == IF jobCount = 0 THEN "set" ELSE "outside"
  <2>1. /\ step[t] = "test" /\ step' = [step EXCEPT ![t] = to]
        /\ to \in {"outside", "set"} /\ (to = "set" => jobCount = 0)
        /\ (jobCount = 0 => to = "set")
        /\ UNCHANGED <<jobCount, shouldStop, loaded>>
    BY <1>13 DEF TestCount, countVars
  <2> HIDE DEF to
  <2>2. /\ OneUpdate' /\ Fresh' /\ jobCount' = Cardinality(Counted')
        /\ \A u \in Threads \ {t} :
             step'[u] \notin {"incStore", "clear", "decStore", "test", "set"}
        /\ step'[t] = to
    BY <1>11, <2>1
  <2>3. ~shouldStop
    BY <1>3, <2>1 DEF Pending
  <2>4. Settled'
    BY <2>1, <2>2, <2>3 DEF Settled
  <2>5. Pending'
    BY <2>1, <2>2, <2>3 DEF Pending
  <2> QED BY <1>4, <2>2, <2>4, <2>5
<1>14. CASE /\ step[t] = "set"
            /\ shouldStop' = TRUE
            /\ step' = [step EXCEPT ![t] = "outside"]
            /\ UNCHANGED <<jobCount, loaded, overlaps>>
  <2>1. /\ OneUpdate' /\ Fresh' /\ jobCount' = Cardinality(Counted')
        /\ \A u \in Threads \ {t} :
             step'[u] \notin {"incStore", "clear", "decStore", "test", "set"}
        /\ step'[t] = "outside"
    BY <1>11, <1>14
  <2>2. jobCount = 0
    BY <1>3, <1>14 DEF Pending
  <2>3. Settled'
    BY <1>14, <2>2 DEF Settled
  <2>4. Pending'
    BY <2>1 DEF Pending
  <2> QED BY <1>4, <2>1, <2>3, <2>4
<1> QED
  BY <1>0, <1>7, <1>9, <1>10, <1>12, <1>13, <1>14
  DEF CountStep, RegisterStep, WithdrawStep

LEMMA CountInvInit == Init => CountInv
<1> SUFFICES ASSUME Init PROVE CountInv
  OBVIOUS
<1>1. /\ \A t \in Threads : step[t] = "outside"
      /\ jobCount = 0 /\ shouldStop = TRUE
  BY DEF Init, CountInit
<1>2. Allocated = {} /\ Watching = {}
  BY ConstantsAssumption DEF Init, Allocated, Watching, Threads
<1>3. Counted = {}
  BY <1>1, <1>2 DEF Counted, Leaving
<1>4. Cardinality(Counted) = 0
  BY <1>3, FS_EmptySet
<1>5. OneUpdate /\ Fresh /\ Settled /\ Pending
  BY <1>1 DEF OneUpdate, Fresh, Settled, Pending, Updating
<1> QED BY <1>1, <1>2, <1>4, <1>5 DEF CountInv, Idle

LEMMA CountInvNext ==
  ASSUME Known, CountInv, [Next]_vars
  PROVE  CountInv'
<1>1. \/ \E t \in Threads : UpdateCount(t)
      \/ UNCHANGED countVars /\ Moves /\ Cardinality(Counted') = Cardinality(Counted)
  <2>1. step \in [Threads -> {"outside"} \cup IncSteps \cup DecSteps]
    BY DEF Known, TypeOK, CountTypeOK
  <2>2. ASSUME NEW t \in Threads, Outside(t),
               EnterRegister(t) \/ EnterWithdraw(t)
        PROVE  Moves
    BY <2>1, <2>2 DEF Outside, EnterRegister, EnterWithdraw, Moves
  <2>3. step' = step => Moves
    BY DEF Moves
  <2>4. Loop \in Threads /\ Watchers \subseteq Threads
    BY DEF Threads
  <2>5. CASE CallRuntime
    <3>1. UNCHANGED countVars /\ Moves
      BY <2>2, <2>3, <2>4, <2>5
      DEF CallRuntime, CallAsync, WatchFile, SetStopFlag, InJS
    <3> QED BY <2>5, <3>1, CountedCall
  <2>6. ASSUME NEW j \in Jobs, PostCall(j)
        PROVE  UNCHANGED countVars /\ Moves /\ Counted' = Counted
    <3>1. UNCHANGED <<countVars, step, kind, loopVars, watchVars>>
      BY <2>6 DEF PostCall
    <3>2. Counted' = Counted
      BY <3>1, CountedStays
      DEF Allocated, Watching, Entering, Leaving, Item, loopVars, watchVars
    <3> QED BY <2>3, <3>1, <3>2
  <2>7. ASSUME NEW w \in Watchers, WatcherStep(w), ~UpdateCount(w)
        PROVE  UNCHANGED countVars /\ Moves /\ Counted' = Counted
    <3>1. UNCHANGED countVars /\ Moves
      BY <2>2, <2>3, <2>4, <2>7
      DEF WatcherStep, Poll, NoChange, FindChange, PostChange, SeeStopFlag,
          EndWatcher, MoveWatcher
    <3> QED BY <2>7, <3>1, CountedWatcher
  <2>8. CASE LoopStep /\ ~UpdateCount(Loop)
    <3>1. UNCHANGED countVars /\ Moves
      BY <2>2, <2>3, <2>4, <2>8
      DEF LoopStep, StartScript, EndScript, Shutdown, LaunchWorker,
          LaunchWatcher, RunAgain, RunReturns, FetchMessage, BuildMessage,
          DrainDone, RunCallback, FinishCallback, RemoveDone, CallbacksDone,
          Jump, InJS
    <3> QED BY <2>8, <3>1, CountedLoop
  <2>9. CASE UNCHANGED vars
    <3>1. UNCHANGED <<countVars, step, queueVars, loopVars, watchVars>>
      BY <2>9 DEF vars
    <3>2. Counted' = Counted
      BY <3>1, CountedStays
      DEF Allocated, Watching, Entering, Leaving, Item, queueVars, loopVars,
          watchVars
    <3> QED BY <2>3, <3>1, <3>2
  <2> QED
    BY <2>4, <2>5, <2>6, <2>7, <2>8, <2>9 DEF Next, Exited
<1>2. CASE \E t \in Threads : UpdateCount(t)
  BY <1>2, CountUpdate
<1>3. CASE UNCHANGED countVars /\ Moves
             /\ Cardinality(Counted') = Cardinality(Counted)
  <2>1. ~Overlapped' => Idle'
    BY <1>3, IdleNext DEF Overlapped, countVars
  <2> QED BY <1>3, <2>1, Quiet
<1> QED BY <1>1, <1>2, <1>3

\* The invariant holds in every reachable state.
LEMMA Invariance == Spec => [](Known /\ CountInv)
<1>1. Init => Known /\ CountInv
  BY TypeInit, HoldersInit, CountInvInit DEF Known
<1>2. Known /\ CountInv /\ [Next]_vars => (Known /\ CountInv)'
  BY TypeNext, ControlNext, HoldersNext, CountInvNext DEF Known
<1> QED BY <1>1, <1>2, PTL DEF Spec

\* While no update of jobCount has begun within another, every load and store
\* of it sees the number of registered jobs and watchers, and shouldStop says
\* whether it is 0.
THEOREM CountIsExact == Spec => []JobCountExact
<1>1. CountInv => JobCountExact
  BY DEF CountInv, JobCountExact, Settled, Updating
<1> QED BY <1>1, Invariance, PTL

\* Without such an overlap the process ends only when no watcher polls, no
\* worker runs and no callback is left.
THEOREM ExitIsIdle == Spec => []ExitOnlyWhenIdle
<1>1. CountInv => ExitOnlyWhenIdle
  BY DEF CountInv, ExitOnlyWhenIdle, Idle
<1> QED BY <1>1, Invariance, PTL
=============================================================================
