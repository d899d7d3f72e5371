------------------------------ MODULE JobCount ------------------------------
(***************************************************************************)
(* jobCount and shouldStop of engine/EventLoop.cpp as several threads use  *)
(* them.  registerJob, withdrawJob and the end of removeJob take no lock,  *)
(* and the makefile builds without optimization: every access in the       *)
(* source is a load or a store of its own.                                 *)
(*                                                                         *)
(* A thread that calls one of the three enters it and executes its loads   *)
(* and stores one by one; what the threads do besides is left to the       *)
(* module that extends this one.                                           *)
(***************************************************************************)
EXTENDS Integers

CONSTANTS
  Loop,     \* the loop thread
  Watchers  \* the threads of watched files

Threads == Watchers \cup {Loop}

ASSUME ThreadsAssumption == Loop \notin Watchers

VARIABLES
  jobCount,    \* EventLoop::jobCount
  shouldStop,  \* EventLoop::shouldStop
  step,        \* where each thread is in registerJob or withdrawJob
  loaded,      \* the value of jobCount that each thread has loaded
  overlaps     \* history: how often a thread began its update in another's

countVars == <<jobCount, shouldStop, loaded, overlaps>>

IncSteps == {"incLoad", "incStore", "clear"}
DecSteps == {"decLoad", "decStore", "test", "set"}

CountTypeOK ==
  /\ jobCount \in Int
  /\ shouldStop \in BOOLEAN
  /\ step \in [Threads -> {"outside"} \cup IncSteps \cup DecSteps]
  /\ loaded \in [Threads -> Int]
  /\ overlaps \in Nat

CountInit ==
  /\ jobCount = 0
  /\ shouldStop = TRUE
  /\ step = [t \in Threads |-> "outside"]
  /\ loaded = [t \in Threads |-> 0]
  /\ overlaps = 0

-----------------------------------------------------------------------------

Outside(t) == step[t] = "outside"

\* The thread is between its first load and the end of its update.
Updating(t) == step[t] \in {"incStore", "clear", "decStore", "test", "set"}

Overlapped == overlaps > 0

\* The call itself; the caller's action says what it is for.
EnterRegister(t) == step' = [step EXCEPT ![t] = "incLoad"]
EnterWithdraw(t) == step' = [step EXCEPT ![t] = "decLoad"]

\* The first half of jobCount++ or jobCount--.
Load(t, from, to) ==
  /\ step[t] = from
  /\ step' = [step EXCEPT ![t] = to]
  /\ loaded' = [loaded EXCEPT ![t] = jobCount]
  /\ overlaps' = IF \E u \in Threads \ {t} : Updating(u)
                 THEN overlaps + 1 ELSE overlaps
  /\ UNCHANGED <<jobCount, shouldStop>>

\* The second half.
Store(t, from, to, change) ==
  /\ step[t] = from
  /\ step' = [step EXCEPT ![t] = to]
  /\ jobCount' = loaded[t] + change
  /\ UNCHANGED <<shouldStop, loaded, overlaps>>

\* registerJob: jobCount++; shouldStop = false.
RegisterStep(t) ==
  \/ Load(t, "incLoad", "incStore")
  \/ Store(t, "incStore", "clear", 1)
  \/ /\ step[t] = "clear"
     /\ shouldStop' = FALSE
     /\ step' = [step EXCEPT ![t] = "outside"]
     /\ UNCHANGED <<jobCount, loaded, overlaps>>

\* if (jobCount == 0): what withdrawJob tests is loaded once more.
TestCount(t) ==
  /\ step[t] = "test"
  /\ step' = [step EXCEPT ![t] = IF jobCount = 0 THEN "set" ELSE "outside"]
  /\ UNCHANGED countVars

\* withdrawJob, and the end of removeJob: jobCount--; if (jobCount == 0)
\* shouldStop = true.
WithdrawStep(t) ==
  \/ Load(t, "decLoad", "decStore")
  \/ Store(t, "decStore", "test", -1)
  \/ TestCount(t)
  \/ /\ step[t] = "set"
     /\ shouldStop' = TRUE
     /\ step' = [step EXCEPT ![t] = "outside"]
     /\ UNCHANGED <<jobCount, loaded, overlaps>>

CountStep(t) == RegisterStep(t) \/ WithdrawStep(t)
=============================================================================
