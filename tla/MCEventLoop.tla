---------------------------- MODULE MCEventLoop ----------------------------
(***************************************************************************)
(* Instances of EventLoop for TLC, and the refinement of AsyncJobs.        *)
(***************************************************************************)
EXTENDS EventLoop, TLC

\* Job objects are interchangeable in the safety runs.
JobSymmetry == Permutations(Jobs)

\* A negative duration is legal JavaScript and makes a timer that is overdue
\* when it is created.
MixedDurations == {-1, 0, 2, 3}

-----------------------------------------------------------------------------

\* The event loop implements the promise of AsyncJobs: a job that is anywhere
\* on its way is pending, and its callback runs between runJob and removeJob.
Promise == INSTANCE AsyncJobs WITH
  pending <- InFlight \ {Running},
  repeating <- {j \in Jobs : kind[j] = "interval"},
  running <- Running,
  exited <- (pc = "exited")

\* Every submitted job's callback runs once (every interval's again and
\* again), one at a time, and the process does not exit before.
ImplementsAsyncJobs == Promise!JobSpec
=============================================================================
