------------------------------ MODULE AsyncJobs ------------------------------
(***************************************************************************)
(* What the runtime promises for asynchronous calls, without threads,      *)
(* queues, counters or clocks.  A submitted job is pending until its       *)
(* callback begins; one callback runs at a time, to its end; a one-shot    *)
(* job is then forgotten and a repeating one is pending again.  The        *)
(* process exits only when nothing is pending.                             *)
(*                                                                         *)
(* EventLoop implements this specification (see MCEventLoop).              *)
(***************************************************************************)
CONSTANTS
  Jobs,   \* the jobs that can be submitted
  NoJob   \* the value of running between callbacks

VARIABLES
  pending,    \* jobs whose callback still has to run
  repeating,  \* jobs that come back after each of their callbacks
  running,    \* the job whose callback executes, or NoJob
  exited      \* the process has ended

jobVars == <<pending, repeating, running, exited>>

TypeOK ==
  /\ pending \subseteq Jobs
  /\ repeating \subseteq Jobs
  /\ running \in Jobs \cup {NoJob}
  /\ exited \in BOOLEAN

Init ==
  /\ pending = {}
  /\ repeating = {}
  /\ running = NoJob
  /\ exited = FALSE

\* A script or the running callback makes an asynchronous call.
Submit(j) ==
  /\ ~exited
  /\ j \notin pending /\ j # running
  /\ pending' = pending \cup {j}
  /\ \/ UNCHANGED repeating
     \/ repeating' = repeating \cup {j}
  /\ UNCHANGED <<running, exited>>

Begin(j) ==
  /\ running = NoJob
  /\ j \in pending
  /\ running' = j
  /\ pending' = pending \ {j}
  /\ UNCHANGED <<repeating, exited>>

End ==
  /\ running # NoJob
  /\ running' = NoJob
  /\ IF running \in repeating
     THEN pending' = pending \cup {running}
     ELSE UNCHANGED pending
  /\ UNCHANGED <<repeating, exited>>

Exit ==
  /\ pending = {} /\ running = NoJob
  /\ exited' = TRUE
  /\ UNCHANGED <<pending, repeating, running>>

Next ==
  \/ \E j \in Jobs : Submit(j) \/ Begin(j)
  \/ End
  \/ Exit

JobSpec == Init /\ [][Next]_jobVars
=============================================================================
