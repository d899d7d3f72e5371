------------------------------ MODULE JobQueue -------------------------------
(***************************************************************************)
(* What EventLoop relies on when it treats callbackQueue as a sequence:    *)
(* jobs are put in by any thread; the loop thread looks, finds either the  *)
(* job that has waited longest or, if there is none, nothing, and drops    *)
(* the job it found.                                                       *)
(***************************************************************************)
EXTENDS Sequences, Functions

CONSTANTS Jobs, NoJob

VARIABLES
  queue,   \* the jobs put in and not dropped, oldest first
  found    \* <<>> before a look, else <<job>>, or <<NoJob>> if none was there

vars == <<queue, found>>

Put ==
  /\ \E j \in Jobs \ Range(queue) : queue' = Append(queue, j)
  /\ UNCHANGED found

Look ==
  /\ found = <<>>
  /\ found' = IF queue = <<>> THEN <<NoJob>> ELSE <<Head(queue)>>
  /\ UNCHANGED queue

Drop ==
  /\ queue # <<>>
  /\ found = <<Head(queue)>>
  /\ queue' = Tail(queue)
  /\ found' = <<>>

LookLater ==
  /\ found = <<NoJob>>
  /\ found' = <<>>
  /\ UNCHANGED queue

Init == queue = <<>> /\ found = <<>>

Next == Put \/ Look \/ Drop \/ LookLater

Spec == Init /\ [][Next]_vars
=============================================================================
