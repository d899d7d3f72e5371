---------------------------- MODULE ChangingFile -----------------------------
(***************************************************************************)
(* A file that other programs change while it is read.  A byte is the      *)
(* number of the change that wrote it.  An open stream sees changes in     *)
(* place, and keeps the contents of a file that has been removed.          *)
(***************************************************************************)
EXTENDS Integers, Sequences

CONSTANTS
  MaxSize,    \* bound on the size of the file
  MaxChanges  \* bound on the number of changes

ASSUME FileAssumption == MaxSize \in Nat /\ MaxChanges \in Nat

VARIABLES
  file,     \* the contents
  exists,   \* there is a file at the path
  changes,  \* number of changes so far
  seen      \* history: what has been at each place, 0 behind the end of the
            \* file and Gone without a file

Gone == -1

fileVars == <<file, exists, changes, seen>>

Contents(n) == UNION {[1 .. k -> {n}] : k \in 0 .. MaxSize}

\* What is at place i of the file, 0 behind its end.
Here(contents, i) == IF i \in DOMAIN contents THEN contents[i] ELSE 0

Change(contents, present) ==
  /\ changes < MaxChanges
  /\ changes' = changes + 1
  /\ file' = contents
  /\ exists' = present
  /\ seen' = [i \in 1 .. MaxSize |->
       seen[i] \cup {IF present THEN Here(contents, i) ELSE Gone}]

\* Another program rewrites or creates the file, cuts it off, appends to it
\* or removes it.
FileChanges ==
  \/ \E c \in Contents(changes + 2) : Change(c, TRUE)
  \/ \E k \in 0 .. Len(file) : exists /\ Change(SubSeq(file, 1, k), TRUE)
  \/ \E c \in Contents(changes + 2) :
       exists /\ Len(file \o c) <= MaxSize /\ Change(file \o c, TRUE)
  \/ exists /\ Change(file, FALSE)

FileInit ==
  /\ file \in Contents(1)
  /\ exists \in BOOLEAN
  /\ changes = 0
  /\ seen = [i \in 1 .. MaxSize |-> {IF exists THEN Here(file, i) ELSE Gone}]
=============================================================================
