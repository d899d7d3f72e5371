------------------------------ MODULE ReadFile -------------------------------
(***************************************************************************)
(* One call of Files.readFile (App.js 408-422): a stat on a worker thread, *)
(* a callback on the loop thread that allocates a zeroed buffer of that    *)
(* size, a read on another worker thread, and the user's callback.  The    *)
(* size goes through a 32-bit integer (FileSystem.cpp 251).  The system    *)
(* may refuse each call although the file is there, for want of permission *)
(* or descriptors; the program tests for it at stat and at the allocation  *)
(* only.                                                                   *)
(***************************************************************************)
EXTENDS ChangingFile, IntSize, Functions

VARIABLES
  stage,    \* progress of the call
  objSize,  \* obj.size, <<>> if undefined
  buffer,   \* the bytes of the buffer, 0 where nothing was read
  at,       \* bytes read
  refused   \* history: what the system refused: "stat", "memory", "open" or
            \* "read"

vars == <<fileVars, stage, objSize, buffer, at, refused>>

Granted == UNCHANGED refused
Refused(what) == refused' = refused \cup {what}

-----------------------------------------------------------------------------
\* statsAsync; when stat fails the object has no properties.
Stat ==
  /\ stage = "stat"
  /\ \/ exists /\ objSize' = <<ToInt(Len(file))>> /\ Granted
     \/ exists /\ objSize' = <<>> /\ Refused("stat")
     \/ ~exists /\ objSize' = <<>> /\ Granted
  /\ stage' = "sized"
  /\ UNCHANGED <<fileVars, buffer, at>>

\* Mutant of Allocatable: no buffer for an empty file.
AllocatablePositive == objSize # <<>> /\ \A n \in Range(objSize) : n > 0

\* The sizes for which Buffer.alloc does not throw.
Allocatable == objSize # <<>> /\ \A n \in Range(objSize) : n >= 0

\* The callback of getStatsAsync: Buffer.alloc throws for an undefined or a
\* negative size, or if there is no memory, and nobody catches it.
StatFails ==
  /\ stage = "sized"
  /\ \/ ~Allocatable /\ Granted
     \/ Allocatable /\ Refused("memory")
  /\ stage' = "failed"
  /\ UNCHANGED <<fileVars, objSize, buffer, at>>

\* Mutant of Allocate: the buffer is not zeroed.
AllocateUnsafe ==
  /\ stage = "sized"
  /\ Allocatable
  /\ buffer' \in [1 .. objSize[1] -> 0 .. 1]
  /\ stage' = "open"
  /\ UNCHANGED <<fileVars, objSize, at, refused>>

Allocate ==
  /\ stage = "sized"
  /\ Allocatable
  /\ buffer' = [i \in 1 .. objSize[1] |-> 0]
  /\ stage' = "open"
  /\ UNCHANGED <<fileVars, objSize, at, refused>>

\* readAsync opens the file and does not test whether it could; if not, the
\* read fails at once, and the error of the callback is null all the same.
Open ==
  /\ stage = "open"
  /\ \/ exists /\ stage' = "read" /\ Granted
     \/ exists /\ stage' = "posted" /\ Refused("open")
     \/ ~exists /\ stage' = "posted" /\ Granted
  /\ UNCHANGED <<fileVars, objSize, buffer, at>>

ReadByte ==
  /\ stage = "read"
  /\ at < Len(buffer) /\ at < Len(file)
  /\ buffer' = [buffer EXCEPT ![at + 1] = file[at + 1]]
  /\ at' = at + 1
  /\ UNCHANGED <<fileVars, stage, objSize, refused>>

\* Mutant of ReadDone: the first bytes that come end the read.
ReadDoneEarly ==
  /\ stage = "read"
  /\ at > 0 \/ at >= Len(buffer) \/ at >= Len(file)
  /\ stage' = "posted"
  /\ UNCHANGED <<fileVars, objSize, buffer, at, refused>>

\* length bytes are read, the file has no more, or it cannot be read on.
ReadDone ==
  /\ stage = "read"
  /\ \/ (at = Len(buffer) \/ at >= Len(file)) /\ Granted
     \/ at < Len(buffer) /\ Refused("read")
  /\ stage' = "posted"
  /\ UNCHANGED <<fileVars, objSize, buffer, at>>

\* The callback gets the whole buffer, however much was read.
Callback ==
  /\ stage = "posted"
  /\ stage' = "called"
  /\ UNCHANGED <<fileVars, objSize, buffer, at, refused>>

Step ==
  \/ Stat \/ StatFails \/ Allocate
  \/ Open \/ ReadByte \/ ReadDone \/ Callback

\* Files.readFile has called getStatsAsync.
Init ==
  /\ FileInit
  /\ stage = "stat"
  /\ objSize = <<>>
  /\ buffer = <<>>
  /\ at = 0
  /\ refused = {}

Ended == stage \in {"called", "failed"} /\ UNCHANGED vars

Next ==
  \/ FileChanges /\ UNCHANGED <<stage, objSize, buffer, at, refused>>
  \/ Step
  \/ Ended

Spec == Init /\ [][Next]_vars

\* Worker threads are scheduled, and the loop runs callbacks.
FairSpec == Spec /\ WF_vars(Step)

-----------------------------------------------------------------------------
\* For a file that nobody changed, and whose size the integer can hold, the
\* callback gets a buffer of the size of the file that begins with its
\* contents and goes on with zeros: all of the contents, unless the system
\* refused to open or to read the file.  With null for the error the callback
\* cannot tell (FileSystem.cpp 18-25, App.js 412-421).
UnchangedIsExact ==
  (stage = "called" /\ changes = 0 /\ Len(file) <= Largest) =>
    /\ buffer = [i \in DOMAIN file |-> IF i <= at THEN file[i] ELSE 0]
    /\ refused = {} => at = Len(file)

\* Whatever happens to the file, each byte the callback gets has been at its
\* place in the file since the call, or is a zero because at some moment the
\* file had no byte there or did not exist, or because the system refused to
\* open or to read it: never memory of others.
OnlyFileBytes ==
  stage = "called" => \A i \in DOMAIN buffer :
    \/ buffer[i] \in seen[i]
    \/ buffer[i] = 0 /\ (Gone \in seen[i] \/ {"open", "read"} \cap refused # {})

\* The callback is called, also if the file cannot be opened or read, unless
\* the call fails because since it was made the file was missing at some time
\* or too large for the integer, or the system refused stat or the memory.
CalledUnlessUnsized ==
  <>(\/ stage = "called"
     \/ /\ stage = "failed"
        /\ \/ Gone \in seen[1]
           \/ \E i \in Largest + 1 .. MaxSize : seen[i] \ {0, Gone} # {}
           \/ {"stat", "memory"} \cap refused # {})
=============================================================================
