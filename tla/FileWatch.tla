----------------------------- MODULE FileWatch -----------------------------
(***************************************************************************)
(* What a watcher thread sees of its file: the function watcher of         *)
(* engine/FileSystem.cpp, against other programs that write the file.      *)
(*                                                                         *)
(* A poll opens the file, takes its size with stat and reads that many     *)
(* bytes; the three are separate, and other programs may overwrite the     *)
(* file in place, put another one at its path or remove it at any time.    *)
(* The first snapshot is taken in the same way, by the thread, some time   *)
(* after watchFile has returned.                                           *)
(*                                                                         *)
(* The size goes through a 32-bit integer, and new throws for a negative   *)
(* one, which ends the process.  No result is tested: without a file, or   *)
(* if the system refuses stat, the size is an uninitialized number, and if *)
(* it refuses to open or to read the file, for want of permission or       *)
(* descriptors, the array is not written, or not to its end.               *)
(***************************************************************************)
EXTENDS IntSize, Sequences

CONSTANTS
  Bytes,     \* the values of a byte
  Contents,  \* the contents that the file may have
  Missing    \* what the file is when there is none at the path

ASSUME ConstantsAssumption ==
  Contents \subseteq Seq(Bytes) /\ Missing \notin Contents

VARIABLES
  file,         \* contents of the file at the path, or Missing
  opened,       \* the stream's file, if it is not the one at the path
  phase,        \* control point of the watcher
  first,        \* the first snapshot has not been taken yet
  sz,           \* size that stat reported in this poll
  content,      \* what this poll has read so far
  prevSz,       \* size of the last snapshot
  prevContent,  \* the last snapshot
  written,      \* history: the file was written or missing since watchFile
                \* returned
  denied,       \* history: the system refused something to the watcher while
                \* there was a file, since it was last written or, if it was
                \* not, since watchFile returned
  reports       \* history: changes reported since the file was last written,
                \* but for those reported while it was missing or after the
                \* system refused something

watcherVars == <<phase, first, sz, content, prevSz, prevContent>>
history == <<written, denied, reports>>
vars == <<file, opened, watcherVars, history>>

IsMissing == file = Missing

\* The stream is closed, or reads the file that is at the path.
AtPath == [replaced |-> FALSE]

\* The stream reads contents that are not at the path any more, or has
\* failed to open: then it reads nothing.
Replaced(c) == [replaced |-> TRUE, contents |-> c]
NotOpened == Replaced(<<>>)

-----------------------------------------------------------------------------
(* Other programs.                                                         *)

Write(c) ==
  /\ file' = c
  /\ written' = TRUE
  /\ denied' = FALSE
  /\ reports' = 0
  /\ UNCHANGED watcherVars

\* The file is written in place; an open stream sees it.
Overwrite(c) == Write(c) /\ UNCHANGED opened

\* Another file is moved to the path, or the file is removed; an open stream
\* keeps the old one.
Replace(c) ==
  /\ Write(c)
  /\ opened' = IF phase \in {"stat", "read"} /\ opened = AtPath
                THEN Replaced(file) ELSE opened

-----------------------------------------------------------------------------
(* The watcher thread.                                                     *)

\* The contents that the stream reads.
Stream == IF opened.replaced THEN opened.contents ELSE file

Open ==
  /\ phase = "open"
  /\ phase' = "stat"
  /\ opened' = IF IsMissing THEN NotOpened ELSE AtPath
  /\ UNCHANGED <<file, first, sz, content, prevSz, prevContent, history>>

\* The system refuses something that concerns a file that is there.
Refuses == ~IsMissing /\ denied' = TRUE /\ UNCHANGED <<written, reports>>

OpenRefused ==
  /\ phase = "open"
  /\ phase' = "stat"
  /\ opened' = NotOpened
  /\ Refuses
  /\ UNCHANGED <<file, first, sz, content, prevSz, prevContent>>

\* The array is made, for a size that is not negative.
Allocate(size) ==
  /\ phase = "stat"
  /\ phase' = "read"
  /\ sz' = size
  /\ content' = <<>>
  /\ UNCHANGED <<file, opened, first, prevSz, prevContent>>

\* The sizes that an integer which nobody has set may have, as far as there
\* is memory for the array.
Uninitialized == 0 .. Largest

Size == ToInt(Len(file))

\* stat follows the path, not the stream.
Stat ==
  /\ \/ ~IsMissing /\ Size >= 0 /\ Allocate(Size)
     \/ IsMissing /\ \E size \in Uninitialized : Allocate(size)
  /\ UNCHANGED history

StatRefused == Refuses /\ \E size \in Uninitialized \ {Size} : Allocate(size)

\* new char[sz] throws, and nothing catches it.
Throws ==
  /\ phase = "stat"
  /\ phase' = "aborted"
  /\ opened' = AtPath
  /\ UNCHANGED <<file, first, sz, content, prevSz, prevContent>>

\* The size is negative, or none was set.
Abort == (~IsMissing => Size < 0) /\ Throws /\ UNCHANGED history

\* There is no memory, or stat is refused and leaves a number for which there
\* is none.
MemoryRefused == Refuses /\ Size >= 0 /\ Throws

\* The stream delivers the next byte of the sz that were asked for.
ReadByte ==
  /\ phase = "read"
  /\ Len(content) < sz /\ Len(content) < Len(Stream)
  /\ content' = Append(content, Stream[Len(content) + 1])
  /\ UNCHANGED <<file, opened, phase, first, sz, prevSz, prevContent, history>>

\* The rest of the array stays uninitialized.
EndRead ==
  /\ phase' = "compare"
  /\ \E garbage \in [1 .. sz - Len(content) -> Bytes] :
       content' = content \o garbage
  /\ opened' = AtPath
  /\ UNCHANGED <<file, first, sz, prevSz, prevContent>>

\* All bytes are read, or the stream has ended early.
ReadDone ==
  /\ phase = "read"
  /\ Len(content) = sz \/ Len(content) >= Len(Stream)
  /\ EndRead
  /\ UNCHANGED history

\* The stream has more, and cannot be read on.
ReadRefused ==
  /\ phase = "read"
  /\ Len(content) < sz /\ Len(content) < Len(Stream)
  /\ EndRead
  /\ Refuses

\* Mutant of areEqual: the last byte is not compared.
areEqualButLast(str1, str2, len) == \A i \in 1 .. len - 1 : str1[i] = str2[i]

areEqual(str1, str2, len) == \A i \in 1 .. len : str1[i] = str2[i]

Changed ==
  \/ sz = prevSz /\ ~areEqual(prevContent, content, sz)
  \/ sz # prevSz

\* What was read replaces the snapshot, with its size.
Keep == prevContent' = content /\ prevSz' = sz

\* What was read is the first snapshot.
TakeFirst ==
  /\ phase = "compare" /\ first
  /\ Keep
  /\ first' = FALSE
  /\ phase' = "open"
  /\ UNCHANGED <<file, opened, sz, content, history>>

Counted == IF IsMissing \/ denied THEN reports ELSE reports + 1

\* Mutant of Report: prevContent and prevSz are not replaced.
ReportForgetting ==
  /\ phase = "compare" /\ ~first
  /\ Changed
  /\ reports' = Counted
  /\ phase' = "open"
  /\ UNCHANGED <<file, opened, first, sz, content, prevSz, prevContent,
                 written, denied>>

\* A change is posted, and the thread sleeps.
Report ==
  /\ phase = "compare" /\ ~first
  /\ Changed
  /\ Keep
  /\ reports' = Counted
  /\ phase' = "open"
  /\ UNCHANGED <<file, opened, first, sz, content, written, denied>>

\* Nothing has changed, and the thread sleeps.
NoReport ==
  /\ phase = "compare" /\ ~first
  /\ ~Changed
  /\ phase' = "open"
  /\ UNCHANGED <<file, opened, first, sz, content, prevSz, prevContent, history>>

-----------------------------------------------------------------------------

\* watchFile has returned, and its thread has not opened the file yet.
Init ==
  /\ file \in Contents \cup {Missing}
  /\ opened = AtPath
  /\ phase = "open"
  /\ first = TRUE
  /\ sz = 0 /\ content = <<>>
  /\ prevSz = 0 /\ prevContent = <<>>
  /\ written = IsMissing
  /\ denied = FALSE
  /\ reports = 0

Refusal == OpenRefused \/ StatRefused \/ MemoryRefused \/ ReadRefused

WatcherStep ==
  \/ Open \/ Stat \/ Abort \/ ReadByte \/ ReadDone \/ Refusal
  \/ TakeFirst \/ Report \/ NoReport

Next ==
  \/ \E c \in Contents : Overwrite(c)
  \/ \E c \in Contents \cup {Missing} : Replace(c)
  \/ WatcherStep

Spec == Init /\ [][Next]_vars

\* The watcher thread is scheduled.
FairSpec == Spec /\ WF_vars(WatcherStep)

-----------------------------------------------------------------------------

\* A write is reported at most twice: once with bytes of two contents or with
\* uninitialized ones, if it comes between open, stat and read, and once more
\* with what the file contains.  That goes for the creation of the file too,
\* and while the system lets the file be opened and read.  Until it refuses,
\* a file that nobody writes or removes is not reported at all, and ends the
\* process only if its size does not fit the integer (FileSystem.cpp 359-373).
AtMostTwoReports ==
  /\ reports <= 2
  /\ ~written /\ ~denied =>
       reports = 0 /\ (phase = "aborted" => Size < 0)

\* When the file is there and not written any more, and the system refuses
\* nothing any more, the snapshot becomes and stays what the file contains,
\* up to the size that is left in the integer, however many polls before were
\* torn, refused or found no file, unless the process has ended.  As a
\* snapshot is replaced only with a report, no lasting change of those bytes
\* goes unreported, except one that came before the first snapshot.
EventuallyCurrent ==
  (/\ <>[][UNCHANGED file]_file
   /\ <>[](~IsMissing)
   /\ <>[][~Refusal]_vars) =>
    <>[](\/ phase = "aborted"
         \/ ~IsMissing /\ prevSz = Size /\ prevContent = SubSeq(file, 1, Size))
=============================================================================
