-------------------------- MODULE FileWatchProofs --------------------------
(***************************************************************************)
(* Proof about FileWatch, for any contents of the file, whether their size *)
(* fits the integer or not: how often a write is reported.                 *)
(***************************************************************************)
EXTENDS FileWatch, SequenceTheorems, TLAPS

\* The part of the file that a watcher reads: the bytes up to the size that
\* is left in the integer.
Seen == SubSeq(file, 1, Size)

\* The poll in progress, if there is one, sees the file as it is: it began
\* after the last write, and the system has let it.
Clean ==
  /\ ~IsMissing
  /\ phase \in {"open", "stat", "read", "compare", "aborted"}
  /\ phase \in {"stat", "read"} => opened = AtPath
  /\ phase \in {"read", "compare"} => sz = Size /\ Size >= 0
  /\ phase = "read" => /\ content \in Seq(Bytes) /\ Len(content) <= Size
                       /\ \A i \in 1 .. Len(content) : content[i] = file[i]
  /\ phase = "compare" => content = Seen
  /\ phase = "aborted" => Size < 0

\* The last snapshot is what the file contains.
Current == prevContent = Seen /\ prevSz = Size

\* The inductive invariant.  A report ends a poll, so that the next one is
\* clean unless it is refused; it can differ from a torn snapshot, but leaves
\* a current one.
WInv ==
  /\ file \in Contents \cup {Missing}
  /\ written \in BOOLEAN /\ first \in BOOLEAN /\ denied \in BOOLEAN
  /\ reports \in 0 .. 2
  /\ IsMissing \/ first \/ ~written => reports = 0
  /\ ~denied /\ (~written \/ reports > 0) => Clean
  /\ ~denied /\ ((~written /\ ~first) \/ reports = 2) => Current

\* The integer that is left of a size is not larger than the size.
LEMMA SizeOK ==
  ASSUME file \in Contents \cup {Missing}, ~IsMissing
  PROVE  /\ file \in Seq(Bytes) /\ Len(file) \in Nat
         /\ Size \in Int /\ Size <= Len(file)
<1>1. file \in Seq(Bytes) /\ Len(file) \in Nat
  BY ConstantsAssumption, LenProperties DEF IsMissing
<1> DEFINE m == Len(file) % IntRange
<1>2. m \in Nat /\ m <= Len(file)
  BY <1>1, RangeAssumption
<1> QED BY <1>1, <1>2, RangeAssumption DEF Size, ToInt

LEMMA WInvInit == Init => WInv
<1> SUFFICES ASSUME Init PROVE WInv
  OBVIOUS
<1>1. ~IsMissing => Clean
  BY DEF Init, Clean
<1>2. (written <=> IsMissing) /\ written \in BOOLEAN
  BY DEF Init, IsMissing
<1>3. denied \in BOOLEAN /\ first = TRUE /\ reports = 0 /\ file \in Contents \cup {Missing}
  BY DEF Init
<1> QED BY <1>1, <1>2, <1>3 DEF WInv

\* Any write makes a fresh start.
LEMMA WInvWrite ==
  ASSUME WInv, NEW c \in Contents \cup {Missing}, Write(c)
  PROVE  WInv'
<1>1. /\ file' \in Contents \cup {Missing}
      /\ written' = TRUE /\ denied' = FALSE /\ reports' = 0 /\ first' = first
  BY DEF Write, watcherVars
<1>2. ~(~written' \/ reports' > 0) /\ ~(~written' \/ reports' = 2)
  BY <1>1
<1>3. written' \in BOOLEAN /\ first' \in BOOLEAN /\ denied' \in BOOLEAN
  BY <1>1 DEF WInv
<1> QED BY <1>1, <1>2, <1>3 DEF WInv

\* A clean poll stays clean while it proceeds.
LEMMA WInvPoll ==
  ASSUME WInv, Open \/ Stat \/ Abort \/ ReadByte \/ ReadDone
  PROVE  WInv'
<1>1. UNCHANGED <<file, first, written, denied, reports, prevContent, prevSz>>
  BY DEF Open, Stat, Allocate, Abort, Throws, ReadByte, ReadDone, EndRead, history
<1>2. Clean => Clean'
  <2> SUFFICES ASSUME Clean PROVE Clean'
    OBVIOUS
  <2>1. /\ file \in Seq(Bytes) /\ Len(file) \in Nat
        /\ Size \in Int /\ Size <= Len(file)
    BY SizeOK DEF WInv, Clean
  <2>2. phase = "read" => Stream = file
    BY DEF Clean, Stream, AtPath
  <2>3. ~IsMissing' /\ Size' = Size /\ Seen' = Seen
    BY <1>1 DEF Clean, IsMissing, Size, Seen
  <2>4. CASE Open
    BY <2>3, <2>4 DEF Open, Clean
  <2>5. CASE Stat
    <3>1. /\ sz' = Size /\ Size >= 0 /\ content' = <<>> /\ phase' = "read"
          /\ opened' = opened /\ phase = "stat"
      BY <2>5 DEF Stat, Allocate, Clean
    <3> QED BY <2>3, <3>1 DEF Clean
  <2>6. CASE Abort
    BY <2>3, <2>6 DEF Abort, Throws, Clean
  <2>7. CASE ReadByte
    <3>1. /\ content' = Append(content, file[Len(content) + 1])
          /\ content \in Seq(Bytes) /\ Len(content) < Size
          /\ \A i \in 1 .. Len(content) : content[i] = file[i]
      BY <2>2, <2>7 DEF ReadByte, Clean
    <3>2. file[Len(content) + 1] \in Bytes
      BY <2>1, <3>1, ElementOfSeq, LenProperties
    <3>3. /\ content' \in Seq(Bytes) /\ Len(content') <= Size
          /\ \A i \in 1 .. Len(content') : content'[i] = file[i]
      BY <2>1, <3>1, <3>2
    <3> QED BY <2>3, <2>7, <3>3 DEF ReadByte, Clean
  <2>8. CASE ReadDone
    <3>1. /\ content \in Seq(Bytes) /\ Len(content) = Size /\ sz = Size
          /\ \A i \in 1 .. Len(content) : content[i] = file[i]
          /\ phase' = "compare" /\ sz' = sz
      BY <2>1, <2>2, <2>8, LenProperties DEF ReadDone, EndRead, Clean
    <3>2. PICK garbage \in [1 .. 0 -> Bytes] : content' = content \o garbage
      <4>1. sz - Len(content) = 0
        BY <2>1, <3>1
      <4> QED BY <2>8, <4>1 DEF ReadDone, EndRead
    <3>3. garbage \in Seq(Bytes) /\ Len(garbage) = 0
      BY <3>2
    <3>4. /\ content' \in Seq(Bytes) /\ Len(content') = Size
          /\ \A i \in 1 .. Size : content'[i] = file[i]
      BY <3>1, <3>2, <3>3, ConcatProperties
    <3>5. Seen \in Seq(Bytes) /\ Len(Seen) = Size
          /\ \A i \in 1 .. Size : Seen[i] = file[i]
      <4>1. Size \in Nat
        BY <2>1, <3>1, LenProperties
      <4>2. \A i \in 1 .. Size : file[i] \in Bytes
        BY <2>1, <4>1, ElementOfSeq
      <4> QED BY <2>1, <4>1, <4>2, SubSeqProperties DEF Seen
    <3>6. content' = Seen
      BY <3>4, <3>5, SeqEqual
    <3> QED BY <2>1, <2>3, <3>1, <3>6, LenProperties DEF Clean
  <2> QED BY <2>4, <2>5, <2>6, <2>7, <2>8
<1>3. Current' <=> Current
  BY <1>1 DEF Current, Seen, Size
<1> QED BY <1>1, <1>2, <1>3 DEF WInv, IsMissing

\* Once the system has refused, nothing more is counted.
LEMMA WInvRefusal ==
  ASSUME WInv, Refusal
  PROVE  WInv'
<1>1. denied' = TRUE /\ UNCHANGED <<file, first, written, reports>>
  BY DEF Refusal, OpenRefused, StatRefused, MemoryRefused, ReadRefused, Refuses,
         Allocate, Throws, EndRead
<1> QED BY <1>1 DEF WInv, IsMissing

\* The end of a poll.  A clean one leaves a current snapshot, and differs
\* only from one that was not current.
LEMMA WInvCompare ==
  ASSUME WInv, TakeFirst \/ Report \/ NoReport
  PROVE  WInv'
<1>1. /\ UNCHANGED <<file, written, denied>>
      /\ phase = "compare" /\ phase' = "open"
  BY DEF TakeFirst, Report, NoReport, history
<1>2. ~IsMissing => Clean'
  BY <1>1 DEF Clean, IsMissing
<1>3. Clean /\ (Report \/ TakeFirst) => Current'
  BY <1>1 DEF Clean, Report, TakeFirst, Keep, Current, Seen, Size
<1>4. Clean /\ Current => ~Changed
  <2> SUFFICES ASSUME Clean, Current PROVE ~Changed
    OBVIOUS
  <2>1. content = prevContent /\ sz = prevSz
    BY <1>1 DEF Clean, Current
  <2> QED BY <2>1 DEF Changed, areEqual
<1>5. CASE TakeFirst
  <2>1. /\ first /\ first' = FALSE /\ reports' = 0
        /\ ~denied /\ ~written => Clean /\ ~IsMissing
    BY <1>5 DEF TakeFirst, WInv, Clean, history
  <2>2. ~denied /\ ~written => Clean' /\ Current'
    BY <1>2, <1>3, <1>5, <2>1
  <2>3. /\ file' \in Contents \cup {Missing}
        /\ written' \in BOOLEAN /\ first' \in BOOLEAN /\ denied' \in BOOLEAN
    BY <1>1, <2>1 DEF WInv
  <2>4. ~denied' /\ ~written' => Clean' /\ Current'
    BY <1>1, <2>2
  <2> QED BY <2>1, <2>3, <2>4 DEF WInv
<1>6. CASE Report
  <2>1. first' = first /\ ~first /\ reports' = Counted
    BY <1>6 DEF Report
  <2>2. CASE denied
    <3>1. reports' = reports
      BY <2>1, <2>2 DEF Counted
    <3> QED BY <1>1, <2>1, <2>2, <3>1 DEF WInv, IsMissing
  <2>3. CASE ~denied
    <3>1. written /\ reports \in {0, 1}
      BY <1>4, <1>6, <2>1, <2>3 DEF WInv, Report
    <3>2. reports' = IF IsMissing THEN reports ELSE reports + 1
      BY <2>1, <2>3 DEF Counted
    <3>3. reports = 1 => Current'
      BY <1>3, <1>6, <2>3 DEF WInv
    <3> QED BY <1>1, <1>2, <2>1, <3>1, <3>2, <3>3 DEF WInv, IsMissing
  <2> QED BY <2>2, <2>3
<1>7. CASE NoReport
  <2>1. UNCHANGED <<first, prevSz, prevContent, reports>>
    BY <1>7 DEF NoReport, history
  <2>2. Current' <=> Current
    BY <1>1, <2>1 DEF Current, Seen, Size
  <2>3. ~denied /\ (~written \/ reports > 0) => ~IsMissing
    BY DEF WInv, Clean
  <2> QED BY <1>1, <1>2, <2>1, <2>2, <2>3 DEF WInv, IsMissing
<1> QED BY <1>5, <1>6, <1>7

\* However a poll falls between writes, replacements and removals, and
\* whatever the system refuses, a write is reported at most twice before a
\* refusal; a file at rest is not reported, and ends the process only if its
\* size does not fit the integer.
THEOREM FewReports == Spec => []AtMostTwoReports
<1>1. WInv => AtMostTwoReports
  BY DEF WInv, Clean, AtMostTwoReports
<1>2. WInv /\ [Next]_vars => WInv'
  <2> SUFFICES ASSUME WInv, [Next]_vars PROVE WInv'
    OBVIOUS
  <2>1. CASE UNCHANGED vars
    BY <2>1 DEF vars, watcherVars, history, WInv, Clean, Current, Seen, Size,
                IsMissing, AtPath
  <2>2. CASE \/ \E c \in Contents : Overwrite(c)
             \/ \E c \in Contents \cup {Missing} : Replace(c)
    BY <2>2, WInvWrite DEF Overwrite, Replace
  <2>3. CASE WatcherStep
    BY <2>3, WInvPoll, WInvRefusal, WInvCompare DEF WatcherStep
  <2> QED BY <2>1, <2>2, <2>3 DEF Next
<1> QED BY <1>1, <1>2, WInvInit, PTL DEF Spec
=============================================================================
