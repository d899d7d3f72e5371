--------------------------- MODULE FileReadProofs ----------------------------
(***************************************************************************)
(* Proofs about the two ways a whole file is read, Files.readFile          *)
(* (ReadFile) and Lemon::ReadFile (ScriptFile), for files of any size that *)
(* other programs change any number of times: what the caller gets is made *)
(* of bytes of the file, and is the file if nobody changed it and the      *)
(* system refused nothing.                                                 *)
(***************************************************************************)
EXTENDS ReadFile, ScriptFile, SequenceTheorems, TLAPS

-----------------------------------------------------------------------------
(* The file.                                                               *)

\* The bytes of the file are in the history.
AllSeen == \A k \in 1 .. MaxSize : Here(file, k) \in seen[k]

FileOK ==
  /\ file \in Seq(Nat \ {0}) /\ Len(file) <= MaxSize
  /\ exists \in BOOLEAN
  /\ changes \in Nat
  /\ IF exists THEN AllSeen ELSE \A k \in 1 .. MaxSize : Gone \in seen[k]

LEMMA ContentsAreBytes ==
  ASSUME NEW n \in Nat \ {0}, NEW c \in Contents(n)
  PROVE  c \in Seq(Nat \ {0}) /\ Len(c) <= MaxSize
<1>1. PICK k \in 0 .. MaxSize : c \in [1 .. k -> {n}]
  BY DEF Contents
<1>2. c \in Seq({n}) /\ Len(c) = k
  BY <1>1, FileAssumption
<1> QED BY <1>1, <1>2, SeqMonotonic, FileAssumption

LEMMA FileInitOK == FileInit => FileOK
<1> SUFFICES ASSUME FileInit PROVE FileOK
  OBVIOUS
<1>1. file \in Seq(Nat \ {0}) /\ Len(file) <= MaxSize
  BY ContentsAreBytes DEF FileInit
<1> QED BY <1>1 DEF FileInit, FileOK, AllSeen

\* A change records what it writes, and forgets nothing of what was there.
LEMMA ChangeOK ==
  ASSUME FileOK, NEW c \in Seq(Nat \ {0}), Len(c) <= MaxSize,
         NEW present \in BOOLEAN, Change(c, present)
  PROVE  /\ FileOK'
         /\ changes' # 0
         /\ \A k \in 1 .. MaxSize : seen[k] \subseteq seen'[k]
         /\ present => AllSeen'
<1>1. \A k \in 1 .. MaxSize :
        seen'[k] = seen[k] \cup {IF present THEN Here(c, k) ELSE Gone}
  BY DEF Change
<1>2. file' = c /\ exists' = present /\ changes' = changes + 1
  BY DEF Change
<1>3. changes' \in Nat /\ changes' # 0
  BY <1>2 DEF FileOK
<1>4. present => AllSeen'
  BY <1>1, <1>2 DEF AllSeen, Here
<1> QED BY <1>1, <1>2, <1>3, <1>4 DEF FileOK

LEMMA FileChangesOK ==
  ASSUME FileOK, FileChanges
  PROVE  /\ FileOK'
         /\ changes' # 0
         /\ \A k \in 1 .. MaxSize : seen[k] \subseteq seen'[k]
         /\ AllSeen => AllSeen'
<1>1. /\ file \in Seq(Nat \ {0}) /\ Len(file) \in Nat /\ Len(file) <= MaxSize
      /\ changes + 2 \in Nat \ {0}
  BY LenProperties DEF FileOK
<1>2. ASSUME NEW c \in Contents(changes + 2)
      PROVE  c \in Seq(Nat \ {0}) /\ Len(c) <= MaxSize
  BY <1>1, ContentsAreBytes
<1>3. CASE \E c \in Contents(changes + 2) : Change(c, TRUE)
  <2>1. PICK c \in Contents(changes + 2) : Change(c, TRUE)
    BY <1>3
  <2> QED BY <1>2, <2>1, ChangeOK
<1>4. CASE \E k \in 0 .. Len(file) : exists /\ Change(SubSeq(file, 1, k), TRUE)
  <2>1. PICK k \in 0 .. Len(file) : Change(SubSeq(file, 1, k), TRUE)
    BY <1>4
  <2>2. \A j \in 1 .. k : file[j] \in Nat \ {0}
    BY <1>1, ElementOfSeq
  <2>3. SubSeq(file, 1, k) \in Seq(Nat \ {0}) /\ Len(SubSeq(file, 1, k)) <= MaxSize
    BY <1>1, <2>2, SubSeqProperties, FileAssumption
  <2> QED BY <2>1, <2>3, ChangeOK
<1>5. CASE \E c \in Contents(changes + 2) :
             exists /\ Len(file \o c) <= MaxSize /\ Change(file \o c, TRUE)
  <2>1. PICK c \in Contents(changes + 2) :
          Len(file \o c) <= MaxSize /\ Change(file \o c, TRUE)
    BY <1>5
  <2>2. file \o c \in Seq(Nat \ {0})
    BY <1>1, <1>2, ConcatProperties
  <2> QED BY <2>1, <2>2, ChangeOK
<1>6. CASE exists /\ Change(file, FALSE)
  <2>1. file' = file /\ \A k \in 1 .. MaxSize : seen[k] \subseteq seen'[k]
    BY <1>6 DEF Change
  <2>2. AllSeen => AllSeen'
    BY <2>1 DEF AllSeen, Here
  <2> QED BY <1>1, <1>6, <2>2, ChangeOK
<1> QED BY <1>3, <1>4, <1>5, <1>6 DEF FileChanges

-----------------------------------------------------------------------------
(* Files.readFile.                                                         *)

Bytes == 1 .. Len(buffer)

\* A size that goes through the integer does not grow.
LEMMA ToIntOK ==
  ASSUME NEW n \in Nat
  PROVE  /\ ToInt(n) \in Int
         /\ ToInt(n) <= n
         /\ n <= Largest => ToInt(n) = n
<1> DEFINE m == n % IntRange
<1>1. m \in Nat /\ m <= n /\ (n < IntRange => m = n)
  BY RangeAssumption
<1>2. Largest \in Int /\ Largest < IntRange
  BY RangeAssumption DEF Largest
<1> QED BY <1>1, <1>2, RangeAssumption DEF ToInt

\* The system did not let the file be read to its end.
CutShort == {"open", "read"} \cap refused # {}

\* Each byte of the buffer before at comes from the file, and the others are
\* zeros; once the read has ended, a zero has a reason.
ReadInv ==
  /\ stage \in {"stat", "sized", "failed", "open", "read", "posted", "called"}
  /\ stage \in {"stat", "sized", "open"} => at = 0
  /\ stage = "sized" =>
       objSize = <<>> \/ \E n \in 0 .. MaxSize : objSize = <<ToInt(n)>>
  /\ stage \in {"open", "read", "posted", "called"} =>
       /\ buffer \in Seq(Int) /\ Len(buffer) <= MaxSize
       /\ at \in 0 .. Len(buffer)
       /\ \A k \in Bytes : IF k <= at THEN buffer[k] \in seen[k] ELSE buffer[k] = 0
  /\ stage = "read" => AllSeen
  /\ stage \in {"posted", "called"} =>
       \A k \in Bytes :
         \/ buffer[k] \in seen[k]
         \/ buffer[k] = 0 /\ (Gone \in seen[k] \/ CutShort)

\* The same while nobody changes a file whose size the integer holds.
ExactInv ==
  (changes = 0 /\ Len(file) <= Largest) =>
    /\ stage = "sized" => objSize = <<>> \/ (exists /\ objSize = <<Len(file)>>)
    /\ stage \in {"open", "read", "posted", "called"} =>
         /\ exists /\ Len(buffer) = Len(file)
         /\ \A k \in 1 .. at : buffer[k] = file[k]
    /\ stage \in {"posted", "called"} => at = Len(file) \/ refused # {}

LEMMA ReadInit == Init => FileOK /\ ReadInv /\ ExactInv
BY FileInitOK DEF Init, ReadInv, ExactInv

\* A change of the file adds to the history, which is all that ReadInv asks.
LEMMA ReadChanges ==
  ASSUME FileOK, ReadInv, FileChanges, UNCHANGED <<stage, objSize, buffer, at, refused>>
  PROVE  FileOK' /\ ReadInv' /\ ExactInv'
<1>1. /\ FileOK' /\ changes' # 0
      /\ \A k \in 1 .. MaxSize : seen[k] \subseteq seen'[k]
      /\ AllSeen => AllSeen'
  BY FileChangesOK
<1>2. ExactInv'
  BY <1>1 DEF ExactInv
<1>3. Len(buffer) \in Nat /\ Len(buffer) <= MaxSize => Bytes \subseteq 1 .. MaxSize
  BY FileAssumption DEF Bytes
<1>4. ReadInv'
  BY <1>1, <1>3, LenProperties DEF ReadInv, Bytes, CutShort
<1> QED BY <1>1, <1>2, <1>4

LEMMA ReadStep ==
  ASSUME FileOK, ReadInv, ExactInv, Step
  PROVE  FileOK' /\ ReadInv' /\ ExactInv'
<1>0. /\ file \in Seq(Nat \ {0}) /\ Len(file) \in Nat /\ Len(file) <= MaxSize
      /\ DOMAIN file = 1 .. Len(file)
      /\ \A k \in 1 .. Len(file) : file[k] \in Nat \ {0}
  BY LenProperties, ElementOfSeq DEF FileOK
<1>00. UNCHANGED fileVars => FileOK' /\ (AllSeen => AllSeen')
  BY DEF fileVars, FileOK, AllSeen, Here
<1>1. CASE Stat
  <2>1. UNCHANGED fileVars /\ stage = "stat" /\ stage' = "sized" /\ at' = at
    BY <1>1 DEF Stat
  <2>2. objSize' = <<>> \/ (exists /\ objSize' = <<ToInt(Len(file))>>)
    BY <1>1 DEF Stat
  <2>3. ReadInv'
    BY <1>0, <2>1, <2>2, FileAssumption DEF ReadInv, fileVars
  <2>4. ExactInv'
    BY <1>0, <2>1, <2>2, ToIntOK DEF ExactInv, fileVars
  <2> QED BY <1>00, <2>1, <2>3, <2>4
<1>2. CASE StatFails
  BY <1>2, <1>00 DEF StatFails, ReadInv, ExactInv, fileVars
<1>3. CASE Allocate
  <2> DEFINE n == objSize[1]
  <2>1. UNCHANGED fileVars /\ stage = "sized" /\ stage' = "open" /\ at' = at /\ at = 0
    BY <1>3 DEF Allocate, ReadInv
  <2>2. objSize # <<>> /\ n \in 0 .. MaxSize
    <3>1. PICK s \in 0 .. MaxSize : objSize = <<ToInt(s)>>
      BY <1>3, <2>1 DEF Allocate, Allocatable, ReadInv
    <3>2. n = ToInt(s) /\ n \in Range(objSize)
      BY <3>1 DEF Range
    <3>3. n >= 0
      BY <1>3, <3>2 DEF Allocate, Allocatable
    <3> QED BY <3>1, <3>2, <3>3, ToIntOK, FileAssumption
  <2>3. buffer' = [j \in 1 .. n |-> 0]
    BY <1>3 DEF Allocate
  <2>4. buffer' \in Seq(Int) /\ Len(buffer') = n /\ \A k \in 1 .. n : buffer'[k] = 0
    BY <2>2, <2>3
  <2>5. ReadInv'
    BY <2>1, <2>2, <2>4, FileAssumption DEF ReadInv, Bytes
  <2>6. ExactInv'
    BY <2>1, <2>2, <2>4 DEF ExactInv, fileVars
  <2> QED BY <1>00, <2>1, <2>5, <2>6
<1>4. CASE Open
  <2>1. /\ UNCHANGED <<fileVars, objSize, buffer, at>> /\ stage = "open"
        /\ \/ exists /\ stage' = "read" /\ refused' = refused
           \/ exists /\ stage' = "posted" /\ CutShort'
           \/ ~exists /\ stage' = "posted" /\ refused' = refused
    BY <1>4 DEF Open, Granted, Refused, CutShort
  <2>2. \A k \in Bytes : exists \/ (buffer[k] = 0 /\ Gone \in seen[k])
    BY <2>1, LenProperties, FileAssumption DEF ReadInv, FileOK, Bytes
  <2>3. exists => AllSeen
    BY DEF FileOK
  <2>4. \A k \in Bytes : buffer[k] = 0
    BY <2>1, LenProperties DEF ReadInv, Bytes
  <2>5. ReadInv'
    BY <1>00, <2>1, <2>2, <2>3, <2>4 DEF ReadInv, Bytes, fileVars
  <2>6. ExactInv'
    BY <2>1 DEF ExactInv, ReadInv, fileVars, CutShort
  <2> QED BY <1>00, <2>1, <2>5, <2>6
<1>5. CASE ReadByte
  <2>1. /\ UNCHANGED <<fileVars, stage, objSize, refused>> /\ stage = "read"
        /\ buffer' = [buffer EXCEPT ![at + 1] = file[at + 1]] /\ at' = at + 1
        /\ at < Len(buffer) /\ at < Len(file)
    BY <1>5 DEF ReadByte
  <2>2. buffer \in Seq(Int) /\ Len(buffer) \in Nat /\ Len(buffer) <= MaxSize /\ at \in Nat
    BY <2>1, LenProperties DEF ReadInv
  <2>3. at + 1 \in 1 .. Len(buffer) /\ file[at + 1] \in Nat \ {0}
        /\ file[at + 1] = Here(file, at + 1)
    BY <1>0, <2>1, <2>2 DEF Here
  <2>4. /\ buffer' \in Seq(Int) /\ Len(buffer') = Len(buffer)
        /\ \A k \in 1 .. Len(buffer) :
             buffer'[k] = IF k = at + 1 THEN file[at + 1] ELSE buffer[k]
    BY <2>1, <2>2, <2>3, ExceptSeq
  <2>5. file[at + 1] \in seen[at + 1]
    BY <2>1, <2>2, <2>3, FileAssumption DEF ReadInv, AllSeen
  <2>6. ReadInv'
    BY <1>00, <2>1, <2>2, <2>4, <2>5 DEF ReadInv, Bytes, fileVars
  <2>7. ExactInv'
    BY <1>0, <2>1, <2>2, <2>4 DEF ExactInv, fileVars
  <2> QED BY <1>00, <2>1, <2>6, <2>7
<1>6. CASE ReadDone
  <2>1. /\ UNCHANGED <<fileVars, objSize, buffer, at>> /\ stage = "read" /\ stage' = "posted"
        /\ \/ (at = Len(buffer) \/ at >= Len(file)) /\ refused' = refused
           \/ CutShort'
    BY <1>6 DEF ReadDone, Granted, Refused, CutShort
  <2>2. buffer \in Seq(Int) /\ Len(buffer) \in Nat /\ Len(buffer) <= MaxSize
        /\ at \in 0 .. Len(buffer)
    BY <2>1, LenProperties DEF ReadInv
  <2>3. ASSUME NEW k \in Bytes
        PROVE  \/ buffer[k] \in seen[k]
               \/ buffer[k] = 0 /\ (Gone \in seen[k] \/ CutShort')
    <3>1. CASE k <= at
      BY <2>1, <3>1 DEF ReadInv
    <3>2. CASE ~(k <= at)
      <4>1. buffer[k] = 0 /\ k \in 1 .. MaxSize
        BY <2>1, <2>2, <3>2, FileAssumption DEF ReadInv, Bytes
      <4>2. CASE at = Len(buffer) \/ at >= Len(file)
        <5>1. Here(file, k) = 0
          BY <1>0, <2>2, <3>2, <4>2 DEF Bytes, Here
        <5> QED BY <2>1, <4>1, <5>1 DEF ReadInv, AllSeen
      <4> QED BY <2>1, <4>1, <4>2
    <3> QED BY <3>1, <3>2
  <2>4. ReadInv'
    <3>1. /\ stage' = "posted" /\ buffer' \in Seq(Int) /\ Len(buffer') <= MaxSize
          /\ at' \in 0 .. Len(buffer')
      BY <2>1, <2>2
    <3>2. \A k \in Bytes' :
            /\ IF k <= at' THEN buffer'[k] \in seen'[k] ELSE buffer'[k] = 0
            /\ \/ buffer'[k] \in seen'[k]
               \/ buffer'[k] = 0 /\ (Gone \in seen'[k] \/ CutShort')
      BY <2>1, <2>2, <2>3 DEF ReadInv, Bytes, fileVars
    <3> QED BY <3>1, <3>2 DEF ReadInv
  <2>5. ExactInv'
    <3>1. ASSUME changes = 0, Len(file) <= Largest, at = Len(buffer) \/ at >= Len(file)
          PROVE  at = Len(file)
      <4>1. Len(buffer) = Len(file) /\ at \in Nat /\ at <= Len(buffer)
        BY <2>1, <2>2, <3>1 DEF ExactInv
      <4>2. Len(file) \in Nat
        BY <1>0
      <4> QED BY <3>1, <4>1, <4>2
    <3>2. CutShort' => refused' # {}
      BY DEF CutShort
    <3> QED BY <2>1, <3>1, <3>2 DEF ExactInv, fileVars
  <2> QED BY <1>00, <2>1, <2>4, <2>5
<1>7. CASE Callback
  <2>1. UNCHANGED <<fileVars, objSize, buffer, at, refused>>
        /\ stage = "posted" /\ stage' = "called"
    BY <1>7 DEF Callback
  <2> QED BY <1>00, <2>1 DEF ReadInv, ExactInv, Bytes, fileVars, CutShort
<1> QED BY <1>1, <1>2, <1>3, <1>4, <1>5, <1>6, <1>7 DEF Step

LEMMA ReadAlways == Spec => [](FileOK /\ ReadInv /\ ExactInv)
<1>1. Init => FileOK /\ ReadInv /\ ExactInv
  BY ReadInit
<1>2. FileOK /\ ReadInv /\ ExactInv /\ [Next]_vars => (FileOK /\ ReadInv /\ ExactInv)'
  <2> SUFFICES ASSUME FileOK, ReadInv, ExactInv, [Next]_vars
               PROVE  FileOK' /\ ReadInv' /\ ExactInv'
    OBVIOUS
  <2>1. CASE FileChanges /\ UNCHANGED <<stage, objSize, buffer, at, refused>>
    BY <2>1, ReadChanges
  <2>2. CASE UNCHANGED vars
    BY <2>2 DEF vars, fileVars, FileOK, AllSeen, Here, ReadInv, ExactInv, Bytes, CutShort
  <2> QED BY <2>1, <2>2, ReadStep DEF Next, Ended
<1> QED BY <1>1, <1>2, PTL DEF Spec

\* Files.readFile: whatever other programs do to the file meanwhile, every
\* byte the callback gets was once at its place in the file, or is a zero
\* because the file was missing at some moment or could not be read.
THEOREM BytesOfTheFile == Spec => []OnlyFileBytes
<1>1. FileOK /\ ReadInv => OnlyFileBytes
  BY LenProperties DEF ReadInv, OnlyFileBytes, Bytes, CutShort
<1> QED BY <1>1, ReadAlways, PTL

\* Files.readFile: the callback for an unchanged file whose size the integer
\* of statsAsync holds gets as much of the file as could be read, and zeros
\* for the rest.
THEOREM UnchangedRead == Spec => []UnchangedIsExact
<1>1. FileOK /\ ReadInv /\ ExactInv => UnchangedIsExact
  <2> SUFFICES ASSUME FileOK, ReadInv, ExactInv, stage = "called", changes = 0,
                      Len(file) <= Largest
               PROVE  /\ buffer = [k \in DOMAIN file |-> IF k <= at THEN file[k] ELSE 0]
                      /\ refused = {} => at = Len(file)
    BY DEF UnchangedIsExact
  <2>1. /\ buffer \in Seq(Int) /\ Len(buffer) = Len(file) /\ at \in 0 .. Len(buffer)
        /\ \A k \in 1 .. at : buffer[k] = file[k]
        /\ \A k \in 1 .. Len(buffer) : k <= at \/ buffer[k] = 0
    BY DEF ReadInv, ExactInv, Bytes
  <2>2. Len(buffer) \in Nat /\ DOMAIN file = 1 .. Len(buffer)
        /\ buffer = [k \in 1 .. Len(buffer) |-> buffer[k]]
    BY <2>1, LenProperties DEF FileOK
  <2>3. \A k \in 1 .. Len(buffer) : buffer[k] = IF k <= at THEN file[k] ELSE 0
    BY <2>1, <2>2
  <2> QED BY <2>2, <2>3 DEF ExactInv
<1> QED BY <1>1, ReadAlways, PTL

-----------------------------------------------------------------------------
(* Lemon::ReadFile.                                                        *)

\* The bytes that fread has stored come from the file, byte for byte if
\* nobody changes it; the script is returned only when all have come.
ScriptInv ==
  /\ pc \in {"fopen", "ftell", "loop", "fread", "ferror", "done", "empty"}
  /\ pc \in {"fopen", "ftell"} => i = 0
  /\ pc \notin {"fopen", "empty"} => AllSeen
  /\ pc \in {"loop", "fread", "ferror", "done"} =>
       /\ chars \in Seq(Int) /\ Len(chars) = size /\ size <= MaxSize
       /\ i \in 0 .. size
       /\ \A k \in 1 .. i : chars[k] \in seen[k] \ {0, Gone}
       /\ changes = 0 => size = Len(file) /\ \A k \in 1 .. i : chars[k] = file[k]
  /\ pc = "done" => i = size

LEMMA ScriptInvInit == ScriptInit => FileOK /\ ScriptInv
BY FileInitOK DEF ScriptInit, ScriptInv

LEMMA ScriptChanges ==
  ASSUME FileOK, ScriptInv, FileChanges, UNCHANGED <<pc, size, chars, i, eof, error>>
  PROVE  FileOK' /\ ScriptInv'
<1>1. /\ FileOK' /\ changes' # 0
      /\ \A k \in 1 .. MaxSize : seen[k] \subseteq seen'[k]
      /\ AllSeen => AllSeen'
  BY FileChangesOK
<1>2. chars \in Seq(Int) /\ Len(chars) = size => size \in Nat
  BY LenProperties
<1>3. ScriptInv'
  BY <1>1, <1>2, FileAssumption DEF ScriptInv
<1> QED BY <1>1, <1>3

LEMMA ScriptSteps ==
  ASSUME FileOK, ScriptInv, ScriptStep
  PROVE  FileOK' /\ ScriptInv'
<1>0. /\ file \in Seq(Nat \ {0}) /\ Len(file) \in Nat /\ Len(file) <= MaxSize
      /\ DOMAIN file = 1 .. Len(file)
      /\ \A k \in 1 .. Len(file) : file[k] \in Nat \ {0}
  BY LenProperties, ElementOfSeq DEF FileOK
<1>00. UNCHANGED fileVars /\ FileOK' /\ (AllSeen => AllSeen')
  BY DEF ScriptStep, Fopen, Ftell, Loop, FreadByte, FreadReturns, Ferror, fileVars,
         FileOK, AllSeen, Here
<1>1. CASE Fopen
  BY <1>1, <1>00 DEF Fopen, ScriptInv, FileOK, fileVars
<1>2. CASE Ftell
  <2>1. /\ pc = "ftell" /\ pc' = "loop" /\ size' = Len(file) /\ i' = i
        /\ chars' = [k \in 1 .. Len(file) |-> 0]
    BY <1>2 DEF Ftell
  <2>2. chars' \in Seq(Int) /\ Len(chars') = Len(file)
    BY <1>0, <2>1
  <2> QED BY <1>0, <1>00, <2>1, <2>2 DEF ScriptInv, fileVars
<1>3. CASE Loop
  BY <1>3, <1>00, LenProperties DEF Loop, ScriptInv, fileVars
<1>4. CASE FreadByte
  <2>1. /\ pc = "fread" /\ pc' = pc /\ size' = size /\ i' = i + 1
        /\ chars' = [chars EXCEPT ![i + 1] = file[i + 1]]
        /\ i < size /\ i < Len(file)
    BY <1>4 DEF FreadByte
  <2>2. chars \in Seq(Int) /\ Len(chars) = size /\ size \in Nat /\ size <= MaxSize
        /\ i \in Nat
    BY <2>1, LenProperties DEF ScriptInv
  <2>3. i + 1 \in 1 .. size /\ file[i + 1] \in Nat \ {0} /\ file[i + 1] = Here(file, i + 1)
    BY <1>0, <2>1, <2>2 DEF Here
  <2>4. /\ chars' \in Seq(Int) /\ Len(chars') = size
        /\ \A k \in 1 .. size : chars'[k] = IF k = i + 1 THEN file[i + 1] ELSE chars[k]
    BY <2>1, <2>2, <2>3, ExceptSeq
  <2>5. file[i + 1] \in seen[i + 1] \ {0, Gone}
    BY <2>1, <2>2, <2>3, FileAssumption DEF ScriptInv, AllSeen, Gone
  <2>6. /\ \A k \in 1 .. i' : chars'[k] \in seen[k] \ {0, Gone}
        /\ changes = 0 => size = Len(file) /\ \A k \in 1 .. i' : chars'[k] = file[k]
    BY <2>1, <2>2, <2>4, <2>5 DEF ScriptInv
  <2>7. i' \in 0 .. size
    BY <2>1, <2>2
  <2> QED BY <1>00, <2>1, <2>2, <2>4, <2>6, <2>7 DEF ScriptInv, fileVars
<1>5. CASE FreadReturns
  BY <1>5, <1>00 DEF FreadReturns, ScriptInv, fileVars
<1>6. CASE Ferror
  BY <1>6, <1>00 DEF Ferror, ScriptInv, fileVars
<1> QED BY <1>1, <1>2, <1>3, <1>4, <1>5, <1>6 DEF ScriptStep

LEMMA ScriptAlways == ScriptSpec => [](FileOK /\ ScriptInv)
<1>1. ScriptInit => FileOK /\ ScriptInv
  BY ScriptInvInit
<1>2. FileOK /\ ScriptInv /\ [ScriptNext]_scriptVars => (FileOK /\ ScriptInv)'
  <2> SUFFICES ASSUME FileOK, ScriptInv, [ScriptNext]_scriptVars
               PROVE  FileOK' /\ ScriptInv'
    OBVIOUS
  <2>1. CASE FileChanges /\ UNCHANGED <<pc, size, chars, i, eof, error>>
    BY <2>1, ScriptChanges
  <2>2. CASE UNCHANGED scriptVars
    BY <2>2 DEF scriptVars, fileVars, FileOK, AllSeen, Here, ScriptInv
  <2> QED BY <2>1, <2>2, ScriptSteps DEF ScriptNext, Returned
<1> QED BY <1>1, <1>2, PTL DEF ScriptSpec

\* Lemon::ReadFile: the text that V8 gets consists of bytes of the file, and is
\* the file if nobody changed it, however often fread returns early.
THEOREM ScriptComesFromFile == ScriptSpec => []ScriptIsFile
<1>1. FileOK /\ ScriptInv => ScriptIsFile
  <2> SUFFICES ASSUME FileOK, ScriptInv, pc = "done"
               PROVE  /\ \A k \in 1 .. size : chars[k] \in seen[k] \ {0, Gone}
                      /\ changes = 0 => chars = file
    BY DEF ScriptIsFile
  <2>1. /\ chars \in Seq(Int) /\ Len(chars) = size /\ i = size
        /\ \A k \in 1 .. i : chars[k] \in seen[k] \ {0, Gone}
        /\ changes = 0 => size = Len(file) /\ \A k \in 1 .. i : chars[k] = file[k]
    BY DEF ScriptInv
  <2>2. file \in Seq(Int)
    BY SeqMonotonic DEF FileOK
  <2>3. ASSUME changes = 0 PROVE chars = file
    <3>1. Len(chars) = Len(file) /\ \A k \in 1 .. Len(chars) : chars[k] = file[k]
      BY <2>1, <2>3
    <3> QED BY <2>1, <2>2, <3>1, SeqEqual
  <2> QED BY <2>1, <2>3
<1> QED BY <1>1, ScriptAlways, PTL
=============================================================================
